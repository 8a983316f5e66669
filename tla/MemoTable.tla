----------------------------- MODULE MemoTable -----------------------------
(***************************************************************************)
(* What easy::Cache promises: a memo table.  A request that equals none of *)
(* the table's is carried out once, and what came of it, code or nothing,  *)
(* is recorded for good; a request is answered with what is recorded for   *)
(* it or for an equal one.  CodeCache implements this specification.       *)
(***************************************************************************)
CONSTANTS
    Asks,   \* what can be asked for
    Same    \* the pairs of requests that compare equal

VARIABLES
    table,  \* a set of [ask, does], does = {ask}, or {} after a failure
    answer  \* the last call's [asked, does], as a set; {} if it failed

vars == <<table, answer>>

Known(m) == \E e \in table : <<e.ask, m>> \in Same

\* A new request is carried out.
Fill(m) ==
    /\ ~Known(m)
    /\ table' = table \cup {[ask |-> m, does |-> {m}]}
    /\ UNCHANGED answer

\* A new request fails, and the failure is recorded too.
Fail(m) ==
    /\ ~Known(m)
    /\ table' = table \cup {[ask |-> m, does |-> {}]}
    /\ answer' = {}

\* A request is answered from the table.
Answer(m) ==
    \E e \in table :
        /\ e.ask = m \/ <<e.ask, m>> \in Same
        /\ answer' = {[asked |-> m, does |-> e.does]}
        /\ UNCHANGED table

Init == table = {} /\ answer = {}

Next == \E m \in Asks : Fill(m) \/ Fail(m) \/ Answer(m)

Spec == Init /\ [][Next]_vars
===========================================================================
