---------------------------- MODULE MCExtraction ----------------------------
(***************************************************************************)
(* Instances of Extraction for TLC: one translation unit with every kind   *)
(* of value, and its variants.                                             *)
(***************************************************************************)
EXTENDS Extraction, TLC

Nothing(V) == [v \in V |-> {}]

Funs == {"f", "g", "h", "d"}

Kind0 ==
    [v \in Funs |-> "function"] @@
    [v \in {"table", "counter"} |-> "variable"] @@
    ("array" :> "carray") @@ ("pair" :> "cstruct") @@ ("cast" :> "cexpr") @@
    ("int" :> "cother") @@ ("slot" :> "alloca") @@ ("cell" :> "gep") @@
    ("raw" :> "bitcast") @@ ("put" :> "store") @@ ("copy" :> "memcpy") @@
    ("get" :> "load") @@ ("p" :> "phi") @@ ("s" :> "select")

\* f calls g and reads table; g calls back f or reaches h through a struct.
Body0(callee) ==
    ("f" :> {"g", "table", "slot", "raw"}) @@ ("g" :> callee) @@ ("h" :> {"d", "counter"})

\* slot receives, through a cell or a cast, what put or copy write in it.
Ops0(tableInit, loop) ==
    ("table" :> {tableInit}) @@ ("array" :> {"cast", "h"}) @@
    ("pair" :> {"h"}) @@ ("cast" :> {"d"}) @@ ("int" :> {"g"}) @@
    ("cell" :> {"slot"}) @@ ("raw" :> {"cell"}) @@
    ("put" :> {"cell", "p"}) @@ ("copy" :> {"raw", "table"}) @@
    ("get" :> {"slot"}) @@ ("p" :> {loop, "s"}) @@ ("s" :> {"f", "int"})

Unit(callee, tableInit, loop, passed, exposed, matched, constant, declared) ==
    [vals     |-> DOMAIN Kind0,
     kind     |-> Kind0,
     body     |-> Body0(callee) @@ Nothing(DOMAIN Kind0),
     ops      |-> Ops0(tableInit, loop) @@ Nothing(DOMAIN Kind0),
     src      |-> ("put" :> {"p"}) @@ ("copy" :> {"table"}) @@ Nothing(DOMAIN Kind0),
     args     |-> passed,
     exposed  |-> exposed,
     matched  |-> matched,
     constant |-> constant,
     declared |-> declared,
     optnone  |-> {"g"}]

MCUnits ==
    {Unit(callee, init, loop, passed, exposed, {}, {"table"}, {"d"}) :
       callee \in {{"f"}, {"pair"}}, init \in {"array", "pair"},
       loop \in {"p", "slot"}, passed \in {{"slot"}, {"s"}, {"table"}},
       exposed \in {{}, {"d"}}}
    \cup
    {Unit({"f"}, "array", "slot", passed, {}, {"counter"}, constant, {"d"}) :
       passed \in {{}, {"get"}, {"f", "raw"}}, constant \in {{}, {"table", "counter"}}}
===========================================================================
