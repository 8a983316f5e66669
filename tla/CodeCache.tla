----------------------------- MODULE CodeCache -----------------------------
(***************************************************************************)
(* easy::Cache<> (include/easy/code_cache.h): an unordered_map from the    *)
(* pair (function, Context) to a FunctionWrapperBase that owns the         *)
(* compiled easy::Function.  A lookup emplaces a null wrapper first and    *)
(* compiles into it afterwards, so an exception out of easy::jit leaves    *)
(* the null wrapper in the map.                                            *)
(*                                                                         *)
(* A key that holds a composed function (ModuleArgument) holds a reference *)
(* to the easy::Function object, not a copy: what the key means depends on *)
(* what lives at that address now.  Function objects are therefore placed  *)
(* at addresses that the allocator reuses.                                 *)
(***************************************************************************)
EXTENDS Integers, Sequences, FiniteSets

CONSTANTS
    Funs,           \* functions a program specialises, with an opt_level
    Scalars,        \* scalar argument values, as stored in the Context
    Eq,             \* pairs of scalars that compare equal with ==
    Throws,         \* functions whose compilation may throw
    Addrs,          \* addresses of easy::Function objects
    DropReferenced, \* may clients destroy a wrapper a cached key refers to?
    MaxCompiles     \* bound: how many functions are compiled in a behaviour

ASSUME CacheAssumption ==
    /\ Eq \subseteq Scalars \X Scalars
    /\ \A v, w \in Scalars : <<v, w>> \in Eq => <<w, v>> \in Eq
    /\ Throws \subseteq Funs
    /\ DropReferenced \in BOOLEAN
    /\ MaxCompiles \in Nat
    /\ 0 \notin Addrs

Null == 0       \* a wrapper without Function; a free address

\* The bound argument of a request: a scalar or the function at an address.
Requests == [fun : Funs, arg : [kind : {"val"}, v : Scalars]
                                 \cup [kind : {"mod"}, at : Addrs]]

\* What a compiled function computes: the function and the argument that
\* was folded into it, an inner function being named by its compilation.
Meanings == [fun : Funs, arg : [kind : {"val"}, v : Scalars]
                                 \cup [kind : {"mod"}, of : 1 .. MaxCompiles]]

VARIABLES
    heap,       \* heap[a]: the compilation that lives at a, or Null
    meaning,    \* meaning[n]: what the n-th compilation computes
    clients,    \* addresses of wrappers owned by the program
    entries,    \* Cache_: [key, addr, was], was = what key referred to
    cur,        \* the call of Cache::jit in progress
    result,     \* what the last call returned
    threw       \* entries whose compilation threw

vars == <<heap, meaning, clients, entries, cur, result, threw>>

Free == {a \in Addrs : heap[a] = Null}

\* What a request asks for, given what lives at the addresses now.
MeaningOf(r) ==
    [fun |-> r.fun,
     arg |-> IF r.arg.kind = "val" THEN r.arg
             ELSE [kind |-> "mod", of |-> heap[r.arg.at]]]

\* A program refers only to functions that exist.
Live(r) == r.arg.kind = "mod" => heap[r.arg.at] # Null

\* Defect: arguments of the same kind compare equal.
SameKeyKinds(r, q) == r.fun = q.fun /\ r.arg.kind = q.arg.kind

\* ArgumentBase::operator==, Context::operator== and the pair's ==: kinds
\* first, then scalars by ==, functions by the identity of their module.
SameKey(r, q) ==
    /\ r.fun = q.fun
    /\ r.arg.kind = q.arg.kind
    /\ r.arg.kind = "val" => <<r.arg.v, q.arg.v>> \in Eq
    /\ r.arg.kind = "mod" => r.arg.at = q.arg.at

\* The function a key refers to has been replaced since the key was hashed:
\* the entry sits in a bucket its hash need not lead to any more.
Moved(e) ==
    /\ entries[e].key.arg.kind = "mod"
    /\ heap[entries[e].key.arg.at] # entries[e].was

Matching(r) == {e \in DOMAIN entries : SameKey(entries[e].key, r)}

Idle == [pc |-> "idle"]
NoResult == [serial |-> -1]

\* easy::jit: a new Function at a free address.
Compile(r, a) ==
    /\ a \in Free
    /\ Len(meaning) < MaxCompiles
    /\ meaning' = Append(meaning, MeaningOf(r))
    /\ heap' = [heap EXCEPT ![a] = Len(meaning) + 1]

\* The program specialises a function without the cache.
ClientJit(r, a) ==
    /\ cur = Idle /\ Live(r)
    /\ Compile(r, a)
    /\ clients' = clients \cup {a}
    /\ UNCHANGED <<entries, cur, result, threw>>

Referenced(a) ==
    \E e \in DOMAIN entries :
        entries[e].key.arg.kind = "mod" /\ entries[e].key.arg.at = a

\* The program destroys a wrapper it owns.
ClientDrop(a) ==
    /\ cur = Idle /\ a \in clients
    /\ DropReferenced \/ ~Referenced(a)
    /\ clients' = clients \ {a}
    /\ heap' = [heap EXCEPT ![a] = Null]
    /\ UNCHANGED <<meaning, entries, cur, result, threw>>

\* A null wrapper; the key is hashed as it reads now.
NewEntry(r) == [key |-> r, addr |-> Null,
                was |-> IF r.arg.kind = "mod" THEN heap[r.arg.at] ELSE Null]

\* Cache_.emplace finds an entry with an equal key.
EmplaceHit(r) ==
    /\ cur = Idle /\ Live(r)
    /\ \E e \in Matching(r) :
         cur' = [pc |-> "emplaced", req |-> r, e |-> e, fresh |-> FALSE]
    /\ UNCHANGED <<heap, meaning, clients, entries, result, threw>>

\* Defect: only scalar keys are searched for.
EmplaceMissModules(r) ==
    /\ cur = Idle /\ Live(r)
    /\ r.arg.kind = "mod" \/ Matching(r) = {}
    /\ Len(entries) < MaxCompiles
    /\ entries' = Append(entries, NewEntry(r))
    /\ cur' = [pc |-> "emplaced", req |-> r, e |-> Len(entries) + 1, fresh |-> TRUE]
    /\ UNCHANGED <<heap, meaning, clients, result, threw>>

\* Defect: a request whose entry is empty is emplaced again beside it.
EmplaceMissRetry(r) ==
    /\ cur = Idle /\ Live(r)
    /\ \A e \in Matching(r) : Moved(e) \/ entries[e].addr = Null
    /\ Len(entries) < MaxCompiles
    /\ entries' = Append(entries, NewEntry(r))
    /\ cur' = [pc |-> "emplaced", req |-> r, e |-> Len(entries) + 1, fresh |-> TRUE]
    /\ UNCHANGED <<heap, meaning, clients, result, threw>>

\* Defect: the iterator of an earlier find, which is end(), is kept over the
\* insertion.
EmplaceMissEnd(r) ==
    /\ cur = Idle /\ Live(r)
    /\ \A e \in Matching(r) : Moved(e)
    /\ Len(entries) < MaxCompiles
    /\ entries' = Append(entries, NewEntry(r))
    /\ cur' = [pc |-> "emplaced", req |-> r, e |-> Len(entries) + 2, fresh |-> TRUE]
    /\ UNCHANGED <<heap, meaning, clients, result, threw>>

\* Cache_.emplace inserts a null wrapper.  An entry whose key has moved may
\* be missed although its key is equal: which bucket is searched depends on
\* the new and the old hash.
EmplaceMiss(r) ==
    /\ cur = Idle /\ Live(r)
    /\ \A e \in Matching(r) : Moved(e)
    /\ Len(entries) < MaxCompiles
    /\ entries' = Append(entries, NewEntry(r))
    /\ cur' = [pc |-> "emplaced", req |-> r, e |-> Len(entries) + 1, fresh |-> TRUE]
    /\ UNCHANGED <<heap, meaning, clients, result, threw>>

\* Defect: the entry is compiled again on every call that finds it empty
\* or not.
CompileEntryAlways(a) ==
    /\ cur # Idle /\ cur.pc = "emplaced"
    /\ Compile(cur.req, a)
    /\ entries' = [entries EXCEPT ![cur.e].addr = a]
    /\ cur' = [cur EXCEPT !.pc = "ready"]
    /\ UNCHANGED <<clients, result, threw>>

\* compile_if_not_in_cache: easy::jit returns and its wrapper is moved into
\* the entry.
CompileEntry(a) ==
    /\ cur # Idle /\ cur.pc = "emplaced" /\ cur.fresh
    /\ Compile(cur.req, a)
    /\ entries' = [entries EXCEPT ![cur.e].addr = a]
    /\ cur' = [cur EXCEPT !.pc = "ready"]
    /\ UNCHANGED <<clients, result, threw>>

\* compile_if_not_in_cache: easy::jit throws; the emplaced entry stays.
CompileThrows ==
    /\ cur # Idle /\ cur.pc = "emplaced" /\ cur.fresh
    /\ cur.req.fun \in Throws
    /\ threw' = threw \cup {cur.e}
    /\ cur' = Idle /\ result' = NoResult
    /\ UNCHANGED <<heap, meaning, clients, entries>>

\* The entry's wrapper is returned by reference.
ReturnEntry ==
    /\ cur # Idle
    /\ cur.pc = "ready" \/ (cur.pc = "emplaced" /\ ~cur.fresh)
    /\ LET a == entries[cur.e].addr
       IN result' = [serial |-> IF a = Null THEN Null ELSE heap[a],
                     asked |-> MeaningOf(cur.req), e |-> cur.e]
    /\ cur' = Idle
    /\ UNCHANGED <<heap, meaning, clients, entries, threw>>

\* Cache::has.
Has(r) == Matching(r) # {}

Init ==
    /\ heap = [a \in Addrs |-> Null]
    /\ meaning = <<>> /\ clients = {} /\ entries = <<>>
    /\ cur = Idle /\ result = NoResult /\ threw = {}

Next ==
    \/ \E r \in Requests : EmplaceHit(r) \/ EmplaceMiss(r)
    \/ \E r \in Requests, a \in Addrs : ClientJit(r, a)
    \/ \E a \in Addrs : ClientDrop(a) \/ CompileEntry(a)
    \/ CompileThrows
    \/ ReturnEntry

Spec == Init /\ [][Next]_vars

---------------------------------------------------------------------------
(* Properties.                                                             *)

Entry == [key : Requests, addr : Addrs \cup {Null}, was : 0 .. MaxCompiles]

\* Every piece of the state has its type.  In particular the iterator that
\* compile_if_not_in_cache dereferences to test, fill and return a wrapper
\* refers to an entry of Cache_, and so does every entry recorded as thrown.
TypeOK ==
    /\ heap \in [Addrs -> 0 .. Len(meaning)]
    /\ meaning \in Seq(Meanings)
    /\ clients \subseteq Addrs
    /\ entries \in Seq(Entry)
    /\ cur \in {Idle} \cup
         [pc : {"emplaced", "ready"}, req : Requests, e : Nat, fresh : BOOLEAN]
    /\ cur # Idle => cur.e \in DOMAIN entries
    /\ result \in {NoResult} \cup
         [serial : 0 .. MaxCompiles, asked : Meanings, e : Nat]
    /\ threw \subseteq DOMAIN entries

\* Two meanings the cache treats as one: scalars that compare equal, or the
\* very same inner function.
Equivalent(m, n) ==
    /\ m.fun = n.fun /\ m.arg.kind = n.arg.kind
    /\ m.arg.kind = "val" => <<m.arg.v, n.arg.v>> \in Eq
    /\ m.arg.kind = "mod" => m.arg.of = n.arg.of

\* Code that computes the same, whichever compilation it came from.
SameCode(m, n) ==
    \/ m = n
    \/ Equivalent(m, n)
    \/ /\ m.fun = n.fun /\ m.arg.kind = "mod" /\ n.arg.kind = "mod"
       /\ meaning[m.arg.of] = meaning[n.arg.of]

\* What Cache::jit returns is code for the request (up to == on scalars),
\* also when the key names another specialised function by reference;
\* otherwise it is the null wrapper an earlier exception left behind.
ServedCode ==
    result # NoResult =>
        IF result.serial = Null
        THEN result.e \in threw
        ELSE SameCode(meaning[result.serial], result.asked)

\* The compilations the cache stores.
Stored == {heap[entries[e].addr] : e \in {f \in DOMAIN entries : entries[f].addr # Null}}

\* The cache avoids recompilation: no two compilations it holds serve
\* requests that compare equal.
CompileOnce ==
    \A s, t \in Stored : s # t => ~Equivalent(meaning[s], meaning[t])

\* Clients keep the reference Cache::jit returned: the Function of a filled
\* entry is neither moved, replaced nor destroyed by any later call.
EntriesStable ==
    [][\A e \in DOMAIN entries :
         entries[e].addr # Null =>
           /\ entries'[e] = entries[e]
           /\ heap'[entries[e].addr] = heap[entries[e].addr]]_vars

\* What the cache has() is code that has been generated.
HasMeansGenerated ==
    cur = Idle => \A r \in Requests :
        Has(r) => \E e \in Matching(r) : entries[e].addr # Null

---------------------------------------------------------------------------
(* The cache implements a memo table of meanings.  An entry belongs to the *)
(* table once its compilation has returned or thrown; it is asked for by   *)
(* the meaning its key had when it was emplaced.                           *)

\* The call in progress is compiling entry e.
Pending(e) == cur # Idle /\ cur.e = e /\ cur.fresh /\ cur.pc = "emplaced"

AskOf(x) ==
    [fun |-> x.key.fun,
     arg |-> IF x.key.arg.kind = "val" THEN x.key.arg
             ELSE [kind |-> "mod", of |-> x.was]]

DoesOf(x) == IF x.addr = Null THEN {} ELSE {meaning[heap[x.addr]]}

TableOfEntries ==
    {[ask |-> AskOf(entries[e]), does |-> DoesOf(entries[e])] :
        e \in {f \in DOMAIN entries : ~Pending(f)}}

AnswerOfResult ==
    IF result = NoResult THEN {}
    ELSE {[asked |-> result.asked,
           does |-> IF result.serial = Null THEN {} ELSE {meaning[result.serial]}]}

Memo == INSTANCE MemoTable WITH
    Asks <- Meanings,
    Same <- {p \in Meanings \X Meanings : Equivalent(p[1], p[2])},
    table <- TableOfEntries,
    answer <- AnswerOfResult

\* Cache::jit is a memo table: emplacing first, exceptions and functions
\* that come and go at the addresses keys refer to are invisible, each
\* meaning is settled once, and a failure is remembered like a success.
Memoizes == Memo!Spec
===========================================================================
