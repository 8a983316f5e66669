----------------------------- MODULE Extraction -----------------------------
(***************************************************************************)
(* The compiler plugin (pass/Easy.cpp, pass/MayAliasTracer.cpp): which     *)
(* functions and constants of a translation unit are embedded as bitcode,  *)
(* and what each embedded module contains.                                 *)
(*                                                                         *)
(* A translation unit is a graph of LLVM values.  MayAliasTracer walks it  *)
(* from each argument of an easy::jit call (loaded and stored values are   *)
(* tracked apart), getReferencedFromEntry walks it from each extracted     *)
(* object.  Both are searches with a visited set over a graph that may be  *)
(* cyclic; the model explores the pending nodes in any order.              *)
(***************************************************************************)
EXTENDS Integers, FiniteSets

CONSTANT Units  \* the translation units considered

Kinds == {"function", "variable", "alloca", "gep", "bitcast", "phi", "select",
          "store", "memcpy", "load", "cexpr", "carray", "cstruct", "cother"}

Subset(U) == SUBSET U.vals

\* ops: the operands that are values (not the indices of a gep nor the
\* condition of a select; a variable's is its initializer); src: the operand
\* of a store or memcpy whose contents are written; body: the operands of
\* the instructions of a function; args: the arguments of easy::jit calls,
\* pointer casts stripped; exposed: what EASY_JIT_EXPOSE puts in the section;
\* matched: what the regular expression of the command line matches.  The
\* kind cexpr is a constant gep or bitcast, cother any other constant
\* expression.
WellFormed(U) ==
    /\ IsFiniteSet(U.vals)
    /\ U.kind \in [U.vals -> Kinds]
    /\ U.ops \in [U.vals -> Subset(U)]
    /\ U.src \in [U.vals -> Subset(U)]
    /\ U.body \in [U.vals -> Subset(U)]
    /\ \A f \in {"args", "exposed", "matched", "constant", "declared", "optnone"} :
         U[f] \subseteq U.vals
    /\ \A v \in U.exposed \cup U.matched : U.kind[v] \in {"function", "variable"}

ASSUME UnitsAssumption == \A U \in Units : WellFormed(U)

VARIABLES
    U,          \* the translation unit
    pc,
    args,       \* arguments of easy::jit calls not yet traced
    marked,     \* global objects in the JIT section
    objs,       \* ObjectsToJIT not yet embedded
    root,       \* where the current search started
    visited,    \* the visited set of the current search
    work,       \* nodes the current search still has to visit
    embedded    \* embedded[o]: the module embedded for o

vars == <<U, pc, args, marked, objs, root, visited, work, embedded>>

IsGlobal(v) == U.kind[v] \in {"function", "variable"}
Users(v) == {u \in U.vals : v \in U.ops[u]}
Tagged(tag, S) == {[tag |-> tag, v |-> v] : v \in S}

(***************************************************************************)
(* MayAliasTracer::mayAliasWithLoadedValues and ...WithStoredValues: the   *)
(* nodes each call recurses into.                                          *)
(***************************************************************************)
LoadedNext(v) ==
    (IF U.kind[v] \in {"phi", "select", "gep", "bitcast", "cexpr", "carray",
                       "variable"}
     THEN Tagged("L", U.ops[v]) ELSE {})
      \cup (IF U.kind[v] \in {"alloca", "variable"} THEN Tagged("S", {v}) ELSE {})

StoredNext(v) ==
    (IF U.kind[v] \in {"store", "memcpy"} THEN Tagged("L", U.src[v]) ELSE {})
      \cup (IF U.kind[v] \in {"alloca", "gep", "bitcast"}
            THEN Tagged("S", Users(v)) ELSE {})

\* Defect: the initializers of global variables are not followed.
RefNextNoInit(v) ==
    Tagged("R", IF U.kind[v] = "variable" THEN {} ELSE U.ops[v] \cup U.body[v])

\* getReferencedFromEntry: operands, and the operands of the instructions
\* of a function.
RefNext(v) == Tagged("R", U.ops[v] \cup U.body[v])

Succ(x) ==
    IF x.tag = "L" THEN LoadedNext(x.v)
    ELSE IF x.tag = "S" THEN StoredNext(x.v)
    ELSE RefNext(x.v)

\* Defect: the visited set is kept from one search to the next.
SearchKeep(tag, v) ==
    /\ root' = {[tag |-> tag, v |-> v]}
    /\ work' = {[tag |-> tag, v |-> v]}
    /\ UNCHANGED visited

Search(tag, v) ==
    /\ root' = {[tag |-> tag, v |-> v]}
    /\ work' = {[tag |-> tag, v |-> v]}
    /\ visited' = {}

\* Defect: a node met again is not dropped from the work list.
ExploreAgain ==
    /\ pc \in {"trace", "refs"}
    /\ \E x \in work :
         /\ visited' = visited \cup {x}
         /\ work' = (work \ {x}) \cup Succ(x)
    /\ UNCHANGED <<U, pc, args, marked, objs, root, embedded>>

\* One node of a search: skipped if visited, else its successors are due.
Explore ==
    /\ pc \in {"trace", "refs"}
    /\ \E x \in work :
         IF x \in visited
         THEN work' = work \ {x} /\ UNCHANGED visited
         ELSE /\ visited' = visited \cup {x}
              /\ work' = (work \ {x}) \cup Succ(x)
    /\ UNCHANGED <<U, pc, args, marked, objs, root, embedded>>

\* The global objects a finished trace has met (GOs_).
Traced == {v \in U.vals : IsGlobal(v) /\ \E x \in visited : x.v = v}

IsConstant(v) == U.kind[v] = "function" \/ v \in U.constant

\* deduceObjectsToJIT: trace the next argument.
StartTrace ==
    /\ pc = "deduce"
    /\ \E o \in args : Search("L", o) /\ args' = args \ {o}
    /\ pc' = "trace"
    /\ UNCHANGED <<U, marked, objs, embedded>>

\* Constant globals and functions the argument may alias go to the section.
FinishTrace ==
    /\ pc = "trace" /\ work = {}
    /\ marked' = marked \cup {v \in Traced : IsConstant(v)}
    /\ pc' = "deduce"
    /\ UNCHANGED <<U, args, objs, root, visited, work, embedded>>

\* Defect: canExtractBitcode is not asked.
CollectAll ==
    /\ pc = "deduce" /\ args = {}
    /\ marked' = marked \cup U.matched
    /\ objs' = marked \cup U.matched
    /\ pc' = "embed"
    /\ UNCHANGED <<U, args, root, visited, work, embedded>>

\* regexFunctionsToJIT, then collectObjectsToJIT: declarations are dropped.
Collect ==
    /\ pc = "deduce" /\ args = {}
    /\ marked' = marked \cup U.matched
    /\ objs' = (marked \cup U.matched) \ U.declared
    /\ pc' = "embed"
    /\ UNCHANGED <<U, args, root, visited, work, embedded>>

\* embedBitcode, cleanModule: the next object is the entry of a clone.
StartEmbed ==
    /\ pc = "embed"
    /\ \E o \in objs : Search("R", o) /\ objs' = objs \ {o}
    /\ pc' = "refs"
    /\ UNCHANGED <<U, args, marked, embedded>>

Entry == CHOOSE v \in U.vals : [tag |-> "R", v |-> v] \in root

\* Funs of getReferencedFromEntry.
ReferencedFuns == {v \in U.vals : U.kind[v] = "function"
                                    /\ [tag |-> "R", v |-> v] \in visited}

\* Defect: fixLinkages makes declarations private too.
CleanModuleDecls(entry, funs) ==
    LET all == funs \cup {entry}
    IN [defs |-> all \ U.declared,
        private |-> IF U.kind[entry] = "function"
                    THEN all \ ({entry} \cup U.optnone) ELSE {}]

\* The extraction pass keeps the referenced functions and the entry; every
\* other global becomes a declaration.  fixLinkages, for a function entry,
\* makes the rest private, except functions marked optnone.
CleanModule(entry, funs) ==
    LET defs == (funs \cup {entry}) \ U.declared
    IN [defs |-> defs,
        private |-> IF U.kind[entry] = "function"
                    THEN defs \ ({entry} \cup U.optnone) ELSE {}]

FinishEmbed ==
    /\ pc = "refs" /\ work = {}
    /\ embedded' = [o \in DOMAIN embedded \cup {Entry} |->
                      IF o = Entry THEN CleanModule(Entry, ReferencedFuns)
                                   ELSE embedded[o]]
    /\ pc' = "embed"
    /\ UNCHANGED <<U, args, marked, objs, root, visited, work>>

\* getGlobalMapping and registerBitcode add a constructor that registers
\* every embedded module.
Finish ==
    /\ pc = "embed" /\ objs = {}
    /\ pc' = "done"
    /\ UNCHANGED <<U, args, marked, objs, root, visited, work, embedded>>

Done == pc = "done" /\ UNCHANGED vars

Init ==
    /\ U \in Units
    /\ pc = "deduce" /\ args = U.args /\ marked = U.exposed /\ objs = {}
    /\ root = {} /\ visited = {} /\ work = {}
    /\ embedded = [o \in {} |-> {}]

Next ==
    \/ StartTrace \/ Explore \/ FinishTrace \/ Collect
    \/ StartEmbed \/ FinishEmbed \/ Finish \/ Done

Spec == Init /\ [][Next]_vars

\* The pass runs on one thread and never waits.
FairSpec == Spec /\ WF_vars(Next)

---------------------------------------------------------------------------
(* Properties.                                                             *)

Nodes == [tag : {"L", "S", "R"}, v : U.vals]

\* Every piece of the state has its type: only global objects are marked,
\* only marked ones are embedded, and what fixLinkages makes private is a
\* definition of the module.
TypeOK ==
    /\ pc \in {"deduce", "trace", "embed", "refs", "done"}
    /\ args \subseteq U.vals
    /\ marked \subseteq {v \in U.vals : IsGlobal(v)}
    /\ objs \subseteq marked
    /\ root \subseteq Nodes /\ visited \subseteq Nodes /\ work \subseteq Nodes
    /\ DOMAIN embedded \subseteq marked
    /\ \A o \in DOMAIN embedded :
         embedded[o].private \subseteq embedded[o].defs
           /\ embedded[o].defs \subseteq U.vals

Closed(S) == \A x \in S : Succ(x) \subseteq S

\* A finished search has met exactly what is reachable from its root: the
\* least set that contains the root and is closed under the successor
\* relation, although the graph has cycles and the two halves of the tracer
\* call each other (MayAliasTracer.cpp, getReferencedFromEntry).
SearchExact ==
    pc \in {"trace", "refs"} /\ work = {} =>
        /\ root \subseteq visited
        /\ Closed(visited)
        /\ \A S \in SUBSET visited : root \subseteq S /\ Closed(S) => S = visited

\* Values the code of a function can name: what its instructions use, and
\* what constants and initializers used there use in turn.
UsedBy(S) == S \cup UNION {U.ops[v] \cup U.body[v] : v \in S}

\* An embedded module is self-contained: a function with a body that one of
\* its definitions can name, directly or through two levels of constants or
\* initializers, is defined in it.
EmbeddedClosed ==
    \A o \in DOMAIN embedded : \A f \in embedded[o].defs :
        \A g \in UsedBy(UsedBy(UsedBy({f}))) :
            U.kind[g] = "function" /\ g \notin U.declared
              => g \in embedded[o].defs

\* What the searches can meet from S in n steps: a reference definition.
Levels(S) ==
    LET R[n \in Nat] == IF n = 0 THEN S
                        ELSE LET T == R[n - 1] IN T \cup UNION {Succ(x) : x \in T}
    IN R

Reach(S) == Levels(S)[Cardinality(Nodes)]

\* The pass embeds exactly the definitions that are exposed, or match the
\* regular expression, or are constant and may be aliased by an argument of
\* an easy::jit call, whatever the order and however the searches overlap
\* (collectObjectsToJIT, deduceObjectsToJIT, embedBitcode).
ExtractedExact ==
    pc = "done" =>
        LET met == {x.v : x \in Reach(Tagged("L", U.args))}
        IN DOMAIN embedded =
             (U.exposed \cup U.matched
                \cup {v \in met : IsGlobal(v) /\ IsConstant(v)}) \ U.declared

\* The pass terminates on cyclic modules: phis that feed each other, stores
\* into the object they are loaded from, mutually recursive functions
\* (MayAliasTracer.cpp:11 and :34, Easy.cpp:361).
PassEnds == <>(pc = "done")
===========================================================================
