-------------------------- MODULE ExtractionProofs --------------------------
(***************************************************************************)
(* Proofs about Extraction, for every set of translation units.            *)
(***************************************************************************)
EXTENDS Extraction, NatFacts, FiniteSetTheorems, TLAPS

UnitOK == U \in Units

(***************************************************************************)
(* What holds in the middle of a search: the root is visited or pending,   *)
(* the successors of a visited node are visited or pending, and a closed   *)
(* set around the root holds everything visited or pending.                *)
(***************************************************************************)
Seen == visited \cup work

RootSeen == root \subseteq Seen
SuccSeen == \A x \in visited : Succ(x) \subseteq Seen
Minimal == \A S \in SUBSET Nodes : root \subseteq S /\ Closed(S) => Seen \subseteq S

\* The search for the contents of a module starts at an object to embed.
RootIsObject ==
    pc = "refs" => \E o \in marked : root = {[tag |-> "R", v |-> o]}

\* The definitions of an embedded module are the functions of a set of
\* values that holds its entry and is closed under use, and the entry.
ModulesClosed ==
    \A o \in DOMAIN embedded : \E S \in SUBSET U.vals :
        /\ o \in S
        /\ \A v \in S : U.ops[v] \cup U.body[v] \subseteq S
        /\ embedded[o].defs =
             ({v \in S : U.kind[v] = "function"} \cup {o}) \ U.declared

IndInv ==
    /\ UnitOK /\ TypeOK
    /\ RootSeen /\ SuccSeen /\ Minimal
    /\ RootIsObject /\ ModulesClosed

\* Every operand of a value of the unit is a value of the unit.
LEMMA UnitClosed ==
    ASSUME UnitOK
    PROVE  /\ U.kind \in [U.vals -> Kinds]
           /\ U.ops \in [U.vals -> SUBSET U.vals]
           /\ U.src \in [U.vals -> SUBSET U.vals]
           /\ U.body \in [U.vals -> SUBSET U.vals]
           /\ U.args \subseteq U.vals
           /\ U.exposed \subseteq U.vals
           /\ U.matched \subseteq U.vals
           /\ \A v \in U.exposed \cup U.matched : U.kind[v] \in {"function", "variable"}
  BY UnitsAssumption DEF UnitOK, WellFormed, Subset

\* The successors of a node are nodes.
LEMMA SuccNodes ==
    ASSUME UnitOK, NEW x \in Nodes
    PROVE  Succ(x) \subseteq Nodes
<1>1. x.tag \in {"L", "S", "R"} /\ x.v \in U.vals
  BY DEF Nodes
<1>2. LoadedNext(x.v) \subseteq Nodes
  BY <1>1, UnitClosed DEF LoadedNext, Tagged, Nodes
<1>3. StoredNext(x.v) \subseteq Nodes
  BY <1>1, UnitClosed DEF StoredNext, Tagged, Nodes, Users
<1>4. RefNext(x.v) \subseteq Nodes
  BY <1>1, UnitClosed DEF RefNext, Tagged, Nodes
<1>. QED
  BY <1>1, <1>2, <1>3, <1>4 DEF Succ

\* A step of the pass leaves the unit, and so the graph, alone.
LEMMA SameGraph ==
    ASSUME U' = U
    PROVE  /\ Nodes' = Nodes
           /\ \A x : Succ(x)' = Succ(x)
           /\ \A S : Closed(S)' = Closed(S)
<1>1. Nodes' = Nodes
  BY DEF Nodes
<1>2. ASSUME NEW x PROVE Succ(x)' = Succ(x)
  BY DEF Succ, LoadedNext, StoredNext, RefNext, Tagged, Users
<1>. QED
  BY <1>1, <1>2 DEF Closed

---------------------------------------------------------------------------
\* Before the first search nothing is visited.
LEMMA InitInd == Init => IndInv
<1>. SUFFICES ASSUME Init PROVE IndInv
  OBVIOUS
<1>1. UnitOK
  BY DEF Init, UnitOK
<1>2. TypeOK
  BY <1>1, UnitClosed DEF Init, TypeOK, IsGlobal, Nodes
<1>. QED
  BY <1>1, <1>2 DEF Init, IndInv, RootSeen, SuccSeen, Minimal, Seen, RootIsObject,
     ModulesClosed

\* A new search establishes the search invariant.
LEMMA SearchStarts ==
    ASSUME IndInv, U' = U, NEW tag \in {"L", "S", "R"}, NEW o \in U.vals,
           Search(tag, o)
    PROVE  /\ root' \subseteq Nodes' /\ visited' \subseteq Nodes' /\ work' \subseteq Nodes'
           /\ RootSeen' /\ SuccSeen' /\ Minimal'
<1>1. [tag |-> tag, v |-> o] \in Nodes'
  BY DEF Nodes
<1>. QED
  BY <1>1 DEF Search, RootSeen, SuccSeen, Minimal, Seen

\* Exploring a node keeps the search invariant.
LEMMA ExploreKeeps ==
    ASSUME IndInv, Explore
    PROVE  /\ visited' \subseteq Nodes' /\ work' \subseteq Nodes'
           /\ RootSeen' /\ SuccSeen' /\ Minimal'
<1>1. PICK x \in work :
        IF x \in visited
        THEN work' = work \ {x} /\ visited' = visited
        ELSE /\ visited' = visited \cup {x}
             /\ work' = (work \ {x}) \cup Succ(x)
  BY DEF Explore
<1>2. U' = U /\ root' = root
  BY DEF Explore
<1>3. x \in Nodes /\ Succ(x) \subseteq Nodes
  BY SuccNodes DEF IndInv, TypeOK
<1>4. /\ Nodes' = Nodes
      /\ \A y : Succ(y)' = Succ(y)
      /\ \A S : Closed(S)' = Closed(S)
  BY <1>2, SameGraph
<1>5. visited' \subseteq Nodes' /\ work' \subseteq Nodes'
  BY <1>1, <1>3, <1>4 DEF IndInv, TypeOK
<1>6. Seen \subseteq Seen'
  BY <1>1 DEF Seen
<1>7. RootSeen'
  BY <1>2, <1>6 DEF IndInv, RootSeen
<1>8. SuccSeen'
  <2>1. \A y \in visited' : Succ(y) \subseteq Seen'
    BY <1>1, <1>6 DEF IndInv, SuccSeen, Seen
  <2>. QED
    BY <2>1, <1>4 DEF SuccSeen
<1>9. Minimal'
  <2>1. ASSUME NEW S \in SUBSET Nodes, root \subseteq S, Closed(S)
        PROVE  Seen' \subseteq S
    <3>1. Seen \subseteq S
      BY <2>1 DEF IndInv, Minimal
    <3>2. Succ(x) \subseteq S
      BY <2>1, <3>1 DEF Closed, Seen
    <3>. QED
      BY <1>1, <3>1, <3>2 DEF Seen
  <2>. QED
    BY <2>1, <1>2, <1>4 DEF Minimal
<1>. QED
  BY <1>5, <1>7, <1>8, <1>9

\* A step that does not search leaves the search invariant alone.
LEMMA SearchUntouched ==
    ASSUME IndInv, UNCHANGED <<U, root, visited, work>>
    PROVE  /\ root' \subseteq Nodes' /\ visited' \subseteq Nodes' /\ work' \subseteq Nodes'
           /\ RootSeen' /\ SuccSeen' /\ Minimal'
<1>1. /\ Nodes' = Nodes
      /\ \A y : Succ(y)' = Succ(y)
      /\ \A S : Closed(S)' = Closed(S)
  BY SameGraph
<1>. QED
  BY <1>1 DEF IndInv, TypeOK, RootSeen, SuccSeen, Minimal, Seen

\* What the rest of the invariant says of a finished embedding.
LEMMA EntryOfSearch ==
    ASSUME IndInv, pc = "refs"
    PROVE  Entry \in marked /\ root = {[tag |-> "R", v |-> Entry]}
<1>1. PICK o \in marked : root = {[tag |-> "R", v |-> o]}
  BY DEF IndInv, RootIsObject
<1>2. o \in U.vals
  BY DEF IndInv, TypeOK
<1>3. \A v \in U.vals : [tag |-> "R", v |-> v] \in root => v = o
  BY <1>1
<1>4. [tag |-> "R", v |-> Entry] \in root /\ Entry \in U.vals
  BY <1>1, <1>2 DEF Entry
<1>. QED
  BY <1>1, <1>3, <1>4

\* The modules already embedded stay as they are while the unit does.
LEMMA ModulesUntouched ==
    ASSUME IndInv, UNCHANGED <<U, embedded>>
    PROVE  ModulesClosed'
  BY DEF IndInv, ModulesClosed

\* Every step keeps the invariant.
LEMMA StepInd == IndInv /\ [Next]_vars => IndInv'
<1>. SUFFICES ASSUME IndInv, [Next]_vars PROVE IndInv'
  OBVIOUS
<1>0. U' = U
  BY DEF vars, Next, StartTrace, Explore, FinishTrace, Collect, StartEmbed,
     FinishEmbed, Finish, Done
<1>a. UnitOK' /\ UnitOK /\ TypeOK
  BY <1>0 DEF IndInv, UnitOK
<1>b. Nodes' = Nodes /\ \A v : IsGlobal(v)' = IsGlobal(v)
  BY <1>0 DEF Nodes, IsGlobal
<1>1. CASE StartTrace
  <2>1. PICK o \in args : Search("L", o) /\ args' = args \ {o}
    BY <1>1 DEF StartTrace
  <2>2. o \in U.vals
    BY <1>a, <2>1 DEF TypeOK
  <2>3. /\ root' \subseteq Nodes' /\ visited' \subseteq Nodes' /\ work' \subseteq Nodes'
        /\ RootSeen' /\ SuccSeen' /\ Minimal'
    BY <1>0, <2>1, <2>2, SearchStarts
  <2>4. TypeOK'
    BY <1>0, <1>1, <1>a, <1>b, <2>1, <2>3 DEF StartTrace, TypeOK
  <2>5. RootIsObject' /\ ModulesClosed'
    BY <1>1, ModulesUntouched DEF StartTrace, RootIsObject
  <2>. QED
    BY <1>a, <2>3, <2>4, <2>5 DEF IndInv
<1>2. CASE Explore
  <2>1. /\ visited' \subseteq Nodes' /\ work' \subseteq Nodes'
        /\ RootSeen' /\ SuccSeen' /\ Minimal'
    BY <1>2, ExploreKeeps
  <2>2. TypeOK'
    BY <1>2, <1>a, <1>b, <2>1 DEF Explore, TypeOK
  <2>3. RootIsObject' /\ ModulesClosed'
    BY <1>2, ModulesUntouched DEF Explore, IndInv, RootIsObject
  <2>. QED
    BY <1>a, <2>1, <2>2, <2>3 DEF IndInv
<1>3. CASE FinishTrace
  <2>1. /\ root' \subseteq Nodes' /\ visited' \subseteq Nodes' /\ work' \subseteq Nodes'
        /\ RootSeen' /\ SuccSeen' /\ Minimal'
    BY <1>3, SearchUntouched DEF FinishTrace
  <2>2. TypeOK'
    BY <1>3, <1>0, <1>a, <1>b, <2>1 DEF FinishTrace, TypeOK, Traced
  <2>3. RootIsObject' /\ ModulesClosed'
    BY <1>3, ModulesUntouched DEF FinishTrace, RootIsObject
  <2>. QED
    BY <1>a, <2>1, <2>2, <2>3 DEF IndInv
<1>4. CASE Collect
  <2>1. /\ root' \subseteq Nodes' /\ visited' \subseteq Nodes' /\ work' \subseteq Nodes'
        /\ RootSeen' /\ SuccSeen' /\ Minimal'
    BY <1>4, SearchUntouched DEF Collect
  <2>2. \A v \in U.matched : v \in U.vals /\ IsGlobal(v)
    BY <1>a, UnitClosed DEF IsGlobal
  <2>3. TypeOK'
    BY <1>4, <1>0, <1>a, <1>b, <2>1, <2>2 DEF Collect, TypeOK
  <2>4. RootIsObject' /\ ModulesClosed'
    BY <1>4, ModulesUntouched DEF Collect, RootIsObject
  <2>. QED
    BY <1>a, <2>1, <2>3, <2>4 DEF IndInv
<1>5. CASE StartEmbed
  <2>1. PICK o \in objs : Search("R", o) /\ objs' = objs \ {o}
    BY <1>5 DEF StartEmbed
  <2>2. o \in U.vals /\ o \in marked
    BY <1>a, <2>1 DEF TypeOK
  <2>3. /\ root' \subseteq Nodes' /\ visited' \subseteq Nodes' /\ work' \subseteq Nodes'
        /\ RootSeen' /\ SuccSeen' /\ Minimal'
    BY <1>0, <2>1, <2>2, SearchStarts
  <2>4. TypeOK'
    BY <1>0, <1>5, <1>a, <1>b, <2>1, <2>3 DEF StartEmbed, TypeOK
  <2>5. RootIsObject' /\ ModulesClosed'
    BY <1>5, <2>1, <2>2, ModulesUntouched DEF StartEmbed, RootIsObject, Search
  <2>. QED
    BY <1>a, <2>3, <2>4, <2>5 DEF IndInv
<1>6. CASE FinishEmbed
  <2>1. /\ root' \subseteq Nodes' /\ visited' \subseteq Nodes' /\ work' \subseteq Nodes'
        /\ RootSeen' /\ SuccSeen' /\ Minimal'
    BY <1>6, SearchUntouched DEF FinishEmbed
  <2>2. Entry \in marked /\ root = {[tag |-> "R", v |-> Entry]}
    BY <1>6, EntryOfSearch DEF FinishEmbed
  <2>. DEFINE S == {v \in U.vals : [tag |-> "R", v |-> v] \in visited}
              new == CleanModule(Entry, ReferencedFuns)
  <2>3. new.defs = ({v \in S : U.kind[v] = "function"} \cup {Entry}) \ U.declared
    BY DEF CleanModule, ReferencedFuns
  <2>4. new.private \subseteq new.defs
    BY DEF CleanModule
  <2>5. Entry \in U.vals
    BY <1>a, <2>2 DEF TypeOK
  <2>6. DOMAIN embedded' = DOMAIN embedded \cup {Entry}
    BY <1>6 DEF FinishEmbed
  <2>7. \A o \in DOMAIN embedded' :
          embedded'[o] = IF o = Entry THEN new ELSE embedded[o]
    BY <1>6 DEF FinishEmbed
  <2>8. TypeOK'
    <3>1. DOMAIN embedded' \subseteq marked'
      BY <1>6, <1>a, <2>2, <2>6 DEF FinishEmbed, TypeOK
    <3>2. \A o \in DOMAIN embedded' :
            embedded'[o].private \subseteq embedded'[o].defs
              /\ embedded'[o].defs \subseteq U.vals
      <4>1. new.defs \subseteq U.vals
        BY <2>3, <2>5
      <4>. QED
        BY <1>a, <2>4, <2>6, <2>7, <4>1 DEF TypeOK
    <3>. QED
      BY <1>6, <1>0, <1>a, <1>b, <2>1, <3>1, <3>2 DEF FinishEmbed, TypeOK
  <2>9. ModulesClosed'
    <3>1. \A v \in S : U.ops[v] \cup U.body[v] \subseteq S
      <4>. SUFFICES ASSUME NEW v \in S, NEW w \in U.ops[v] \cup U.body[v]
                    PROVE  w \in S
        OBVIOUS
      <4>1. [tag |-> "R", v |-> w] \in Succ([tag |-> "R", v |-> v])
        BY DEF Succ, RefNext, Tagged
      <4>2. Succ([tag |-> "R", v |-> v]) \subseteq visited
        BY <1>6 DEF IndInv, SuccSeen, Seen, FinishEmbed
      <4>3. w \in U.vals
        BY <1>a, UnitClosed
      <4>. QED
        BY <4>1, <4>2, <4>3
    <3>2. Entry \in S
      BY <1>6, <2>2, <2>5 DEF IndInv, RootSeen, Seen, FinishEmbed
    <3>3. \A o \in DOMAIN embedded' : \E T \in SUBSET U.vals :
            /\ o \in T
            /\ \A v \in T : U.ops[v] \cup U.body[v] \subseteq T
            /\ embedded'[o].defs =
                 ({v \in T : U.kind[v] = "function"} \cup {o}) \ U.declared
      <4>1. SUFFICES ASSUME NEW o \in DOMAIN embedded', o # Entry
                     PROVE  \E T \in SUBSET U.vals :
                              /\ o \in T
                              /\ \A v \in T : U.ops[v] \cup U.body[v] \subseteq T
                              /\ embedded'[o].defs =
                                   ({v \in T : U.kind[v] = "function"} \cup {o})
                                     \ U.declared
        <5>1. S \in SUBSET U.vals
          OBVIOUS
        <5>2. embedded'[Entry].defs =
                ({v \in S : U.kind[v] = "function"} \cup {Entry}) \ U.declared
          BY <2>3, <2>6, <2>7
        <5>3. \E T \in SUBSET U.vals :
                /\ Entry \in T
                /\ \A v \in T : U.ops[v] \cup U.body[v] \subseteq T
                /\ embedded'[Entry].defs =
                     ({v \in T : U.kind[v] = "function"} \cup {Entry}) \ U.declared
          BY <3>1, <3>2, <5>1, <5>2
        <5>. QED
          BY <5>3
      <4>2. o \in DOMAIN embedded /\ embedded'[o] = embedded[o]
        BY <2>6, <2>7, <4>1
      <4>. QED
        BY <4>2 DEF IndInv, ModulesClosed
    <3>. QED
      BY <1>0, <3>3 DEF ModulesClosed
  <2>10. RootIsObject'
    BY <1>6 DEF FinishEmbed, RootIsObject
  <2>. QED
    BY <1>a, <2>1, <2>8, <2>9, <2>10 DEF IndInv
<1>7. CASE Finish \/ Done \/ UNCHANGED vars
  <2>1. UNCHANGED <<U, args, marked, objs, root, visited, work, embedded>>
    BY <1>7 DEF Finish, Done, vars
  <2>2. pc' = pc \/ pc' = "done"
    BY <1>7 DEF Finish, Done, vars
  <2>3. /\ root' \subseteq Nodes' /\ visited' \subseteq Nodes' /\ work' \subseteq Nodes'
        /\ RootSeen' /\ SuccSeen' /\ Minimal'
    BY <2>1, SearchUntouched
  <2>4. TypeOK'
    BY <1>a, <1>b, <2>1, <2>2, <2>3 DEF TypeOK
  <2>5. RootIsObject' /\ ModulesClosed'
    BY <2>1, <2>2, ModulesUntouched DEF IndInv, RootIsObject
  <2>. QED
    BY <1>a, <2>3, <2>4, <2>5 DEF IndInv
<1>. QED
  BY <1>1, <1>2, <1>3, <1>4, <1>5, <1>6, <1>7 DEF Next

---------------------------------------------------------------------------
\* The inductive invariant holds throughout every run of the pass.
THEOREM Inductive == Spec => []IndInv
  BY InitInd, StepInd, PTL DEF Spec

\* Every variable of the pass keeps its type; an embedded object is one of
\* the marked globals.
THEOREM TypeCorrect == Spec => []TypeOK
<1>1. IndInv => TypeOK
  BY DEF IndInv
<1>. QED
  BY Inductive, <1>1, PTL

\* A search that has run out of work has met exactly what is reachable from
\* its root, for every unit and in whatever order it went.
THEOREM SearchCorrect == Spec => []SearchExact
<1>1. IndInv => SearchExact
  <2>. SUFFICES ASSUME IndInv, work = {}
                PROVE  /\ root \subseteq visited
                       /\ Closed(visited)
                       /\ \A S \in SUBSET visited :
                            root \subseteq S /\ Closed(S) => S = visited
    BY DEF SearchExact
  <2>1. Seen = visited
    BY DEF Seen
  <2>2. root \subseteq visited
    BY <2>1 DEF IndInv, RootSeen
  <2>3. Closed(visited)
    BY <2>1 DEF IndInv, SuccSeen, Closed
  <2>4. ASSUME NEW S \in SUBSET visited, root \subseteq S, Closed(S)
        PROVE  S = visited
    <3>1. S \in SUBSET Nodes
      BY DEF IndInv, TypeOK
    <3>. QED
      BY <2>1, <2>4, <3>1 DEF IndInv, Minimal
  <2>. QED
    BY <2>2, <2>3, <2>4
<1>. QED
  BY Inductive, <1>1, PTL

\* Every embedded module defines each function with a body that the code of
\* one of its definitions names, directly or through constants.
THEOREM ModulesSelfContained == Spec => []EmbeddedClosed
<1>1. IndInv => EmbeddedClosed
  <2>. SUFFICES ASSUME IndInv, NEW o \in DOMAIN embedded,
                       NEW f \in embedded[o].defs,
                       NEW g \in UsedBy(UsedBy(UsedBy({f}))),
                       U.kind[g] = "function", g \notin U.declared
                PROVE  g \in embedded[o].defs
    BY DEF EmbeddedClosed
  <2>1. PICK S \in SUBSET U.vals :
          /\ o \in S
          /\ \A v \in S : U.ops[v] \cup U.body[v] \subseteq S
          /\ embedded[o].defs =
               ({v \in S : U.kind[v] = "function"} \cup {o}) \ U.declared
    BY DEF IndInv, ModulesClosed
  <2>2. f \in S
    BY <2>1
  <2>3. ASSUME NEW T \in SUBSET S PROVE UsedBy(T) \in SUBSET S
    BY <2>1 DEF UsedBy
  <2>4. UsedBy({f}) \in SUBSET S
    BY <2>2, <2>3
  <2>5. UsedBy(UsedBy({f})) \in SUBSET S
    BY <2>3, <2>4
  <2>6. g \in S
    BY <2>3, <2>5
  <2>. QED
    BY <2>1, <2>6
<1>. QED
  BY Inductive, <1>1, PTL

---------------------------------------------------------------------------
(* Reach is the least closed set.                                          *)

\* A unit is finite, and so is the graph of a search.
LEMMA NodesFinite ==
    ASSUME UnitOK
    PROVE  IsFiniteSet(Nodes) /\ Cardinality(Nodes) \in Nat
<1>. DEFINE Tags == {"L", "S", "R"}
            Pairs == Tags \X U.vals
            f == [p \in Pairs |-> [tag |-> p[1], v |-> p[2]]]
<1>1. IsFiniteSet(U.vals)
  BY UnitsAssumption DEF UnitOK, WellFormed
<1>2. IsFiniteSet(Tags)
  <2>1. IsFiniteSet({"L"}) /\ IsFiniteSet({"S"}) /\ IsFiniteSet({"R"})
    BY FS_Singleton
  <2>2. Tags = ({"L"} \cup {"S"}) \cup {"R"}
    OBVIOUS
  <2>3. IsFiniteSet({"L"} \cup {"S"})
    BY <2>1, FS_Union
  <2>4. IsFiniteSet(({"L"} \cup {"S"}) \cup {"R"})
    BY <2>1, <2>3, FS_Union
  <2>. QED
    BY <2>2, <2>4
<1>3. IsFiniteSet(Pairs)
  BY <1>1, <1>2, FS_Product
<1>4. f \in Surjection(Pairs, Nodes)
  <2>1. ASSUME NEW x \in Nodes PROVE \E p \in Pairs : f[p] = x
    <3>1. x.tag \in Tags /\ x.v \in U.vals /\ x = [tag |-> x.tag, v |-> x.v]
      BY DEF Nodes
    <3>2. <<x.tag, x.v>> \in Pairs /\ f[<<x.tag, x.v>>] = x
      BY <3>1
    <3>. QED
      BY <3>2
  <2>2. f \in [Pairs -> Nodes]
    BY DEF Nodes
  <2>. QED
    BY <2>1, <2>2 DEF Surjection
<1>5. IsFiniteSet(Nodes)
  BY <1>3, <1>4, FS_Surjection
<1>. QED
  BY <1>5, FS_CardinalityType

\* The levels of Reach satisfy their recursive equation.
LEMMA LevelsEquation ==
    ASSUME UnitOK, NEW S \in SUBSET Nodes
    PROVE  /\ Levels(S) \in [Nat -> SUBSET Nodes]
           /\ Levels(S)[0] = S
           /\ \A n \in Nat : Levels(S)[n + 1] =
                Levels(S)[n] \cup UNION {Succ(x) : x \in Levels(S)[n]}
<1>. DEFINE F == [T \in SUBSET Nodes |-> T \cup UNION {Succ(x) : x \in T}]
            R == Levels(S)
<1>1. F \in [SUBSET Nodes -> SUBSET Nodes]
  <2>1. ASSUME NEW T \in SUBSET Nodes PROVE T \cup UNION {Succ(x) : x \in T} \in SUBSET Nodes
    BY SuccNodes
  <2>. QED
    BY <2>1
<1>2. PICK g \in [Nat -> SUBSET Nodes] :
        \A n \in Nat : g[n] = IF n = 0 THEN S ELSE F[g[n - 1]]
  <2>. HIDE DEF F
  <2>. QED
    BY <1>1, LevelsExist
<1>3. g = [n \in Nat |-> IF n = 0 THEN S
                         ELSE g[n - 1] \cup UNION {Succ(x) : x \in g[n - 1]}]
  <2>1. ASSUME NEW n \in Nat, n # 0
        PROVE  g[n] = g[n - 1] \cup UNION {Succ(x) : x \in g[n - 1]}
    <3>1. n - 1 \in Nat
      BY <2>1
    <3>2. g[n - 1] \in SUBSET Nodes
      BY <3>1
    <3>3. F[g[n - 1]] = g[n - 1] \cup UNION {Succ(x) : x \in g[n - 1]}
      BY <3>2
    <3>. HIDE DEF F
    <3>. QED
      BY <2>1, <3>3, <1>2
  <2>2. g[0] = S
    <3>. HIDE DEF F
    <3>. QED
      BY <1>2
  <2>. QED
    BY <2>1, <2>2
<1>4. R = [n \in Nat |-> IF n = 0 THEN S
                         ELSE R[n - 1] \cup UNION {Succ(x) : x \in R[n - 1]}]
  BY <1>3 DEF Levels
<1>5. R[0] = S /\ \A n \in Nat : R[n + 1] = R[n] \cup UNION {Succ(x) : x \in R[n]}
  <2>. HIDE DEF R
  <2>1. R[0] = S
    BY <1>4
  <2>2. ASSUME NEW n \in Nat PROVE R[n + 1] = R[n] \cup UNION {Succ(x) : x \in R[n]}
    <3>1. n + 1 \in Nat /\ n + 1 # 0 /\ (n + 1) - 1 = n
      OBVIOUS
    <3>. QED
      BY <3>1, <1>4
  <2>. QED
    BY <2>1, <2>2
<1>6. ASSUME NEW n \in Nat PROVE R[n] \in SUBSET Nodes
  <2>. DEFINE Good == {m \in Nat : R[m] \in SUBSET Nodes}
  <2>1. 0 \in Good
    BY <1>5
  <2>2. ASSUME NEW m \in Good PROVE m + 1 \in Good
    BY <1>5, SuccNodes
  <2>3. Good \in SUBSET Nat
    OBVIOUS
  <2>. HIDE DEF Good
  <2>4. Good = Nat
    BY <2>1, <2>2, <2>3, NatInd
  <2>. QED
    BY <2>4 DEF Good
<1>7. R \in [Nat -> SUBSET Nodes]
  <2>. HIDE DEF R
  <2>. QED
    BY <1>4, <1>6
<1>. QED
  BY <1>5, <1>7

\* What can be met from S: a closed set that holds S, and the least one.  A
\* level that is not closed is smaller than the next, and there are no more
\* levels than nodes.
LEMMA ReachLeast ==
    ASSUME UnitOK, NEW S \in SUBSET Nodes
    PROVE  /\ Reach(S) \in SUBSET Nodes /\ S \subseteq Reach(S) /\ Closed(Reach(S))
           /\ \A T \in SUBSET Nodes : S \subseteq T /\ Closed(T) => Reach(S) \subseteq T
<1>. DEFINE R == Levels(S)
            N == Cardinality(Nodes)
<1>1. /\ R \in [Nat -> SUBSET Nodes] /\ R[0] = S
      /\ \A n \in Nat : R[n + 1] = R[n] \cup UNION {Succ(x) : x \in R[n]}
  BY LevelsEquation
<1>2. IsFiniteSet(Nodes) /\ N \in Nat
  BY NodesFinite
<1>3. Reach(S) = R[N]
  BY DEF Reach
<1>. HIDE DEF R, N
<1>4. ASSUME NEW n \in Nat
      PROVE  /\ IsFiniteSet(R[n]) /\ Cardinality(R[n]) \in Nat /\ Cardinality(R[n]) <= N
             /\ Cardinality(R[n]) = N => R[n] = Nodes
  <2>1. R[n] \in SUBSET Nodes
    BY <1>1
  <2>2. IsFiniteSet(R[n])
    BY <2>1, <1>2, FS_Subset
  <2>. QED
    BY <2>1, <2>2, <1>2, FS_Subset, FS_CardinalityType DEF N
<1>5. S \subseteq R[N]
  <2>. DEFINE Good == {n \in Nat : S \subseteq R[n]}
  <2>1. 0 \in Good
    BY <1>1
  <2>2. ASSUME NEW n \in Good PROVE n + 1 \in Good
    BY <1>1
  <2>3. Good \in SUBSET Nat
    OBVIOUS
  <2>. HIDE DEF Good
  <2>4. Good = Nat
    BY <2>1, <2>2, <2>3, NatInd
  <2>. QED
    BY <2>4, <1>2 DEF Good
<1>6. Closed(R[N])
  <2>. DEFINE Good == {n \in Nat : Closed(R[n]) \/ Cardinality(R[n]) >= n}
  <2>1. 0 \in Good
    BY <1>4
  <2>2. ASSUME NEW n \in Good PROVE n + 1 \in Good
    <3>1. n \in Nat /\ n + 1 \in Nat
      OBVIOUS
    <3>2. CASE Closed(R[n])
      <4>1. R[n + 1] = R[n]
        <5>1. UNION {Succ(x) : x \in R[n]} \subseteq R[n]
          BY <3>2 DEF Closed
        <5>2. R[n + 1] = R[n] \cup UNION {Succ(x) : x \in R[n]}
          BY <3>1, <1>1
        <5>. QED
          BY <5>1, <5>2
      <4>. QED
        BY <4>1, <3>1, <3>2
    <3>3. CASE ~Closed(R[n])
      <4>1. R[n] \subseteq R[n + 1] /\ R[n + 1] # R[n]
        BY <3>1, <3>3, <1>1 DEF Closed
      <4>2. /\ IsFiniteSet(R[n + 1])
            /\ Cardinality(R[n + 1]) \in Nat /\ Cardinality(R[n]) \in Nat
        BY <3>1, <1>4
      <4>3. Cardinality(R[n]) <= Cardinality(R[n + 1])
              /\ Cardinality(R[n + 1]) # Cardinality(R[n])
        BY <4>1, <4>2, FS_Subset
      <4>4. Cardinality(R[n]) >= n
        BY <3>3
      <4>5. Cardinality(R[n + 1]) >= n + 1
        BY <4>2, <4>3, <4>4, <3>1
      <4>. QED
        BY <4>5, <3>1
    <3>. QED
      BY <3>2, <3>3
  <2>3. Good \in SUBSET Nat
    OBVIOUS
  <2>. HIDE DEF Good
  <2>4. Good = Nat
    BY <2>1, <2>2, <2>3, NatInd
  <2>5. Closed(R[N]) \/ Cardinality(R[N]) >= N
    BY <2>4, <1>2 DEF Good
  <2>6. ASSUME Cardinality(R[N]) >= N PROVE Closed(R[N])
    <3>1. R[N] = Nodes
      BY <2>6, <1>2, <1>4
    <3>. QED
      BY <3>1, SuccNodes DEF Closed
  <2>. QED
    BY <2>5, <2>6
<1>7. ASSUME NEW T \in SUBSET Nodes, S \subseteq T, Closed(T) PROVE R[N] \subseteq T
  <2>. DEFINE Good == {n \in Nat : R[n] \subseteq T}
  <2>1. 0 \in Good
    BY <1>1, <1>7
  <2>2. ASSUME NEW n \in Good PROVE n + 1 \in Good
    BY <1>1, <1>7 DEF Closed
  <2>3. Good \in SUBSET Nat
    OBVIOUS
  <2>. HIDE DEF Good
  <2>4. Good = Nat
    BY <2>1, <2>2, <2>3, NatInd
  <2>. QED
    BY <2>4, <1>2 DEF Good
<1>8. R[N] \in SUBSET Nodes
  BY <1>1, <1>2
<1>. QED
  BY <1>3, <1>5, <1>6, <1>7, <1>8

---------------------------------------------------------------------------
(* What is marked and what is embedded.                                    *)

\* The constant globals and functions among the values of some nodes.
ConstGlobals(T) ==
    {v \in U.vals : IsGlobal(v) /\ IsConstant(v) /\ \E x \in T : x.v = v}

AfterCollect == pc \in {"embed", "refs", "done"}

\* A trace starts at an argument of an easy::jit call.
TraceRoot == pc = "trace" => \E o \in U.args : root = {[tag |-> "L", v |-> o]}

\* Nothing is marked without a reason ...
MarkedBound ==
    \A C \in SUBSET Nodes : Tagged("L", U.args) \subseteq C /\ Closed(C) =>
        marked \subseteq U.exposed \cup U.matched \cup ConstGlobals(C)

\* ... and what the finished traces could meet is marked, as are the exposed
\* objects and, in the end, the matched ones.
TracedMarked ==
    /\ args \subseteq U.args /\ U.exposed \subseteq marked
    /\ AfterCollect => args = {} /\ U.matched \subseteq marked
    /\ \E C \in SUBSET Nodes :
         /\ Closed(C) /\ ConstGlobals(C) \subseteq marked
         /\ Tagged("L", U.args \ args) \subseteq C \cup (IF pc = "trace" THEN root ELSE {})

\* A marked definition is embedded, being embedded, or still to be embedded.
ObjectsKept ==
    /\ pc \in {"embed", "done"} => marked \ U.declared = objs \cup DOMAIN embedded
    /\ pc = "refs" => \E o \in marked :
         /\ root = {[tag |-> "R", v |-> o]}
         /\ marked \ U.declared = objs \cup DOMAIN embedded \cup {o}
    /\ pc = "done" => objs = {}
    /\ ~AfterCollect => DOMAIN embedded = {}

MarkInv == TraceRoot /\ MarkedBound /\ TracedMarked /\ ObjectsKept

\* What the definitions above say stays while the unit does.
LEMMA SameGlobals ==
    ASSUME U' = U
    PROVE  /\ \A T : ConstGlobals(T)' = ConstGlobals(T)
           /\ \A T : Tagged("L", T)' = Tagged("L", T)
  BY DEF ConstGlobals, IsGlobal, IsConstant, Tagged

\* The empty set of nodes is closed.
LEMMA MarkInit == Init => MarkInv
<1>. SUFFICES ASSUME Init PROVE MarkInv
  OBVIOUS
<1>1. TraceRoot /\ MarkedBound /\ ObjectsKept
  BY DEF Init, TraceRoot, MarkedBound, ObjectsKept, AfterCollect
<1>2. Closed({}) /\ ConstGlobals({}) = {} /\ Tagged("L", {}) = {} /\ {} \in SUBSET Nodes
  BY DEF Closed, ConstGlobals, Tagged
<1>3. U.args \ args = {} /\ pc = "deduce"
  BY DEF Init
<1>4. TracedMarked
  BY <1>2, <1>3 DEF Init, TracedMarked, AfterCollect
<1>. QED
  BY <1>1, <1>4 DEF MarkInv

\* Every step keeps what is marked and embedded exact.
LEMMA MarkStep == IndInv /\ MarkInv /\ [Next]_vars => MarkInv'
<1>. SUFFICES ASSUME IndInv, MarkInv, [Next]_vars PROVE MarkInv'
  OBVIOUS
<1>0. U' = U
  BY DEF vars, Next, StartTrace, Explore, FinishTrace, Collect, StartEmbed,
     FinishEmbed, Finish, Done
<1>a. /\ Nodes' = Nodes
      /\ \A S : Closed(S)' = Closed(S)
      /\ \A T : ConstGlobals(T)' = ConstGlobals(T)
      /\ \A T : Tagged("L", T)' = Tagged("L", T)
  BY <1>0, SameGraph, SameGlobals
<1>b. UnitOK /\ TypeOK /\ TraceRoot /\ MarkedBound /\ TracedMarked /\ ObjectsKept
  BY DEF IndInv, MarkInv
<1>c. PICK C \in SUBSET Nodes :
        /\ Closed(C) /\ ConstGlobals(C) \subseteq marked
        /\ Tagged("L", U.args \ args) \subseteq C \cup (IF pc = "trace" THEN root ELSE {})
  BY <1>b DEF TracedMarked
<1>1. CASE StartTrace
  <2>1. PICK o \in args : Search("L", o) /\ args' = args \ {o}
    BY <1>1 DEF StartTrace
  <2>2. /\ pc = "deduce" /\ pc' = "trace" /\ marked' = marked /\ embedded' = embedded
        /\ o \in U.args /\ root' = {[tag |-> "L", v |-> o]}
    BY <1>1, <1>b, <2>1 DEF StartTrace, Search, TracedMarked
  <2>3. TraceRoot' /\ MarkedBound' /\ ObjectsKept'
    BY <1>0, <1>a, <1>b, <2>2 DEF TraceRoot, MarkedBound, ObjectsKept, AfterCollect
  <2>4. Tagged("L", U.args \ args') \subseteq C \cup root'
    <3>1. Tagged("L", U.args \ args) \subseteq C
      BY <1>c, <2>2
    <3>. QED
      BY <3>1, <2>1, <2>2 DEF Tagged
  <2>5. TracedMarked'
    <3>1. /\ args' \subseteq U.args /\ U.exposed \subseteq marked' /\ ~AfterCollect'
      BY <1>b, <2>1, <2>2 DEF TracedMarked, AfterCollect
    <3>2. \E T \in SUBSET Nodes :
            /\ Closed(T) /\ ConstGlobals(T) \subseteq marked'
            /\ Tagged("L", U.args \ args') \subseteq T \cup root'
      BY <1>c, <2>2, <2>4
    <3>. QED
      BY <3>1, <3>2, <1>0, <1>a, <2>2 DEF TracedMarked
  <2>. QED
    BY <2>3, <2>5 DEF MarkInv
<1>2. CASE Explore
  <2>1. UNCHANGED <<U, pc, args, marked, objs, root, embedded>>
    BY <1>2 DEF Explore
  <2>2. TraceRoot' /\ MarkedBound' /\ ObjectsKept'
    BY <1>a, <1>b, <2>1 DEF TraceRoot, MarkedBound, ObjectsKept, AfterCollect
  <2>3. TracedMarked'
    BY <1>a, <1>b, <2>1 DEF TracedMarked, AfterCollect
  <2>. QED
    BY <2>2, <2>3 DEF MarkInv
<1>3. CASE FinishTrace
  <2>1. /\ pc = "trace" /\ work = {} /\ marked' = marked \cup {v \in Traced : IsConstant(v)}
        /\ pc' = "deduce" /\ UNCHANGED <<U, args, objs, root, visited, work, embedded>>
    BY <1>3 DEF FinishTrace
  <2>2. PICK o \in U.args : root = {[tag |-> "L", v |-> o]}
    BY <1>b, <2>1 DEF TraceRoot
  <2>3. visited \in SUBSET Nodes /\ root \subseteq visited /\ Closed(visited)
    BY <2>1 DEF IndInv, TypeOK, RootSeen, SuccSeen, Seen, Closed
  <2>4. marked' = marked \cup ConstGlobals(visited)
    BY <2>1 DEF Traced, ConstGlobals
  <2>5. MarkedBound'
    <3>. SUFFICES ASSUME NEW T \in SUBSET Nodes, Tagged("L", U.args) \subseteq T, Closed(T)
                  PROVE  marked' \subseteq U.exposed \cup U.matched \cup ConstGlobals(T)
      BY <1>0, <1>a DEF MarkedBound
    <3>1. marked \subseteq U.exposed \cup U.matched \cup ConstGlobals(T)
      BY <1>b DEF MarkedBound
    <3>2. root \subseteq T
      BY <2>2 DEF Tagged
    <3>3. visited \subseteq T
      BY <3>2 DEF IndInv, Minimal, Seen
    <3>4. ConstGlobals(visited) \subseteq ConstGlobals(T)
      BY <3>3 DEF ConstGlobals
    <3>. QED
      BY <2>4, <3>1, <3>4
  <2>6. TracedMarked'
    <3>. DEFINE D == C \cup visited
    <3>1. D \in SUBSET Nodes /\ Closed(D)
      BY <1>c, <2>3 DEF Closed
    <3>2. ConstGlobals(D) \subseteq marked'
      BY <1>c, <2>4 DEF ConstGlobals
    <3>3. Tagged("L", U.args \ args) \subseteq D
      BY <1>c, <2>1, <2>3
    <3>4. /\ args' \subseteq U.args /\ U.exposed \subseteq marked' /\ ~AfterCollect' /\ args' = args
          /\ pc' = "deduce"
      BY <1>b, <2>1 DEF TracedMarked, AfterCollect
    <3>. HIDE DEF D
    <3>5. \E T \in SUBSET Nodes :
            /\ Closed(T) /\ ConstGlobals(T) \subseteq marked'
            /\ Tagged("L", U.args \ args') \subseteq T
      BY <3>1, <3>2, <3>3, <3>4
    <3>. QED
      BY <3>4, <3>5, <1>0, <1>a DEF TracedMarked
  <2>7. TraceRoot' /\ ObjectsKept'
    BY <1>b, <2>1 DEF TraceRoot, ObjectsKept, AfterCollect
  <2>. QED
    BY <2>5, <2>6, <2>7 DEF MarkInv
<1>4. CASE Collect
  <2>1. /\ pc = "deduce" /\ args = {} /\ marked' = marked \cup U.matched
        /\ objs' = (marked \cup U.matched) \ U.declared /\ pc' = "embed"
        /\ UNCHANGED <<U, args, root, visited, work, embedded>>
    BY <1>4 DEF Collect
  <2>2. TraceRoot' /\ MarkedBound'
    BY <1>0, <1>a, <1>b, <2>1 DEF TraceRoot, MarkedBound
  <2>3. ObjectsKept'
    <3>1. DOMAIN embedded = {}
      BY <1>b, <2>1 DEF ObjectsKept, AfterCollect
    <3>. QED
      BY <3>1, <2>1 DEF ObjectsKept, AfterCollect
  <2>4. TracedMarked'
    <3>1. /\ args' \subseteq U.args /\ U.exposed \subseteq marked' /\ args' = {}
          /\ U.matched \subseteq marked' /\ args' = args /\ pc' = "embed"
      BY <1>b, <2>1 DEF TracedMarked
    <3>2. \E T \in SUBSET Nodes :
            /\ Closed(T) /\ ConstGlobals(T) \subseteq marked'
            /\ Tagged("L", U.args \ args') \subseteq T
      BY <1>c, <2>1
    <3>. QED
      BY <3>1, <3>2, <1>0, <1>a DEF TracedMarked
  <2>. QED
    BY <2>2, <2>3, <2>4 DEF MarkInv
<1>5. CASE StartEmbed
  <2>1. PICK o \in objs : Search("R", o) /\ objs' = objs \ {o}
    BY <1>5 DEF StartEmbed
  <2>2. /\ pc = "embed" /\ pc' = "refs" /\ o \in marked /\ root' = {[tag |-> "R", v |-> o]}
        /\ UNCHANGED <<U, args, marked, embedded>>
    BY <1>5, <1>b, <2>1 DEF StartEmbed, Search, TypeOK
  <2>3. TraceRoot' /\ MarkedBound'
    BY <1>0, <1>a, <1>b, <2>2 DEF TraceRoot, MarkedBound
  <2>4. ObjectsKept'
    <3>1. marked \ U.declared = objs' \cup DOMAIN embedded \cup {o}
      BY <1>b, <2>1, <2>2 DEF ObjectsKept
    <3>. QED
      BY <3>1, <2>2 DEF ObjectsKept, AfterCollect
  <2>5. TracedMarked'
    BY <1>a, <1>b, <2>2 DEF TracedMarked, AfterCollect
  <2>. QED
    BY <2>3, <2>4, <2>5 DEF MarkInv
<1>6. CASE FinishEmbed
  <2>1. /\ pc = "refs" /\ pc' = "embed" /\ DOMAIN embedded' = DOMAIN embedded \cup {Entry}
        /\ UNCHANGED <<U, args, marked, objs, root, visited, work>>
    BY <1>6 DEF FinishEmbed
  <2>2. TraceRoot' /\ MarkedBound'
    BY <1>0, <1>a, <1>b, <2>1 DEF TraceRoot, MarkedBound
  <2>3. ObjectsKept'
    <3>1. PICK o \in marked : /\ root = {[tag |-> "R", v |-> o]}
                              /\ marked \ U.declared = objs \cup DOMAIN embedded \cup {o}
      BY <1>b, <2>1 DEF ObjectsKept
    <3>2. root = {[tag |-> "R", v |-> Entry]}
      BY <2>1, EntryOfSearch
    <3>3. o = Entry
      <4>1. [tag |-> "R", v |-> o] = [tag |-> "R", v |-> Entry]
        BY <3>1, <3>2
      <4>2. [tag |-> "R", v |-> o].v = [tag |-> "R", v |-> Entry].v
        BY <4>1
      <4>. QED
        BY <4>2
    <3>. QED
      BY <3>1, <3>3, <2>1 DEF ObjectsKept, AfterCollect
  <2>4. TracedMarked'
    BY <1>a, <1>b, <2>1 DEF TracedMarked, AfterCollect
  <2>. QED
    BY <2>2, <2>3, <2>4 DEF MarkInv
<1>7. CASE Finish \/ Done \/ UNCHANGED vars
  <2>1. /\ UNCHANGED <<U, args, marked, objs, root, visited, work, embedded>>
        /\ pc' = pc \/ (pc = "embed" /\ pc' = "done" /\ objs = {})
    BY <1>7 DEF Finish, Done, vars
  <2>2. TraceRoot' /\ MarkedBound' /\ ObjectsKept'
    BY <1>0, <1>a, <1>b, <2>1 DEF TraceRoot, MarkedBound, ObjectsKept, AfterCollect
  <2>3. TracedMarked'
    BY <1>a, <1>b, <2>1 DEF TracedMarked, AfterCollect
  <2>. QED
    BY <2>2, <2>3 DEF MarkInv
<1>. QED
  BY <1>1, <1>2, <1>3, <1>4, <1>5, <1>6, <1>7 DEF Next

\* The pass embeds exactly the definitions that are exposed, matched, or
\* constant and reachable from an argument of easy::jit, for every unit and
\* every order of the searches (deduceObjectsToJIT, collectObjectsToJIT,
\* embedBitcode).
THEOREM ExtractionCorrect == Spec => []ExtractedExact
<1>1. Spec => []MarkInv
  BY MarkInit, MarkStep, Inductive, PTL DEF Spec
<1>2. IndInv /\ MarkInv => ExtractedExact
  <2>. SUFFICES ASSUME IndInv, MarkInv, pc = "done"
                PROVE  DOMAIN embedded =
                         (U.exposed \cup U.matched
                            \cup {v \in {x.v : x \in Reach(Tagged("L", U.args))} :
                                    IsGlobal(v) /\ IsConstant(v)}) \ U.declared
    BY DEF ExtractedExact
  <2>. DEFINE S == Tagged("L", U.args)
              M == Reach(S)
  <2>1. UnitOK /\ S \in SUBSET Nodes
    BY UnitClosed DEF IndInv, Tagged, Nodes
  <2>2. /\ M \in SUBSET Nodes /\ S \subseteq M /\ Closed(M)
        /\ \A T \in SUBSET Nodes : S \subseteq T /\ Closed(T) => M \subseteq T
    BY <2>1, ReachLeast
  <2>. HIDE DEF M, S
  <2>3. {v \in {x.v : x \in M} : IsGlobal(v) /\ IsConstant(v)} = ConstGlobals(M)
    BY <2>2 DEF ConstGlobals, Nodes
  <2>4. marked \subseteq U.exposed \cup U.matched \cup ConstGlobals(M)
    BY <2>2 DEF MarkInv, MarkedBound, S
  <2>5. args = {} /\ U.exposed \subseteq marked /\ U.matched \subseteq marked
    BY DEF MarkInv, TracedMarked, AfterCollect
  <2>6. PICK C \in SUBSET Nodes :
          Closed(C) /\ ConstGlobals(C) \subseteq marked /\ Tagged("L", U.args \ args) \subseteq C
    BY DEF MarkInv, TracedMarked
  <2>7. S \subseteq C
    BY <2>5, <2>6 DEF S
  <2>8. ConstGlobals(M) \subseteq marked
    <3>1. M \subseteq C
      BY <2>2, <2>6, <2>7
    <3>2. ConstGlobals(M) \subseteq ConstGlobals(C)
      BY <3>1 DEF ConstGlobals
    <3>. QED
      BY <3>2, <2>6
  <2>9. marked \ U.declared = DOMAIN embedded
    BY DEF MarkInv, ObjectsKept
  <2>10. DOMAIN embedded = (U.exposed \cup U.matched \cup ConstGlobals(M)) \ U.declared
    BY <2>4, <2>5, <2>8, <2>9
  <2>. QED
    BY <2>3, <2>10 DEF M, S
<1>. QED
  BY <1>1, <1>2, Inductive, PTL
===========================================================================
