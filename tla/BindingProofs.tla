--------------------------- MODULE BindingProofs ---------------------------
(***************************************************************************)
(* Proofs about what the references of linked code are bound to, for every *)
(* set of programs.  They use the invariant of LinkingProofs.              *)
(***************************************************************************)
EXTENDS LinkingProofs

---------------------------------------------------------------------------
(* Symbols and what they stand for.                                        *)

\* Objects whose symbols can be external without being an entry.
Open(q) == q \in Tabled \/ q \notin P.local \ (P.vars \cup P.optnone)

\* Every reference leads to the code it names in the source.
RefsRight(M) == \A i \in DOMAIN M : \A r \in M[i].refs : M[r.at].of = r.want

\* Two modules agree on the external symbols that meet when they are linked.
Agree(M, S) ==
    \A i \in DOMAIN M : \A s \in DOMAIN S :
        M[i].ext /\ S[s].ext /\ M[i].name = S[s].name => M[i].of = S[s].of

\* Where a symbol of this form can come from: a wrapper has a body, an
\* external object its own name, the only variables defined are extracted
\* ones, and no local function is a declaration.
Origin(x) ==
    /\ x.of.n # 0 => x.def
    /\ x.of.n = 0 /\ x.ext => x.name = Name(x.of.obj)
    /\ x.of.n = 0 /\ x.def /\ x.of.obj \in P.vars => x.of.obj \in P.jit
    /\ ~x.def => x.of.obj \notin P.local \ P.vars

Origins(M) == \A i \in DOMAIN M : Origin(M[i])

\* Linking keeps all of a symbol but its references and, if it is private,
\* its name.
Like(x, y) ==
    /\ x.of = y.of /\ (x.def <=> y.def) /\ (x.ext <=> y.ext) /\ x.asm = y.asm
    /\ x.ext => x.name = y.name

\* A symbol like one that comes from somewhere comes from there too.
LEMMA OriginLike ==
    ASSUME NEW x, NEW y, Like(x, y), Origin(y)
    PROVE  Origin(x)
BY DEF Like, Origin

\* Every symbol of a linked module is like one of M that is not erased or
\* one of S that is moved.
LEMMA LinkedSymbol ==
    ASSUME NEW p, NEW M \in ModulesOf(p), NEW S \in ModulesOf(p),
           NEW L, L = LinkModules(M, S), NEW j \in DOMAIN L
    PROVE  \/ j \in DOMAIN M \ ErasedOf(M, S) /\ Like(L[j], M[j])
           \/ \E s \in MovedOf(M, S) : j = Top(M) + s /\ Like(L[j], S[s])
<1>1. DOMAIN L = DomainOf(M, S)
  BY LinkDomain
<1>2. CASE j \in DOMAIN M \ ErasedOf(M, S)
  <2>1. /\ L[j].of = M[j].of /\ (L[j].def <=> M[j].def) /\ (L[j].ext <=> M[j].ext) /\ L[j].asm = M[j].asm
        /\ M[j].name \notin TakenOf(M, S) => L[j].name = M[j].name
    BY <1>2, LinkStays
  <2>2. M[j].ext => M[j].name \notin TakenOf(M, S)
    BY <1>2 DEF TakenOf, ErasedOf, PeerOf, MovedOf
  <2>. QED
    BY <1>2, <2>1, <2>2 DEF Like
<1>3. ASSUME NEW s \in MovedOf(M, S), j = Top(M) + s
      PROVE  Like(L[j], S[s])
  <2>1. /\ L[j].of = S[s].of /\ (L[j].def <=> S[s].def) /\ (L[j].ext <=> S[s].ext) /\ L[j].asm = S[s].asm
        /\ S[s].ext => L[j].name = S[s].name
    BY <1>3, LinkMoves
  <2>. QED
    BY <2>1 DEF Like
<1>. QED
  BY <1>1, <1>2, <1>3 DEF DomainOf

\* Linking modules that agree leaves every reference right.
LEMMA LinkRefsRight ==
    ASSUME NEW p, NEW M \in ModulesOf(p), NEW S \in ModulesOf(p), Agree(M, S),
           RefsRight(M), RefsRight(S), NEW L, L = LinkModules(M, S)
    PROVE  RefsRight(L)
<1>1. ASSUME NEW i \in DOMAIN M PROVE L[AfterOf(M, S, i)].of = M[i].of
  <2>1. CASE i \in ErasedOf(M, S)
    <3>1. PICK s \in MovedOf(M, S) : i \in PeerOf(M, S, s) /\ AfterOf(M, S, i) = Top(M) + s
      BY <2>1, LinkedTargets
    <3>2. PICK j : j = Top(M) + s
      OBVIOUS
    <3>3. L[j].of = S[s].of
      BY <3>2, LinkMoves
    <3>4. s \in DOMAIN S /\ M[i].ext /\ S[s].ext /\ M[i].name = S[s].name
      BY <3>1 DEF PeerOf, MovedOf
    <3>. QED
      BY <3>1, <3>2, <3>3, <3>4 DEF Agree
  <2>2. CASE i \notin ErasedOf(M, S)
    BY <2>2, LinkedTargets, LinkStays
  <2>. QED
    BY <2>1, <2>2
<1>2. ASSUME NEW s \in DOMAIN S PROVE L[IntoOf(M, S, s)].of = S[s].of
  <2>1. CASE s \in MovedOf(M, S)
    <3>1. PICK j : j = Top(M) + s
      OBVIOUS
    <3>2. L[j].of = S[s].of
      BY <2>1, <3>1, LinkMoves
    <3>. QED
      BY <2>1, <3>1, <3>2, LinkedTargets
  <2>2. CASE s \notin MovedOf(M, S)
    <3>1. s \in MergedOf(M, S)
      BY <2>2 DEF MovedOf
    <3>2. PICK i : i = IntoOf(M, S, s)
      OBVIOUS
    <3>3. i \in PeerOf(M, S, s)
      BY <3>1, <3>2 DEF IntoOf, MergedOf
    <3>4. i \in DOMAIN M /\ M[i].ext /\ S[s].ext /\ M[i].name = S[s].name
      BY <3>3 DEF PeerOf
    <3>5. i \notin ErasedOf(M, S)
      BY <2>2, <3>3, PeersUnique DEF ErasedOf, MovedOf
    <3>6. L[i].of = M[i].of
      BY <3>4, <3>5, LinkStays
    <3>. QED
      BY <3>2, <3>4, <3>6 DEF Agree
  <2>. QED
    BY <2>1, <2>2
<1>3. ASSUME NEW j \in DOMAIN L, NEW r \in L[j].refs PROVE L[r.at].of = r.want
  <2>1. DOMAIN L = DomainOf(M, S)
    BY LinkDomain
  <2>2. CASE j \in DOMAIN M \ ErasedOf(M, S)
    <3>1. L[j].refs = {[want |-> q.want, arg |-> q.arg, at |-> AfterOf(M, S, q.at)] : q \in M[j].refs}
      BY <2>2, LinkStays
    <3>2. PICK q \in M[j].refs : r = [want |-> q.want, arg |-> q.arg, at |-> AfterOf(M, S, q.at)]
      BY <1>3, <3>1
    <3>3. q.at \in DOMAIN M /\ M[q.at].of = q.want
      BY <2>2, SymbolFacts DEF RefsRight
    <3>. QED
      BY <1>1, <3>2, <3>3
  <2>3. ASSUME NEW s \in MovedOf(M, S), j = Top(M) + s PROVE L[r.at].of = r.want
    <3>1. L[j].refs = {[want |-> q.want, arg |-> q.arg, at |-> IntoOf(M, S, q.at)] : q \in S[s].refs}
      BY <2>3, LinkMoves
    <3>2. PICK q \in S[s].refs : r = [want |-> q.want, arg |-> q.arg, at |-> IntoOf(M, S, q.at)]
      BY <1>3, <3>1
    <3>3. s \in DOMAIN S
      BY DEF MovedOf
    <3>4. q.at \in DOMAIN S /\ S[q.at].of = q.want
      BY <3>3, SymbolFacts DEF RefsRight
    <3>. QED
      BY <1>2, <3>2, <3>4
  <2>. QED
    BY <2>1, <2>2, <2>3 DEF DomainOf
<1>. QED
  BY <1>3 DEF RefsRight

\* Making a symbol private changes neither.
LEMMA PrivateBound ==
    ASSUME NEW p, NEW L \in ModulesOf(p), NEW t, NEW N, N = SetPrivate(L, t)
    PROVE  /\ RefsRight(L) => RefsRight(N)
           /\ Origins(L) => Origins(N)
<1>1. /\ DOMAIN N = DOMAIN L
      /\ \A j \in DOMAIN L :
           /\ N[j].of = L[j].of /\ N[j].name = L[j].name /\ (N[j].def <=> L[j].def)
           /\ N[j].refs = L[j].refs
           /\ N[j].ext => L[j].ext
  BY PrivateFacts
<1>2. ASSUME RefsRight(L), NEW j \in DOMAIN L, NEW r \in L[j].refs PROVE N[r.at].of = r.want
  <2>1. r.at \in DOMAIN L /\ L[r.at].of = r.want
    BY <1>2, SymbolFacts DEF RefsRight
  <2>. QED
    BY <1>1, <2>1
<1>3. ASSUME NEW j \in DOMAIN L, Origin(L[j]) PROVE Origin(N[j])
  BY <1>1, <1>3 DEF Origin
<1>. QED
  BY <1>1, <1>2, <1>3 DEF RefsRight, Origins

\* Linking brings no symbol from anywhere else.
LEMMA LinkOrigins ==
    ASSUME NEW p, NEW M \in ModulesOf(p), NEW S \in ModulesOf(p), Origins(M), Origins(S),
           NEW L, L = LinkModules(M, S)
    PROVE  Origins(L)
<1>1. ASSUME NEW j \in DOMAIN L PROVE Origin(L[j])
  <2>1. CASE j \in DOMAIN M /\ Like(L[j], M[j])
    BY <2>1, OriginLike DEF Origins
  <2>2. ASSUME NEW s \in MovedOf(M, S), Like(L[j], S[s]) PROVE Origin(L[j])
    <3>1. s \in DOMAIN S
      BY DEF MovedOf
    <3>. QED
      BY <2>2, <3>1, OriginLike DEF Origins
  <2>. QED
    BY <2>1, <2>2, LinkedSymbol
<1>. QED
  BY <1>1 DEF Origins

---------------------------------------------------------------------------
(* Programs whose names are apart.                                         *)

\* A name leads from an open object only to itself, among the open and the
\* extracted objects.
LEMMA ApartFacts ==
    ASSUME ProgOK, NamesApart, NEW o \in Objs(P), NEW q \in Objs(P), Name(o) = Name(q),
           Open(o), Open(q) \/ q \in P.jit
    PROVE  o = q
<1>1. P.name[o] = P.name[q]
  BY NameFacts
<1>. QED
  BY <1>1 DEF NamesApart, Open

\* The module embedded for an extracted object: its references are right,
\* and apart from its entry only open objects are external.
LEMMA EmbeddedBound ==
    ASSUME ProgOK, NEW o \in P.jit, NEW E, E = Embedded(o)
    PROVE  /\ RefsRight(E) /\ Origins(E)
           /\ \A q \in DOMAIN E : q \in Objs(P) /\ E[q].of = Code(q) /\ E[q].name = Name(q)
                                    /\ (E[q].ext => q = o \/ Open(q))
<1>1. o \in Objs(P)
  BY ProgFacts
<1>2. /\ DOMAIN E = AllOf(o) /\ AllOf(o) \subseteq Objs(P)
      /\ \A d \in DefsOf(o) : P.unit[d] = P.unit[o] /\ P.uses[d] \subseteq AllOf(o)
  BY <1>1, EmbeddedObjects, EmbeddedFields
<1>3. ASSUME NEW d \in DefsOf(o) PROVE d \in Referenced(o) /\ P.uses[d] \subseteq Referenced(o)
  BY <1>1, <1>2, ReferencedFacts DEF DefsOf
<1>4. AllOf(o) \subseteq Referenced(o)
  BY <1>3 DEF AllOf
<1>5. ASSUME NEW q \in AllOf(o), q \notin DefsOf(o) PROVE q \notin P.local \ P.vars
  <2>1. PICK d \in DefsOf(o) : q \in P.uses[d]
    BY <1>5 DEF AllOf
  <2>2. d \in Objs(P) /\ P.unit[d] = P.unit[o]
    BY <1>1, <1>2, EmbeddedObjects
  <2>3. P.unit[q] = P.unit[d] \/ q \notin P.local
    BY <2>1, <2>2, ProgFacts
  <2>. QED
    BY <1>4, <1>5, <2>2, <2>3 DEF DefsOf
<1>6. ASSUME NEW q \in DOMAIN E
      PROVE  /\ E[q].of = Code(q) /\ E[q].name = Name(q)
             /\ E[q].def <=> q \in DefsOf(o)
             /\ E[q].ext <=> (q = o \/ q \notin DefsOf(o) \/ o \in P.vars \/ q \in P.optnone)
  BY EmbeddedSymbol
<1>7. ASSUME NEW q \in DOMAIN E, E[q].ext PROVE q = o \/ Open(q)
  <2>1. CASE q \notin DefsOf(o)
    BY <1>2, <1>5, <1>7, <2>1 DEF Open
  <2>2. CASE o \in P.vars
    BY <1>2, <1>4, <2>2 DEF Open, Tabled
  <2>3. CASE q \in P.optnone
    BY <2>3 DEF Open
  <2>. QED
    BY <1>6, <1>7, <2>1, <2>2, <2>3
<1>8. ASSUME NEW q \in DOMAIN E PROVE Origin(E[q])
  <2>1. Code(q).n = 0 /\ Code(q).obj = q
    BY DEF Code, Thing
  <2>2. q \in DefsOf(o) /\ q \in P.vars => q \in P.jit
    BY DEF DefsOf
  <2>. QED
    BY <1>2, <1>5, <1>6, <2>1, <2>2 DEF Origin
<1>9. ASSUME NEW q \in DOMAIN E, NEW r \in E[q].refs PROVE E[r.at].of = r.want
  <2>1. E[q].refs = IF q \in DefsOf(o)
                    THEN {[want |-> Code(x), arg |-> 0, at |-> x] : x \in P.uses[q]} ELSE {}
    BY EmbeddedRefs
  <2>2. q \in DefsOf(o)
    BY <1>9, <2>1
  <2>3. PICK x \in P.uses[q] : r = [want |-> Code(x), arg |-> 0, at |-> x]
    BY <1>9, <2>1, <2>2
  <2>4. x \in DOMAIN E
    BY <1>2, <2>2, <2>3
  <2>. QED
    BY <1>6, <2>3, <2>4
<1>. QED
  BY <1>2, <1>6, <1>7, <1>8, <1>9 DEF RefsRight, Origins

\* The object of a symbol.
LEMMA SymbolObject ==
    ASSUME ProgOK, NEW M \in ModulesOf(P), NEW i \in DOMAIN M
    PROVE  /\ M[i].of.obj \in Objs(P) /\ M[i].of.n \in Nat
           /\ M[i].of = Thing(M[i].of.obj, M[i].of.n)
           /\ M[i].of.n = 0 => M[i].of = Code(M[i].of.obj)
<1>1. M[i].of \in ThingsOf(P)
  BY SymbolFacts
<1>2. Objs(P) = ObjsOf(P) /\ P.most \in Nat
  BY ProgFacts
<1>. QED
  BY <1>1, <1>2 DEF ThingsOf, Thing, Code

---------------------------------------------------------------------------
(* One step of linking.                                                    *)

\* The external symbols of the module of a request: those numbered in own,
\* which stand for the function itself, and open objects whose names are in
\* meet.
Outer(M, own, meet) ==
    \A i \in DOMAIN M : M[i].ext =>
        M[i].of.n = 0 /\ (i \in own \/ (Open(M[i].of.obj) /\ M[i].name \in meet))

\* The symbols of M and of N that have the same number.
SameCode(M, N) == \A i \in DOMAIN M \cap DOMAIN N : N[i].of = M[i].of

\* A module with entry s is linked, and the entry made private.
LEMMA LinkBound ==
    ASSUME NEW p, NEW M \in ModulesOf(p), NEW S \in ModulesOf(p), NEW s \in DOMAIN S,
           NEW L, L = LinkModules(M, S), NEW t, t = Top(M) + s, NEW N, N = SetPrivate(L, t),
           RefsRight(M), RefsRight(S), Origins(M), Origins(S), Agree(M, S),
           NEW own, NEW meet, Outer(M, own, meet),
           \A q \in DOMAIN S : S[q].ext /\ q # s =>
               S[q].of.n = 0 /\ Open(S[q].of.obj) /\ S[q].name \in meet
    PROVE  RefsRight(N) /\ Origins(N) /\ Outer(N, own, meet) /\ SameCode(M, N)
<1>1. L \in ModulesOf(p)
  BY LinkIsModule
<1>2. RefsRight(L) /\ Origins(L)
  BY LinkRefsRight, LinkOrigins
<1>3. RefsRight(N) /\ Origins(N)
  BY <1>1, <1>2, PrivateBound
<1>4. /\ DOMAIN N = DOMAIN L
      /\ \A j \in DOMAIN L :
           /\ N[j].of = L[j].of /\ N[j].name = L[j].name
           /\ N[j].ext => L[j].ext /\ j # t
  BY <1>1, PrivateFacts
<1>5. ASSUME NEW j \in DOMAIN L, L[j].ext, j # t
      PROVE  L[j].of.n = 0 /\ (j \in own \/ (Open(L[j].of.obj) /\ L[j].name \in meet))
  <2>1. CASE j \in DOMAIN M /\ Like(L[j], M[j])
    BY <1>5, <2>1 DEF Outer, Like
  <2>2. ASSUME NEW q \in MovedOf(M, S), j = Top(M) + q, Like(L[j], S[q])
        PROVE  L[j].of.n = 0 /\ Open(L[j].of.obj) /\ L[j].name \in meet
    <3>1. q \in DOMAIN S /\ q # s
      BY <1>5, <2>2 DEF MovedOf
    <3>. QED
      BY <1>5, <2>2, <3>1 DEF Like
  <2>. QED
    BY <2>1, <2>2, LinkedSymbol
<1>6. Outer(N, own, meet)
  BY <1>4, <1>5 DEF Outer
<1>7. ASSUME NEW i \in DOMAIN M, i \in DOMAIN L PROVE L[i].of = M[i].of
  <2>1. CASE Like(L[i], M[i])
    BY <2>1 DEF Like
  <2>2. ASSUME NEW q \in MovedOf(M, S), i = Top(M) + q PROVE FALSE
    <3>1. q \in Nat /\ q # 0
      BY SymbolFacts DEF MovedOf
    <3>2. Top(M) \in Nat /\ i <= Top(M) /\ i \in Nat
      BY TopFacts, SymbolFacts
    <3>. QED
      BY <2>2, <3>1, <3>2
  <2>. QED
    BY <1>7, <2>1, <2>2, LinkedSymbol
<1>8. SameCode(M, N)
  BY <1>4, <1>7 DEF SameCode
<1>. QED
  BY <1>3, <1>6, <1>8

\* A module M agrees with the one embedded for o, if the symbols that stand
\* for the function itself are extracted ones and meet o only if it is o.
LEMMA AgreeObject ==
    ASSUME ProgOK, NamesApart, NEW M \in ModulesOf(P), NEW o \in P.jit, NEW E, E = Embedded(o),
           Origins(M), NEW own, NEW meet, Outer(M, own, meet),
           \A i \in DOMAIN M \cap own : M[i].ext =>
               M[i].of.obj \in P.jit /\ (M[i].name = Name(o) => M[i].of = Code(o))
    PROVE  Agree(M, E)
<1>1. ASSUME NEW i \in DOMAIN M, NEW q \in DOMAIN E, M[i].ext, E[q].ext, M[i].name = E[q].name
      PROVE  M[i].of = E[q].of
  <2>1. PICK x : x = M[i].of.obj
    OBVIOUS
  <2>2. M[i].of.n = 0 /\ M[i].name = Name(x) /\ (i \in own \/ Open(x))
    BY <1>1, <2>1 DEF Outer, Origins, Origin
  <2>3. x \in Objs(P) /\ M[i].of = Code(x)
    BY <2>1, <2>2, SymbolObject
  <2>4. q \in Objs(P) /\ E[q].of = Code(q) /\ E[q].name = Name(q) /\ (q = o \/ Open(q))
    BY <1>1, EmbeddedBound
  <2>5. Name(x) = Name(q)
    BY <1>1, <2>2, <2>4
  <2>6. i \in own => x \in P.jit /\ (Name(x) = Name(o) => Code(x) = Code(o))
    BY <1>1, <2>1, <2>2, <2>3
  <2>7. CASE Open(q)
    <3>1. Open(x) \/ x \in P.jit
      BY <2>2, <2>6
    <3>2. q = x
      BY <2>3, <2>4, <2>5, <2>7, <3>1, ApartFacts
    <3>. QED
      BY <2>3, <2>4, <3>2
  <2>8. CASE Open(x)
    <3>1. Open(q) \/ q \in P.jit
      BY <2>4
    <3>2. x = q
      BY <2>3, <2>4, <2>5, <2>8, <3>1, ApartFacts
    <3>. QED
      BY <2>3, <2>4, <3>2
  <2>9. CASE q = o /\ i \in own
    BY <2>3, <2>4, <2>5, <2>6, <2>9
  <2>. QED
    BY <2>2, <2>4, <2>7, <2>8, <2>9
<1>. QED
  BY <1>1 DEF Agree

\* LinkPointerIfPossible, for an extracted object o.
LEMMA LinkObjectBound ==
    ASSUME ProgOK, NamesApart, NEW M \in ModulesOf(P), NEW o \in P.jit, NEW E, E = Embedded(o),
           NEW N, N = LinkObject(M, o),
           RefsRight(M), Origins(M), NEW own, NEW meet, Outer(M, own, meet),
           \A i \in DOMAIN M \cap own : M[i].ext =>
               M[i].of.obj \in P.jit /\ (M[i].name = Name(o) => M[i].of = Code(o)),
           \A q \in DOMAIN E : E[q].ext /\ q # o => E[q].name \in meet
    PROVE  RefsRight(N) /\ Origins(N) /\ Outer(N, own, meet) /\ SameCode(M, N)
<1>1. Agree(M, E)
  BY AgreeObject
<1>2. o \in Objs(P)
  BY ProgFacts
<1>3. PICK t : t = Top(M) + o
  OBVIOUS
<1>4. PICK L : L = LinkModules(M, E)
  OBVIOUS
<1>5. E \in ModulesOf(P) /\ o \in DOMAIN E /\ N = SetPrivate(L, t)
  BY <1>2, <1>3, <1>4, LinkObjectFacts
<1>6. RefsRight(E) /\ Origins(E)
  BY EmbeddedBound
<1>7. ASSUME NEW q \in DOMAIN E, E[q].ext, q # o
      PROVE  E[q].of.n = 0 /\ Open(E[q].of.obj) /\ E[q].name \in meet
  <2>1. E[q].of = Code(q) /\ Open(q)
    BY <1>7, EmbeddedBound
  <2>2. Code(q).n = 0 /\ Code(q).obj = q
    BY DEF Code, Thing
  <2>. QED
    BY <1>7, <2>1, <2>2
<1>. QED
  BY <1>1, <1>3, <1>4, <1>5, <1>6, <1>7, LinkBound

---------------------------------------------------------------------------
(* The module of a request for the function o, step by step.               *)

\* The symbols that stand for o.
OwnOf(M, o) == {i \in DOMAIN M : M[i].of = Code(o)}

\* While callees are linked: what has the name of o is o.
ResolveRight(M, o, args) ==
    /\ RefsRight(M) /\ Origins(M) /\ Outer(M, OwnOf(M, o), Meeting(o, args))
    /\ \A i \in DOMAIN M : M[i].name = Name(o) => M[i].of = Code(o)

\* While arguments are linked: t is o, unless it has been erased, and refs
\* are the references of the wrapper.
InlineRight(M, t, refs, o, args) ==
    /\ t \in Nat /\ t <= Top(M)
    /\ t \in DOMAIN M =>
         /\ RefsRight(M) /\ Origins(M) /\ Outer(M, {t}, Meeting(o, args)) /\ M[t].of = Code(o)
         /\ \A r \in refs : M[r.at].of = r.want

\* A finished module: what is external is open, or the entry.
MadeRight(M, entries) ==
    /\ RefsRight(M) /\ Origins(M)
    /\ \A i \in DOMAIN M : M[i].ext =>
         IF M[i].of.n = 0 THEN Open(M[i].of.obj) ELSE entries = <<M[i].name>>

\* Where Meeting gets its names from.
LEMMA MeetingFacts ==
    ASSUME NEW o, NEW args
    PROVE  /\ \A E : E = Embedded(o) => \A q \in DOMAIN E : E[q].ext /\ q # o => Name(q) \in Meeting(o, args)
           /\ \A S \in Linked(o, args) : \A i \in DOMAIN S :
                S[i].ext /\ S[i].of.n = 0 => S[i].name \in Meeting(o, args)
<1>1. \A E : E = Embedded(o) => \A q \in DOMAIN E : E[q].ext /\ q # o => Name(q) \in Meeting(o, args)
  BY DEF Meeting
<1>2. ASSUME NEW S \in Linked(o, args), NEW i \in DOMAIN S, S[i].ext, S[i].of.n = 0
      PROVE  S[i].name \in Meeting(o, args)
  <2>1. S[i].name \in {S[j].name : j \in {k \in DOMAIN S : S[k].ext /\ S[k].of.n = 0}}
    BY <1>2
  <2>. QED
    BY <2>1 DEF Meeting
<1>. QED
  BY <1>1, <1>2

\* A request starts with the module embedded for its function.
LEMMA CompileRight ==
    ASSUME ProgOK, NEW o \in P.jit, NEW args, NEW E, E = Embedded(o)
    PROVE  ResolveRight(E, o, args)
<1>1. o \in Objs(P)
  BY ProgFacts
<1>2. E \in ModulesOf(P) /\ o \in DOMAIN E /\ E[o].name = Name(o) /\ E[o].of = Code(o)
  BY <1>1, EmbeddedFacts
<1>3. /\ RefsRight(E) /\ Origins(E)
      /\ \A q \in DOMAIN E : E[q].of = Code(q) /\ E[q].name = Name(q) /\ (E[q].ext => q = o \/ Open(q))
  BY EmbeddedBound
<1>4. ASSUME NEW q \in DOMAIN E, E[q].ext
      PROVE  /\ E[q].of.n = 0
             /\ q \in OwnOf(E, o) \/ (Open(E[q].of.obj) /\ E[q].name \in Meeting(o, args))
  <2>1. E[q].of.n = 0 /\ E[q].of.obj = q
    <3>1. E[q].of = Code(q)
      BY <1>3
    <3>. QED
      BY <3>1 DEF Code, Thing
  <2>2. q # o => Name(q) \in Meeting(o, args)
    BY <1>4, MeetingFacts
  <2>. QED
    BY <1>2, <1>3, <1>4, <2>1, <2>2 DEF OwnOf
<1>5. \A q \in DOMAIN E : E[q].name = Name(o) => E[q].of = Code(o)
  BY <1>2, ModuleFacts DEF NamesDistinct
<1>. QED
  BY <1>3, <1>4, <1>5 DEF ResolveRight, Outer

\* A callee other than o has another name, and its module is one of those
\* that the request links.
LEMMA CalleeApart ==
    ASSUME ProgOK, Tracker, NEW o \in Objs(P), NEW q \in P.uses[o], q # o, NEW args,
           Name(q) \in DOMAIN byName
    PROVE  Name(q) # Name(o) /\ Embedded(byName[Name(q)]) \in Linked(o, args)
<1>1. q \in Objs(P)
  BY ProgFacts
<1>2. P.name[q] # P.name[o]
  BY <1>1, ProgFacts
<1>3. Name(q) # Name(o)
  BY <1>1, <1>2, NameFacts
<1>4. Name(q) \in {Name(x) : x \in P.uses[o] \ {o}}
  OBVIOUS
<1>. QED
  BY <1>3, <1>4 DEF Linked

\* A symbol of N with the name of an object has it from M or from E.
LEMMA LinkObjectNames ==
    ASSUME ProgOK, NEW M \in ModulesOf(P), NEW o \in Objs(P), NEW E, E = Embedded(o),
           NEW N, N = LinkObject(M, o), NEW x \in Objs(P), Named(M, Name(x)) # {},
           NEW j \in DOMAIN N, N[j].name = Name(x)
    PROVE  \/ j \in DOMAIN M /\ M[j].name = Name(x) /\ N[j].of = M[j].of
           \/ \E q \in DOMAIN E : E[q].ext /\ E[q].name = Name(x) /\ N[j].of = E[q].of
<1>1. PICK t : t = Top(M) + o
  OBVIOUS
<1>2. PICK L : L = LinkModules(M, E)
  OBVIOUS
<1>3. E \in ModulesOf(P) /\ N = SetPrivate(L, t)
  BY <1>1, <1>2, LinkObjectFacts
<1>4. L \in ModulesOf(P)
  BY <1>2, <1>3, LinkIsModule
<1>5. DOMAIN N = DOMAIN L /\ N[j].of = L[j].of /\ N[j].name = L[j].name
  BY <1>3, <1>4, PrivateFacts
<1>6. L[j].name[2] = 0 /\ L[j].name = Name(x) /\ j \in DOMAIN L
  BY <1>5, NameFacts
<1>7. /\ j \in Nat /\ j # 0
      /\ \/ FreshName(M, E, L, j) \/ KeptName(M, E, L, j)
         \/ \E q \in MovedOf(M, E) : BroughtName(M, E, L, j, q)
  BY <1>2, <1>3, <1>6, LinkedNames
<1>8. ~FreshName(M, E, L, j)
  BY <1>6, <1>7 DEF FreshName, Named
<1>9. CASE KeptName(M, E, L, j)
  <2>1. j \in DOMAIN M \ ErasedOf(M, E) /\ L[j].name = M[j].name
    BY <1>9 DEF KeptName
  <2>2. L[j].of = M[j].of
    BY <1>2, <1>3, <2>1, LinkStays
  <2>. QED
    BY <1>5, <1>6, <2>1, <2>2
<1>10. ASSUME NEW q \in MovedOf(M, E), BroughtName(M, E, L, j, q)
       PROVE  q \in DOMAIN E /\ E[q].ext /\ E[q].name = Name(x) /\ N[j].of = E[q].of
  <2>1. j = Top(M) + q /\ L[j].name = E[q].name /\ (E[q].ext \/ Named(M, E[q].name) = {})
    BY <1>10 DEF BroughtName
  <2>2. L[j].of = E[q].of
    BY <1>2, <1>3, <2>1, LinkMoves
  <2>3. q \in DOMAIN E
    BY DEF MovedOf
  <2>. QED
    BY <1>5, <1>6, <2>1, <2>2, <2>3
<1>. QED
  BY <1>7, <1>8, <1>9, <1>10

\* ResolveModule links a callee q.
LEMMA ResolveRightStep ==
    ASSUME ProgOK, Tracker, NamesApart, NEW o \in functions, NEW args, NEW q \in P.uses[o],
           q = o => byName[Name(o)] = o,
           NEW M \in ModulesOf(P), Named(M, Name(o)) # {}, ResolveRight(M, o, args),
           NEW N, N = LinkByName(M, Name(q))
    PROVE  ResolveRight(N, o, args)
<1>1. o \in Objs(P) /\ o \in P.jit
  BY ProgFacts DEF Tracker
<1>2. CASE Name(q) \notin DOMAIN byName
  BY <1>2 DEF LinkByName, GetAddress
<1>3. CASE Name(q) \in DOMAIN byName
  <2>1. PICK b : b = byName[Name(q)]
    OBVIOUS
  <2>2. b \in Objs(P) /\ b \in P.jit /\ b # NoObject /\ Name(b) = Name(q)
    BY <1>3, <2>1, TrackerFacts, ProgFacts DEF Tracker
  <2>3. N = LinkObject(M, b)
    BY <1>3, <2>1, <2>2 DEF LinkByName, GetAddress
  <2>4. Name(b) = Name(o) => b = o
    BY <1>1, <1>3, <2>1, <2>2, CalleeApart
  <2>5. PICK E : E = Embedded(b)
    OBVIOUS
  <2>6. ASSUME NEW x \in DOMAIN E, E[x].ext, x # b PROVE E[x].name \in Meeting(o, args)
    <3>1. E[x].name = Name(x) /\ E[x].of = Code(x)
      BY <2>2, <2>5, EmbeddedBound
    <3>2. CASE q = o
      <4>1. b = o
        BY <2>1, <3>2
      <4>. QED
        BY <2>5, <2>6, <3>1, <4>1, MeetingFacts
    <3>3. CASE q # o
      <4>1. E \in Linked(o, args)
        BY <1>1, <1>3, <2>1, <2>5, <3>3, CalleeApart
      <4>2. E[x].of.n = 0
        BY <3>1 DEF Code, Thing
      <4>. QED
        BY <2>6, <4>1, <4>2, MeetingFacts
    <3>. QED
      BY <3>2, <3>3
  <2>7. PICK own : own = OwnOf(M, o)
    OBVIOUS
  <2>8. /\ RefsRight(M) /\ Origins(M) /\ Outer(M, own, Meeting(o, args))
        /\ \A i \in DOMAIN M : M[i].name = Name(o) => M[i].of = Code(o)
    BY <2>7 DEF ResolveRight
  <2>9. ASSUME NEW i \in DOMAIN M \cap own, M[i].ext
        PROVE  M[i].of.obj \in P.jit /\ (M[i].name = Name(b) => M[i].of = Code(b))
    <3>1. M[i].of = Code(o)
      BY <2>7 DEF OwnOf
    <3>2. M[i].of.obj = o /\ M[i].of.n = 0
      BY <3>1 DEF Code, Thing
    <3>3. M[i].name = Name(o)
      BY <2>8, <2>9, <3>2 DEF Origins, Origin
    <3>. QED
      BY <1>1, <2>4, <3>1, <3>2, <3>3
  <2>10. PICK meet : meet = Meeting(o, args)
    OBVIOUS
  <2>11. RefsRight(N) /\ Origins(N) /\ Outer(N, own, meet) /\ SameCode(M, N)
    <3>1. Outer(M, own, meet) /\ \A x \in DOMAIN E : E[x].ext /\ x # b => E[x].name \in meet
      BY <2>6, <2>8, <2>10
    <3>. QED
      BY <2>2, <2>3, <2>5, <2>8, <2>9, <3>1, LinkObjectBound
  <2>12. Outer(N, OwnOf(N, o), meet)
    <3>1. own \subseteq DOMAIN M /\ \A i \in own : M[i].of = Code(o)
      BY <2>7 DEF OwnOf
    <3>2. \A i \in own : i \in DOMAIN N => i \in OwnOf(N, o)
      BY <2>11, <3>1 DEF SameCode, OwnOf
    <3>. QED
      BY <2>11, <3>2 DEF Outer
  <2>13. ASSUME NEW j \in DOMAIN N, N[j].name = Name(o) PROVE N[j].of = Code(o)
    <3>1. \/ j \in DOMAIN M /\ M[j].name = Name(o) /\ N[j].of = M[j].of
          \/ \E x \in DOMAIN E : E[x].ext /\ E[x].name = Name(o) /\ N[j].of = E[x].of
      BY <1>1, <2>2, <2>3, <2>5, <2>13, LinkObjectNames
    <3>2. ASSUME NEW x \in DOMAIN E, E[x].ext, E[x].name = Name(o) PROVE E[x].of = Code(o)
      <4>1. x \in Objs(P) /\ E[x].of = Code(x) /\ E[x].name = Name(x) /\ (x = b \/ Open(x))
        BY <2>2, <2>5, <3>2, EmbeddedBound
      <4>2. CASE x = b
        BY <2>4, <3>2, <4>1, <4>2
      <4>3. CASE Open(x)
        <5>1. x = o
          BY <1>1, <3>2, <4>1, <4>3, ApartFacts
        <5>. QED
          BY <4>1, <5>1
      <4>. QED
        BY <4>1, <4>2, <4>3
    <3>. QED
      BY <2>8, <3>1, <3>2
  <2>. QED
    BY <2>10, <2>11, <2>12, <2>13 DEF ResolveRight
<1>. QED
  BY <1>2, <1>3

\* EmitCodes changes no binding, and InlineParameters finds o.
LEMMA EmitRight ==
    ASSUME ProgOK, NEW o \in Objs(P), NEW args, NEW M \in ModulesOf(P), Named(M, Name(o)) # {},
           ResolveRight(M, o, args), NEW t, t = GetNamedValue(M, Name(o)), NEW b \in P.bytes,
           NEW N, N = Stubbed(M, t, b)
    PROVE  InlineRight(N, t, {}, o, args)
<1>1. t \in DOMAIN M /\ M[t].name = Name(o)
  BY Lookup
<1>2. /\ N \in ModulesOf(P) /\ DOMAIN N = DOMAIN M
      /\ \A j \in DOMAIN M :
           /\ N[j].of = M[j].of /\ N[j].name = M[j].name
           /\ (N[j].def <=> M[j].def) /\ (N[j].ext <=> M[j].ext) /\ N[j].refs = M[j].refs
  <2>1. N \in ModulesOf(P) /\ DOMAIN N = DOMAIN M
    BY <1>1, StubbedFacts
  <2>. QED
    BY <1>1, <2>1, StubbedFacts
<1>3. t \in Nat /\ t <= Top(N)
  BY <1>1, <1>2, TopFacts, SymbolFacts
<1>4. /\ RefsRight(M) /\ Origins(M) /\ Outer(M, OwnOf(M, o), Meeting(o, args)) /\ M[t].of = Code(o)
  BY <1>1 DEF ResolveRight
<1>5. RefsRight(N)
  <2>1. ASSUME NEW j \in DOMAIN M, NEW r \in M[j].refs PROVE N[r.at].of = r.want
    <3>1. r.at \in DOMAIN M /\ M[r.at].of = r.want
      BY <1>4, SymbolFacts DEF RefsRight
    <3>. QED
      BY <1>2, <3>1
  <2>. QED
    BY <1>2, <2>1 DEF RefsRight
<1>6. Origins(N)
  BY <1>2, <1>4 DEF Origins, Origin
<1>7. ASSUME NEW i \in OwnOf(M, o), M[i].ext PROVE i = t
  <2>1. i \in DOMAIN M /\ M[i].of = Code(o) /\ Origin(M[i])
    BY <1>4 DEF OwnOf, Origins
  <2>2. M[i].of.n = 0 /\ M[i].of.obj = o
    BY <2>1 DEF Code, Thing
  <2>3. M[i].name = M[t].name
    BY <1>1, <1>7, <2>1, <2>2 DEF Origin
  <2>. QED
    BY <1>1, <2>1, <2>3, ModuleFacts DEF NamesDistinct
<1>8. Outer(N, {t}, Meeting(o, args))
  BY <1>2, <1>4, <1>7 DEF Outer
<1>. QED
  BY <1>1, <1>2, <1>3, <1>4, <1>5, <1>6, <1>8 DEF InlineRight

\* An argument with entry s is linked and passed.
LEMMA PassRight ==
    ASSUME ProgOK, NEW o, NEW args, NEW M \in ModulesOf(P), NEW S \in ModulesOf(P),
           NEW s \in DOMAIN S, S[s].def, S[s].ext, NEW t, NEW refs, InlineRight(M, t, refs, o, args),
           \A r \in refs : r.at \in DOMAIN M /\ ~M[r.at].ext,
           NEW g, g = Top(M) + s, NEW N, N = SetPrivate(LinkModules(M, S), g),
           RefsRight(S), Origins(S),
           t \in DOMAIN M \ ErasedOf(M, S) => Agree(M, S),
           \A q \in DOMAIN S : S[q].ext /\ q # s =>
               S[q].of.n = 0 /\ Open(S[q].of.obj) /\ S[q].name \in Meeting(o, args),
           NEW r, r.at = g, r.want = S[s].of
    PROVE  InlineRight(N, t, refs \cup {r}, o, args)
<1>1. PICK L : L = LinkModules(M, S)
  OBVIOUS
<1>2. /\ N \in ModulesOf(P) /\ g \in DOMAIN N /\ N[g].of = S[s].of
      /\ \A i \in DOMAIN M : ~M[i].ext => i \in DOMAIN N
  BY <1>1, LinkEntry
<1>3. L \in ModulesOf(P)
  BY <1>1, LinkIsModule
<1>4. DOMAIN N = DomainOf(M, S)
  <2>1. DOMAIN N = DOMAIN L
    BY <1>1, <1>3, PrivateFacts
  <2>2. DOMAIN L = DomainOf(M, S)
    BY <1>1, LinkDomain
  <2>. QED
    BY <2>1, <2>2
<1>5. t \in Nat /\ t <= Top(M) /\ Top(M) \in Nat /\ s \in Nat /\ s # 0
  BY TopFacts, SymbolFacts DEF InlineRight
<1>6. t <= Top(N)
  <2>1. g \in Nat /\ g <= Top(N) /\ Top(N) \in Nat
    BY <1>2, TopFacts, SymbolFacts
  <2>. QED
    BY <1>5, <2>1
<1>7. ASSUME t \in DOMAIN N PROVE t \in DOMAIN M \ ErasedOf(M, S)
  <2>1. ASSUME NEW q \in MovedOf(M, S), t = Top(M) + q PROVE FALSE
    <3>1. q \in Nat /\ q # 0
      BY SymbolFacts DEF MovedOf
    <3>. QED
      BY <1>5, <2>1, <3>1
  <2>. QED
    BY <1>4, <1>7, <2>1 DEF DomainOf
<1>8. ASSUME t \in DOMAIN N
      PROVE  /\ RefsRight(N) /\ Origins(N) /\ Outer(N, {t}, Meeting(o, args)) /\ N[t].of = Code(o)
             /\ \A x \in refs \cup {r} : N[x.at].of = x.want
  <2>1. /\ RefsRight(M) /\ Origins(M) /\ Outer(M, {t}, Meeting(o, args)) /\ M[t].of = Code(o)
        /\ \A x \in refs : M[x.at].of = x.want
        /\ t \in DOMAIN M /\ Agree(M, S)
    BY <1>7, <1>8 DEF InlineRight
  <2>2. PICK own, meet : own = {t} /\ meet = Meeting(o, args)
    OBVIOUS
  <2>3. /\ Outer(M, own, meet)
        /\ \A q \in DOMAIN S : S[q].ext /\ q # s =>
              S[q].of.n = 0 /\ Open(S[q].of.obj) /\ S[q].name \in meet
    BY <2>1, <2>2
  <2>4. N = SetPrivate(L, g)
    BY <1>1
  <2>5. RefsRight(N) /\ Origins(N) /\ Outer(N, own, meet) /\ SameCode(M, N)
    BY <1>1, <2>1, <2>3, <2>4, LinkBound
  <2>6. ASSUME NEW x \in refs PROVE N[x.at].of = x.want
    BY <1>2, <2>1, <2>5 DEF SameCode
  <2>. QED
    BY <1>2, <1>8, <2>1, <2>2, <2>5, <2>6 DEF SameCode
<1>. QED
  BY <1>5, <1>6, <1>8 DEF InlineRight

\* A pointer to the registered object x is linked and passed.
LEMMA PointerRight ==
    ASSUME ProgOK, Tracker, NamesApart, NEW o \in functions, NEW args, NEW M \in ModulesOf(P),
           NEW x \in functions, NEW a \in Range(args), a.kind = "ptr", a.x = x,
           NEW t, NEW refs, InlineRight(M, t, refs, o, args),
           \A r \in refs : r.at \in DOMAIN M /\ ~M[r.at].ext,
           NEW g, g = Top(M) + x, NEW N, N = LinkObject(M, x),
           NEW r, r.at = g, r.want = Code(x)
    PROVE  InlineRight(N, t, refs \cup {r}, o, args)
<1>1. o \in P.jit /\ x \in P.jit /\ x \in Objs(P)
  BY ProgFacts DEF Tracker
<1>2. PICK E : E = Embedded(x)
  OBVIOUS
<1>3. E \in ModulesOf(P) /\ x \in DOMAIN E /\ E[x].def /\ E[x].ext /\ N = SetPrivate(LinkModules(M, E), g)
  BY <1>1, <1>2, LinkObjectFacts
<1>4. /\ RefsRight(E) /\ Origins(E)
      /\ \A q \in DOMAIN E : E[q].of = Code(q) /\ E[q].name = Name(q) /\ (E[q].ext => q = x \/ Open(q))
  BY <1>1, <1>2, EmbeddedBound
<1>5. E \in Linked(o, args)
  BY <1>2 DEF Linked
<1>6. ASSUME NEW q \in DOMAIN E, E[q].ext, q # x
      PROVE  E[q].of.n = 0 /\ Open(E[q].of.obj) /\ E[q].name \in Meeting(o, args)
  <2>1. E[q].of = Code(q) /\ Open(q)
    BY <1>4, <1>6
  <2>2. Code(q).n = 0 /\ Code(q).obj = q
    BY DEF Code, Thing
  <2>. QED
    BY <1>5, <1>6, <2>1, <2>2, MeetingFacts
<1>7. ASSUME t \in DOMAIN M \ ErasedOf(M, E) PROVE Agree(M, E)
  <2>1. PICK own, meet : own = {t} /\ meet = Meeting(o, args)
    OBVIOUS
  <2>2. Origins(M) /\ Outer(M, own, meet) /\ M[t].of = Code(o)
    BY <1>7, <2>1 DEF InlineRight
  <2>3. ASSUME NEW i \in DOMAIN M \cap own, M[i].ext
        PROVE  M[i].of.obj \in P.jit /\ (M[i].name = Name(x) => M[i].of = Code(x))
    <3>1. i = t /\ M[i].of.obj = o
      BY <2>1, <2>2 DEF Code, Thing
    <3>2. M[i].name # Name(x)
      <4>1. E[x].name = Name(x) /\ x \in MovedOf(M, E)
        BY <1>3, <1>4 DEF MovedOf, MergedOf
      <4>. QED
        BY <1>3, <1>7, <2>3, <3>1, <4>1 DEF ErasedOf, PeerOf
    <3>. QED
      BY <1>1, <3>1, <3>2
  <2>. QED
    BY <1>1, <1>2, <2>2, <2>3, AgreeObject
<1>8. /\ E \in ModulesOf(P) /\ x \in DOMAIN E /\ E[x].def /\ E[x].ext /\ r.want = E[x].of
      /\ RefsRight(E) /\ Origins(E) /\ N = SetPrivate(LinkModules(M, E), g)
  BY <1>3, <1>4
<1>. QED
  BY <1>6, <1>7, <1>8, PassRight

\* An easy::Function with module S and the entry s is linked and passed,
\* if nothing else has the name of its entry.
LEMMA ComposedRight ==
    ASSUME ProgOK, Tracker, NamesApart, NEW o \in functions, NEW args, NEW M \in ModulesOf(P),
           NEW S \in ModulesOf(P), S \in Linked(o, args),
           NEW nm, MadeRight(S, <<nm>>), nm \notin Meeting(o, args),
           NEW s \in DOMAIN S, S[s].def, S[s].ext, S[s].name = nm,
           NEW t, NEW refs, InlineRight(M, t, refs, o, args),
           \A r \in refs : r.at \in DOMAIN M /\ ~M[r.at].ext,
           NEW g, g = Top(M) + s, NEW N, N = SetPrivate(LinkModules(M, S), g),
           NEW r, r.at = g, r.want = S[s].of
    PROVE  InlineRight(N, t, refs \cup {r}, o, args)
<1>1. o \in P.jit
  BY DEF Tracker
<1>2. /\ RefsRight(S) /\ Origins(S)
      /\ \A q \in DOMAIN S : S[q].ext => IF S[q].of.n = 0 THEN Open(S[q].of.obj) ELSE S[q].name = nm
  BY DEF MadeRight
<1>3. ASSUME NEW q \in DOMAIN S, S[q].ext, q # s
      PROVE  S[q].of.n = 0 /\ Open(S[q].of.obj) /\ S[q].name \in Meeting(o, args)
  <2>1. S[q].name # nm
    BY <1>3, ModuleFacts DEF NamesDistinct
  <2>2. S[q].of.n = 0 /\ Open(S[q].of.obj)
    BY <1>2, <1>3, <2>1
  <2>. QED
    BY <1>3, <2>2, MeetingFacts
<1>4. ASSUME t \in DOMAIN M \ ErasedOf(M, S) PROVE Agree(M, S)
  <2>1. Origins(M) /\ Outer(M, {t}, Meeting(o, args)) /\ M[t].of = Code(o)
    BY <1>4 DEF InlineRight
  <2>2. ASSUME NEW i \in DOMAIN M, NEW q \in DOMAIN S, M[i].ext, S[q].ext, M[i].name = S[q].name
        PROVE  M[i].of = S[q].of
    <3>1. PICK x : x = M[i].of.obj
      OBVIOUS
    <3>2. M[i].of.n = 0 /\ M[i].name = Name(x) /\ (i = t \/ (Open(x) /\ M[i].name \in Meeting(o, args)))
      BY <2>1, <2>2, <3>1 DEF Outer, Origins, Origin
    <3>3. x \in Objs(P) /\ M[i].of = Code(x)
      BY <3>1, <3>2, SymbolObject
    <3>4. Open(x) \/ x \in P.jit
      <4>1. i = t => x = o
        BY <2>1, <3>1 DEF Code, Thing
      <4>. QED
        BY <1>1, <3>2, <4>1
    <3>5. CASE S[q].of.n = 0
      <4>1. PICK y : y = S[q].of.obj
        OBVIOUS
      <4>2. S[q].name = Name(y) /\ Open(y) /\ y \in Objs(P) /\ S[q].of = Code(y)
        BY <1>2, <2>2, <3>5, <4>1, SymbolObject DEF Origins, Origin
      <4>3. Name(y) = Name(x)
        BY <2>2, <3>2, <4>2
      <4>4. y = x
        BY <3>3, <3>4, <4>2, <4>3, ApartFacts
      <4>. QED
        BY <3>3, <4>2, <4>4
    <3>6. CASE S[q].of.n # 0
      <4>1. S[q].name = nm /\ S[q].def
        BY <1>2, <2>2, <3>6 DEF Origins, Origin
      <4>2. i = t
        BY <2>2, <3>2, <4>1
      <4>3. q \in MovedOf(M, S)
        BY <4>1 DEF MovedOf, MergedOf
      <4>4. t \in ErasedOf(M, S)
        BY <2>2, <4>2, <4>3 DEF ErasedOf, PeerOf
      <4>. QED
        BY <1>4, <4>4
    <3>. QED
      BY <3>5, <3>6
  <2>. QED
    BY <2>2 DEF Agree
<1>. QED
  BY <1>2, <1>3, <1>4, PassRight

\* CreateWrapperFun binds the wrapper, and leaves it the only entry.
LEMMA WrapRight ==
    ASSUME ProgOK, NEW o, NEW args, NEW M \in ModulesOf(P), NEW t \in DOMAIN M, NEW refs,
           InlineRight(M, t, refs, o, args), \A r \in refs : r.at \in DOMAIN M,
           NEW w, NEW x, NEW N, Wrapping(P, M, t, w, x, N),
           x.of.n # 0, x.def, x.of.obj = o,
           NEW nm, x.name = nm, NEW rt, rt.want = Code(o), rt.at = t, x.refs = refs \cup {rt}
    PROVE  MadeRight(N, <<nm>>)
<1>1. /\ RefsRight(M) /\ Origins(M) /\ Outer(M, {t}, Meeting(o, args)) /\ M[t].of = Code(o)
      /\ \A r \in refs : M[r.at].of = r.want
  BY DEF InlineRight
<1>2. /\ N \in ModulesOf(P) /\ w \notin DOMAIN M /\ w \in DOMAIN N /\ N[w] = x
      /\ \A i \in DOMAIN N : i \in DOMAIN M \/ i = w
  BY WrappedFacts
<1>3. \A i \in DOMAIN M :
        /\ i \in DOMAIN N
        /\ i # t => N[i] = M[i]
        /\ N[i].of = M[i].of /\ (N[i].def <=> M[i].def)
        /\ N[i].refs = M[i].refs
        /\ i = t => ~N[i].ext
  BY WrappedFacts
<1>4. ASSUME NEW i \in DOMAIN M, NEW r \in M[i].refs PROVE N[r.at].of = r.want
  <2>1. r.at \in DOMAIN M /\ M[r.at].of = r.want
    BY <1>1, SymbolFacts DEF RefsRight
  <2>. QED
    BY <1>3, <2>1
<1>5. ASSUME NEW r \in x.refs PROVE N[r.at].of = r.want
  <2>1. r \in refs \/ r = rt
    OBVIOUS
  <2>. QED
    BY <1>1, <1>3, <2>1
<1>6. RefsRight(N)
  BY <1>2, <1>3, <1>4, <1>5 DEF RefsRight
<1>7. ASSUME NEW i \in DOMAIN M PROVE Origin(N[i])
  <2>1. Origin(M[i])
    BY <1>1 DEF Origins
  <2>. QED
    BY <1>3, <2>1 DEF Origin
<1>8. Origins(N)
  <2>1. Origin(x)
    BY DEF Origin
  <2>. QED
    BY <1>2, <1>7, <2>1 DEF Origins
<1>9. ASSUME NEW i \in DOMAIN N, N[i].ext
      PROVE  IF N[i].of.n = 0 THEN Open(N[i].of.obj) ELSE N[i].name = nm
  <2>1. CASE i = w
    BY <1>2, <2>1
  <2>2. CASE i # w
    <3>1. i \in DOMAIN M /\ i # t /\ N[i] = M[i]
      BY <1>2, <1>3, <1>9, <2>2
    <3>. QED
      BY <1>1, <1>9, <3>1 DEF Outer
  <2>. QED
    BY <2>1, <2>2
<1>. QED
  BY <1>6, <1>8, <1>9 DEF MadeRight

\* The symbol x is a wrapper of o: it calls t, and passes refs.
IsWrapper(x, o, t, refs) ==
    /\ x.of.n # 0 /\ x.of.obj = o /\ x.def
    /\ \E rt : rt.want = Code(o) /\ rt.arg = 0 /\ rt.at = t /\ x.refs = refs \cup {rt}

\* The entry is marked once.
OnlyEntry(entries, nm) == entries = <<nm>>

\* The references are inside a module.
RefsAt(refs, M) == \A r \in refs : r.at \in DOMAIN M

\* CreateWrapperFun, with its wrapper as the only entry.
LEMMA WrapMarked ==
    ASSUME ProgOK, NEW o, NEW args, NEW M, NEW t, NEW refs,
           InlineRight(M, t, refs, o, args), RefsAt(refs, M),
           NEW w, NEW x, NEW N, Wrapping(P, M, t, w, x, N), IsWrapper(x, o, t, refs),
           NEW es, OnlyEntry(es, x.name)
    PROVE  MadeRight(N, es)
<1>1. M \in ModulesOf(P) /\ t \in DOMAIN M
  BY DEF Wrapping
<1>2. PICK rt : rt.want = Code(o) /\ rt.at = t /\ x.refs = refs \cup {rt}
  BY DEF IsWrapper
<1>3. x.of.n # 0 /\ x.def /\ x.of.obj = o
  BY DEF IsWrapper
<1>4. \A r \in refs : r.at \in DOMAIN M
  BY DEF RefsAt
<1>5. PICK nm : nm = x.name
  OBVIOUS
<1>6. MadeRight(N, <<nm>>)
  BY <1>1, <1>2, <1>3, <1>4, <1>5, WrapRight
<1>7. es = <<nm>>
  BY <1>5 DEF OnlyEntry
<1>. QED
  BY <1>6, <1>7

\* The symbol that CreateWrapperFun makes is a wrapper.
LEMMA WrapperIs ==
    ASSUME NEW c, NEW nm, NEW n, n # 0, NEW x, x = WrapperOf(c, n, nm)
    PROVE  IsWrapper(x, c.fun, c.target, c.refs) /\ x.of = Thing(c.fun, n) /\ x.name = nm
<1>1. PICK rt, o : rt = [want |-> Code(o), arg |-> 0, at |-> c.target] /\ o = c.fun
  OBVIOUS
<1>2. PICK th : th = Thing(o, n)
  OBVIOUS
<1>3. th.n # 0 /\ th.obj = o
  BY <1>2 DEF Thing
<1>4. x.of = th /\ x.def /\ x.refs = c.refs \cup {rt} /\ x.name = nm
  BY <1>1, <1>2 DEF WrapperOf
<1>5. rt.want = Code(o) /\ rt.arg = 0 /\ rt.at = c.target
  BY <1>1
<1>. QED
  BY <1>1, <1>2, <1>3, <1>4, <1>5 DEF IsWrapper

\* The record of the request that CreateWrapperFun leaves.
LEMMA MarkedOnce ==
    ASSUME NEW c \in CurRecords(P), CurOK(c), c.pc = "inline", NEW N \in ModulesOf(P), NEW nm \in Names,
           NEW d, d = Marked(c, N, nm)
    PROVE  /\ d.pc = "codegen" /\ d.mod = N /\ d.fun = c.fun /\ d.args = c.args /\ d.bytes = c.bytes
           /\ OnlyEntry(d.entries, nm)
<1>1. c.entries = <<>>
  BY DEF CurOK
<1>2. /\ d.pc = "codegen" /\ d.mod = N /\ d.fun = c.fun /\ d.args = c.args /\ d.bytes = c.bytes
      /\ d.entries = <<nm>>
  BY <1>1, MarkedFacts
<1>. QED
  BY <1>2 DEF OnlyEntry

---------------------------------------------------------------------------
(* The invariant about bindings.                                           *)

\* A request c in progress.
CurRight(c) ==
    /\ c.pc = "resolve" => ResolveRight(c.mod, c.fun, c.args)
    /\ c.pc = "inline" => InlineRight(c.mod, c.target, c.refs, c.fun, c.args)
    /\ c.pc = "codegen" => MadeRight(c.mod, c.entries)

\* The request links no namesake in place of its function, and composes no
\* function with code that names the original.
Apart(o, args) == OwnModule(o) /\ Composable(o, args)

MadeBound == \A F \in Range(made) : MadeRight(F.mod, F.entries)
CurBound ==
    \A c \in {cur} :
        c.pc \in {"resolve", "inline", "codegen"} /\ Apart(c.fun, c.args) => CurRight(c)

BindInv == BoundApart => MadeBound /\ CurBound

---------------------------------------------------------------------------
(* What does not change, and what only grows.                              *)

\* The program is constant, and so is what a module means.
LEMMA RightSame ==
    ASSUME P' = P
    PROVE  /\ NamesApart' <=> NamesApart
           /\ \A q : Open(q)' <=> Open(q)
           /\ \A M : Origins(M)' <=> Origins(M)
           /\ \A M, e : MadeRight(M, e)' <=> MadeRight(M, e)
<1>1. Tabled' = Tabled
  BY DEF Tabled, Referenced, Objs
<1>2. NamesApart' <=> NamesApart
  BY <1>1 DEF NamesApart, Objs
<1>3. \A q : Open(q)' <=> Open(q)
  BY <1>1 DEF Open
<1>4. \A M : Origins(M)' <=> Origins(M)
  BY DEF Origins, Origin, Name
<1>5. \A M, e : MadeRight(M, e)' <=> MadeRight(M, e)
  BY <1>3, <1>4 DEF MadeRight, RefsRight
<1>. QED
  BY <1>2, <1>3, <1>4, <1>5

\* The names that meet only grow.
LEMMA MeetingGrows ==
    ASSUME Grown, NEW o, NEW args, ArgsOK(args), NEW nm \in Meeting(o, args)
    PROVE  nm \in Meeting(o, args)'
<1>1. P' = P
  BY DEF Grown
<1>2. PICK E : E = Embedded(o) /\ E = Embedded(o)'
  BY <1>1, StaticSame
<1>3. \/ nm \in {Name(q) : q \in {x \in DOMAIN E \ {o} : E[x].ext}}
      \/ \E S \in Linked(o, args) : \E i \in DOMAIN S : S[i].ext /\ S[i].of.n = 0 /\ nm = S[i].name
  BY <1>2 DEF Meeting
<1>4. CASE nm \in {Name(q) : q \in {x \in DOMAIN E \ {o} : E[x].ext}}
  <2>1. PICK q \in DOMAIN E \ {o} : E[q].ext /\ nm = Name(q)
    BY <1>4
  <2>2. nm = Name(q)'
    BY <1>1, <2>1, StaticSame
  <2>. QED
    BY <1>2, <2>1, <2>2 DEF Meeting
<1>5. ASSUME NEW S \in Linked(o, args), NEW i \in DOMAIN S, S[i].ext, S[i].of.n = 0, nm = S[i].name
      PROVE  nm \in Meeting(o, args)'
  <2>1. S \in Linked(o, args)'
    BY LinkedGrows
  <2>2. nm \in {S[j].name : j \in {k \in DOMAIN S : S[k].ext /\ S[k].of.n = 0}}
    BY <1>5
  <2>. QED
    BY <2>1, <2>2 DEF Meeting
<1>. QED
  BY <1>3, <1>4, <1>5

\* A request that is apart later was apart from the start.
LEMMA ApartBefore ==
    ASSUME Grown, Tracker, NEW o \in functions, NEW args, ArgsOK(args), Apart(o, args)'
    PROVE  Apart(o, args)
<1>1. P' = P
  BY DEF Grown
<1>2. OwnModule(o)
  <2>1. Name(o)' = Name(o) /\ (SelfCalls(o)' <=> SelfCalls(o))
    BY <1>1, StaticSame
  <2>2. Name(o) \in DOMAIN byName
    BY DEF Tracker
  <2>3. byName'[Name(o)] = byName[Name(o)]
    BY <2>2 DEF Grown
  <2>. QED
    BY <2>1, <2>3 DEF Apart, OwnModule
<1>3. ASSUME NEW a \in Range(args), a.kind = "mod"
      PROVE  GetEntryFunctionName(made[a.x].entries) \notin Meeting(o, args)
  <2>1. a.x \in DOMAIN made
    BY <1>3 DEF ArgsOK, Range
  <2>2. made'[a.x] = made[a.x]
    BY <2>1 DEF Grown
  <2>3. GetEntryFunctionName(made'[a.x].entries) \notin Meeting(o, args)'
    BY <1>3 DEF Apart, Composable, GetEntryFunctionName
  <2>. QED
    BY <2>2, <2>3, MeetingGrows
<1>. QED
  BY <1>2, <1>3 DEF Apart, Composable

\* So bindings that have to be right later had to be right before.
LEMMA BoundApartBefore ==
    ASSUME Grown, Tracker, MadeInv, BoundApart'
    PROVE  BoundApart
<1>1. P' = P
  BY DEF Grown
<1>2. NamesApart
  BY <1>1, RightSame DEF BoundApart
<1>3. ASSUME NEW f \in DOMAIN made PROVE Apart(made[f].thing.obj, made[f].args)
  <2>1. PICK F : F = made[f]
    OBVIOUS
  <2>2. F \in Range(made)
    BY <2>1 DEF Range
  <2>3. F.thing.obj \in functions /\ ArgsOK(F.args)
    BY <2>2 DEF MadeInv, MadeOK
  <2>4. f \in DOMAIN made' /\ made'[f] = F
    BY <2>1 DEF Grown
  <2>5. Apart(F.thing.obj, F.args)'
    <3>1. (\A g \in DOMAIN made : Apart(made[g].thing.obj, made[g].args))'
      BY DEF BoundApart, Apart
    <3>. QED
      BY <2>4, <3>1
  <2>6. Apart(F.thing.obj, F.args)
    BY <2>3, <2>5, ApartBefore
  <2>. QED
    BY <2>1, <2>6
<1>. QED
  BY <1>2, <1>3 DEF BoundApart, Apart

\* Of a request too, while nothing else changes.
LEMMA CurRightSame ==
    ASSUME UNCHANGED <<P, functions, byName, made>>, NEW c
    PROVE  (CurRight(c)' <=> CurRight(c)) /\ (Apart(c.fun, c.args)' <=> Apart(c.fun, c.args))
<1>1. P' = P /\ functions' = functions /\ byName' = byName /\ made' = made
  OBVIOUS
<1>2. PICK o, args : o = c.fun /\ args = c.args
  OBVIOUS
<1>3. Linked(o, args)' = Linked(o, args) /\ Embedded(o)' = Embedded(o)
  BY <1>1 DEF Linked, Embedded, Referenced, Name, Objs, Code, Thing
<1>4. Meeting(o, args)' = Meeting(o, args)
  BY <1>1, <1>3 DEF Meeting, Name
<1>5. Name(o)' = Name(o) /\ (SelfCalls(o)' <=> SelfCalls(o))
  BY <1>1, StaticSame
<1>6. Apart(o, args)' <=> Apart(o, args)
  BY <1>1, <1>4, <1>5 DEF Apart, OwnModule, Composable
<1>7. /\ \A q : Open(q)' <=> Open(q)
      /\ \A M : Origins(M)' <=> Origins(M)
      /\ \A M, e : MadeRight(M, e)' <=> MadeRight(M, e)
  BY <1>1, RightSame
<1>8. \A M, own, meet : Outer(M, own, meet)' <=> Outer(M, own, meet)
  BY <1>7 DEF Outer
<1>9. \A M : ResolveRight(M, o, args)' <=> ResolveRight(M, o, args)
  BY <1>4, <1>5, <1>7, <1>8 DEF ResolveRight, RefsRight, OwnOf, Code, Thing
<1>10. \A M, t, refs : InlineRight(M, t, refs, o, args)' <=> InlineRight(M, t, refs, o, args)
  BY <1>4, <1>7, <1>8 DEF InlineRight, RefsRight, Top, Code, Thing
<1>11. CurRight(c)' <=> CurRight(c)
  BY <1>2, <1>7, <1>9, <1>10 DEF CurRight
<1>. QED
  BY <1>2, <1>6, <1>11

\* The request becomes d.
LEMMA BindBecomes ==
    ASSUME UNCHANGED <<P, functions, byName, made>>, Tracker, MadeInv, BindInv, NEW d, cur' = d,
           NamesApart /\ MadeBound /\ CurBound /\ Apart(d.fun, d.args)
             /\ d.pc \in {"resolve", "inline", "codegen"} => CurRight(d)
    PROVE  BindInv'
<1>. SUFFICES ASSUME BoundApart' PROVE MadeBound' /\ CurBound'
  BY DEF BindInv
<1>1. P' = P /\ functions' = functions /\ byName' = byName /\ made' = made
  OBVIOUS
<1>2. Grown
  BY <1>1 DEF Grown
<1>3. BoundApart
  BY <1>2, BoundApartBefore
<1>4. NamesApart /\ MadeBound /\ CurBound
  BY <1>3 DEF BindInv, BoundApart
<1>5. MadeBound'
  BY <1>1, <1>4, RightSame DEF MadeBound, Range
<1>6. (CurRight(d)' <=> CurRight(d)) /\ (Apart(d.fun, d.args)' <=> Apart(d.fun, d.args))
  BY <1>1, CurRightSame
<1>7. d.pc \in {"resolve", "inline", "codegen"} /\ Apart(d.fun, d.args)' => CurRight(d)'
  BY <1>4, <1>6
<1>8. \A e \in {cur'} : e = d
  OBVIOUS
<1>. QED
  BY <1>5, <1>7, <1>8 DEF CurBound

---------------------------------------------------------------------------
(* The steps of a request.                                                 *)

\* A request starts.
LEMMA CompileBind ==
    ASSUME IndInv, BindInv, NEW o, NEW b, NEW dump, NEW args, Compile(o, args, b, dump)
    PROVE  BindInv'
<1>1. PICK E, todo, es : E = Embedded(o) /\ todo = [k \in DOMAIN P.calls[o] |-> Name(P.calls[o][k])] /\ es = <<>>
  OBVIOUS
<1>2. PICK d : d = [pc |-> "resolve", fun |-> o, args |-> args, bytes |-> b, dump |-> dump,
                    mod |-> E, todo |-> todo, target |-> 0, refs |-> {}, k |-> 1, entries |-> es]
  OBVIOUS
<1>3. /\ cur' = d /\ o \in functions /\ UNCHANGED <<P, functions, byName, made>>
  BY <1>1, <1>2 DEF Compile, HasGlobalMapping
<1>4. ProgOK /\ Tracker /\ MadeInv /\ o \in P.jit
  BY <1>3 DEF IndInv, Tracker
<1>5. ResolveRight(E, o, args)
  BY <1>1, <1>4, CompileRight
<1>6. d.pc = "resolve" /\ d.mod = E /\ d.fun = o /\ d.args = args
  BY <1>2
<1>7. CurRight(d)
  BY <1>5, <1>6 DEF CurRight
<1>. QED
  BY <1>3, <1>4, <1>7, BindBecomes

\* What is known of a request in progress.
LEMMA BusyBound ==
    ASSUME IndInv, NEW c, c = cur, c.pc \in {"resolve", "inline", "codegen"}
    PROVE  /\ ProgOK /\ Tracker /\ MadeInv /\ c \in CurRecords(P) /\ CurOK(c)
           /\ c.fun \in functions /\ c.fun \in Objs(P) /\ c.mod \in ModulesOf(P)
           /\ CurBound /\ Apart(c.fun, c.args) => CurRight(c)
<1>1. ProgOK /\ Tracker /\ MadeInv /\ c \in CurRecords(P) /\ CurOK(c)
  BY Busy DEF IndInv
<1>2. c.fun \in functions /\ c.mod \in ModulesOf(P)
  BY <1>1 DEF CurRecords, CurOK
<1>3. c.fun \in Objs(P)
  BY <1>1, <1>2, TrackerFacts
<1>. QED
  BY <1>1, <1>2, <1>3 DEF CurBound

\* ResolveModule.
LEMMA ResolveBind ==
    ASSUME IndInv, BindInv, ResolveNext
    PROVE  BindInv'
<1>1. PICK c, nm, td : c = cur /\ nm = Head(c.todo) /\ td = Tail(c.todo)
  OBVIOUS
<1>2. PICK N : N = LinkByName(c.mod, nm)
  OBVIOUS
<1>3. PICK d : d = [c EXCEPT !.mod = N, !.todo = td]
  OBVIOUS
<1>4. c.pc = "resolve" /\ c.todo # <<>> /\ cur' = d /\ UNCHANGED <<P, functions, byName, made>>
  BY <1>1, <1>2, <1>3 DEF ResolveNext
<1>5. /\ ProgOK /\ Tracker /\ MadeInv /\ c \in CurRecords(P) /\ CurOK(c)
      /\ c.fun \in functions /\ c.fun \in Objs(P) /\ c.mod \in ModulesOf(P)
      /\ CurBound /\ Apart(c.fun, c.args) => CurRight(c)
  BY <1>1, <1>4, BusyBound
<1>6. d.pc = "resolve" /\ d.mod = N /\ d.fun = c.fun /\ d.args = c.args
  BY <1>3, <1>4, <1>5 DEF CurRecords
<1>7. PICK i \in DOMAIN P.calls[c.fun] : nm = Name(P.calls[c.fun][i])
  <2>1. c.todo \in Seq(Names)
    BY <1>5 DEF CurRecords
  <2>2. 1 \in DOMAIN c.todo /\ c.todo[1] = nm
    BY <1>1, <1>4, <2>1
  <2>. QED
    BY <1>4, <1>5, <2>2 DEF CurOK
<1>8. PICK q : q = P.calls[c.fun][i]
  OBVIOUS
<1>9. q \in P.uses[c.fun]
  <2>1. P.calls[c.fun] \in Seq(P.uses[c.fun] \ P.vars)
    BY <1>5, ProgFacts
  <2>. QED
    BY <1>7, <1>8, <2>1
<1>10. Named(c.mod, Name(c.fun)) # {}
  BY <1>4, <1>5 DEF CurOK
<1>11. ASSUME NamesApart, CurBound, Apart(d.fun, d.args) PROVE CurRight(d)
  <2>1. Apart(c.fun, c.args)
    BY <1>6, <1>11
  <2>2. ResolveRight(c.mod, c.fun, c.args)
    BY <1>4, <1>5, <1>11, <2>1 DEF CurRight
  <2>3. q = c.fun => byName[Name(c.fun)] = c.fun
    BY <1>7, <1>8, <2>1 DEF Apart, OwnModule, SelfCalls
  <2>args. PICK args : args = c.args
    OBVIOUS
  <2>4. PICK M \in ModulesOf(P), o \in functions : M = c.mod /\ o = c.fun /\ args = c.args
    BY <1>5, <2>args
  <2>5. /\ Named(M, Name(o)) # {} /\ ResolveRight(M, o, args) /\ N = LinkByName(M, Name(q))
        /\ q \in P.uses[o] /\ (q = o => byName[Name(o)] = o)
    BY <1>2, <1>7, <1>8, <1>9, <1>10, <2>2, <2>3, <2>4
  <2>6. ResolveRight(N, o, args)
    BY <1>5, <1>11, <2>5, ResolveRightStep
  <2>. QED
    BY <1>6, <2>4, <2>6 DEF CurRight
<1>. QED
  BY <1>4, <1>5, <1>11, BindBecomes

\* EmitCodes.
LEMMA EmitBind ==
    ASSUME IndInv, BindInv, EmitCodes
    PROVE  BindInv'
<1>1. PICK c : c = cur
  OBVIOUS
<1>2. PICK i : i = GetNamedValue(c.mod, Name(c.fun))
  OBVIOUS
<1>3. PICK N : N = Stubbed(c.mod, i, c.bytes)
  OBVIOUS
<1>4. PICK d : d = [c EXCEPT !.pc = "inline", !.target = i, !.mod = N]
  OBVIOUS
<1>5. c.pc = "resolve" /\ UNCHANGED <<P, functions, byName, made>>
  BY <1>1 DEF EmitCodes
<1>6. /\ ProgOK /\ Tracker /\ MadeInv /\ c \in CurRecords(P) /\ CurOK(c)
      /\ c.fun \in functions /\ c.fun \in Objs(P) /\ c.mod \in ModulesOf(P)
      /\ CurBound /\ Apart(c.fun, c.args) => CurRight(c)
  BY <1>1, <1>5, BusyBound
<1>7. cur' = [c EXCEPT !.pc = "inline", !.target = i,
                       !.mod[i].asm = IF c.mod[i].def /\ @ = "nop" THEN c.bytes ELSE @]
  BY <1>1, <1>2 DEF EmitCodes
<1>8. cur' = d
  BY <1>3, <1>4, <1>6, <1>7 DEF Stubbed, CurRecords
<1>9. /\ d.pc = "inline" /\ d.mod = N /\ d.fun = c.fun /\ d.args = c.args /\ d.target = i /\ d.refs = c.refs
  BY <1>4, <1>6 DEF CurRecords
<1>10. Named(c.mod, Name(c.fun)) # {} /\ c.refs = {}
  BY <1>5, <1>6 DEF CurOK
<1>11. c.bytes \in P.bytes
  BY <1>6 DEF CurRecords
<1>12. ASSUME CurBound, Apart(d.fun, d.args) PROVE CurRight(d)
  <2>1. ResolveRight(c.mod, c.fun, c.args)
    BY <1>5, <1>6, <1>9, <1>12 DEF CurRight
  <2>2. InlineRight(N, i, {}, c.fun, c.args)
    BY <1>2, <1>3, <1>6, <1>10, <1>11, <2>1, EmitRight
  <2>. QED
    BY <1>9, <1>10, <2>2 DEF CurRight
<1>. QED
  BY <1>5, <1>6, <1>8, <1>12, BindBecomes

\* The fields of a request with one more argument.
LEMMA PassedFields ==
    ASSUME NEW c \in CurRecords(P), CurOK(c), c.pc = "inline", NEW N \in ModulesOf(P),
           NEW want \in ThingsOf(P), NEW t \in Nat, NEW d, d = PassedRef(c, N, want, t)
    PROVE  \E r : /\ r.want = want /\ r.at = t /\ d.refs = c.refs \cup {r}
                  /\ d.pc = "inline" /\ d.fun = c.fun /\ d.args = c.args /\ d.mod = N
                  /\ d.target = c.target /\ d.bytes = c.bytes /\ r.arg # 0
<1>1. c.k \in Nat /\ c.k # 0 /\ c.entries = <<>>
  BY DEF CurRecords, CurOK
<1>2. PICK r : r = [want |-> want, arg |-> c.k, at |-> t]
  OBVIOUS
<1>3. r \in RefsOf(P) /\ r.at = t /\ r.want = want /\ r.arg # 0
  BY <1>1, <1>2 DEF RefsOf
<1>4. PICK rs \in SUBSET RefsOf(P) : rs = {r} /\ d = Passed(c, N, rs)
  BY <1>2, <1>3 DEF PassedRef
<1>5. d.pc = c.pc /\ d.fun = c.fun /\ d.args = c.args
  BY <1>1, <1>4, PassedFacts
<1>6. d.refs = c.refs \cup rs /\ d.mod = N /\ d.target = c.target /\ d.bytes = c.bytes
  BY <1>1, <1>4, PassedFacts
<1>. QED
  BY <1>3, <1>4, <1>5, <1>6

\* A pointer to a registered object, for the rigid record of the request.
LEMMA PointerBound ==
    ASSUME ProgOK, Tracker, NamesApart, NEW c \in CurRecords(P), CurOK(c), c.pc = "inline",
           NEW a, NextIs(c, a, "ptr"), HasGlobalMapping(a.x),
           NEW N, N = LinkObject(c.mod, a.x), NEW g, g = GetNamedValue(N, Name(a.x)),
           NEW d, d = PassedRef(c, SetPrivate(N, g), Wanted(a), g),
           InlineRight(c.mod, c.target, c.refs, c.fun, c.args)
    PROVE  CurRight(d) /\ d.fun = c.fun /\ d.args = c.args
<1>0. c.mod \in ModulesOf(P) /\ c.fun \in functions
  BY DEF CurRecords, CurOK
<1>1. PICK M, x, o, args : M = c.mod /\ x = a.x /\ o = c.fun /\ args = c.args /\ M \in ModulesOf(P)
  BY <1>0
<1>2. PICK t : t = Top(M) + x
  OBVIOUS
<1>3. x \in Objs(P) /\ x \in functions /\ a \in Range(args) /\ a.kind = "ptr"
  <2>1. a.kind = "ptr"
    BY DEF NextIs
  <2>2. a.x \in ObjsOf(P) /\ a \in Range(c.args)
    BY <2>1, NextArgument
  <2>. QED
    BY <1>1, <2>1, <2>2, ProgFacts DEF HasGlobalMapping
<1>4. N = LinkObject(M, x)
  BY <1>1
<1>5. N \in ModulesOf(P) /\ t \in Nat /\ GetNamedValue(N, Name(x)) = t /\ SetPrivate(N, t) = N
  BY <1>1, <1>2, <1>3, <1>4, LinkObjectFacts
<1>6. PICK want : want = Code(x)
  OBVIOUS
<1>7. want \in ThingsOf(P) /\ Wanted(a) = want
  BY <1>1, <1>3, <1>6, ProgFacts DEF Wanted, Code, Thing, ThingsOf
<1>8. d = PassedRef(c, N, want, t)
  BY <1>1, <1>5, <1>7
<1>9. PICK r : /\ r.want = want /\ r.at = t /\ d.refs = c.refs \cup {r}
               /\ d.pc = "inline" /\ d.fun = c.fun /\ d.args = c.args /\ d.mod = N
               /\ d.target = c.target
  BY <1>5, <1>7, <1>8, PassedFields
<1>10. \A y \in c.refs : y.at \in DOMAIN M /\ ~M[y.at].ext
  BY <1>1 DEF CurOK
<1>11. /\ o \in functions /\ x \in functions /\ a \in Range(args) /\ a.kind = "ptr" /\ a.x = x
       /\ InlineRight(M, c.target, c.refs, o, args) /\ t = Top(M) + x /\ N = LinkObject(M, x)
       /\ r.at = t /\ r.want = Code(x) /\ M \in ModulesOf(P)
  BY <1>0, <1>1, <1>2, <1>3, <1>4, <1>6, <1>9
<1>12. InlineRight(N, c.target, c.refs \cup {r}, o, args)
  BY <1>10, <1>11, PointerRight
<1>13. CurRight(d)
  BY <1>1, <1>9, <1>12 DEF CurRight
<1>. QED
  BY <1>9, <1>13

\* AK_Ptr.
LEMMA PointerBind ==
    ASSUME IndInv, BindInv, InlinePointer
    PROVE  BindInv'
<1>1. PICK c, a : c = cur /\ a = c.args[c.k]
  OBVIOUS
<1>2. /\ c.pc = "inline" /\ NextIs(c, a, "ptr")
      /\ UNCHANGED <<P, functions, byName, made>>
  BY <1>1 DEF InlinePointer, NextIs
<1>3. /\ ProgOK /\ Tracker /\ MadeInv /\ c \in CurRecords(P) /\ CurOK(c)
      /\ CurBound /\ Apart(c.fun, c.args) => CurRight(c)
  BY <1>1, <1>2, BusyBound
<1>4. CASE HasGlobalMapping(a.x)
  <2>1. PICK N : N = LinkObject(c.mod, a.x)
    OBVIOUS
  <2>2. PICK g : g = GetNamedValue(N, Name(a.x))
    OBVIOUS
  <2>3. PICK d : d = PassedRef(c, SetPrivate(N, g), Wanted(a), g)
    OBVIOUS
  <2>4. PassSymbol(LinkObject(cur.mod, a.x), Name(a.x), <<>>)
    BY <1>1, <1>4 DEF InlinePointer
  <2>5. cur' = d
    BY <1>1, <2>1, <2>2, <2>3, <2>4 DEF PassSymbol, PassedRef, Passed
  <2>6. ASSUME NamesApart, CurBound, Apart(d.fun, d.args) PROVE CurRight(d)
    <3>1. d.fun = c.fun /\ d.args = c.args
      BY <2>3, <1>3 DEF PassedRef, Passed, CurRecords
    <3>2. InlineRight(c.mod, c.target, c.refs, c.fun, c.args)
      BY <1>2, <1>3, <2>6, <3>1 DEF CurRight
    <3>. QED
      BY <1>2, <1>3, <1>4, <2>1, <2>2, <2>3, <2>6, <3>2, PointerBound
  <2>. QED
    BY <1>2, <1>3, <2>5, <2>6, BindBecomes
<1>5. CASE ~HasGlobalMapping(a.x)
  <2>1. PICK n : n = c.k + 1
    OBVIOUS
  <2>2. PICK d : d = [c EXCEPT !.k = n]
    OBVIOUS
  <2>3. cur' = d
    BY <1>1, <1>5, <2>1, <2>2 DEF InlinePointer
  <2>4. /\ d.pc = c.pc /\ d.fun = c.fun /\ d.args = c.args
        /\ d.refs = c.refs /\ d.entries = c.entries /\ d.mod = c.mod /\ d.target = c.target
    BY <1>3, <2>2 DEF CurRecords
  <2>5. ASSUME CurBound, Apart(d.fun, d.args) PROVE CurRight(d)
    BY <1>3, <2>4, <2>5 DEF CurRight
  <2>. QED
    BY <1>2, <1>3, <2>3, <2>5, BindBecomes
<1>. QED
  BY <1>4, <1>5

\* A composed function, for the rigid record of the request.
LEMMA ModuleBound ==
    ASSUME ProgOK, Tracker, NamesApart, NEW c \in CurRecords(P), CurOK(c), c.pc = "inline",
           MadeInv, MadeBound, NEW a, NextIs(c, a, "mod"), Composable(c.fun, c.args),
           NEW F, F = made[a.x], NEW L, L = LinkModules(c.mod, F.mod),
           NEW g, g = GetNamedValue(L, GetEntryFunctionName(F.entries)),
           NEW d, d = PassedRef(c, SetPrivate(L, g), Wanted(a), g),
           InlineRight(c.mod, c.target, c.refs, c.fun, c.args)
    PROVE  CurRight(d) /\ d.fun = c.fun /\ d.args = c.args
<1>0. c.mod \in ModulesOf(P) /\ c.fun \in functions
  BY DEF CurRecords, CurOK
<1>args. PICK args : args = c.args
  OBVIOUS
<1>1. PICK M \in ModulesOf(P), o \in functions : M = c.mod /\ o = c.fun /\ args = c.args
  BY <1>0, <1>args
<1>2. a \in Range(args) /\ a.x \in DOMAIN made /\ a.kind = "mod"
  <2>1. a.kind = "mod"
    BY DEF NextIs
  <2>. QED
    BY <1>1, <2>1, NextArgument
<1>3. F \in MadeRecords(P) /\ MadeOK(F) /\ MadeRight(F.mod, F.entries)
  BY <1>2 DEF MadeInv, MadeBound, Range
<1>4. PICK S \in ModulesOf(P) : S = F.mod
  BY <1>3 DEF MadeRecords
<1>5. PICK nm \in Names, w \in DOMAIN S :
         F.entries = <<nm>> /\ S[w].name = nm /\ S[w].def /\ S[w].ext /\ S[w].of = F.thing
  BY <1>3, <1>4 DEF MadeOK, EntryIs
<1>6. PICK t : t = Top(M) + w
  OBVIOUS
<1>7. L = LinkModules(M, S) /\ GetEntryFunctionName(F.entries) = nm
  BY <1>1, <1>4, <1>5, HeadOfOne DEF GetEntryFunctionName
<1>8. g = t
  <2>1. GetEntryFunctionName(F.entries) = S[w].name /\ S[w].def /\ S[w].ext
    BY <1>5, <1>7
  <2>. QED
    BY <1>6, <1>7, <2>1, LinkEntry
<1>9. S \in Linked(o, args)
  BY <1>2, <1>4 DEF Linked
<1>10. PICK want \in ThingsOf(P) : want = Wanted(a) /\ want = S[w].of
  <2>1. F.thing \in ThingsOf(P)
    BY <1>3 DEF MadeRecords
  <2>2. Wanted(a) = F.thing
    BY <1>2 DEF Wanted
  <2>. QED
    BY <1>5, <2>1, <2>2
<1>11. PICK N : N = SetPrivate(LinkModules(M, S), t)
  OBVIOUS
<1>12. d = PassedRef(c, N, want, t)
  BY <1>7, <1>8, <1>10, <1>11
<1>13. N \in ModulesOf(P) /\ t \in Nat
  <2>1. S[w].def /\ S[w].ext
    BY <1>5
  <2>2. PICK K : K = LinkModules(M, S) /\ N = SetPrivate(K, t)
    BY <1>11
  <2>. QED
    BY <1>6, <2>1, <2>2, LinkEntry
<1>14. PICK r : /\ r.want = want /\ r.at = t /\ d.refs = c.refs \cup {r}
                /\ d.pc = "inline" /\ d.fun = c.fun /\ d.args = c.args /\ d.mod = N
                /\ d.target = c.target
  BY <1>12, <1>13, PassedFields
<1>15. \A y \in c.refs : y.at \in DOMAIN M /\ ~M[y.at].ext
  BY <1>1 DEF CurOK
<1>16. nm \notin Meeting(o, args)
  <2>1. GetEntryFunctionName(made[a.x].entries) \notin Meeting(o, args)
    BY <1>1, <1>2 DEF Composable
  <2>. QED
    BY <1>7, <2>1
<1>17. MadeRight(S, <<nm>>)
  BY <1>3, <1>4, <1>5
<1>18. /\ S[w].def /\ S[w].ext /\ S[w].name = nm
       /\ InlineRight(M, c.target, c.refs, o, args) /\ r.at = t /\ r.want = S[w].of
  BY <1>1, <1>5, <1>10, <1>14
<1>19. InlineRight(N, c.target, c.refs \cup {r}, o, args)
  BY <1>6, <1>9, <1>11, <1>15, <1>16, <1>17, <1>18, ComposedRight
<1>20. CurRight(d)
  BY <1>1, <1>14, <1>19 DEF CurRight
<1>. QED
  BY <1>14, <1>20

\* AK_Module.
LEMMA ModuleBind ==
    ASSUME IndInv, BindInv, InlineModule
    PROVE  BindInv'
<1>1. PICK c, a : c = cur /\ a = c.args[c.k]
  OBVIOUS
<1>2. PICK F : F = made[a.x]
  OBVIOUS
<1>3. PICK L : L = LinkModules(c.mod, F.mod)
  OBVIOUS
<1>4. PICK g : g = GetNamedValue(L, GetEntryFunctionName(F.entries))
  OBVIOUS
<1>5. PICK d : d = PassedRef(c, SetPrivate(L, g), Wanted(a), g)
  OBVIOUS
<1>6. /\ c.pc = "inline" /\ NextIs(c, a, "mod")
      /\ UNCHANGED <<P, functions, byName, made>>
  BY <1>1 DEF InlineModule, NextIs
<1>7. /\ ProgOK /\ Tracker /\ MadeInv /\ c \in CurRecords(P) /\ CurOK(c)
      /\ CurBound /\ Apart(c.fun, c.args) => CurRight(c)
  BY <1>1, <1>6, BusyBound
<1>8. PassSymbol(LinkModules(cur.mod, F.mod), GetEntryFunctionName(F.entries), <<>>)
  BY <1>1, <1>2 DEF InlineModule, UnmarkEntry
<1>9. cur' = d
  BY <1>1, <1>3, <1>4, <1>5, <1>8 DEF PassSymbol, PassedRef, Passed
<1>10. d.fun = c.fun /\ d.args = c.args
  BY <1>5, <1>7 DEF PassedRef, Passed, CurRecords
<1>11. ASSUME NamesApart, MadeBound, CurBound, Apart(d.fun, d.args) PROVE CurRight(d)
  <2>1. InlineRight(c.mod, c.target, c.refs, c.fun, c.args) /\ Composable(c.fun, c.args)
    BY <1>6, <1>7, <1>10, <1>11 DEF CurRight, Apart
  <2>2. ProgOK /\ Tracker /\ MadeInv /\ c \in CurRecords(P) /\ CurOK(c) /\ c.pc = "inline"
    BY <1>6, <1>7
  <2>. QED
    BY <1>2, <1>3, <1>4, <1>5, <1>6, <1>11, <2>1, <2>2, ModuleBound
<1>. QED
  BY <1>6, <1>7, <1>9, <1>11, BindBecomes

\* What the wrapper is.
LEMMA MakingWrapper ==
    ASSUME ProgOK, NEW c, NEW M, NEW nm, NEW w, NEW x, NEW N, NEW d, Making(c, M, nm, w, x, N, d)
    PROVE  /\ nm \in Names /\ Wrapping(P, M, c.target, w, x, N)
           /\ IsWrapper(x, c.fun, c.target, c.refs) /\ x.of = Thing(c.fun, Turn) /\ x.name = nm
<1>1. PICK n : n = Turn /\ n # 0 /\ x = WrapperOf(c, n, nm)
  BY DEF Making
<1>2. IsWrapper(x, c.fun, c.target, c.refs)
  BY <1>1, WrapperIs
<1>. QED
  BY <1>2, MakingFacts

\* What the request becomes.
LEMMA MakingRequest ==
    ASSUME ProgOK, NEW c, NEW M, NEW nm, NEW w, NEW x, NEW N, NEW d, Making(c, M, nm, w, x, N, d)
    PROVE  /\ d.pc = "codegen" /\ d.mod = N /\ d.fun = c.fun /\ d.args = c.args /\ d.bytes = c.bytes
           /\ OnlyEntry(d.entries, nm) /\ RefsAt(c.refs, M)
<1>1. c \in CurRecords(P) /\ CurOK(c) /\ c.pc = "inline" /\ M = c.mod /\ d = Marked(c, N, nm)
  BY DEF Making
<1>2. nm \in Names /\ Wrapping(P, M, c.target, w, x, N)
  BY MakingWrapper
<1>3. N \in ModulesOf(P)
  BY <1>2, WrappedModule
<1>4. RefsAt(c.refs, M)
  BY <1>1 DEF CurOK, RefsAt
<1>5. /\ d.pc = "codegen" /\ d.mod = N /\ d.fun = c.fun /\ d.args = c.args /\ d.bytes = c.bytes
      /\ OnlyEntry(d.entries, nm)
  BY <1>1, <1>2, <1>3, MarkedOnce
<1>. QED
  BY <1>4, <1>5

\* CreateWrapperFun, for the rigid record of the request.
LEMMA WrapperBound ==
    ASSUME ProgOK, NEW c, NEW M, NEW nm, NEW w, NEW x, NEW N, NEW d, Making(c, M, nm, w, x, N, d),
           InlineRight(M, c.target, c.refs, c.fun, c.args)
    PROVE  CurRight(d)
<1>1. PICK es : es = d.entries
  OBVIOUS
<1>2. Wrapping(P, M, c.target, w, x, N) /\ IsWrapper(x, c.fun, c.target, c.refs) /\ x.name = nm
  BY MakingWrapper
<1>3. d.pc = "codegen" /\ d.mod = N /\ OnlyEntry(d.entries, nm) /\ RefsAt(c.refs, M)
  BY MakingRequest
<1>4. OnlyEntry(es, x.name)
  BY <1>1, <1>2, <1>3
<1>5. MadeRight(N, es)
  BY <1>2, <1>3, <1>4, WrapMarked
<1>. QED
  BY <1>1, <1>3, <1>5 DEF CurRight

\* CreateWrapperFun.
LEMMA WrapperBind ==
    ASSUME IndInv, BindInv, CreateWrapperFun
    PROVE  BindInv'
<1>1. PICK c : c = cur
  OBVIOUS
<1>2. PICK M : M = c.mod
  OBVIOUS
<1>3. PICK w : w = Top(M) + 1
  OBVIOUS
<1>4. PICK nm : nm = M[c.target].name
  OBVIOUS
<1>5. PICK x : x = WrapperOf(c, Turn, nm)
  OBVIOUS
<1>6. PICK N : N = Wrapped(M, c.target, w, x)
  OBVIOUS
<1>7. PICK d : d = Marked(c, N, nm)
  OBVIOUS
<1>8. cur' = d
  BY <1>1, <1>2, <1>3, <1>4, <1>5, <1>6, <1>7, WrapperAction
<1>9. /\ c.pc = "inline" /\ c.target \in DOMAIN c.mod
      /\ UNCHANGED <<P, functions, byName, made>>
  BY <1>1 DEF CreateWrapperFun
<1>10. /\ ProgOK /\ Tracker /\ MadeInv /\ c \in CurRecords(P) /\ CurOK(c)
       /\ CurBound /\ Apart(c.fun, c.args) => CurRight(c)
  BY <1>1, <1>9, BusyBound
<1>11. Turn \in Nat /\ Turn <= P.most /\ Turn # 0
  <2>1. Room
    BY <1>10 DEF CurOK
  <2>. QED
    BY <1>10, <2>1, TurnFacts
<1>12. Making(c, M, nm, w, x, N, d)
  BY <1>2, <1>3, <1>4, <1>5, <1>6, <1>7, <1>9, <1>10, <1>11 DEF Making
<1>13. d.fun = c.fun /\ d.args = c.args
  BY <1>10, <1>12, MakingRequest
<1>14. ASSUME CurBound, Apart(d.fun, d.args) PROVE CurRight(d)
  <2>1. InlineRight(c.mod, c.target, c.refs, c.fun, c.args)
    BY <1>9, <1>10, <1>13, <1>14 DEF CurRight
  <2>. QED
    BY <1>2, <1>10, <1>12, <2>1, WrapperBound
<1>. QED
  BY <1>8, <1>9, <1>10, <1>14, BindBecomes

\* The request ends, or the program loses its meaning.
LEMMA EndBind ==
    ASSUME IndInv, BindInv, UNCHANGED <<P, functions, byName, made>>,
           cur' \in {Idle, Foreign, [cur EXCEPT !.pc = "undefined"]},
           cur' = Idle \/ cur' = Foreign \/ cur.pc \in {"inline", "codegen"}
    PROVE  BindInv'
<1>1. PICK c, d : c = cur /\ d = cur'
  OBVIOUS
<1>2. Tracker /\ MadeInv
  BY DEF IndInv
<1>3. d.pc \notin {"resolve", "inline", "codegen"}
  <2>1. CASE d = Idle \/ d = Foreign
    BY <2>1 DEF Idle, Foreign
  <2>2. CASE c.pc \in {"inline", "codegen"} /\ d = [c EXCEPT !.pc = "undefined"]
    <3>1. c \in CurRecords(P)
      BY <1>1, <2>2, BusyBound
    <3>. QED
      BY <2>2, <3>1 DEF CurRecords
  <2>. QED
    BY <1>1, <2>1, <2>2
<1>. QED
  BY <1>1, <1>2, <1>3, BindBecomes

\* An easy::Function F is added whose module is right.
LEMMA AddBind ==
    ASSUME IndInv, BindInv, UNCHANGED <<P, functions, byName>>, NEW F \in MadeRecords(P), MadeOK(F), Room,
           made' = Append(made, F), cur' = Idle,
           NamesApart /\ MadeBound /\ CurBound /\ Apart(F.thing.obj, F.args) => MadeRight(F.mod, F.entries)
    PROVE  BindInv'
<1>. SUFFICES ASSUME BoundApart' PROVE MadeBound' /\ CurBound'
  BY DEF BindInv
<1>1. ProgOK /\ Tracker /\ MadeInv /\ P' = P
  BY DEF IndInv
<1>2. Grown
  BY <1>1, MadeAppended
<1>3. BoundApart
  BY <1>1, <1>2, BoundApartBefore
<1>4. NamesApart /\ MadeBound /\ CurBound
  BY <1>3 DEF BindInv, BoundApart
<1>5. made \in Seq(MadeRecords(P))
  BY <1>1 DEF MadeInv
<1>6. /\ DOMAIN made' = 1 .. (Len(made) + 1) /\ made'[Len(made) + 1] = F /\ Len(made) \in Nat
      /\ \A i \in 1 .. Len(made) : made'[i] = made[i]
      /\ DOMAIN made = 1 .. Len(made)
  BY <1>5, AppendProperties
<1>7. PICK f : f = Len(made) + 1 /\ f \in DOMAIN made' /\ made'[f] = F
  BY <1>6
<1>8. Apart(F.thing.obj, F.args)'
  <2>1. (\A g \in DOMAIN made : Apart(made[g].thing.obj, made[g].args))'
    BY DEF BoundApart, Apart
  <2>. QED
    BY <1>7, <2>1
<1>9. Apart(F.thing.obj, F.args)
  <2>1. F.thing.obj \in functions /\ ArgsOK(F.args)
    BY DEF MadeOK
  <2>. QED
    BY <1>1, <1>2, <1>8, <2>1, ApartBefore
<1>10. MadeRight(F.mod, F.entries)
  BY <1>4, <1>9
<1>11. \A G \in Range(made') : G = F \/ G \in Range(made)
  BY <1>6 DEF Range
<1>12. \A G \in Range(made') : MadeRight(G.mod, G.entries)'
  BY <1>1, <1>4, <1>10, <1>11, RightSame DEF MadeBound
<1>13. MadeBound'
  BY <1>12 DEF MadeBound, Range
<1>14. CurBound'
  BY DEF CurBound, Idle
<1>. QED
  BY <1>13, <1>14

\* CompileAndWrap.
LEMMA WrapBind ==
    ASSUME IndInv, BindInv, CompileAndWrap
    PROVE  BindInv'
<1>1. PICK c, th : c = cur /\ th = Thing(c.fun, Turn)
  OBVIOUS
<1>2. PICK F : F = [mod |-> c.mod, entries |-> c.entries,
                    address |-> GetFunctionAddress(c.mod, Name(c.fun)),
                    globals |-> P.unit[c.fun], thing |-> th,
                    args |-> c.args, bytes |-> c.bytes, from |-> 0]
  OBVIOUS
<1>3. /\ c.pc = "codegen" /\ made' = Append(made, F) /\ cur' = Idle
      /\ UNCHANGED <<P, functions, byName>>
  BY <1>1, <1>2 DEF CompileAndWrap, Turn
<1>4. /\ ProgOK /\ Tracker /\ MadeInv /\ c \in CurRecords(P) /\ CurOK(c)
      /\ CurBound /\ Apart(c.fun, c.args) => CurRight(c)
  BY <1>1, <1>3, BusyBound
<1>5. Room
  BY <1>4 DEF CurOK
<1>6. th \in ThingsOf(P) /\ th.obj = c.fun
  <2>1. Turn \in Nat /\ Turn <= P.most /\ P.most \in Nat
    BY <1>4, <1>5, TurnFacts, ProgFacts
  <2>2. c.fun \in ObjsOf(P)
    BY <1>4 DEF CurRecords
  <2>. QED
    BY <1>1, <2>1, <2>2 DEF Thing, ThingsOf
<1>7. F \in MadeRecords(P) /\ MadeOK(F)
  BY <1>1, <1>2, <1>3, <1>4, <1>6, WrapStep
<1>8. PICK ad, un : ad = GetFunctionAddress(c.mod, Name(c.fun)) /\ un = P.unit[c.fun]
  OBVIOUS
<1>9. F = [mod |-> c.mod, entries |-> c.entries, address |-> ad, globals |-> un, thing |-> th,
           args |-> c.args, bytes |-> c.bytes, from |-> 0]
  BY <1>2, <1>8
<1>10. F.mod = c.mod /\ F.entries = c.entries /\ F.thing.obj = c.fun /\ F.args = c.args
  BY <1>6, <1>9
<1>11. CurBound /\ Apart(F.thing.obj, F.args) => MadeRight(F.mod, F.entries)
  BY <1>3, <1>4, <1>10 DEF CurRight
<1>. QED
  BY <1>3, <1>5, <1>7, <1>11, AddBind

\* deserialize.
LEMMA ReviveBind ==
    ASSUME IndInv, BindInv, NEW f, Deserialize(f)
    PROVE  BindInv'
<1>1. PICK F : F = made[f]
  OBVIOUS
<1>2. PICK nm : nm = GetEntryFunctionName(F.entries)
  OBVIOUS
<1>3. PICK G : G = Revived(F, GlobalsByName(nm), f, GetFunctionAddress(F.mod, nm))
  OBVIOUS
<1>4. /\ f \in buffers /\ Room /\ made' = Append(made, G) /\ cur' = Idle
      /\ UNCHANGED <<P, functions, byName>>
  BY <1>1, <1>2, <1>3 DEF Deserialize, Revived, Room
<1>5. ProgOK /\ Tracker /\ MadeInv /\ buffers \subseteq DOMAIN made
  BY DEF IndInv
<1>6. f \in DOMAIN made /\ f \in Nat /\ F \in MadeRecords(P) /\ MadeOK(F) /\ F \in Range(made)
  BY <1>1, <1>4, <1>5 DEF MadeInv, Range
<1>7. G \in MadeRecords(P) /\ MadeOK(G)
  BY <1>1, <1>2, <1>3, <1>5, <1>6, ReviveStep
<1>8. PICK u, a : u = GlobalsByName(nm) /\ a = GetFunctionAddress(F.mod, nm)
  OBVIOUS
<1>9. G.mod = F.mod /\ G.entries = F.entries
  BY <1>3, <1>6, <1>8 DEF Revived, MadeRecords
<1>10. MadeBound => MadeRight(G.mod, G.entries)
  BY <1>6, <1>9 DEF MadeBound
<1>. QED
  BY <1>4, <1>7, <1>10, AddBind

\* The constructor of a unit.
LEMMA RegisterBind ==
    ASSUME IndInv, BindInv, NEW u, RegisterUnit(u)
    PROVE  BindInv'
<1>. SUFFICES ASSUME BoundApart' PROVE MadeBound' /\ CurBound'
  BY DEF BindInv
<1>1. ProgOK /\ Tracker /\ MadeInv
  BY DEF IndInv
<1>2. /\ P' = P /\ made' = made /\ cur' = Idle
      /\ functions' = functions \cup Registered(u)
      /\ byName' = [nm \in DOMAIN byName \cup {Name(o) : o \in Registered(u)} |->
                      IF nm \in DOMAIN byName THEN byName[nm]
                      ELSE CHOOSE o \in Registered(u) : Name(o) = nm]
  BY DEF RegisterUnit
<1>3. \A nm \in DOMAIN byName : nm \in DOMAIN byName' /\ byName'[nm] = byName[nm]
  BY <1>2
<1>4. Grown
  BY <1>2, <1>3 DEF Grown
<1>5. MadeBound
  BY <1>1, <1>4, BoundApartBefore DEF BindInv
<1>6. MadeBound'
  BY <1>2, <1>5, RightSame DEF MadeBound, Range
<1>. QED
  BY <1>2, <1>6 DEF CurBound, Idle

---------------------------------------------------------------------------
(* The invariant is inductive.                                             *)

\* It holds when the program starts.
LEMMA InitBind == Init => BindInv
<1>. SUFFICES ASSUME Init PROVE MadeBound /\ CurBound
  BY DEF BindInv
<1>1. made = <<>> /\ cur = Idle
  BY DEF Init
<1>2. DOMAIN made = {}
  BY <1>1
<1>. QED
  BY <1>1, <1>2 DEF MadeBound, Range, CurBound, Idle

\* Every step preserves it.
LEMMA NextBind == IndInv /\ BindInv /\ [Next]_vars => BindInv'
<1>. SUFFICES ASSUME IndInv, BindInv, [Next]_vars PROVE BindInv'
  OBVIOUS
<1>1. CASE \E u \in {P.unit[o] : o \in Objs(P)} : RegisterUnit(u)
  BY <1>1, RegisterBind
<1>2. CASE \E o \in P.asked, b \in P.bytes, d \in P.dumps : \E args \in Lists(P.takes[o]) :
             Compile(o, args, b, d)
  <2>1. PICK o, b, d, args : Compile(o, args, b, d)
    BY <1>2
  <2>. QED
    BY <2>1, CompileBind
<1>3. CASE ResolveNext
  BY <1>3, ResolveBind
<1>4. CASE EmitCodes
  BY <1>4, EmitBind
<1>5. CASE InlinePointer
  BY <1>5, PointerBind
<1>6. CASE InlineModule
  BY <1>6, ModuleBind
<1>7. CASE CreateWrapperFun
  BY <1>7, WrapperBind
<1>8. CASE TargetErased
  BY <1>8, EndBind DEF TargetErased, LoseMeaning
<1>9. CASE CompileAndWrap
  BY <1>9, WrapBind
<1>10. CASE DumpThrows
  BY <1>10, EndBind DEF DumpThrows, Unwind, LoseMeaning
<1>11. CASE EngineThrows
  BY <1>11, EndBind DEF EngineThrows, Unwind, LoseMeaning
<1>12. CASE \E f \in DOMAIN made : Serialize(f) \/ Deserialize(f)
  <2>1. PICK f \in DOMAIN made : Serialize(f) \/ Deserialize(f)
    BY <1>12
  <2>2. CASE Serialize(f)
    BY <2>2, EndBind DEF Serialize
  <2>. QED
    BY <2>1, <2>2, ReviveBind
<1>13. CASE DeserializeForeign
  BY <1>13, EndBind DEF DeserializeForeign
<1>14. CASE UNCHANGED vars
  <2>1. UNCHANGED <<P, functions, byName, made>> /\ cur' = cur
    BY <1>14 DEF vars
  <2>2. PICK d : d = cur
    OBVIOUS
  <2>3. CurBound /\ Apart(d.fun, d.args) /\ d.pc \in {"resolve", "inline", "codegen"} => CurRight(d)
    BY <2>2 DEF CurBound
  <2>. QED
    BY <2>1, <2>2, <2>3, BindBecomes DEF IndInv
<1>. QED
  BY <1>1, <1>2, <1>3, <1>4, <1>5, <1>6, <1>7, <1>8, <1>9, <1>10, <1>11, <1>12, <1>13, <1>14 DEF Next

\* It always holds.
THEOREM Binding == Spec => [](IndInv /\ BindInv)
<1>1. Init => IndInv /\ BindInv
  BY InitInd, InitBind
<1>2. IndInv /\ BindInv /\ [Next]_vars => (IndInv /\ BindInv)'
  BY NextInd, NextBind
<1>. QED
  BY <1>1, <1>2, PTL DEF Spec

---------------------------------------------------------------------------
(* The theorems.                                                           *)

\* A declaration is found as what it names, if it is found.
LEMMA ResolveFacts ==
    ASSUME ProgOK, NamesApart, NEW o \in Objs(P), NEW u
    PROVE  /\ Resolve(u, Name(o)) \in {Code(o), Unresolved}
           /\ o \notin P.local \/ o \in Globals(u) => Resolve(u, Name(o)) = Code(o)
<1>1. PICK S, T : S = {v \in Globals(u) : Name(v) = Name(o)} /\ T = {q \in Objs(P) \ P.local : Name(q) = Name(o)}
  OBVIOUS
<1>2. P.vars \subseteq Objs(P)
  BY ProgFacts
<1>3. ASSUME NEW v \in S PROVE v = o
  <2>1. v \in P.vars /\ v \in Objs(P) /\ Name(v) = Name(o)
    BY <1>1, <1>2 DEF Globals
  <2>2. P.name[v] = P.name[o]
    BY <2>1, NameFacts
  <2>. QED
    BY <2>1, <2>2 DEF NamesApart
<1>4. ASSUME NEW q \in T PROVE q = o
  <2>1. q \in Objs(P) /\ q \notin P.local /\ Name(q) = Name(o)
    BY <1>1
  <2>2. P.name[q] = P.name[o]
    BY <2>1, NameFacts
  <2>. QED
    BY <2>1, <2>2 DEF NamesApart
<1>5. Resolve(u, Name(o)) = IF S # {} THEN Code(CHOOSE v \in S : TRUE)
                            ELSE IF T # {} THEN Code(CHOOSE q \in T : TRUE) ELSE Unresolved
  BY <1>1 DEF Resolve
<1>6. S # {} => (CHOOSE v \in S : TRUE) = o
  BY <1>3
<1>7. T # {} => (CHOOSE q \in T : TRUE) = o
  BY <1>4
<1>8. o \notin P.local \/ o \in Globals(u) => S # {} \/ T # {}
  BY <1>1
<1>. QED
  BY <1>5, <1>6, <1>7, <1>8

\* A reference of the code of a function leads to a symbol of its module.
LEMMA RefFacts ==
    ASSUME IndInv, BindInv, BoundApart, NEW f \in DOMAIN made, NEW r \in Refs(f),
           NEW M, M = made[f].mod
    PROVE  /\ M \in ModulesOf(P) /\ r.at \in DOMAIN M /\ M[r.at].of = r.want /\ Origins(M)
<1>1. PICK F : F = made[f]
  OBVIOUS
<1>2. F \in Range(made) /\ F \in MadeRecords(P)
  BY <1>1 DEF Range, IndInv, MadeInv
<1>3. MadeRight(M, F.entries) /\ M \in ModulesOf(P)
  BY <1>1, <1>2 DEF BindInv, MadeBound, MadeRecords
<1>4. PICK i \in DOMAIN M : r \in M[i].refs
  BY DEF Refs
<1>5. r.at \in DOMAIN M
  BY <1>3, <1>4, SymbolFacts
<1>. QED
  BY <1>3, <1>4, <1>5 DEF MadeRight, RefsRight

\* What a symbol of an easy::Function is when the code runs.
LEMMA MeansFacts ==
    ASSUME ProgOK, NamesApart, NEW f, NEW M \in ModulesOf(P), M = made[f].mod, Origins(M),
           NEW i \in DOMAIN M
    PROVE  /\ Means(f, i) \in {M[i].of, Unresolved}
           /\ M[i].def => Means(f, i) = M[i].of
           /\ /\ M[i].ext
              /\ M[i].of.obj \in P.local => M[i].of.obj \in Globals(made[f].globals)
              => Means(f, i) = M[i].of
<1>1. PICK u, x : u = made[f].globals /\ x = M[i]
  OBVIOUS
<1>2. Means(f, i) = IF x.def THEN IF IsCopy(x.of) THEN Thing(x.of.obj, -1) ELSE x.of
                    ELSE IF x.ext THEN Resolve(u, x.name) ELSE Unresolved
  BY <1>1 DEF Means
<1>3. Origin(x)
  BY <1>1 DEF Origins
<1>4. CASE x.def
  <2>1. ~IsCopy(x.of)
    BY <1>3, <1>4 DEF IsCopy, Origin, NamesApart
  <2>. QED
    BY <1>1, <1>2, <1>4, <2>1
<1>5. CASE ~x.def
  <2>1. PICK o : o = x.of.obj
    OBVIOUS
  <2>2. x.of.n = 0 /\ (x.ext => x.name = Name(o))
    BY <1>3, <1>5, <2>1 DEF Origin
  <2>3. o \in Objs(P) /\ x.of = Code(o)
    BY <1>1, <2>1, <2>2, SymbolObject
  <2>4. /\ Resolve(u, Name(o)) \in {Code(o), Unresolved}
        /\ o \notin P.local \/ o \in Globals(u) => Resolve(u, Name(o)) = Code(o)
    BY <2>3, ResolveFacts
  <2>. QED
    BY <1>1, <1>2, <1>5, <2>1, <2>2, <2>3, <2>4
<1>. QED
  BY <1>4, <1>5

\* Linking by name binds no reference to other code or data than the source
\* names, as long as names are apart and no request has linked a namesake of
\* its function, or composed a function with code that names the original.
THEOREM NeverMisboundCorrect == Spec => []NeverMisbound
<1>1. ASSUME IndInv, BindInv PROVE NeverMisbound
  <2>. SUFFICES ASSUME BoundApart, NEW f \in DOMAIN made, NEW r \in Refs(f)
                PROVE  Means(f, r.at) \in {r.want, Unresolved}
    BY DEF NeverMisbound
  <2>1. PICK M : M = made[f].mod
    OBVIOUS
  <2>2. M \in ModulesOf(P) /\ r.at \in DOMAIN M /\ M[r.at].of = r.want /\ Origins(M)
    BY <1>1, <2>1, RefFacts
  <2>3. ProgOK /\ NamesApart
    BY <1>1 DEF IndInv, BoundApart
  <2>4. Means(f, r.at) \in {M[r.at].of, Unresolved}
    BY <2>1, <2>2, <2>3, MeansFacts
  <2>. QED
    BY <2>2, <2>4
<1>. QED
  BY <1>1, Binding, PTL
===========================================================================
