--------------------------- MODULE LinkingProofs ---------------------------
(***************************************************************************)
(* Proofs about Linking, for every set of programs.                        *)
(***************************************************************************)
EXTENDS Linking, NatFacts, FiniteSetTheorems, SequenceTheorems, TLAPS

---------------------------------------------------------------------------
(* Modules of a program p.                                                 *)

ObjsOf(p) == 1 .. Len(p.name)
ThingsOf(p) == [obj : ObjsOf(p), n : 0 .. p.most]
Names == STRING \X Nat
RefsOf(p) == [want : ThingsOf(p), arg : Nat, at : Nat]
SymbolsOf(p) ==
    [of : ThingsOf(p), name : Names, def : BOOLEAN, ext : BOOLEAN,
     asm : p.bytes \cup {"nop", "-"}, refs : SUBSET RefsOf(p)]

\* The numbers and suffixes of M are at most b.
Bounded(M, b) == \A i \in DOMAIN M : i <= b /\ M[i].name[2] <= b

RefsInside(M) == \A i \in DOMAIN M : \A r \in M[i].refs : r.at \in DOMAIN M

NamesDistinct(M) == \A i, j \in DOMAIN M : M[i].name = M[j].name => i = j

\* Functions from a set of numbers to symbols.
ModulesOf(p) ==
    {M \in UNION {[D -> SymbolsOf(p)] : D \in SUBSET (Nat \ {0})} :
        /\ DOMAIN M # {} /\ \E b \in Nat : Bounded(M, b)
        /\ RefsInside(M) /\ NamesDistinct(M)}

\* What membership in ModulesOf means.
LEMMA ModuleFacts ==
    ASSUME NEW p, NEW M \in ModulesOf(p)
    PROVE  /\ DOMAIN M \subseteq Nat \ {0} /\ DOMAIN M # {}
           /\ M \in [DOMAIN M -> SymbolsOf(p)]
           /\ \E b \in Nat : Bounded(M, b)
           /\ RefsInside(M) /\ NamesDistinct(M)
BY DEF ModulesOf

\* The converse.
LEMMA ModuleIntro ==
    ASSUME NEW p, NEW M, NEW D \in SUBSET (Nat \ {0}), M \in [D -> SymbolsOf(p)],
           D # {}, NEW b \in Nat, Bounded(M, b), RefsInside(M), NamesDistinct(M)
    PROVE  M \in ModulesOf(p)
BY DEF ModulesOf

\* A symbol of a module is a record of these fields.
LEMMA SymbolFacts ==
    ASSUME NEW p, NEW M \in ModulesOf(p), NEW i \in DOMAIN M
    PROVE  /\ i \in Nat /\ i # 0 /\ M[i] \in SymbolsOf(p)
           /\ M[i].of \in ThingsOf(p) /\ M[i].def \in BOOLEAN /\ M[i].ext \in BOOLEAN
           /\ M[i].asm \in p.bytes \cup {"nop", "-"} /\ M[i].refs \subseteq RefsOf(p)
           /\ M[i].name \in Names /\ M[i].name[1] \in STRING /\ M[i].name[2] \in Nat
           /\ \A r \in M[i].refs : r.at \in DOMAIN M /\ r.want \in ThingsOf(p) /\ r.arg \in Nat
<1>1. i \in Nat /\ i # 0 /\ M[i] \in SymbolsOf(p) /\ RefsInside(M)
  BY ModuleFacts
<1>2. /\ M[i].of \in ThingsOf(p) /\ M[i].def \in BOOLEAN /\ M[i].ext \in BOOLEAN
      /\ M[i].asm \in p.bytes \cup {"nop", "-"} /\ M[i].refs \subseteq RefsOf(p)
      /\ M[i].name \in Names
  BY <1>1 DEF SymbolsOf
<1>3. M[i].name[1] \in STRING /\ M[i].name[2] \in Nat
  BY <1>2 DEF Names
<1>4. ASSUME NEW r \in M[i].refs
      PROVE  r.at \in DOMAIN M /\ r.want \in ThingsOf(p) /\ r.arg \in Nat
  <2>1. r \in RefsOf(p)
    BY <1>2
  <2>. QED
    BY <1>1, <2>1 DEF RefsInside, RefsOf
<1>. QED
  BY <1>1, <1>2, <1>3, <1>4

\* A bounded set of numbers has a largest element.
LEMMA MaxExists ==
    ASSUME NEW T \in SUBSET Nat, T # {}, NEW b \in Nat, \A x \in T : x <= b
    PROVE  \E t \in T : \A x \in T : x <= t
<1>. DEFINE B == {n \in Nat : \A x \in T : x <= n}
<1>1. PICK n \in B : \A m \in B : n <= m
  <2>1. B \in SUBSET Nat /\ b \in B
    OBVIOUS
  <2>. QED
    BY <2>1, NatMin
<1>2. n \in T
  <2>. SUFFICES ASSUME n \notin T PROVE FALSE
    OBVIOUS
  <2>1. PICK x \in T : TRUE
    OBVIOUS
  <2>2. n - 1 \in Nat /\ \A y \in T : y <= n - 1
    BY <2>1
  <2>3. n - 1 \in B
    BY <2>2
  <2>. QED
    BY <1>1, <2>2, <2>3
<1>. QED
  BY <1>2

\* Top and Suffix are the largest number and suffix of a module.
LEMMA TopFacts ==
    ASSUME NEW p, NEW M \in ModulesOf(p)
    PROVE  /\ Top(M) \in DOMAIN M /\ Top(M) \in Nat /\ Suffix(M) \in Nat
           /\ \A i \in DOMAIN M : i <= Top(M) /\ M[i].name[2] <= Suffix(M)
<1>1. PICK b \in Nat : Bounded(M, b)
  BY ModuleFacts
<1>2. Top(M) \in DOMAIN M /\ \A i \in DOMAIN M : i <= Top(M)
  <2>1. \E t \in DOMAIN M : \A i \in DOMAIN M : i <= t
    BY <1>1, ModuleFacts, MaxExists DEF Bounded
  <2>. QED
    BY <2>1 DEF Top
<1>3. Suffix(M) \in Nat /\ \A i \in DOMAIN M : M[i].name[2] <= Suffix(M)
  <2>. DEFINE T == {M[i].name[2] : i \in DOMAIN M}
  <2>1. T \in SUBSET Nat
    BY SymbolFacts
  <2>2. T # {}
    <3>1. PICK i : i \in DOMAIN M
      BY ModuleFacts
    <3>2. M[i].name[2] \in T
      BY <3>1
    <3>. QED
      BY <3>2
  <2>3. \A x \in T : x <= b
    BY <1>1 DEF Bounded
  <2>4. \E t \in T : \A x \in T : x <= t
    <3>. HIDE DEF T
    <3>. QED
      BY <2>1, <2>2, <2>3, MaxExists
  <2>5. Suffix(M) = CHOOSE t \in T : \A x \in T : x <= t
    BY DEF Suffix
  <2>6. Suffix(M) \in T /\ \A x \in T : x <= Suffix(M)
    <3>. HIDE DEF T
    <3>. QED
      BY <2>4, <2>5
  <2>. QED
    BY <2>1, <2>6
<1>. QED
  BY <1>2, <1>3, ModuleFacts

---------------------------------------------------------------------------
(* The linker.  The parts of LinkModules have names here.                  *)

PeerOf(M, S, s) == {i \in DOMAIN M : S[s].ext /\ M[i].ext /\ M[i].name = S[s].name}
MergedOf(M, S) == {s \in DOMAIN S : PeerOf(M, S, s) # {} /\ ~S[s].def}
MovedOf(M, S) == DOMAIN S \ MergedOf(M, S)
ErasedOf(M, S) == {i \in DOMAIN M : \E s \in MovedOf(M, S) : i \in PeerOf(M, S, s)}
TakenOf(M, S) == {S[s].name : s \in {x \in MovedOf(M, S) : S[x].ext}}
FreshOf(M, S) == Suffix(M) + Suffix(S)
IntoOf(M, S, s) ==
    IF s \in MergedOf(M, S) THEN CHOOSE i \in PeerOf(M, S, s) : TRUE ELSE Top(M) + s
AfterOf(M, S, i) ==
    IF i \in ErasedOf(M, S) THEN Top(M) + (CHOOSE s \in MovedOf(M, S) : i \in PeerOf(M, S, s)) ELSE i
DomainOf(M, S) == (DOMAIN M \ ErasedOf(M, S)) \cup {Top(M) + s : s \in MovedOf(M, S)}

\* A symbol that stays.
StaysAs(M, S, i) ==
    [of |-> M[i].of,
     name |-> IF M[i].name \in TakenOf(M, S) THEN Renamed(M[i].name, FreshOf(M, S) + i) ELSE M[i].name,
     def |-> M[i].def, ext |-> M[i].ext, asm |-> M[i].asm,
     refs |-> {[want |-> r.want, arg |-> r.arg, at |-> AfterOf(M, S, r.at)] : r \in M[i].refs}]

\* A symbol that comes in.
MovesAs(M, S, s) ==
    [of |-> S[s].of,
     name |-> IF ~S[s].ext /\ Named(M, S[s].name) # {}
              THEN Renamed(S[s].name, FreshOf(M, S) + (Top(M) + s)) ELSE S[s].name,
     def |-> S[s].def, ext |-> S[s].ext, asm |-> S[s].asm,
     refs |-> {[want |-> r.want, arg |-> r.arg, at |-> IntoOf(M, S, r.at)] : r \in S[s].refs}]

\* Changing the name and the references of a symbol.
LEMMA Rename ==
    ASSUME NEW p, NEW x \in SymbolsOf(p), NEW nm, NEW rs
    PROVE  [x EXCEPT !.name = nm, !.refs = rs] =
             [of |-> x.of, name |-> nm, def |-> x.def, ext |-> x.ext, asm |-> x.asm, refs |-> rs]
<1>. DEFINE y == [x EXCEPT !.name = nm]
            z == [y EXCEPT !.refs = rs]
<1>1. DOMAIN x = {"of", "name", "def", "ext", "asm", "refs"}
  BY DEF SymbolsOf
<1>2. /\ DOMAIN y = {"of", "name", "def", "ext", "asm", "refs"}
      /\ y.of = x.of /\ y.name = nm /\ y.def = x.def /\ y.ext = x.ext /\ y.asm = x.asm
      /\ y = [f \in {"of", "name", "def", "ext", "asm", "refs"} |-> y[f]]
  BY <1>1
<1>3. z = [f \in {"of", "name", "def", "ext", "asm", "refs"} |-> IF f = "refs" THEN rs ELSE y[f]]
  <2>. HIDE DEF y
  <2>. QED
    BY <1>2
<1>. QED
  BY <1>2, <1>3

\* The linked module, symbol by symbol.
LEMMA LinkShape ==
    ASSUME NEW p, NEW M \in ModulesOf(p), NEW S \in ModulesOf(p)
    PROVE  /\ LinkModules(M, S) \in [DomainOf(M, S) -> UNION {{StaysAs(M, S, i) : i \in DOMAIN M}, {MovesAs(M, S, s) : s \in DOMAIN S}}]
           /\ \A i \in DOMAIN M \ ErasedOf(M, S) : LinkModules(M, S)[i] = StaysAs(M, S, i)
           /\ \A s \in MovedOf(M, S) : LinkModules(M, S)[Top(M) + s] = MovesAs(M, S, s)
<1>. DEFINE Stay(i) == [M[i] EXCEPT !.name = IF @ \in TakenOf(M, S) THEN Renamed(@, FreshOf(M, S) + i) ELSE @,
                                    !.refs = {[r EXCEPT !.at = AfterOf(M, S, @)] : r \in @}]
            Move(i) == [S[i - Top(M)] EXCEPT
                  !.name = IF ~S[i - Top(M)].ext /\ Named(M, @) # {} THEN Renamed(@, FreshOf(M, S) + i) ELSE @,
                  !.refs = {[r EXCEPT !.at = IntoOf(M, S, @)] : r \in @}]
            L == LinkModules(M, S)
<1>1. L = [i \in DomainOf(M, S) |-> IF i <= Top(M) THEN Stay(i) ELSE Move(i)]
  BY Zenon DEF LinkModules, DomainOf, PeerOf, MergedOf, MovedOf, ErasedOf, TakenOf, FreshOf, IntoOf, AfterOf
<1>2. ASSUME NEW i \in DOMAIN M PROVE Stay(i) = StaysAs(M, S, i)
  <2>1. M[i] \in SymbolsOf(p) /\ M[i].refs \subseteq RefsOf(p)
    BY SymbolFacts
  <2>2. {[r EXCEPT !.at = AfterOf(M, S, @)] : r \in M[i].refs}
          = {[want |-> r.want, arg |-> r.arg, at |-> AfterOf(M, S, r.at)] : r \in M[i].refs}
    <3>. DEFINE old(r) == [r EXCEPT !.at = AfterOf(M, S, @)]
                new(r) == [want |-> r.want, arg |-> r.arg, at |-> AfterOf(M, S, r.at)]
    <3>1. ASSUME NEW r \in M[i].refs PROVE old(r) = new(r)
      <4>1. r \in RefsOf(p)
        BY <2>1
      <4>. QED
        BY <4>1 DEF RefsOf
    <3>. HIDE DEF old, new
    <3>2. {old(r) : r \in M[i].refs} = {new(r) : r \in M[i].refs}
      BY <3>1
    <3>. QED
      BY <3>2 DEF old, new
  <2>. QED
    BY <2>1, <2>2, Rename DEF StaysAs
<1>3. ASSUME NEW s \in DOMAIN S PROVE Move(Top(M) + s) = MovesAs(M, S, s)
  <2>1. S[s] \in SymbolsOf(p) /\ S[s].refs \subseteq RefsOf(p) /\ s \in Nat
    BY SymbolFacts
  <2>2. {[r EXCEPT !.at = IntoOf(M, S, @)] : r \in S[s].refs}
          = {[want |-> r.want, arg |-> r.arg, at |-> IntoOf(M, S, r.at)] : r \in S[s].refs}
    <3>. DEFINE old(r) == [r EXCEPT !.at = IntoOf(M, S, @)]
                new(r) == [want |-> r.want, arg |-> r.arg, at |-> IntoOf(M, S, r.at)]
    <3>1. ASSUME NEW r \in S[s].refs PROVE old(r) = new(r)
      <4>1. r \in RefsOf(p)
        BY <2>1
      <4>. QED
        BY <4>1 DEF RefsOf
    <3>. HIDE DEF old, new
    <3>2. {old(r) : r \in S[s].refs} = {new(r) : r \in S[s].refs}
      BY <3>1
    <3>. QED
      BY <3>2 DEF old, new
  <2>3. (Top(M) + s) - Top(M) = s
    BY <2>1, TopFacts
  <2>. QED
    BY <2>1, <2>2, <2>3, Rename DEF MovesAs
<1>. HIDE DEF Stay, Move, L
<1>4. ASSUME NEW i \in DOMAIN M \ ErasedOf(M, S) PROVE L[i] = StaysAs(M, S, i)
  <2>1. i <= Top(M) /\ i \in DomainOf(M, S)
    BY TopFacts DEF DomainOf
  <2>. QED
    BY <1>1, <1>2, <2>1
<1>5. ASSUME NEW s \in MovedOf(M, S) PROVE L[Top(M) + s] = MovesAs(M, S, s)
  <2>1. s \in DOMAIN S /\ s \in Nat /\ s # 0
    BY SymbolFacts DEF MovedOf
  <2>2. ~(Top(M) + s <= Top(M)) /\ Top(M) + s \in DomainOf(M, S)
    BY <2>1, TopFacts DEF DomainOf
  <2>. QED
    BY <1>1, <1>3, <2>1, <2>2
<1>6. ASSUME NEW i \in DomainOf(M, S)
      PROVE  L[i] \in UNION {{StaysAs(M, S, j) : j \in DOMAIN M}, {MovesAs(M, S, s) : s \in DOMAIN S}}
  BY <1>4, <1>5 DEF DomainOf, MovedOf
<1>. QED
  BY <1>1, <1>4, <1>5, <1>6 DEF L

\* Symbols meet in pairs.
LEMMA PeersUnique ==
    ASSUME NEW p, NEW M \in ModulesOf(p), NEW S \in ModulesOf(p), NEW s \in DOMAIN S,
           NEW i \in PeerOf(M, S, s)
    PROVE  /\ i \in DOMAIN M
           /\ \A j \in PeerOf(M, S, s) : j = i
           /\ \A t \in DOMAIN S : i \in PeerOf(M, S, t) => t = s
BY ModuleFacts DEF PeerOf, NamesDistinct

\* Where a reference of M or of S leads after linking.
LEMMA LinkedTargets ==
    ASSUME NEW p, NEW M \in ModulesOf(p), NEW S \in ModulesOf(p)
    PROVE  /\ \A i \in DOMAIN M : AfterOf(M, S, i) \in DomainOf(M, S)
           /\ \A s \in DOMAIN S : IntoOf(M, S, s) \in DomainOf(M, S)
           /\ \A i \in DOMAIN M \ ErasedOf(M, S) : AfterOf(M, S, i) = i
           /\ \A s \in MovedOf(M, S) : IntoOf(M, S, s) = Top(M) + s
           /\ \A i \in ErasedOf(M, S) : \E s \in MovedOf(M, S) :
                i \in PeerOf(M, S, s) /\ AfterOf(M, S, i) = Top(M) + s
           /\ \A s \in MergedOf(M, S) : \E i \in PeerOf(M, S, s) :
                i \in DOMAIN M \ ErasedOf(M, S) /\ IntoOf(M, S, s) = i
<1>1. ASSUME NEW i \in ErasedOf(M, S)
      PROVE  \E s \in MovedOf(M, S) : i \in PeerOf(M, S, s) /\ AfterOf(M, S, i) = Top(M) + s
  <2>1. \E s \in MovedOf(M, S) : i \in PeerOf(M, S, s)
    BY DEF ErasedOf
  <2>. QED
    BY <2>1 DEF AfterOf
<1>2. ASSUME NEW s \in MergedOf(M, S)
      PROVE  \E i \in PeerOf(M, S, s) : i \in DOMAIN M \ ErasedOf(M, S) /\ IntoOf(M, S, s) = i
  <2>. DEFINE i == CHOOSE j \in PeerOf(M, S, s) : TRUE
  <2>1. s \in DOMAIN S /\ i \in PeerOf(M, S, s) /\ IntoOf(M, S, s) = i
    BY DEF MergedOf, IntoOf
  <2>. HIDE DEF i
  <2>2. i \in DOMAIN M /\ \A t \in DOMAIN S : i \in PeerOf(M, S, t) => t = s
    BY <2>1, PeersUnique
  <2>3. i \notin ErasedOf(M, S)
    BY <2>2 DEF ErasedOf, MovedOf
  <2>. QED
    BY <2>1, <2>2, <2>3
<1>3. \A i \in DOMAIN M \ ErasedOf(M, S) : AfterOf(M, S, i) = i
  BY DEF AfterOf
<1>4. \A s \in MovedOf(M, S) : IntoOf(M, S, s) = Top(M) + s
  BY DEF IntoOf, MovedOf
<1>5. \A i \in DOMAIN M : AfterOf(M, S, i) \in DomainOf(M, S)
  BY <1>1, <1>3 DEF DomainOf
<1>6. \A s \in DOMAIN S : IntoOf(M, S, s) \in DomainOf(M, S)
  BY <1>2, <1>4 DEF DomainOf, MovedOf
<1>. QED
  BY <1>1, <1>2, <1>3, <1>4, <1>5, <1>6

\* A fresh suffix makes a name that neither module has.
LEMMA FreshNames ==
    ASSUME NEW p, NEW M \in ModulesOf(p), NEW S \in ModulesOf(p), NEW nm \in Names,
           NEW k \in Nat, k # 0
    PROVE  /\ FreshOf(M, S) + k \in Nat /\ Renamed(nm, FreshOf(M, S) + k) \in Names
           /\ Renamed(nm, FreshOf(M, S) + k)[2] = FreshOf(M, S) + k
           /\ \A i \in DOMAIN M : M[i].name # Renamed(nm, FreshOf(M, S) + k)
           /\ \A s \in DOMAIN S : S[s].name # Renamed(nm, FreshOf(M, S) + k)
<1>1. FreshOf(M, S) \in Nat /\ Suffix(M) <= FreshOf(M, S) /\ Suffix(S) <= FreshOf(M, S)
  BY TopFacts DEF FreshOf
<1>2. /\ Renamed(nm, FreshOf(M, S) + k) \in Names
      /\ Renamed(nm, FreshOf(M, S) + k)[2] = FreshOf(M, S) + k
  BY <1>1 DEF Renamed, Names
<1>3. ASSUME NEW i \in DOMAIN M PROVE M[i].name # Renamed(nm, FreshOf(M, S) + k)
  <2>1. M[i].name[2] \in Nat /\ M[i].name[2] <= Suffix(M) /\ Suffix(M) \in Nat
    BY SymbolFacts, TopFacts
  <2>2. M[i].name[2] # FreshOf(M, S) + k
    BY <1>1, <2>1
  <2>. QED
    BY <1>2, <2>2
<1>4. ASSUME NEW s \in DOMAIN S PROVE S[s].name # Renamed(nm, FreshOf(M, S) + k)
  <2>1. S[s].name[2] \in Nat /\ S[s].name[2] <= Suffix(S) /\ Suffix(S) \in Nat
    BY SymbolFacts, TopFacts
  <2>2. S[s].name[2] # FreshOf(M, S) + k
    BY <1>1, <2>1
  <2>. QED
    BY <1>2, <2>2
<1>. QED
  BY <1>1, <1>2, <1>3, <1>4

\* The symbols of the linked module.
LEMMA LinkDomain ==
    ASSUME NEW p, NEW M \in ModulesOf(p), NEW S \in ModulesOf(p)
    PROVE  /\ DOMAIN LinkModules(M, S) = DomainOf(M, S)
           /\ MovedOf(M, S) \subseteq DOMAIN S /\ ErasedOf(M, S) \subseteq DOMAIN M
BY LinkShape DEF MovedOf, ErasedOf

\* A symbol that stays, field by field.
LEMMA LinkStays ==
    ASSUME NEW p, NEW M \in ModulesOf(p), NEW S \in ModulesOf(p),
           NEW L, L = LinkModules(M, S), NEW i \in DOMAIN M \ ErasedOf(M, S)
    PROVE  /\ i \in DOMAIN L
           /\ L[i].of = M[i].of /\ (L[i].def <=> M[i].def) /\ (L[i].ext <=> M[i].ext)
           /\ L[i].asm = M[i].asm
           /\ M[i].name \notin TakenOf(M, S) => L[i].name = M[i].name
           /\ M[i].name \in TakenOf(M, S) => L[i].name = Renamed(M[i].name, FreshOf(M, S) + i)
           /\ L[i].refs = {[want |-> r.want, arg |-> r.arg, at |-> AfterOf(M, S, r.at)] : r \in M[i].refs}
<1>1. DOMAIN L = DomainOf(M, S)
  BY LinkDomain
<1>2. i \in DOMAIN L
  BY <1>1 DEF DomainOf
<1>3. L[i] = StaysAs(M, S, i)
  BY LinkShape
<1>. DEFINE y == StaysAs(M, S, i)
<1>4. /\ y.of = M[i].of /\ (y.def <=> M[i].def) /\ (y.ext <=> M[i].ext) /\ y.asm = M[i].asm
      /\ y.refs = {[want |-> r.want, arg |-> r.arg, at |-> AfterOf(M, S, r.at)] : r \in M[i].refs}
  BY Zenon DEF StaysAs
<1>5. y.name = IF M[i].name \in TakenOf(M, S) THEN Renamed(M[i].name, FreshOf(M, S) + i) ELSE M[i].name
  BY Zenon DEF StaysAs
<1>. HIDE DEF y
<1>6. L[i] = y
  BY <1>3 DEF y
<1>. QED
  BY <1>2, <1>4, <1>5, <1>6

\* A symbol that comes in, field by field.
LEMMA LinkMoves ==
    ASSUME NEW p, NEW M \in ModulesOf(p), NEW S \in ModulesOf(p),
           NEW L, L = LinkModules(M, S), NEW s \in MovedOf(M, S), NEW i, i = Top(M) + s
    PROVE  /\ i \in DOMAIN L
           /\ L[i].of = S[s].of /\ (L[i].def <=> S[s].def) /\ (L[i].ext <=> S[s].ext)
           /\ L[i].asm = S[s].asm
           /\ S[s].ext \/ Named(M, S[s].name) = {} => L[i].name = S[s].name
           /\ ~S[s].ext /\ Named(M, S[s].name) # {}
                => L[i].name = Renamed(S[s].name, FreshOf(M, S) + i)
           /\ L[i].refs = {[want |-> r.want, arg |-> r.arg, at |-> IntoOf(M, S, r.at)] : r \in S[s].refs}
<1>1. DOMAIN L = DomainOf(M, S)
  BY LinkDomain
<1>2. i \in DOMAIN L
  BY <1>1 DEF DomainOf
<1>3. L[i] = MovesAs(M, S, s)
  BY LinkShape
<1>. DEFINE y == MovesAs(M, S, s)
<1>4. /\ y.of = S[s].of /\ (y.def <=> S[s].def) /\ (y.ext <=> S[s].ext) /\ y.asm = S[s].asm
      /\ y.refs = {[want |-> r.want, arg |-> r.arg, at |-> IntoOf(M, S, r.at)] : r \in S[s].refs}
  BY Zenon DEF MovesAs
<1>5. y.name = IF ~S[s].ext /\ Named(M, S[s].name) # {} THEN Renamed(S[s].name, FreshOf(M, S) + (Top(M) + s)) ELSE S[s].name
  BY Zenon DEF MovesAs
<1>. HIDE DEF y
<1>6. L[i] = y
  BY <1>3 DEF y
<1>. QED
  BY <1>2, <1>4, <1>5, <1>6

\* The three ways in which symbol i of the linked module L gets its name.
FreshName(M, S, L, i) ==
    /\ L[i].name[2] = FreshOf(M, S) + i
    /\ \A j \in DOMAIN M : M[j].name # L[i].name
    /\ \A s \in DOMAIN S : S[s].name # L[i].name
KeptName(M, S, L, i) ==
    i \in DOMAIN M \ ErasedOf(M, S) /\ L[i].name = M[i].name /\ M[i].name \notin TakenOf(M, S)
BroughtName(M, S, L, i, s) ==
    /\ i = Top(M) + s /\ L[i].name = S[s].name
    /\ S[s].ext \/ Named(M, S[s].name) = {}

\* A symbol has its old name, or a fresh one with its own number.
LEMMA LinkedNames ==
    ASSUME NEW p, NEW M \in ModulesOf(p), NEW S \in ModulesOf(p),
           NEW L, L = LinkModules(M, S), NEW i \in DOMAIN L
    PROVE  /\ i \in Nat /\ i # 0 /\ L[i].name \in Names
           /\ \/ FreshName(M, S, L, i) \/ KeptName(M, S, L, i)
              \/ \E s \in MovedOf(M, S) : BroughtName(M, S, L, i, s)
<1>1. DOMAIN L = DomainOf(M, S)
  BY LinkDomain
<1>2. CASE i \in DOMAIN M \ ErasedOf(M, S)
  <2>1. i \in Nat /\ i # 0 /\ M[i].name \in Names
    BY <1>2, SymbolFacts
  <2>2. /\ M[i].name \notin TakenOf(M, S) => L[i].name = M[i].name
        /\ M[i].name \in TakenOf(M, S) => L[i].name = Renamed(M[i].name, FreshOf(M, S) + i)
    BY <1>2, LinkStays
  <2>3. CASE M[i].name \in TakenOf(M, S)
    <3>. DEFINE nm == Renamed(M[i].name, FreshOf(M, S) + i)
    <3>1. /\ nm \in Names /\ nm[2] = FreshOf(M, S) + i
          /\ \A j \in DOMAIN M : M[j].name # nm
          /\ \A t \in DOMAIN S : S[t].name # nm
      BY <2>1, FreshNames
    <3>2. L[i].name = nm
      BY <2>2, <2>3
    <3>. HIDE DEF nm
    <3>. QED
      BY <2>1, <3>1, <3>2 DEF FreshName
  <2>. QED
    BY <1>2, <2>1, <2>2, <2>3 DEF KeptName
<1>3. ASSUME NEW s \in MovedOf(M, S), i = Top(M) + s
      PROVE  /\ i \in Nat /\ i # 0 /\ L[i].name \in Names
             /\ FreshName(M, S, L, i) \/ BroughtName(M, S, L, i, s)
  <2>1. s \in Nat /\ s # 0 /\ S[s].name \in Names /\ i \in Nat /\ i # 0 /\ S[s].ext \in BOOLEAN
    BY <1>3, SymbolFacts, TopFacts DEF MovedOf
  <2>2. /\ S[s].ext \/ Named(M, S[s].name) = {} => L[i].name = S[s].name
        /\ ~S[s].ext /\ Named(M, S[s].name) # {}
             => L[i].name = Renamed(S[s].name, FreshOf(M, S) + i)
    BY <1>3, LinkMoves
  <2>3. CASE ~S[s].ext /\ Named(M, S[s].name) # {}
    <3>. DEFINE nm == Renamed(S[s].name, FreshOf(M, S) + i)
    <3>1. /\ nm \in Names /\ nm[2] = FreshOf(M, S) + i
          /\ \A j \in DOMAIN M : M[j].name # nm
          /\ \A t \in DOMAIN S : S[t].name # nm
      BY <2>1, FreshNames
    <3>2. L[i].name = nm
      BY <2>2, <2>3
    <3>. HIDE DEF nm
    <3>. QED
      BY <2>1, <3>1, <3>2 DEF FreshName
  <2>. QED
    BY <1>3, <2>1, <2>2, <2>3 DEF BroughtName
<1>. QED
  BY <1>1, <1>2, <1>3 DEF DomainOf

\* Linking two modules gives a module: no reference dangles and names stay
\* distinct.
LEMMA LinkIsModule ==
    ASSUME NEW p, NEW M \in ModulesOf(p), NEW S \in ModulesOf(p)
    PROVE  LinkModules(M, S) \in ModulesOf(p)
<1>. DEFINE L == LinkModules(M, S)
            D == DomainOf(M, S)
<1>. HIDE DEF L
<1>0. L = LinkModules(M, S)
  BY DEF L
<1>1. DOMAIN L = D /\ D \subseteq Nat \ {0}
  BY <1>0, LinkDomain, LinkedNames
<1>2. D # {}
  <2>1. PICK i \in DOMAIN M : TRUE
    BY ModuleFacts
  <2>2. AfterOf(M, S, i) \in D
    BY LinkedTargets
  <2>. QED
    BY <2>2
<1>3. ASSUME NEW i \in D
      PROVE  /\ L[i] \in SymbolsOf(p)
             /\ \A r \in L[i].refs : r.at \in D
  <2>1. CASE i \in DOMAIN M \ ErasedOf(M, S)
    <3>1. /\ M[i].of \in ThingsOf(p) /\ M[i].def \in BOOLEAN /\ M[i].ext \in BOOLEAN
          /\ M[i].asm \in p.bytes \cup {"nop", "-"}
      BY <2>1, SymbolFacts
    <3>2. L[i].name \in Names
      BY <1>0, <1>1, LinkedNames
    <3>. DEFINE rs == {[want |-> r.want, arg |-> r.arg, at |-> AfterOf(M, S, r.at)] : r \in M[i].refs}
    <3>3. \A r \in rs : r \in RefsOf(p) /\ r.at \in D
      <4>1. ASSUME NEW r \in M[i].refs
            PROVE  r.want \in ThingsOf(p) /\ r.arg \in Nat /\ AfterOf(M, S, r.at) \in D
        BY <2>1, SymbolFacts, LinkedTargets
      <4>. QED
        BY <1>1, <4>1 DEF RefsOf
    <3>4. L[i].refs = rs
      BY <2>1, <1>0, LinkStays
    <3>. DEFINE nm == IF M[i].name \in TakenOf(M, S) THEN Renamed(M[i].name, FreshOf(M, S) + i) ELSE M[i].name
                y == [of |-> M[i].of, name |-> nm, def |-> M[i].def, ext |-> M[i].ext,
                      asm |-> M[i].asm, refs |-> rs]
    <3>5. L[i] = y
      <4>1. L[i] = StaysAs(M, S, i)
        BY <2>1, <1>0, LinkShape
      <4>. QED
        BY <4>1, Zenon DEF StaysAs
    <3>6. nm \in Names
      <4>. HIDE DEF nm
      <4>1. y.name = nm
        OBVIOUS
      <4>. QED
        BY <4>1, <3>2, <3>5
    <3>7. y \in SymbolsOf(p)
      <4>. HIDE DEF nm, rs
      <4>. QED
        BY <3>1, <3>3, <3>6 DEF SymbolsOf
    <3>. HIDE DEF y
    <3>. HIDE DEF rs
    <3>. QED
      BY <3>3, <3>4, <3>5, <3>7
  <2>2. ASSUME NEW s \in MovedOf(M, S), i = Top(M) + s
        PROVE  /\ L[i] \in SymbolsOf(p)
               /\ \A r \in L[i].refs : r.at \in D
    <3>0. s \in DOMAIN S
      BY DEF MovedOf
    <3>1. /\ S[s].of \in ThingsOf(p) /\ S[s].def \in BOOLEAN /\ S[s].ext \in BOOLEAN
          /\ S[s].asm \in p.bytes \cup {"nop", "-"}
      BY <3>0, SymbolFacts
    <3>2. L[i].name \in Names
      BY <1>0, <1>1, LinkedNames
    <3>. DEFINE rs == {[want |-> r.want, arg |-> r.arg, at |-> IntoOf(M, S, r.at)] : r \in S[s].refs}
    <3>3. \A r \in rs : r \in RefsOf(p) /\ r.at \in D
      <4>1. ASSUME NEW r \in S[s].refs
            PROVE  r.want \in ThingsOf(p) /\ r.arg \in Nat /\ IntoOf(M, S, r.at) \in D
        BY <3>0, SymbolFacts, LinkedTargets
      <4>. QED
        BY <1>1, <4>1 DEF RefsOf
    <3>4. L[i].refs = rs
      BY <2>2, <1>0, LinkMoves
    <3>. DEFINE nm == IF ~S[s].ext /\ Named(M, S[s].name) # {}
                      THEN Renamed(S[s].name, FreshOf(M, S) + (Top(M) + s)) ELSE S[s].name
                y == [of |-> S[s].of, name |-> nm, def |-> S[s].def, ext |-> S[s].ext,
                      asm |-> S[s].asm, refs |-> rs]
    <3>5. L[i] = y
      <4>1. L[i] = MovesAs(M, S, s)
        BY <2>2, <1>0, LinkShape
      <4>. QED
        BY <4>1, Zenon DEF MovesAs
    <3>6. nm \in Names
      <4>. HIDE DEF nm
      <4>1. y.name = nm
        OBVIOUS
      <4>. QED
        BY <4>1, <3>2, <3>5
    <3>7. y \in SymbolsOf(p)
      <4>. HIDE DEF nm, rs
      <4>. QED
        BY <3>1, <3>3, <3>6 DEF SymbolsOf
    <3>. HIDE DEF y
    <3>. HIDE DEF rs
    <3>. QED
      BY <3>3, <3>4, <3>5, <3>7
  <2>. QED
    BY <2>1, <2>2 DEF DomainOf
<1>4. L \in [D -> SymbolsOf(p)] /\ RefsInside(L)
  <2>1. L \in [D -> {L[i] : i \in D}]
    BY <1>0, LinkShape
  <2>. QED
    BY <1>1, <1>3, <2>1 DEF RefsInside
<1>5. NamesDistinct(L)
  <2>. SUFFICES ASSUME NEW i \in DOMAIN L, NEW j \in DOMAIN L, L[i].name = L[j].name
                PROVE  i = j
    BY DEF NamesDistinct
  <2>. DEFINE New(k) == FreshName(M, S, L, k)
              Old(k) == KeptName(M, S, L, k)
              In(k, s) == BroughtName(M, S, L, k, s)
  <2>1. /\ New(i) \/ Old(i) \/ \E s \in MovedOf(M, S) : In(i, s)
        /\ New(j) \/ Old(j) \/ \E s \in MovedOf(M, S) : In(j, s)
        /\ i \in Nat /\ j \in Nat
    BY <1>0, LinkedNames
  <2>2. FreshOf(M, S) \in Nat /\ MovedOf(M, S) \subseteq DOMAIN S
    BY TopFacts DEF FreshOf, MovedOf
  <2>3. CASE New(i) /\ New(j)
    BY <2>1, <2>2, <2>3 DEF FreshName
  <2>4. New(i) => New(j)
    BY <2>1, <2>2 DEF FreshName, KeptName, BroughtName
  <2>5. New(j) => New(i)
    BY <2>1, <2>2 DEF FreshName, KeptName, BroughtName
  <2>6. CASE Old(i) /\ Old(j)
    BY <2>6, ModuleFacts DEF NamesDistinct, KeptName, BroughtName
  <2>7. ASSUME NEW s \in MovedOf(M, S), NEW t \in MovedOf(M, S), In(i, s), In(j, t) PROVE i = j
    BY <2>2, <2>7, ModuleFacts DEF NamesDistinct, KeptName, BroughtName
  <2>8. ASSUME NEW k \in DOMAIN L, NEW m \in DOMAIN L, NEW s \in MovedOf(M, S), Old(k), In(m, s),
               L[k].name = L[m].name
        PROVE  FALSE
    BY <2>8 DEF TakenOf, Named, KeptName, BroughtName
  <2>. HIDE DEF New, Old, In
  <2>. QED
    BY <2>1, <2>3, <2>4, <2>5, <2>6, <2>7, <2>8
<1>6. Bounded(L, FreshOf(M, S) + (Top(M) + Top(S))) /\ FreshOf(M, S) + (Top(M) + Top(S)) \in Nat
  <2>1. /\ FreshOf(M, S) \in Nat /\ Top(M) \in Nat /\ Top(S) \in Nat
        /\ Suffix(M) <= FreshOf(M, S) /\ Suffix(S) <= FreshOf(M, S)
        /\ Suffix(M) \in Nat /\ Suffix(S) \in Nat
    BY TopFacts DEF FreshOf
  <2>2. ASSUME NEW i \in DOMAIN L PROVE i \in Nat /\ i <= Top(M) + Top(S)
    <3>1. \/ i \in DOMAIN M
          \/ \E s \in DOMAIN S : i = Top(M) + s
      BY <1>1 DEF DomainOf, MovedOf
    <3>. QED
      BY <2>1, <3>1, TopFacts, SymbolFacts
  <2>3. ASSUME NEW i \in DOMAIN L PROVE L[i].name[2] <= FreshOf(M, S) + (Top(M) + Top(S))
    <3>1. \/ L[i].name[2] = FreshOf(M, S) + i
          \/ i \in DOMAIN M /\ L[i].name = M[i].name
          \/ \E s \in DOMAIN S : L[i].name = S[s].name
      BY <1>0, LinkedNames DEF MovedOf, FreshName, KeptName, BroughtName
    <3>2. CASE L[i].name[2] = FreshOf(M, S) + i
      BY <2>1, <2>2, <3>2
    <3>3. CASE i \in DOMAIN M /\ L[i].name = M[i].name
      <4>1. L[i].name[2] \in Nat /\ L[i].name[2] <= Suffix(M)
        BY <3>3, TopFacts, SymbolFacts
      <4>. QED
        BY <4>1, <2>1
    <3>4. ASSUME NEW s \in DOMAIN S, L[i].name = S[s].name
          PROVE  L[i].name[2] <= FreshOf(M, S) + (Top(M) + Top(S))
      <4>1. L[i].name[2] \in Nat /\ L[i].name[2] <= Suffix(S)
        BY <3>4, TopFacts, SymbolFacts
      <4>. QED
        BY <4>1, <2>1
    <3>. QED
      BY <3>1, <3>2, <3>3, <3>4
  <2>4. ASSUME NEW i \in DOMAIN L PROVE i <= FreshOf(M, S) + (Top(M) + Top(S))
    BY <2>1, <2>2
  <2>. QED
    BY <2>1, <2>3, <2>4 DEF Bounded
<1>. QED
  BY <1>1, <1>2, <1>4, <1>5, <1>6, ModuleIntro DEF L

\* A private symbol of M stays, and is still private.
LEMMA PrivateStays ==
    ASSUME NEW p, NEW M \in ModulesOf(p), NEW S \in ModulesOf(p), NEW i \in DOMAIN M, ~M[i].ext
    PROVE  i \in DOMAIN M \ ErasedOf(M, S)
BY DEF ErasedOf, PeerOf

\* An external definition of S comes in under its name.
LEMMA DefinitionMoves ==
    ASSUME NEW p, NEW M \in ModulesOf(p), NEW S \in ModulesOf(p), NEW s \in DOMAIN S,
           S[s].def, S[s].ext, NEW L, L = LinkModules(M, S)
    PROVE  /\ Top(M) + s \in DOMAIN L /\ s \in MovedOf(M, S)
           /\ L[Top(M) + s].name = S[s].name /\ L[Top(M) + s].of = S[s].of
           /\ L[Top(M) + s].def /\ L[Top(M) + s].ext
           /\ Named(L, S[s].name) = {Top(M) + s}
<1>1. s \in MovedOf(M, S)
  BY DEF MovedOf, MergedOf
<1>2. /\ Top(M) + s \in DOMAIN L
      /\ L[Top(M) + s].name = S[s].name /\ L[Top(M) + s].of = S[s].of
      /\ (L[Top(M) + s].def <=> S[s].def) /\ (L[Top(M) + s].ext <=> S[s].ext)
  <2>1. ASSUME NEW i, i = Top(M) + s
        PROVE  /\ i \in DOMAIN L
               /\ L[i].name = S[s].name /\ L[i].of = S[s].of
               /\ (L[i].def <=> S[s].def) /\ (L[i].ext <=> S[s].ext)
    BY <1>1, <2>1, LinkMoves
  <2>. QED
    BY <2>1
<1>3. NamesDistinct(L)
  BY LinkIsModule, ModuleFacts
<1>4. Named(L, S[s].name) = {Top(M) + s}
  BY <1>2, <1>3 DEF Named, NamesDistinct
<1>. QED
  BY <1>1, <1>2, <1>4

\* The symbol found by a name that a module has.
LEMMA Lookup ==
    ASSUME NEW M, NEW nm, Named(M, nm) # {}
    PROVE  GetNamedValue(M, nm) \in DOMAIN M /\ M[GetNamedValue(M, nm)].name = nm
BY DEF GetNamedValue, Named

\* A function with the names and references of a module is one.
LEMMA SameNamesAndRefs ==
    ASSUME NEW p, NEW M \in ModulesOf(p), NEW N \in [DOMAIN M -> SymbolsOf(p)],
           \A i \in DOMAIN M : N[i].name = M[i].name /\ N[i].refs = M[i].refs
    PROVE  N \in ModulesOf(p)
<1>1. PICK b \in Nat : Bounded(M, b)
  BY ModuleFacts
<1>2. Bounded(N, b) /\ RefsInside(N) /\ NamesDistinct(N)
  BY <1>1, ModuleFacts DEF Bounded, RefsInside, NamesDistinct
<1>. QED
  BY <1>2, ModuleFacts, ModuleIntro

\* setLinkage changes nothing but the linkage of one symbol.
LEMMA PrivateFacts ==
    ASSUME NEW p, NEW M \in ModulesOf(p), NEW i, NEW N, N = SetPrivate(M, i)
    PROVE  /\ N \in ModulesOf(p) /\ DOMAIN N = DOMAIN M
           /\ \A j \in DOMAIN M :
                /\ N[j].of = M[j].of /\ N[j].name = M[j].name /\ (N[j].def <=> M[j].def)
                /\ N[j].asm = M[j].asm /\ N[j].refs = M[j].refs
                /\ j # i => (N[j].ext <=> M[j].ext)
                /\ j = i => ~N[j].ext
           /\ \A nm : Named(N, nm) = Named(M, nm)
<1>1. DOMAIN N = DOMAIN M /\ \A j \in DOMAIN M : N[j] = IF j = i THEN [M[j] EXCEPT !.ext = FALSE] ELSE M[j]
  BY ModuleFacts DEF SetPrivate
<1>2. ASSUME NEW j \in DOMAIN M
      PROVE  /\ N[j] \in SymbolsOf(p)
             /\ N[j].of = M[j].of /\ N[j].name = M[j].name /\ (N[j].def <=> M[j].def)
             /\ N[j].asm = M[j].asm /\ N[j].refs = M[j].refs
             /\ j # i => (N[j].ext <=> M[j].ext)
             /\ j = i => ~N[j].ext
  <2>1. M[j] \in SymbolsOf(p)
    BY SymbolFacts
  <2>2. CASE j # i
    BY <1>1, <2>1, <2>2
  <2>3. CASE j = i
    <3>. DEFINE y == [M[j] EXCEPT !.ext = FALSE]
    <3>1. /\ y \in SymbolsOf(p)
          /\ y.of = M[j].of /\ y.name = M[j].name /\ (y.def <=> M[j].def)
          /\ y.asm = M[j].asm /\ y.refs = M[j].refs /\ ~y.ext
      BY <2>1 DEF SymbolsOf
    <3>2. N[j] = y
      BY <1>1, <2>3
    <3>. HIDE DEF y
    <3>. QED
      BY <2>3, <3>1, <3>2
  <2>. QED
    BY <2>2, <2>3
<1>3. N \in [DOMAIN M -> SymbolsOf(p)]
  BY <1>1, <1>2, ModuleFacts DEF SetPrivate
<1>4. N \in ModulesOf(p)
  BY <1>2, <1>3, SameNamesAndRefs
<1>5. \A nm : Named(N, nm) = Named(M, nm)
  BY <1>1, <1>2 DEF Named
<1>. QED
  BY <1>1, <1>2, <1>4, <1>5

---------------------------------------------------------------------------
(* Programs and the modules embedded in them.                              *)

ProgOK == P \in Programs

\* What the assumption says about the program.
LEMMA ProgFacts ==
    ASSUME ProgOK
    PROVE  /\ P.name \in Seq(STRING) /\ Len(P.name) \in Nat
           /\ Objs(P) = ObjsOf(P) /\ Objs(P) \subseteq Nat \ {0} /\ \A o \in Objs(P) : o <= Len(P.name)
           /\ P.unit \in [Objs(P) -> Nat \ {NoUnit}]
           /\ P.vars \subseteq Objs(P) /\ P.jit \subseteq Objs(P) /\ P.asked \subseteq Objs(P)
           /\ P.passed \subseteq Objs(P) /\ P.stub \subseteq Objs(P) /\ P.local \subseteq Objs(P)
           /\ P.asked \cap P.vars = {} /\ P.most \in Nat /\ P.dumps \subseteq BOOLEAN
           /\ \A o \in Objs(P) : /\ P.uses[o] \subseteq Objs(P) /\ P.takes[o] \in Nat
                                 /\ P.calls[o] \in Seq(P.uses[o] \ P.vars)
                                 /\ \A q \in P.uses[o] : P.unit[q] = P.unit[o] \/ q \notin P.local
           /\ \A o, q \in Objs(P) : o # q /\ P.name[o] = P.name[q] =>
                /\ P.unit[o] # P.unit[q] /\ (o \in P.local \/ q \in P.local)
                /\ \A x \in Objs(P) : P.unit[x] = P.unit[o] => q \notin P.uses[x]
<1>1. WellFormed(P)
  BY LinkingAssumption DEF ProgOK
<1>2. P.name \in Seq(STRING)
  BY <1>1 DEF WellFormed
<1>3. /\ Len(P.name) \in Nat /\ Objs(P) = ObjsOf(P) /\ Objs(P) \subseteq Nat \ {0}
      /\ \A o \in Objs(P) : o <= Len(P.name)
  BY <1>2 DEF Objs, ObjsOf
<1>4. /\ P["vars"] \subseteq Objs(P) /\ P["jit"] \subseteq Objs(P) /\ P["asked"] \subseteq Objs(P)
      /\ P["passed"] \subseteq Objs(P) /\ P["stub"] \subseteq Objs(P) /\ P["local"] \subseteq Objs(P)
  BY <1>1 DEF WellFormed
<1>. QED
  BY <1>1, <1>2, <1>3, <1>4 DEF WellFormed

\* A name of an object is the name of a symbol.
LEMMA NameFacts ==
    ASSUME ProgOK, NEW o \in Objs(P)
    PROVE  Name(o) \in Names /\ Name(o)[2] = 0 /\ \A q \in Objs(P) : Name(q) = Name(o) <=> P.name[q] = P.name[o]
BY ProgFacts DEF Name, Names, Objs

\* Referenced holds the object, and in its unit is closed under use.
LEMMA ReferencedFacts ==
    ASSUME ProgOK, NEW o \in Objs(P)
    PROVE  /\ Referenced(o) \subseteq Objs(P) /\ o \in Referenced(o)
           /\ \A q \in Referenced(o) : P.unit[q] = P.unit[o] => P.uses[q] \subseteq Referenced(o)
<1>. DEFINE O == Objs(P)
            More(T) == T \cup UNION {P.uses[q] : q \in {x \in T : P.unit[x] = P.unit[o]}}
            F == [T \in SUBSET O |-> More(T)]
            R == CHOOSE g : g = [n \in Nat |-> IF n = 0 THEN {o} ELSE More(g[n - 1])]
<1>1. ASSUME NEW T \in SUBSET O PROVE More(T) \in SUBSET O /\ T \subseteq More(T)
  <2>1. \A q \in O : P.uses[q] \subseteq O
    BY ProgFacts
  <2>. QED
    BY <2>1
<1>2. F \in [SUBSET O -> SUBSET O] /\ \A T \in SUBSET O : F[T] = More(T)
  <2>. HIDE DEF More
  <2>. QED
    BY <1>1
<1>3. PICK g \in [Nat -> SUBSET O] : \A n \in Nat : g[n] = IF n = 0 THEN {o} ELSE F[g[n - 1]]
  <2>. DEFINE S == {o}
              V == SUBSET O
  <2>1. S \in V /\ F \in [V -> V]
    BY <1>2
  <2>2. \E g \in [Nat -> V] : \A n \in Nat : g[n] = IF n = 0 THEN S ELSE F[g[n - 1]]
    <3>. HIDE DEF F, O, R, S, V
    <3>. QED
      BY <2>1, LevelsExist
  <2>. QED
    BY <2>2
<1>4. g = [n \in Nat |-> IF n = 0 THEN {o} ELSE More(g[n - 1])]
  <2>1. ASSUME NEW n \in Nat, n # 0 PROVE g[n] = More(g[n - 1])
    <3>1. n - 1 \in Nat
      BY <2>1
    <3>2. g[n - 1] \in SUBSET O
      BY <3>1
    <3>. HIDE DEF F, More
    <3>. QED
      BY <2>1, <3>2, <1>2, <1>3
  <2>2. g[0] = {o}
    <3>. HIDE DEF F
    <3>. QED
      BY <1>3
  <2>. HIDE DEF More
  <2>. QED
    BY <2>1, <2>2
<1>5. R = [n \in Nat |-> IF n = 0 THEN {o} ELSE More(R[n - 1])]
  <2>. HIDE DEF More
  <2>. QED
    BY <1>4
<1>6. Referenced(o) = R[Cardinality(Objs(P))]
  BY DEF Referenced
<1>. HIDE DEF R, F, More
<1>7. R[0] = {o} /\ \A n \in Nat : R[n + 1] = More(R[n])
  <2>1. R[0] = {o}
    BY <1>5
  <2>2. ASSUME NEW n \in Nat PROVE R[n + 1] = More(R[n])
    <3>1. n + 1 \in Nat /\ n + 1 # 0 /\ (n + 1) - 1 = n
      OBVIOUS
    <3>. QED
      BY <3>1, <1>5
  <2>. QED
    BY <2>1, <2>2
<1>8. R \in [Nat -> SUBSET O]
  <2>. DEFINE Good == {n \in Nat : R[n] \in SUBSET O}
  <2>1. 0 \in Good
    BY <1>7
  <2>2. ASSUME NEW n \in Good PROVE n + 1 \in Good
    BY <1>1, <1>7
  <2>3. Good \in SUBSET Nat
    OBVIOUS
  <2>. HIDE DEF Good
  <2>4. Good = Nat
    BY <2>1, <2>2, <2>3, NatInd
  <2>5. \A n \in Nat : R[n] \in SUBSET O
    BY <2>4 DEF Good
  <2>. QED
    BY <1>5, <2>5
<1>9. IsFiniteSet(O)
  <2>1. Len(P.name) \in Int /\ 1 \in Int
    BY ProgFacts
  <2>. QED
    BY <2>1, FS_Interval DEF Objs
<1>10. /\ Cardinality(O) \in Nat /\ R[0] \subseteq R[Cardinality(O)]
       /\ F[R[Cardinality(O)]] = R[Cardinality(O)]
  <2>1. \A T \in SUBSET O : T \subseteq F[T]
    BY <1>1, <1>2
  <2>2. \A n \in Nat : R[n + 1] = F[R[n]]
    BY <1>2, <1>7, <1>8
  <2>. HIDE DEF O
  <2>. QED
    BY <1>2, <1>8, <1>9, <2>1, <2>2, LevelsFixed
<1>11. More(Referenced(o)) = Referenced(o) /\ Referenced(o) \subseteq O /\ o \in Referenced(o)
  BY <1>2, <1>6, <1>7, <1>8, <1>10
<1>. QED
  BY <1>11 DEF More

\* The definitions and the symbols of an embedded module.
DefsOf(o) == {o} \cup {q \in Referenced(o) : q \notin P.vars /\ P.unit[q] = P.unit[o]}
AllOf(o) == DefsOf(o) \cup UNION {P.uses[d] : d \in DefsOf(o)}

\* An embedded module, symbol by symbol.
LEMMA EmbeddedFields ==
    ASSUME NEW o, NEW E, E = Embedded(o)
    PROVE  /\ DOMAIN E = AllOf(o) /\ E = [q \in DOMAIN E |-> E[q]]
           /\ \A q \in DOMAIN E :
                E[q] = [of   |-> Code(q), name |-> Name(q), def |-> q \in DefsOf(o),
                        ext  |-> q = o \/ q \notin DefsOf(o) \/ o \in P.vars \/ q \in P.optnone,
                        asm  |-> IF q \in P.stub THEN "nop" ELSE "-",
                        refs |-> IF q \in DefsOf(o)
                                 THEN {[want |-> Code(x), arg |-> 0, at |-> x] : x \in P.uses[q]}
                                 ELSE {}]
<1>. DEFINE Sym(q) == [of   |-> Code(q), name |-> Name(q), def |-> q \in DefsOf(o),
                       ext  |-> q = o \/ q \notin DefsOf(o) \/ o \in P.vars \/ q \in P.optnone,
                       asm  |-> IF q \in P.stub THEN "nop" ELSE "-",
                       refs |-> IF q \in DefsOf(o)
                                THEN {[want |-> Code(x), arg |-> 0, at |-> x] : x \in P.uses[q]}
                                ELSE {}]
<1>1. E = [q \in AllOf(o) |-> Sym(q)]
  BY Zenon DEF Embedded, AllOf, DefsOf
<1>. HIDE DEF Sym
<1>2. DOMAIN E = AllOf(o) /\ E = [q \in DOMAIN E |-> E[q]] /\ \A q \in DOMAIN E : E[q] = Sym(q)
  BY <1>1
<1>. QED
  BY <1>2 DEF Sym

\* The fields of a symbol of an embedded module.
LEMMA EmbeddedSymbol ==
    ASSUME NEW o, NEW E, E = Embedded(o), NEW q \in DOMAIN E
    PROVE  /\ E[q].of = Code(q) /\ E[q].name = Name(q)
           /\ E[q].def <=> q \in DefsOf(o)
           /\ E[q].ext <=> (q = o \/ q \notin DefsOf(o) \/ o \in P.vars \/ q \in P.optnone)
           /\ E[q].asm = IF q \in P.stub THEN "nop" ELSE "-"
<1>. DEFINE rs == IF q \in DefsOf(o)
                  THEN {[want |-> Code(x), arg |-> 0, at |-> x] : x \in P.uses[q]} ELSE {}
            d == q \in DefsOf(o)
            e == q = o \/ q \notin DefsOf(o) \/ o \in P.vars \/ q \in P.optnone
            a == IF q \in P.stub THEN "nop" ELSE "-"
<1>1. E[q] = [of |-> Code(q), name |-> Name(q), def |-> d, ext |-> e, asm |-> a, refs |-> rs]
  BY EmbeddedFields
<1>2. /\ E[q].of = Code(q) /\ E[q].name = Name(q) /\ (E[q].def <=> d) /\ (E[q].ext <=> e)
      /\ E[q].asm = a
  <2>1. d \in BOOLEAN /\ e \in BOOLEAN
    OBVIOUS
  <2>. HIDE DEF rs, d, e, a
  <2>. QED
    BY <1>1, <2>1
<1>. QED
  BY <1>2

\* The references of a definition of an embedded module.
LEMMA EmbeddedRefs ==
    ASSUME NEW o, NEW E, E = Embedded(o), NEW q \in DOMAIN E
    PROVE  E[q].refs = IF q \in DefsOf(o)
                       THEN {[want |-> Code(x), arg |-> 0, at |-> x] : x \in P.uses[q]} ELSE {}
<1>. DEFINE rs == IF q \in DefsOf(o)
                  THEN {[want |-> Code(x), arg |-> 0, at |-> x] : x \in P.uses[q]} ELSE {}
            d == q \in DefsOf(o)
            e == q = o \/ q \notin DefsOf(o) \/ o \in P.vars \/ q \in P.optnone
            a == IF q \in P.stub THEN "nop" ELSE "-"
<1>1. E[q] = [of |-> Code(q), name |-> Name(q), def |-> d, ext |-> e, asm |-> a, refs |-> rs]
  BY EmbeddedFields
<1>2. E[q].refs = rs
  <2>. HIDE DEF rs, d, e, a
  <2>. QED
    BY <1>1
<1>. QED
  BY <1>2

\* The objects of an embedded module: in it a name denotes one object.
LEMMA EmbeddedObjects ==
    ASSUME ProgOK, NEW o \in Objs(P)
    PROVE  /\ o \in DefsOf(o) /\ DefsOf(o) \subseteq AllOf(o) /\ AllOf(o) \subseteq Objs(P)
           /\ \A d \in DefsOf(o) : P.unit[d] = P.unit[o] /\ P.uses[d] \subseteq AllOf(o)
           /\ \A q, x \in AllOf(o) : P.name[q] = P.name[x] => q = x
<1>1. /\ o \in DefsOf(o) /\ DefsOf(o) \subseteq AllOf(o) /\ DefsOf(o) \subseteq Objs(P)
      /\ \A d \in DefsOf(o) : P.unit[d] = P.unit[o] /\ P.uses[d] \subseteq AllOf(o)
  BY ReferencedFacts DEF DefsOf, AllOf
<1>2. \A d \in Objs(P) : P.uses[d] \subseteq Objs(P)
  BY ProgFacts
<1>3. AllOf(o) \subseteq Objs(P)
  BY <1>1, <1>2 DEF AllOf
<1>4. ASSUME NEW q \in AllOf(o)
      PROVE  \/ P.unit[q] = P.unit[o]
             \/ q \notin P.local /\ \E d \in Objs(P) : P.unit[d] = P.unit[o] /\ q \in P.uses[d]
  <2>1. q \in DefsOf(o) \/ \E d \in DefsOf(o) : q \in P.uses[d]
    BY DEF AllOf
  <2>2. \A d \in Objs(P) : \A x \in P.uses[d] : P.unit[x] = P.unit[d] \/ x \notin P.local
    BY ProgFacts
  <2>. QED
    BY <1>1, <2>1, <2>2
<1>5. ASSUME NEW q \in AllOf(o), NEW x \in AllOf(o), P.name[q] = P.name[x] PROVE q = x
  <2>. SUFFICES ASSUME q # x PROVE FALSE
    OBVIOUS
  <2>1. \A a, b \in Objs(P) : a # b /\ P.name[a] = P.name[b] =>
          /\ P.unit[a] # P.unit[b] /\ (a \in P.local \/ b \in P.local)
          /\ \A d \in Objs(P) : P.unit[d] = P.unit[a] => b \notin P.uses[d]
    BY ProgFacts
  <2>2. q \in Objs(P) /\ x \in Objs(P)
    BY <1>3
  <2>. QED
    BY <1>4, <1>5, <2>1, <2>2
<1>. QED
  BY <1>1, <1>3, <1>5

\* What the plugin embeds is a module that defines its entry.
LEMMA EmbeddedFacts ==
    ASSUME ProgOK, NEW o \in Objs(P), NEW E, E = Embedded(o)
    PROVE  /\ E \in ModulesOf(P) /\ o \in DOMAIN E
           /\ E[o].def /\ E[o].ext /\ E[o].name = Name(o) /\ E[o].of = Code(o)
<1>1. DOMAIN E = AllOf(o) /\ E = [q \in DOMAIN E |-> E[q]]
  BY EmbeddedFields
<1>2. /\ o \in DefsOf(o) /\ DefsOf(o) \subseteq DOMAIN E /\ DOMAIN E \subseteq Objs(P)
      /\ \A d \in DefsOf(o) : P.uses[d] \subseteq DOMAIN E
      /\ \A q, x \in DOMAIN E : P.name[q] = P.name[x] => q = x
  BY <1>1, EmbeddedObjects
<1>3. Objs(P) \subseteq Nat \ {0} /\ Len(P.name) \in Nat /\ (\A q \in Objs(P) : q <= Len(P.name))
        /\ P.most \in Nat /\ Objs(P) = ObjsOf(P)
  BY ProgFacts
<1>4. \A x \in Objs(P) : Code(x) \in ThingsOf(P)
  BY <1>3 DEF Code, Thing, ThingsOf
<1>5. ASSUME NEW q \in DOMAIN E
      PROVE  /\ E[q] \in SymbolsOf(P) /\ E[q].name = Name(q)
             /\ \A r \in E[q].refs : r.at \in DOMAIN E
  <2>. DEFINE rs == IF q \in DefsOf(o)
                    THEN {[want |-> Code(x), arg |-> 0, at |-> x] : x \in P.uses[q]} ELSE {}
              d == q \in DefsOf(o)
              e == q = o \/ q \notin DefsOf(o) \/ o \in P.vars \/ q \in P.optnone
              a == IF q \in P.stub THEN "nop" ELSE "-"
  <2>1. E[q] = [of |-> Code(q), name |-> Name(q), def |-> d, ext |-> e, asm |-> a, refs |-> rs]
    BY EmbeddedFields
  <2>2. \A r \in rs : r \in RefsOf(P) /\ r.at \in DOMAIN E
    <3>1. ASSUME q \in DefsOf(o), NEW x \in P.uses[q]
          PROVE  Code(x) \in ThingsOf(P) /\ x \in Nat /\ x \in DOMAIN E
      BY <1>2, <1>3, <1>4, <3>1
    <3>. QED
      BY <3>1 DEF RefsOf
  <2>3. /\ d \in BOOLEAN /\ e \in BOOLEAN /\ a \in P.bytes \cup {"nop", "-"}
        /\ Name(q) \in Names /\ Code(q) \in ThingsOf(P)
    BY <1>2, <1>4, NameFacts
  <2>. HIDE DEF rs, d, e, a
  <2>. QED
    BY <2>1, <2>2, <2>3 DEF SymbolsOf
<1>6. E \in [DOMAIN E -> SymbolsOf(P)] /\ RefsInside(E)
  BY <1>1, <1>5 DEF RefsInside
<1>7. NamesDistinct(E)
  <2>1. ASSUME NEW q \in DOMAIN E, NEW x \in DOMAIN E, E[q].name = E[x].name PROVE q = x
    <3>1. Name(q) = Name(x) /\ q \in Objs(P) /\ x \in Objs(P)
      BY <1>2, <1>5, <2>1
    <3>2. P.name[q] = P.name[x]
      BY <3>1, NameFacts
    <3>. QED
      BY <1>2, <3>2
  <2>. QED
    BY <2>1 DEF NamesDistinct
<1>8. Bounded(E, Len(P.name))
  <2>1. ASSUME NEW q \in DOMAIN E PROVE q <= Len(P.name) /\ E[q].name[2] <= Len(P.name)
    <3>1. E[q].name = Name(q) /\ q \in Objs(P)
      BY <1>2, <1>5
    <3>2. Name(q)[2] = 0
      BY <3>1, NameFacts
    <3>. QED
      BY <3>1, <3>2, <1>3
  <2>. QED
    BY <2>1 DEF Bounded
<1>9. E \in ModulesOf(P)
  <2>1. DOMAIN E \in SUBSET (Nat \ {0}) /\ DOMAIN E # {} /\ Len(P.name) \in Nat
    BY <1>2, <1>3
  <2>. QED
    BY <2>1, <1>6, <1>7, <1>8, ModuleIntro
<1>10. o \in DOMAIN E /\ o \in DefsOf(o)
  BY <1>2
<1>11. ASSUME NEW q \in DOMAIN E, q = o, q \in DefsOf(o)
       PROVE  E[q].of = Code(q) /\ E[q].name = Name(q) /\ E[q].def /\ E[q].ext
  BY <1>11, EmbeddedSymbol
<1>. QED
  BY <1>9, <1>10, <1>11

---------------------------------------------------------------------------
(* One step of linking: a module S with an entry s is linked into M, and   *)
(* the entry is made private.                                              *)

\* What is linked can be found by its name, and everything else that M
\* keeps is as it was.
LEMMA LinkEntry ==
    ASSUME NEW p, NEW M \in ModulesOf(p), NEW S \in ModulesOf(p), NEW s \in DOMAIN S,
           S[s].def, S[s].ext, NEW L, L = LinkModules(M, S),
           NEW t, t = Top(M) + s,
           NEW N, N = SetPrivate(L, t)
    PROVE  /\ GetNamedValue(L, S[s].name) = t /\ GetNamedValue(N, S[s].name) = t
           /\ Named(N, S[s].name) = {t}
           /\ N \in ModulesOf(p) /\ t \in DOMAIN N /\ t \in Nat
           /\ N[t].name = S[s].name /\ N[t].of = S[s].of /\ N[t].def /\ ~N[t].ext
           /\ SetPrivate(N, t) = N
           /\ \A i \in DOMAIN M : ~M[i].ext => i \in DOMAIN N /\ ~N[i].ext
<1>1. /\ t \in DOMAIN L /\ s \in MovedOf(M, S)
      /\ L[t].name = S[s].name /\ L[t].of = S[s].of /\ L[t].def /\ L[t].ext
      /\ Named(L, S[s].name) = {t}
  BY DefinitionMoves
<1>2. L \in ModulesOf(p)
  BY LinkIsModule
<1>3. /\ N \in ModulesOf(p) /\ DOMAIN N = DOMAIN L
      /\ \A j \in DOMAIN L :
           /\ N[j].of = L[j].of /\ N[j].name = L[j].name /\ (N[j].def <=> L[j].def)
           /\ j # t => (N[j].ext <=> L[j].ext)
           /\ j = t => ~N[j].ext
      /\ \A nm : Named(N, nm) = Named(L, nm)
  BY <1>2, PrivateFacts
<1>4. GetNamedValue(L, S[s].name) = t /\ GetNamedValue(N, S[s].name) = t
  BY <1>1, <1>3 DEF GetNamedValue
<1>5. SetPrivate(N, t) = N
  <2>1. N[t] \in SymbolsOf(p) /\ N \in [DOMAIN N -> SymbolsOf(p)]
    BY <1>1, <1>3, ModuleFacts
  <2>2. N[t].ext = FALSE
    <3>1. N[t].ext \in BOOLEAN
      BY <2>1 DEF SymbolsOf
    <3>2. ~N[t].ext
      BY <1>1, <1>3
    <3>. QED
      BY <3>1, <3>2
  <2>3. [N[t] EXCEPT !.ext = FALSE] = N[t]
    BY <2>1, <2>2 DEF SymbolsOf
  <2>4. SetPrivate(N, t) = [N EXCEPT ![t] = [N[t] EXCEPT !.ext = FALSE]]
    BY DEF SetPrivate
  <2>5. [N EXCEPT ![t] = N[t]] = N
    BY <2>1
  <2>. QED
    BY <2>3, <2>4, <2>5, Zenon
<1>6. ASSUME NEW i \in DOMAIN M, ~M[i].ext PROVE i \in DOMAIN N /\ ~N[i].ext
  <2>1. i \in DOMAIN M \ ErasedOf(M, S)
    BY <1>6, PrivateStays
  <2>2. i \in DOMAIN L /\ (L[i].ext <=> M[i].ext)
    BY <2>1, LinkStays
  <2>. QED
    BY <1>3, <1>6, <2>2
<1>7. t \in Nat
  BY <1>1, <1>2, SymbolFacts
<1>. QED
  BY <1>1, <1>3, <1>4, <1>5, <1>6, <1>7

\* A symbol t is in nobody's way: nothing external of S has its name but
\* declarations, which become it.
LEMMA TargetStays ==
    ASSUME NEW p, NEW M \in ModulesOf(p), NEW S \in ModulesOf(p), NEW t \in DOMAIN M,
           \A s \in DOMAIN S : S[s].ext /\ S[s].name = M[t].name => ~S[s].def /\ M[t].ext,
           NEW L, L = LinkModules(M, S)
    PROVE  /\ t \in DOMAIN M \ ErasedOf(M, S) /\ t \in DOMAIN L /\ L[t].name = M[t].name
           /\ (L[t].def <=> M[t].def) /\ (L[t].ext <=> M[t].ext) /\ L[t].of = M[t].of
<1>1. ASSUME NEW s \in MovedOf(M, S), S[s].ext, S[s].name = M[t].name PROVE FALSE
  <2>1. s \in DOMAIN S /\ ~S[s].def /\ M[t].ext
    BY <1>1 DEF MovedOf
  <2>2. t \in PeerOf(M, S, s)
    BY <1>1, <2>1 DEF PeerOf
  <2>3. s \in MergedOf(M, S)
    BY <2>1, <2>2 DEF MergedOf
  <2>. QED
    BY <2>3 DEF MovedOf
<1>2. t \notin ErasedOf(M, S)
  BY <1>1 DEF ErasedOf, PeerOf
<1>3. M[t].name \notin TakenOf(M, S)
  BY <1>1 DEF TakenOf
<1>. QED
  BY <1>2, <1>3, LinkStays

---------------------------------------------------------------------------
(* The inductive invariant: records are bound to rigid variables, so that  *)
(* each predicate speaks of one easy::Function or one request.             *)

AnyArgs(p) == [kind : {"ptr"}, x : ObjsOf(p)] \cup [kind : {"mod"}, x : Nat]

MadeRecords(p) ==
    [mod : ModulesOf(p), entries : Seq(Names), address : Nat, globals : Nat, thing : ThingsOf(p),
     args : Seq(AnyArgs(p)), bytes : p.bytes, from : Nat]

CurRecords(p) ==
    [pc : {"resolve", "inline", "codegen", "undefined"}, fun : ObjsOf(p), args : Seq(AnyArgs(p)),
     bytes : p.bytes, dump : BOOLEAN, mod : ModulesOf(p), todo : Seq(Names), target : Nat,
     refs : SUBSET RefsOf(p), k : Nat \ {0}, entries : Seq(Names)]

\* The tracker: a name leads to a registered object of that name, and every
\* registered object has its name there.
Tracker ==
    /\ functions \subseteq P.jit
    /\ \A nm \in DOMAIN byName : byName[nm] \in functions /\ Name(byName[nm]) = nm
    /\ \A o \in functions : Name(o) \in DOMAIN byName

ArgsOK(args) == \A i \in DOMAIN args : args[i].kind = "mod" => args[i].x \in DOMAIN made

\* The one entry of a module M with these marks is the code t.
EntryIs(M, entries, t) ==
    \E nm \in Names : \E w \in DOMAIN M :
        entries = <<nm>> /\ M[w].name = nm /\ M[w].def /\ M[w].ext /\ M[w].of = t

OneEntry(M, nm, t) == EntryIs(M, <<nm>>, t)

\* An easy::Function F.
MadeOK(F) ==
    /\ F.thing.obj \in functions /\ ArgsOK(F.args)
    /\ EntryIs(F.mod, F.entries, F.thing)
    /\ Undisturbed(F.thing.obj, F.args) =>
         /\ F.entries = <<Name(F.thing.obj)>>
         /\ F.address = GetFunctionAddress(F.mod, Name(F.thing.obj))
         /\ byName[Name(F.thing.obj)] = F.thing.obj => F.globals = P.unit[F.thing.obj]
    /\ F.from # 0 =>
         /\ F.from \in DOMAIN made /\ made[F.from].mod = F.mod
         /\ made[F.from].thing.obj = F.thing.obj /\ made[F.from].args = F.args

\* What the invariant says of the easy::Functions.
MadeInv == made \in Seq(MadeRecords(P)) /\ Len(made) <= P.most /\ \A F \in Range(made) : MadeOK(F)

\* The function that the request c specialises is in its module.
FunIn(c, t) ==
    /\ t \in DOMAIN c.mod /\ c.mod[t].name = Name(c.fun) /\ c.mod[t].def
    /\ c.mod[t].ext \/ SelfCalls(c.fun)

\* There may be one more easy::Function; its number.
Room == Len(made) < P.most
Turn == Len(made) + 1

\* A request c in progress.
CurOK(c) ==
    /\ c.fun \in functions /\ ArgsOK(c.args) /\ Room
    /\ \A r \in c.refs : r.at \in DOMAIN c.mod /\ ~c.mod[r.at].ext
    /\ c.pc = "resolve" =>
         /\ c.refs = {} /\ c.entries = <<>> /\ Named(c.mod, Name(c.fun)) # {}
         /\ \A j \in DOMAIN c.todo : \E i \in DOMAIN P.calls[c.fun] : c.todo[j] = Name(P.calls[c.fun][i])
         /\ Undisturbed(c.fun, c.args) => \E t \in DOMAIN c.mod : FunIn(c, t)
    /\ c.pc = "inline" =>
         /\ c.entries = <<>>
         /\ Undisturbed(c.fun, c.args) => FunIn(c, c.target)
    /\ c.pc = "codegen" =>
         /\ EntryIs(c.mod, c.entries, Thing(c.fun, Turn))
         /\ Undisturbed(c.fun, c.args) => c.entries = <<Name(c.fun)>>
    /\ c.pc = "undefined" => c.dump \/ ~Undisturbed(c.fun, c.args)

---------------------------------------------------------------------------
(* What does not change, and what only grows.                              *)

\* The program is constant: so is what is embedded in it.
LEMMA StaticSame ==
    ASSUME P' = P, NEW o
    PROVE  /\ Embedded(o)' = Embedded(o) /\ Name(o)' = Name(o)
           /\ SelfCalls(o)' <=> SelfCalls(o)
BY DEF Embedded, Referenced, Name, SelfCalls, Objs, Code, Thing

\* Registration and compilation only add.
Grown ==
    /\ P' = P /\ functions \subseteq functions'
    /\ \A nm \in DOMAIN byName : nm \in DOMAIN byName' /\ byName'[nm] = byName[nm]
    /\ \A f \in DOMAIN made : f \in DOMAIN made' /\ made'[f] = made[f]

\* What a request links only grows.
LEMMA LinkedGrows ==
    ASSUME Grown, NEW o, NEW args, ArgsOK(args), NEW S \in Linked(o, args)
    PROVE  S \in Linked(o, args)'
<1>0. P' = P
  BY DEF Grown
<1>1. \/ \E nm \in {Name(q) : q \in P.uses[o] \ {o}} \cap DOMAIN byName : S = Embedded(byName[nm])
      \/ \E a \in Range(args) : a.kind = "ptr" /\ a.x \in functions /\ S = Embedded(a.x)
      \/ \E a \in Range(args) : a.kind = "mod" /\ S = made[a.x].mod
  BY DEF Linked
<1>2. ASSUME NEW nm, nm \in {Name(q) : q \in P.uses[o] \ {o}} \cap DOMAIN byName, S = Embedded(byName[nm])
      PROVE  S \in Linked(o, args)'
  <2>1. PICK b : b = byName[nm]
    OBVIOUS
  <2>2. nm \in DOMAIN byName' /\ byName'[nm] = b
    BY <1>2, <2>1 DEF Grown
  <2>3. nm \in {Name(q) : q \in P.uses[o] \ {o}}'
    BY <1>0, <1>2, StaticSame
  <2>4. S = Embedded(b)'
    BY <1>0, <1>2, <2>1, StaticSame
  <2>. QED
    BY <2>2, <2>3, <2>4 DEF Linked
<1>3. ASSUME NEW a, a \in Range(args), a.kind = "ptr", a.x \in functions, S = Embedded(a.x)
      PROVE  S \in Linked(o, args)'
  <2>1. S = Embedded(a.x)' /\ a.x \in functions'
    BY <1>0, <1>3, StaticSame DEF Grown
  <2>. QED
    BY <1>3, <2>1 DEF Linked
<1>4. ASSUME NEW a, a \in Range(args), a.kind = "mod", S = made[a.x].mod
      PROVE  S \in Linked(o, args)'
  <2>1. a.x \in DOMAIN made
    BY <1>4 DEF ArgsOK, Range
  <2>2. S = made'[a.x].mod
    BY <1>4, <2>1 DEF Grown
  <2>. QED
    BY <1>4, <2>2 DEF Linked
<1>. QED
  BY <1>1, <1>2, <1>3, <1>4

\* A request that is undisturbed later was undisturbed from the start.
LEMMA UndisturbedBefore ==
    ASSUME Grown, NEW o, NEW args, ArgsOK(args), Undisturbed(o, args)'
    PROVE  Undisturbed(o, args)
<1>1. \A S \in Linked(o, args) : S \in Linked(o, args)'
  BY LinkedGrows
<1>2. Name(o)' = Name(o) /\ (SelfCalls(o)' <=> SelfCalls(o))
  BY StaticSame DEF Grown
<1>. QED
  BY <1>1, <1>2 DEF Undisturbed

\* So what is known of an easy::Function stays true.
LEMMA MadeStays ==
    ASSUME Grown, Tracker, NEW F, MadeOK(F)
    PROVE  MadeOK(F)'
<1>1. P' = P
  BY DEF Grown
<1>2. F.thing.obj \in functions' /\ ArgsOK(F.args)'
  BY DEF MadeOK, ArgsOK, Grown
<1>3. Undisturbed(F.thing.obj, F.args)' => Undisturbed(F.thing.obj, F.args)
  BY UndisturbedBefore DEF MadeOK
<1>4. Name(F.thing.obj)' = Name(F.thing.obj)
  BY <1>1, StaticSame
<1>5. byName'[Name(F.thing.obj)] = byName[Name(F.thing.obj)]
  BY DEF Grown, Tracker, MadeOK
<1>6. F.from # 0 =>
         /\ F.from \in DOMAIN made' /\ made'[F.from].mod = F.mod
         /\ made'[F.from].thing.obj = F.thing.obj /\ made'[F.from].args = F.args
  BY DEF MadeOK, Grown
<1>. QED
  BY <1>1, <1>2, <1>3, <1>4, <1>5, <1>6 DEF MadeOK, EntryIs, GetFunctionAddress, Named, GetNamedValue

\* What is known of a request stays true while the rest does not change.
LEMMA CurStays ==
    ASSUME UNCHANGED <<P, functions, byName, made>>, NEW c, CurOK(c)
    PROVE  CurOK(c)'
<1>1. P' = P /\ functions' = functions /\ byName' = byName /\ made' = made
  OBVIOUS
<1>2. Grown
  BY <1>1 DEF Grown
<1>3. Undisturbed(c.fun, c.args)' <=> Undisturbed(c.fun, c.args)
  <2>1. Undisturbed(c.fun, c.args)' => Undisturbed(c.fun, c.args)
    BY <1>2, UndisturbedBefore DEF CurOK
  <2>2. Linked(c.fun, c.args)' = Linked(c.fun, c.args)
    BY <1>1 DEF Linked, Embedded, Referenced, Name, Objs, Code, Thing
  <2>3. Name(c.fun)' = Name(c.fun) /\ (SelfCalls(c.fun)' <=> SelfCalls(c.fun))
    BY <1>1, StaticSame
  <2>. QED
    BY <2>2, <2>3 DEF Undisturbed
<1>4. Name(c.fun)' = Name(c.fun) /\ (SelfCalls(c.fun)' <=> SelfCalls(c.fun))
  BY <1>1, StaticSame
<1>5. \A i : Name(P.calls[c.fun][i])' = Name(P.calls[c.fun][i])
  BY <1>1 DEF Name
<1>6. ArgsOK(c.args)'
  BY <1>1 DEF CurOK, ArgsOK
<1>7. \A t : FunIn(c, t)' <=> FunIn(c, t)
  BY <1>4 DEF FunIn
<1>8. (Room' <=> Room) /\ Turn' = Turn
  BY <1>1 DEF Room, Turn
<1>. QED
  BY <1>1, <1>3, <1>4, <1>5, <1>6, <1>7, <1>8 DEF CurOK, EntryIs, Named, Thing

---------------------------------------------------------------------------
(* The steps of a request.                                                 *)

\* Linking leaves no name of M without a symbol.
LEMMA NamesStay ==
    ASSUME NEW p, NEW M \in ModulesOf(p), NEW S \in ModulesOf(p), NEW nm, Named(M, nm) # {},
           NEW L, L = LinkModules(M, S)
    PROVE  Named(L, nm) # {}
<1>1. PICK i \in DOMAIN M : M[i].name = nm
  BY DEF Named
<1>2. CASE \E s \in MovedOf(M, S) : S[s].ext /\ S[s].name = nm
  <2>1. PICK s \in MovedOf(M, S) : S[s].ext /\ S[s].name = nm
    BY <1>2
  <2>2. ASSUME NEW j, j = Top(M) + s PROVE j \in DOMAIN L /\ L[j].name = nm
    BY <2>1, <2>2, LinkMoves
  <2>. QED
    BY <2>2 DEF Named
<1>3. CASE ~\E s \in MovedOf(M, S) : S[s].ext /\ S[s].name = nm
  <2>1. i \in DOMAIN M \ ErasedOf(M, S)
    BY <1>1, <1>3 DEF ErasedOf, PeerOf
  <2>2. M[i].name \notin TakenOf(M, S)
    BY <1>1, <1>3 DEF TakenOf
  <2>3. i \in DOMAIN L /\ L[i].name = nm
    BY <1>1, <2>1, <2>2, LinkStays
  <2>. QED
    BY <2>3 DEF Named
<1>. QED
  BY <1>2, <1>3

\* No external symbol of S is in the way of symbol t of M.
Clear(M, S, t) ==
    \A s \in DOMAIN S : S[s].ext /\ S[s].name = M[t].name => ~S[s].def /\ M[t].ext

\* A module with entry s is linked, and the entry made private.
LEMMA LinkStep ==
    ASSUME NEW p, NEW M \in ModulesOf(p), NEW S \in ModulesOf(p), NEW s \in DOMAIN S,
           S[s].def, S[s].ext, NEW L, L = LinkModules(M, S), NEW t, t = Top(M) + s,
           NEW N, N = SetPrivate(L, t)
    PROVE  /\ \A nm : Named(M, nm) # {} => Named(N, nm) # {}
           /\ \A i \in DOMAIN M : Clear(M, S, i) =>
                /\ i \in DOMAIN N /\ N[i].name = M[i].name
                /\ (N[i].def <=> M[i].def) /\ (N[i].ext <=> M[i].ext) /\ N[i].of = M[i].of
<1>1. L \in ModulesOf(p)
  BY LinkIsModule
<1>2. /\ DOMAIN N = DOMAIN L
      /\ \A j \in DOMAIN L :
           /\ N[j].of = L[j].of /\ N[j].name = L[j].name /\ (N[j].def <=> L[j].def)
           /\ j # t => (N[j].ext <=> L[j].ext)
      /\ \A nm : Named(N, nm) = Named(L, nm)
  BY <1>1, PrivateFacts
<1>3. \A nm : Named(M, nm) # {} => Named(N, nm) # {}
  BY <1>2, NamesStay
<1>4. ASSUME NEW i \in DOMAIN M, Clear(M, S, i)
      PROVE  /\ i \in DOMAIN N /\ N[i].name = M[i].name
             /\ (N[i].def <=> M[i].def) /\ (N[i].ext <=> M[i].ext) /\ N[i].of = M[i].of
  <2>1. /\ i \in DOMAIN L /\ L[i].name = M[i].name
        /\ (L[i].def <=> M[i].def) /\ (L[i].ext <=> M[i].ext) /\ L[i].of = M[i].of
    BY <1>4, TargetStays DEF Clear
  <2>2. i <= Top(M) /\ i \in Nat /\ Top(M) \in Nat /\ s \in Nat /\ s # 0
    BY TopFacts, SymbolFacts
  <2>3. i # t
    BY <2>2
  <2>. QED
    BY <1>2, <2>1, <2>3
<1>. QED
  BY <1>3, <1>4

\* LinkPointerIfPossible, for an object o.
LEMMA LinkObjectFacts ==
    ASSUME ProgOK, NEW M \in ModulesOf(P), NEW o \in Objs(P), NEW E, E = Embedded(o),
           NEW N, N = LinkObject(M, o), NEW t, t = Top(M) + o
    PROVE  /\ E \in ModulesOf(P) /\ o \in DOMAIN E /\ E[o].def /\ E[o].ext /\ E[o].name = Name(o)
           /\ N = SetPrivate(LinkModules(M, E), t)
           /\ N \in ModulesOf(P) /\ t \in DOMAIN N /\ t \in Nat /\ GetNamedValue(N, Name(o)) = t
           /\ N[t].name = Name(o) /\ N[t].of = Code(o) /\ N[t].def /\ ~N[t].ext
           /\ SetPrivate(N, t) = N
           /\ \A i \in DOMAIN M : ~M[i].ext => i \in DOMAIN N /\ ~N[i].ext
           /\ \A nm : Named(M, nm) # {} => Named(N, nm) # {}
           /\ \A i \in DOMAIN M : Clear(M, E, i) =>
                /\ i \in DOMAIN N /\ N[i].name = M[i].name
                /\ (N[i].def <=> M[i].def) /\ (N[i].ext <=> M[i].ext) /\ N[i].of = M[i].of
<1>1. /\ E \in ModulesOf(P) /\ o \in DOMAIN E
      /\ E[o].def /\ E[o].ext /\ E[o].name = Name(o) /\ E[o].of = Code(o)
  BY EmbeddedFacts
<1>2. PICK L : L = LinkModules(M, E)
  OBVIOUS
<1>3. GetNamedValue(L, Name(o)) = t
  BY <1>1, <1>2, LinkEntry
<1>4. N = SetPrivate(L, t)
  BY <1>2, <1>3 DEF LinkObject
<1>5. /\ GetNamedValue(N, Name(o)) = t
      /\ N \in ModulesOf(P) /\ t \in DOMAIN N /\ t \in Nat
      /\ N[t].name = Name(o) /\ N[t].of = Code(o) /\ N[t].def /\ ~N[t].ext
      /\ SetPrivate(N, t) = N
      /\ \A i \in DOMAIN M : ~M[i].ext => i \in DOMAIN N /\ ~N[i].ext
  <2>1. /\ GetNamedValue(N, E[o].name) = t
        /\ N \in ModulesOf(P) /\ t \in DOMAIN N /\ t \in Nat
        /\ N[t].name = E[o].name /\ N[t].of = E[o].of /\ N[t].def /\ ~N[t].ext
        /\ SetPrivate(N, t) = N
        /\ \A i \in DOMAIN M : ~M[i].ext => i \in DOMAIN N /\ ~N[i].ext
    BY <1>1, <1>2, <1>4, LinkEntry
  <2>. QED
    BY <1>1, <2>1
<1>6. /\ \A nm : Named(M, nm) # {} => Named(N, nm) # {}
      /\ \A i \in DOMAIN M : Clear(M, E, i) =>
           /\ i \in DOMAIN N /\ N[i].name = M[i].name
           /\ (N[i].def <=> M[i].def) /\ (N[i].ext <=> M[i].ext) /\ N[i].of = M[i].of
  BY <1>1, <1>2, <1>4, LinkStep
<1>. QED
  BY <1>1, <1>2, <1>4, <1>5, <1>6

\* Objects that are registered are objects.
LEMMA TrackerFacts ==
    ASSUME ProgOK, Tracker
    PROVE  /\ functions \subseteq Objs(P)
           /\ \A nm \in DOMAIN byName : /\ byName[nm] \in Objs(P) /\ byName[nm] \in functions
                                        /\ byName[nm] # NoObject /\ Name(byName[nm]) = nm
<1>1. functions \subseteq Objs(P) /\ NoObject \notin Objs(P)
  BY ProgFacts DEF Tracker, NoObject
<1>. QED
  BY <1>1 DEF Tracker

\* The names of the callees, in the order of the calls.
LEMMA CalleeNames ==
    ASSUME ProgOK, NEW o \in Objs(P)
    PROVE  /\ [k \in DOMAIN P.calls[o] |-> Name(P.calls[o][k])] \in Seq(Names)
           /\ DOMAIN [k \in DOMAIN P.calls[o] |-> Name(P.calls[o][k])] = DOMAIN P.calls[o]
<1>1. P.calls[o] \in Seq(P.uses[o] \ P.vars) /\ P.uses[o] \subseteq Objs(P)
  BY ProgFacts
<1>2. \A k \in DOMAIN P.calls[o] : P.calls[o][k] \in Objs(P)
  BY <1>1
<1>3. \A k \in DOMAIN P.calls[o] : Name(P.calls[o][k]) \in Names
  BY <1>2, NameFacts
<1>4. PICK n \in Nat : DOMAIN P.calls[o] = 1 .. n
  BY <1>1
<1>5. [k \in DOMAIN P.calls[o] |-> Name(P.calls[o][k])] \in [1 .. n -> Names]
  BY <1>3, <1>4
<1>. QED
  BY <1>5, SeqDef

\* Compile starts a request with the embedded module of its function.
LEMMA CompileStep ==
    ASSUME ProgOK, Tracker, made \in Seq(MadeRecords(P)), Room,
           NEW o \in Objs(P), HasGlobalMapping(o), NEW b \in P.bytes, NEW d \in BOOLEAN,
           NEW args \in Lists(P.takes[o]),
           NEW c, c = [pc |-> "resolve", fun |-> o, args |-> args, bytes |-> b, dump |-> d,
                       mod |-> Embedded(o), todo |-> [k \in DOMAIN P.calls[o] |-> Name(P.calls[o][k])],
                       target |-> 0, refs |-> {}, k |-> 1, entries |-> <<>>]
    PROVE  c \in CurRecords(P) /\ CurOK(c)
<1>. DEFINE todo == [k \in DOMAIN P.calls[o] |-> Name(P.calls[o][k])]
<1>1. todo \in Seq(Names) /\ DOMAIN todo = DOMAIN P.calls[o]
  BY CalleeNames
<1>2. args \in Seq(AnyArgs(P)) /\ ArgsOK(args)
  <2>0. P.takes[o] \in Nat
    BY ProgFacts
  <2>1. PICK k \in Nat : args \in [1 .. k -> Arguments]
    BY <2>0 DEF Lists
  <2>2. ASSUME NEW a \in Arguments
        PROVE  a \in [kind : {"ptr"}, x : P.passed] \cup [kind : {"mod"}, x : DOMAIN made]
    BY DEF Arguments
  <2>3. P.passed \subseteq ObjsOf(P)
    BY ProgFacts
  <2>4. DOMAIN made \subseteq Nat
    OBVIOUS
  <2>. QED
    BY <2>1, <2>2, <2>3, <2>4 DEF AnyArgs, ArgsOK
<1>3. PICK E : E = Embedded(o)
  OBVIOUS
<1>4. /\ E \in ModulesOf(P) /\ o \in DOMAIN E
      /\ E[o].def /\ E[o].ext /\ E[o].name = Name(o)
  BY <1>3, EmbeddedFacts
<1>5. c = [pc |-> "resolve", fun |-> o, args |-> args, bytes |-> b, dump |-> d, mod |-> E,
           todo |-> todo, target |-> 0, refs |-> {}, k |-> 1, entries |-> <<>>]
  BY <1>3
<1>6. o \in ObjsOf(P) /\ o \in functions
  BY ProgFacts DEF HasGlobalMapping
<1>7. \A j \in DOMAIN todo : \E i \in DOMAIN P.calls[o] : todo[j] = Name(P.calls[o][i])
  BY <1>1
<1>. HIDE DEF todo
<1>8. c \in CurRecords(P)
  BY <1>1, <1>2, <1>4, <1>5, <1>6 DEF CurRecords
<1>9. /\ c.pc = "resolve" /\ c.fun = o /\ c.args = args /\ c.refs = {} /\ c.entries = <<>>
      /\ c.mod = E /\ c.todo = todo
  BY <1>5
<1>10. Named(E, Name(o)) # {} /\ FunIn(c, o)
  BY <1>4, <1>9 DEF Named, FunIn
<1>. QED
  BY <1>2, <1>4, <1>6, <1>7, <1>8, <1>9, <1>10 DEF CurOK

\* The name nm of a callee of the request's function is linked: the function
\* is found again, for a recursive call in the module that is linked.
LEMMA CalleeLinked ==
    ASSUME ProgOK, Tracker, NEW c \in CurRecords(P), CurOK(c), c.pc = "resolve",
           NEW M \in ModulesOf(P), M = c.mod, NEW i \in DOMAIN P.calls[c.fun],
           NEW nm, nm = Name(P.calls[c.fun][i]), NEW N, N = LinkByName(M, nm)
    PROVE  /\ N \in ModulesOf(P) /\ Named(N, Name(c.fun)) # {}
           /\ Undisturbed(c.fun, c.args) =>
                \E t \in DOMAIN N : /\ N[t].name = Name(c.fun) /\ N[t].def
                                    /\ N[t].ext \/ SelfCalls(c.fun)
<1>1. c.fun \in Objs(P)
  BY ProgFacts DEF CurRecords
<1>2. P.calls[c.fun][i] \in P.uses[c.fun]
  <2>1. P.calls[c.fun] \in Seq(P.uses[c.fun] \ P.vars)
    BY <1>1, ProgFacts
  <2>. QED
    BY <2>1
<1>3. CASE nm \notin DOMAIN byName
  <2>1. N = M
    BY <1>3 DEF LinkByName, GetAddress
  <2>. QED
    BY <2>1 DEF CurOK, FunIn
<1>4. CASE nm \in DOMAIN byName
  <2>1. PICK b, E : b = byName[nm] /\ E = Embedded(b)
    OBVIOUS
  <2>2. b \in Objs(P) /\ b # NoObject /\ Name(b) = nm
    BY <1>4, <2>1, TrackerFacts
  <2>3. N = LinkObject(M, b)
    BY <1>4, <2>1, <2>2 DEF LinkByName, GetAddress
  <2>4. PICK u : u = Top(M) + b
    OBVIOUS
  <2>5. E = Embedded(b) /\ N = LinkObject(M, b) /\ u = Top(M) + b /\ b \in Objs(P) /\ ProgOK
    BY <2>1, <2>2, <2>3, <2>4
  <2>6. /\ E \in ModulesOf(P) /\ b \in DOMAIN E /\ E[b].def /\ E[b].ext /\ E[b].name = Name(b)
        /\ N \in ModulesOf(P) /\ u \in DOMAIN N
    BY <2>5, LinkObjectFacts
  <2>7. N[u].name = Name(b) /\ N[u].def
    BY <2>5, LinkObjectFacts
  <2>8. \A x : Named(M, x) # {} => Named(N, x) # {}
    BY <2>5, LinkObjectFacts
  <2>9. \A j \in DOMAIN M : Clear(M, E, j) =>
          /\ j \in DOMAIN N /\ N[j].name = M[j].name
          /\ (N[j].def <=> M[j].def) /\ (N[j].ext <=> M[j].ext)
    BY <2>5, LinkObjectFacts
  <2>10. ASSUME Undisturbed(c.fun, c.args)
        PROVE  \E t \in DOMAIN N : /\ N[t].name = Name(c.fun) /\ N[t].def
                                   /\ N[t].ext \/ SelfCalls(c.fun)
    <3>1. CASE P.calls[c.fun][i] = c.fun
      <4>1. SelfCalls(c.fun) /\ Name(b) = Name(c.fun)
        BY <2>2, <3>1 DEF SelfCalls
      <4>. QED
        BY <2>6, <2>7, <4>1
    <3>2. CASE P.calls[c.fun][i] # c.fun
      <4>1. E \in Linked(c.fun, c.args)
        BY <1>2, <1>4, <2>1, <3>2 DEF Linked
      <4>2. PICK t \in DOMAIN M : FunIn(c, t)
        BY <2>10 DEF CurOK
      <4>3. Clear(M, E, t)
        BY <2>10, <4>1, <4>2 DEF Clear, FunIn, Undisturbed
      <4>4. /\ M[t].name = Name(c.fun) /\ M[t].def
            /\ M[t].ext \/ SelfCalls(c.fun)
        BY <4>2 DEF FunIn
      <4>5. /\ t \in DOMAIN N /\ N[t].name = M[t].name
            /\ (N[t].def <=> M[t].def) /\ (N[t].ext <=> M[t].ext)
        BY <2>9, <4>3
      <4>. QED
        BY <4>4, <4>5
    <3>. QED
      BY <3>1, <3>2
  <2>. QED
    BY <2>6, <2>8, <2>10 DEF CurOK
<1>. QED
  BY <1>3, <1>4

\* ResolveModule links the next callee.
LEMMA ResolveStep ==
    ASSUME ProgOK, Tracker, NEW c \in CurRecords(P), CurOK(c), c.pc = "resolve", c.todo # <<>>,
           NEW d, d = [c EXCEPT !.mod = LinkByName(@, Head(c.todo)), !.todo = Tail(@)]
    PROVE  d \in CurRecords(P) /\ CurOK(d)
<1>1. c.mod \in ModulesOf(P) /\ c.todo \in Seq(Names) /\ c.fun \in ObjsOf(P) /\ c.fun \in Objs(P)
  BY ProgFacts DEF CurRecords
<1>2. PICK N, nm : N = LinkByName(c.mod, Head(c.todo)) /\ nm = Head(c.todo)
  OBVIOUS
<1>3. PICK i \in DOMAIN P.calls[c.fun] : nm = Name(P.calls[c.fun][i])
  <2>1. 1 \in DOMAIN c.todo /\ c.todo[1] = nm
    BY <1>1, <1>2
  <2>. QED
    BY <2>1 DEF CurOK
<1>4. /\ N \in ModulesOf(P) /\ Named(N, Name(c.fun)) # {}
      /\ Undisturbed(c.fun, c.args) =>
           \E t \in DOMAIN N : /\ N[t].name = Name(c.fun) /\ N[t].def
                               /\ N[t].ext \/ SelfCalls(c.fun)
  <2>1. PICK M \in ModulesOf(P) : M = c.mod
    BY <1>1
  <2>2. nm = Name(P.calls[c.fun][i]) /\ N = LinkByName(M, nm)
    BY <1>2, <1>3, <2>1
  <2>. QED
    BY <2>1, <2>2, CalleeLinked
<1>5. /\ Tail(c.todo) \in Seq(Names)
      /\ \A j \in DOMAIN Tail(c.todo) : \E k \in DOMAIN c.todo : Tail(c.todo)[j] = c.todo[k]
  BY <1>1
<1>6. d = [c EXCEPT !.mod = N, !.todo = Tail(c.todo)]
  BY <1>2
<1>7. /\ d \in CurRecords(P) /\ d.pc = "resolve" /\ d.fun = c.fun /\ d.args = c.args /\ d.refs = c.refs
      /\ d.entries = c.entries /\ d.mod = N /\ d.todo = Tail(c.todo)
  BY <1>4, <1>5, <1>6 DEF CurRecords
<1>8. Undisturbed(c.fun, c.args) => \E t \in DOMAIN d.mod : FunIn(d, t)
  BY <1>4, <1>7 DEF FunIn
<1>. QED
  BY <1>4, <1>5, <1>7, <1>8 DEF CurOK

WithAsm(M, i, a) == [M EXCEPT ![i].asm = a]

\* EmitCodes changes nothing but the assembly of one symbol.
LEMMA AsmFacts ==
    ASSUME NEW p, NEW M \in ModulesOf(p), NEW i \in DOMAIN M, NEW a \in p.bytes \cup {"nop", "-"},
           NEW N, N = WithAsm(M, i, a)
    PROVE  /\ N \in ModulesOf(p) /\ DOMAIN N = DOMAIN M
           /\ \A j \in DOMAIN M :
                /\ N[j].of = M[j].of /\ N[j].name = M[j].name
                /\ (N[j].def <=> M[j].def) /\ (N[j].ext <=> M[j].ext) /\ N[j].refs = M[j].refs
                /\ j # i => N[j].asm = M[j].asm
                /\ j = i => N[j].asm = a
<1>1. /\ DOMAIN N = DOMAIN M /\ N = [j \in DOMAIN M |-> N[j]]
      /\ \A j \in DOMAIN M : N[j] = IF j = i THEN [M[j] EXCEPT !.asm = a] ELSE M[j]
  BY ModuleFacts DEF WithAsm
<1>2. ASSUME NEW j \in DOMAIN M
      PROVE  /\ N[j] \in SymbolsOf(p)
             /\ N[j].of = M[j].of /\ N[j].name = M[j].name
             /\ (N[j].def <=> M[j].def) /\ (N[j].ext <=> M[j].ext) /\ N[j].refs = M[j].refs
             /\ j # i => N[j].asm = M[j].asm
             /\ j = i => N[j].asm = a
  <2>1. M[j] \in SymbolsOf(p)
    BY SymbolFacts
  <2>2. CASE j # i
    BY <1>1, <2>1, <2>2
  <2>3. CASE j = i
    <3>. DEFINE y == [M[j] EXCEPT !.asm = a]
    <3>1. /\ y \in SymbolsOf(p)
          /\ y.of = M[j].of /\ y.name = M[j].name /\ (y.def <=> M[j].def) /\ (y.ext <=> M[j].ext)
          /\ y.refs = M[j].refs /\ y.asm = a
      BY <2>1 DEF SymbolsOf
    <3>2. N[j] = y
      BY <1>1, <2>3
    <3>. HIDE DEF y
    <3>. QED
      BY <2>3, <3>1, <3>2
  <2>. QED
    BY <2>2, <2>3
<1>3. N \in [DOMAIN M -> SymbolsOf(p)]
  BY <1>1, <1>2
<1>4. N \in ModulesOf(p)
  BY <1>2, <1>3, SameNamesAndRefs
<1>. QED
  BY <1>1, <1>2, <1>4

Stubbed(M, i, b) == [M EXCEPT ![i].asm = IF M[i].def /\ @ = "nop" THEN b ELSE @]

\* What EmitCodes makes of a module.
LEMMA StubbedFacts ==
    ASSUME NEW p, NEW M \in ModulesOf(p), NEW i \in DOMAIN M, NEW b \in p.bytes,
           NEW N, N = Stubbed(M, i, b)
    PROVE  /\ N \in ModulesOf(p) /\ DOMAIN N = DOMAIN M
           /\ \A j \in DOMAIN M :
                /\ N[j].of = M[j].of /\ N[j].name = M[j].name
                /\ (N[j].def <=> M[j].def) /\ (N[j].ext <=> M[j].ext) /\ N[j].refs = M[j].refs
                /\ N[j].asm = IF j = i /\ M[i].def /\ M[i].asm = "nop" THEN b ELSE M[j].asm
<1>1. M[i].asm \in p.bytes \cup {"nop", "-"}
  BY SymbolFacts
<1>2. PICK a \in p.bytes \cup {"nop", "-"} :
        a = IF M[i].def /\ M[i].asm = "nop" THEN b ELSE M[i].asm
  BY <1>1
<1>3. N = WithAsm(M, i, a)
  BY <1>2 DEF Stubbed, WithAsm
<1>4. /\ N \in ModulesOf(p) /\ DOMAIN N = DOMAIN M
      /\ \A j \in DOMAIN M :
           /\ N[j].of = M[j].of /\ N[j].name = M[j].name
           /\ (N[j].def <=> M[j].def) /\ (N[j].ext <=> M[j].ext) /\ N[j].refs = M[j].refs
           /\ j # i => N[j].asm = M[j].asm
           /\ j = i => N[j].asm = a
  <2>1. N \in ModulesOf(p) /\ DOMAIN N = DOMAIN M
    BY <1>3, AsmFacts
  <2>. QED
    BY <1>3, <2>1, AsmFacts
<1>. QED
  BY <1>2, <1>4

\* EmitCodes, and the lookup of the function by InlineParameters.
LEMMA EmitStep ==
    ASSUME ProgOK, NEW c \in CurRecords(P), CurOK(c), c.pc = "resolve",
           NEW i, i = GetNamedValue(c.mod, Name(c.fun)),
           NEW N, N = Stubbed(c.mod, i, c.bytes),
           NEW d, d = [c EXCEPT !.pc = "inline", !.target = i, !.mod = N]
    PROVE  d \in CurRecords(P) /\ CurOK(d)
<1>1. PICK M \in ModulesOf(P) : M = c.mod
  BY DEF CurRecords
<1>2. i \in DOMAIN M /\ M[i].name = Name(c.fun)
  BY <1>1, Lookup DEF CurOK
<1>3. i \in Nat
  BY <1>2, SymbolFacts
<1>4. N = Stubbed(M, i, c.bytes) /\ c.bytes \in P.bytes
  BY <1>1 DEF CurRecords
<1>5. /\ N \in ModulesOf(P) /\ DOMAIN N = DOMAIN M
      /\ \A j \in DOMAIN M : N[j].name = M[j].name /\ (N[j].def <=> M[j].def) /\ (N[j].ext <=> M[j].ext)
  BY <1>2, <1>4, StubbedFacts
<1>6. /\ d \in CurRecords(P) /\ d.pc = "inline" /\ d.fun = c.fun /\ d.args = c.args /\ d.refs = c.refs
      /\ d.entries = c.entries /\ d.mod = N /\ d.target = i
  BY <1>3, <1>5 DEF CurRecords
<1>7. ASSUME Undisturbed(c.fun, c.args) PROVE FunIn(d, i)
  <2>1. PICK t \in DOMAIN M : FunIn(c, t)
    BY <1>1, <1>7 DEF CurOK
  <2>2. t = i
    BY <1>1, <1>2, <2>1, ModuleFacts DEF FunIn, NamesDistinct
  <2>. QED
    BY <1>1, <1>5, <1>6, <2>1, <2>2 DEF FunIn
<1>. QED
  BY <1>1, <1>5, <1>6, <1>7 DEF CurOK

\* What has to be shown of a request in InlineParameters.
LEMMA InlineIntro ==
    ASSUME NEW d, d.pc = "inline", d.fun \in functions, ArgsOK(d.args), Room,
           \A r \in d.refs : r.at \in DOMAIN d.mod /\ ~d.mod[r.at].ext,
           d.entries = <<>>, Undisturbed(d.fun, d.args) => FunIn(d, d.target)
    PROVE  CurOK(d)
BY DEF CurOK

\* What GetInlineArgs makes of a request.
Passed(c, N, rs) == [c EXCEPT !.mod = N, !.k = @ + 1, !.entries = @ \o <<>>, !.refs = @ \cup rs]

\* An argument has been passed.
LEMMA PassedFacts ==
    ASSUME NEW p, NEW c \in CurRecords(p), c.entries = <<>>, NEW N \in ModulesOf(p),
           NEW rs \in SUBSET RefsOf(p), NEW d, d = Passed(c, N, rs)
    PROVE  /\ d \in CurRecords(p) /\ d.pc = c.pc /\ d.fun = c.fun /\ d.args = c.args
           /\ d.refs = c.refs \cup rs /\ d.entries = <<>> /\ d.mod = N /\ d.target = c.target
           /\ d.bytes = c.bytes
<1>1. /\ c.k + 1 \in Nat \ {0} /\ c.refs \cup rs \in SUBSET RefsOf(p) /\ <<>> \o <<>> = <<>>
      /\ <<>> \in Seq(Names)
  BY DEF CurRecords
<1>2. PICK k \in Nat \ {0}, ts \in SUBSET RefsOf(p), es \in Seq(Names) :
         k = c.k + 1 /\ ts = c.refs \cup rs /\ es = c.entries \o <<>> /\ es = <<>>
  BY <1>1
<1>3. d = [c EXCEPT !.mod = N, !.k = k, !.entries = es, !.refs = ts]
  BY <1>2 DEF Passed
<1>4. d = [pc |-> c.pc, fun |-> c.fun, args |-> c.args, bytes |-> c.bytes, dump |-> c.dump, mod |-> N,
           todo |-> c.todo, target |-> c.target, refs |-> ts, k |-> k, entries |-> es]
  BY <1>3 DEF CurRecords
<1>. QED
  BY <1>2, <1>4 DEF CurRecords

PassedRef(c, N, want, t) == Passed(c, N, {[want |-> want, arg |-> c.k, at |-> t]})

\* An argument is linked and passed.
LEMMA PassStep ==
    ASSUME ProgOK, NEW c \in CurRecords(P), CurOK(c), c.pc = "inline",
           NEW M, M = c.mod, NEW S \in ModulesOf(P), NEW s \in DOMAIN S, S[s].def, S[s].ext,
           S \in Linked(c.fun, c.args),
           NEW t, t = Top(M) + s, NEW N, N = SetPrivate(LinkModules(M, S), t),
           NEW want \in ThingsOf(P),
           NEW d, d = PassedRef(c, N, want, t)
    PROVE  d \in CurRecords(P) /\ CurOK(d)
<1>1. M \in ModulesOf(P) /\ c.k \in Nat /\ c.refs \subseteq RefsOf(P) /\ c.entries = <<>>
  BY DEF CurRecords, CurOK
<1>2. PICK L : L = LinkModules(M, S)
  OBVIOUS
<1>3. /\ N \in ModulesOf(P) /\ t \in DOMAIN N /\ t \in Nat /\ ~N[t].ext
      /\ \A i \in DOMAIN M : ~M[i].ext => i \in DOMAIN N /\ ~N[i].ext
  BY <1>1, <1>2, LinkEntry
<1>4. \A i \in DOMAIN M : Clear(M, S, i) =>
        /\ i \in DOMAIN N /\ N[i].name = M[i].name
        /\ (N[i].def <=> M[i].def) /\ (N[i].ext <=> M[i].ext)
  BY <1>1, <1>2, LinkStep
<1>5. PICK r : r = [want |-> want, arg |-> c.k, at |-> t]
  OBVIOUS
<1>6. r \in RefsOf(P) /\ r.at = t
  BY <1>1, <1>3, <1>5 DEF RefsOf
<1>7. PICK rs \in SUBSET RefsOf(P) : rs = {r} /\ d = Passed(c, N, rs)
  BY <1>5, <1>6 DEF PassedRef
<1>8. /\ d \in CurRecords(P) /\ d.pc = "inline" /\ d.fun = c.fun /\ d.args = c.args
      /\ d.refs = c.refs \cup rs /\ d.entries = <<>> /\ d.mod = N /\ d.target = c.target
  <2>1. c \in CurRecords(P) /\ c.entries = <<>> /\ N \in ModulesOf(P) /\ d = Passed(c, N, rs)
    BY <1>1, <1>3, <1>7
  <2>2. d \in CurRecords(P) /\ d.pc = c.pc /\ d.fun = c.fun /\ d.args = c.args
    BY <2>1, PassedFacts
  <2>3. d.refs = c.refs \cup rs /\ d.entries = <<>> /\ d.mod = N /\ d.target = c.target
    BY <2>1, PassedFacts
  <2>. QED
    BY <2>2, <2>3
<1>9. \A x \in d.refs : x.at \in DOMAIN N /\ ~N[x.at].ext
  <2>1. \A x \in c.refs : x.at \in DOMAIN M /\ ~M[x.at].ext
    BY DEF CurOK
  <2>. QED
    BY <1>3, <1>6, <1>7, <1>8, <2>1
<1>10. ASSUME Undisturbed(c.fun, c.args) PROVE FunIn(d, d.target)
  <2>1. FunIn(c, c.target)
    BY <1>10 DEF CurOK
  <2>2. Clear(M, S, c.target)
    BY <1>10, <2>1 DEF Clear, FunIn, Undisturbed
  <2>. QED
    BY <1>4, <1>8, <2>1, <2>2 DEF FunIn
<1>11. c.fun \in functions /\ ArgsOK(c.args) /\ Room
  BY DEF CurOK
<1>. QED
  BY <1>8, <1>9, <1>10, <1>11, InlineIntro

\* The head of a sequence of one element.
LEMMA HeadOfOne ==
    ASSUME NEW x
    PROVE  Head(<<x>>) = x /\ <<x>> # <<>>
OBVIOUS

\* The request c binds a next, to a pointer or a composed function.
NextIs(c, a, kind) == c.k <= Len(c.args) /\ a = c.args[c.k] /\ a.kind = kind

\* The argument that is passed next.
LEMMA NextArgument ==
    ASSUME NEW p, NEW c \in CurRecords(p), CurOK(c), NEW kind, NEW a, NextIs(c, a, kind)
    PROVE  /\ a \in Range(c.args)
           /\ a.kind = "ptr" => a.x \in ObjsOf(p)
           /\ a.kind = "mod" => a.x \in DOMAIN made
<1>1. c.args \in Seq(AnyArgs(p)) /\ c.k \in Nat \ {0}
  BY DEF CurRecords
<1>2. c.k \in DOMAIN c.args /\ a = c.args[c.k]
  BY <1>1 DEF NextIs
<1>3. a \in AnyArgs(p)
  BY <1>1, <1>2
<1>4. a.kind = "ptr" => a.x \in ObjsOf(p)
  BY <1>3 DEF AnyArgs
<1>5. a.kind = "mod" => a.x \in DOMAIN made
  BY <1>2 DEF CurOK, ArgsOK
<1>. QED
  BY <1>2, <1>4, <1>5 DEF Range

\* A pointer to a registered object is linked and passed.
LEMMA PointerStep ==
    ASSUME ProgOK, Tracker, NEW c \in CurRecords(P), CurOK(c), c.pc = "inline",
           NEW a, NextIs(c, a, "ptr"), HasGlobalMapping(a.x),
           NEW N, N = LinkObject(c.mod, a.x), NEW g, g = GetNamedValue(N, Name(a.x)),
           NEW d, d = PassedRef(c, SetPrivate(N, g), Wanted(a), g)
    PROVE  d \in CurRecords(P) /\ CurOK(d)
<1>0. c.mod \in ModulesOf(P)
  BY DEF CurRecords
<1>1. PICK M, o, E, t : M = c.mod /\ o = a.x /\ E = Embedded(o) /\ t = Top(M) + o /\ M \in ModulesOf(P)
  BY <1>0
<1>2. o \in Objs(P) /\ o \in functions /\ a \in Range(c.args) /\ a.kind = "ptr"
  <2>1. a.kind = "ptr"
    BY DEF NextIs
  <2>2. a.x \in ObjsOf(P) /\ a \in Range(c.args)
    BY <2>1, NextArgument
  <2>. QED
    BY <1>1, <2>1, <2>2, ProgFacts DEF HasGlobalMapping
<1>3. N = LinkObject(M, o)
  BY <1>1
<1>4. /\ E \in ModulesOf(P) /\ o \in DOMAIN E /\ E[o].def /\ E[o].ext
      /\ N = SetPrivate(LinkModules(M, E), t) /\ GetNamedValue(N, Name(o)) = t /\ SetPrivate(N, t) = N
  BY <1>1, <1>2, <1>3, LinkObjectFacts
<1>5. E \in Linked(c.fun, c.args)
  BY <1>1, <1>2 DEF Linked
<1>6. Wanted(a) \in ThingsOf(P)
  BY <1>1, <1>2, ProgFacts DEF Wanted, Code, Thing, ThingsOf
<1>7. PICK want \in ThingsOf(P) : want = Wanted(a)
  BY <1>6
<1>8. d = PassedRef(c, N, want, t)
  BY <1>1, <1>4, <1>7
<1>9. /\ M = c.mod /\ t = Top(M) + o /\ N = SetPrivate(LinkModules(M, E), t)
      /\ E \in ModulesOf(P) /\ o \in DOMAIN E /\ E[o].def /\ E[o].ext
  BY <1>1, <1>4
<1>. QED
  BY <1>5, <1>8, <1>9, PassStep

\* A composed function is linked and passed.
LEMMA ModuleStep ==
    ASSUME ProgOK, NEW c \in CurRecords(P), CurOK(c), c.pc = "inline",
           MadeInv, NEW a, NextIs(c, a, "mod"),
           NEW F, F = made[a.x], NEW L, L = LinkModules(c.mod, F.mod),
           NEW g, g = GetNamedValue(L, GetEntryFunctionName(F.entries)),
           NEW d, d = PassedRef(c, SetPrivate(L, g), Wanted(a), g)
    PROVE  d \in CurRecords(P) /\ CurOK(d)
<1>1. PICK M \in ModulesOf(P) : M = c.mod
  BY DEF CurRecords
<1>2. a \in Range(c.args) /\ a.x \in DOMAIN made /\ a.kind = "mod"
  <2>1. a.kind = "mod"
    BY DEF NextIs
  <2>. QED
    BY <2>1, NextArgument
<1>3. F \in MadeRecords(P) /\ MadeOK(F)
  BY <1>2 DEF MadeInv, Range
<1>4. PICK S \in ModulesOf(P) : S = F.mod
  BY <1>3 DEF MadeRecords
<1>5. PICK nm \in Names, w \in DOMAIN S : F.entries = <<nm>> /\ S[w].name = nm /\ S[w].def /\ S[w].ext
  BY <1>3, <1>4 DEF MadeOK, EntryIs
<1>6. PICK t : t = Top(M) + w
  OBVIOUS
<1>7. L = LinkModules(M, S) /\ GetEntryFunctionName(F.entries) = S[w].name
  BY <1>1, <1>4, <1>5, HeadOfOne DEF GetEntryFunctionName
<1>8. g = t
  BY <1>5, <1>6, <1>7, LinkEntry
<1>9. S \in Linked(c.fun, c.args)
  BY <1>2, <1>4 DEF Linked
<1>10. Wanted(a) \in ThingsOf(P)
  <2>1. F.thing \in ThingsOf(P)
    BY <1>3 DEF MadeRecords
  <2>2. Wanted(a) = F.thing
    BY <1>2 DEF Wanted
  <2>. QED
    BY <2>1, <2>2
<1>11. PICK want \in ThingsOf(P) : want = Wanted(a)
  BY <1>10
<1>12. PICK N : N = SetPrivate(LinkModules(M, S), t)
  OBVIOUS
<1>13. d = PassedRef(c, N, want, t)
  BY <1>7, <1>8, <1>11, <1>12
<1>14. M = c.mod /\ S[w].def /\ S[w].ext /\ S \in Linked(c.fun, c.args)
  BY <1>1, <1>5, <1>9
<1>. QED
  BY <1>6, <1>12, <1>13, <1>14, PassStep

\* A pointer that is not registered stays an address.
LEMMA SkipStep ==
    ASSUME NEW c \in CurRecords(P), CurOK(c), c.pc = "inline", NEW d, d = [c EXCEPT !.k = @ + 1]
    PROVE  d \in CurRecords(P) /\ CurOK(d)
<1>1. c.k + 1 \in Nat \ {0}
  BY DEF CurRecords
<1>2. /\ d \in CurRecords(P) /\ d.pc = "inline" /\ d.fun = c.fun /\ d.args = c.args
      /\ d.refs = c.refs /\ d.entries = c.entries /\ d.mod = c.mod /\ d.target = c.target
  BY <1>1 DEF CurRecords
<1>3. /\ c.fun \in functions /\ ArgsOK(c.args) /\ Room
      /\ \A r \in c.refs : r.at \in DOMAIN c.mod /\ ~c.mod[r.at].ext
      /\ c.entries = <<>>
  BY DEF CurOK
<1>4. Undisturbed(d.fun, d.args) => FunIn(d, d.target)
  BY <1>2 DEF CurOK, FunIn
<1>. QED
  BY <1>2, <1>3, <1>4, InlineIntro

\* The wrapper x takes the name of the function t.
Wrapped(M, t, w, x) ==
    [i \in DOMAIN M \cup {w} |->
       IF i = w THEN x
       ELSE IF i = t THEN [M[i] EXCEPT !.name = Renamed(@, Suffix(M) + 1), !.ext = FALSE]
       ELSE M[i]]

\* N is M with the wrapper x for t, as w.
Wrapping(p, M, t, w, x, N) ==
    /\ M \in ModulesOf(p) /\ t \in DOMAIN M /\ w = Top(M) + 1 /\ x \in SymbolsOf(p)
    /\ x.name = M[t].name /\ \A r \in x.refs : r.at \in DOMAIN M
    /\ N = Wrapped(M, t, w, x)

\* The module with the wrapper is a module.
LEMMA WrappedFacts ==
    ASSUME NEW p, NEW M, NEW t, NEW w, NEW x, NEW N, Wrapping(p, M, t, w, x, N)
    PROVE  /\ N \in ModulesOf(p) /\ w \notin DOMAIN M /\ w \in DOMAIN N /\ N[w] = x
           /\ \A i \in DOMAIN N : i \in DOMAIN M \/ i = w
           /\ \A i \in DOMAIN M :
                /\ i \in DOMAIN N
                /\ i # t => N[i] = M[i]
                /\ N[i].of = M[i].of /\ (N[i].def <=> M[i].def) /\ N[i].asm = M[i].asm
                /\ N[i].refs = M[i].refs
                /\ i = t => ~N[i].ext /\ N[i].name = Renamed(M[i].name, Suffix(M) + 1)
<1>0. /\ M \in ModulesOf(p) /\ t \in DOMAIN M /\ w = Top(M) + 1 /\ x \in SymbolsOf(p)
      /\ x.name = M[t].name /\ (\A r \in x.refs : r.at \in DOMAIN M)
      /\ N = Wrapped(M, t, w, x)
  BY DEF Wrapping
<1>. USE <1>0
<1>1. /\ Top(M) \in Nat /\ Suffix(M) \in Nat
      /\ \A i \in DOMAIN M : i \in Nat /\ i <= Top(M) /\ M[i].name[2] \in Nat /\ M[i].name[2] <= Suffix(M)
  BY TopFacts, SymbolFacts
<1>2. w \in Nat \ {0} /\ w \notin DOMAIN M
  BY <1>1
<1>3. PICK nm : nm = Renamed(M[t].name, Suffix(M) + 1)
  OBVIOUS
<1>4. nm \in Names /\ nm[2] = Suffix(M) + 1
  <2>1. M[t].name[1] \in STRING
    BY SymbolFacts
  <2>. QED
    BY <1>1, <1>3, <2>1 DEF Renamed, Names
<1>5. PICK y : y = [M[t] EXCEPT !.name = nm, !.ext = FALSE]
  OBVIOUS
<1>6. /\ y \in SymbolsOf(p) /\ y.of = M[t].of /\ (y.def <=> M[t].def) /\ y.asm = M[t].asm
      /\ y.refs = M[t].refs /\ ~y.ext /\ y.name = nm
  <2>1. M[t] \in SymbolsOf(p)
    BY SymbolFacts
  <2>. QED
    BY <1>4, <1>5, <2>1 DEF SymbolsOf
<1>7. /\ DOMAIN N = DOMAIN M \cup {w} /\ N = [i \in DOMAIN M \cup {w} |-> N[i]]
      /\ N[w] = x /\ N[t] = y /\ \A i \in DOMAIN M \ {t} : N[i] = M[i]
  BY <1>2, <1>3, <1>5 DEF Wrapped
<1>8. N \in [DOMAIN M \cup {w} -> SymbolsOf(p)]
  <2>1. \A i \in DOMAIN M : M[i] \in SymbolsOf(p)
    BY SymbolFacts
  <2>. QED
    BY <1>6, <1>7, <2>1
<1>9. RefsInside(N)
  <2>1. \A i \in DOMAIN M : \A r \in M[i].refs : r.at \in DOMAIN M
    BY ModuleFacts DEF RefsInside
  <2>2. ASSUME NEW i \in DOMAIN N, NEW r \in N[i].refs PROVE r.at \in DOMAIN N
    BY <1>6, <1>7, <2>1
  <2>. QED
    BY <2>2 DEF RefsInside
<1>10. NamesDistinct(N)
  <2>1. \A i, j \in DOMAIN M : M[i].name = M[j].name => i = j
    BY ModuleFacts DEF NamesDistinct
  <2>2. \A i \in DOMAIN M : M[i].name # nm
    BY <1>1, <1>4
  <2>3. ASSUME NEW i \in DOMAIN N, NEW j \in DOMAIN N, N[i].name = N[j].name PROVE i = j
    <3>1. CASE i = w
      BY <1>6, <1>7, <2>1, <2>2, <2>3, <3>1
    <3>2. CASE j = w
      BY <1>6, <1>7, <2>1, <2>2, <2>3, <3>2
    <3>3. CASE i # w /\ j # w
      BY <1>6, <1>7, <2>1, <2>2, <2>3, <3>3
    <3>. QED
      BY <3>1, <3>2, <3>3
  <2>. QED
    BY <2>3 DEF NamesDistinct
<1>11. Bounded(N, (Top(M) + Suffix(M)) + 1) /\ (Top(M) + Suffix(M)) + 1 \in Nat
  <2>1. ASSUME NEW i \in DOMAIN N PROVE i <= (Top(M) + Suffix(M)) + 1 /\ N[i].name[2] <= (Top(M) + Suffix(M)) + 1
    <3>1. CASE i = w
      BY <1>1, <1>7, <3>1
    <3>2. CASE i = t
      BY <1>1, <1>4, <1>6, <1>7, <3>2
    <3>3. CASE i \in DOMAIN M \ {t}
      BY <1>1, <1>7, <3>3
    <3>. QED
      BY <1>7, <3>1, <3>2, <3>3
  <2>. QED
    BY <1>1, <2>1 DEF Bounded
<1>12. N \in ModulesOf(p)
  <2>1. DOMAIN M \cup {w} \in SUBSET (Nat \ {0}) /\ DOMAIN M \cup {w} # {}
    BY <1>2, ModuleFacts
  <2>. QED
    BY <1>8, <1>9, <1>10, <1>11, <2>1, ModuleIntro
<1>. QED
  BY <1>2, <1>3, <1>6, <1>7, <1>12

WrapperOf(c, n, nm) ==
    [of |-> Thing(c.fun, n), name |-> nm, def |-> TRUE, ext |-> TRUE, asm |-> "-",
     refs |-> c.refs \cup {[want |-> Code(c.fun), arg |-> 0, at |-> c.target]}]

\* The wrapper is a symbol of the module.
LEMMA WrapperFacts ==
    ASSUME ProgOK, NEW c \in CurRecords(P), CurOK(c), c.target \in DOMAIN c.mod,
           NEW n \in Nat, n <= P.most, NEW nm \in Names, NEW x, x = WrapperOf(c, n, nm)
    PROVE  /\ x \in SymbolsOf(P) /\ \A r \in x.refs : r.at \in DOMAIN c.mod
           /\ x.of = Thing(c.fun, n) /\ x.name = nm /\ x.def /\ x.ext
           /\ Thing(c.fun, n) \in ThingsOf(P)
<1>1. P.most \in Nat
  BY ProgFacts
<1>2. c.fun \in ObjsOf(P) /\ c.target \in Nat /\ c.refs \subseteq RefsOf(P)
  BY DEF CurRecords
<1>3. Thing(c.fun, n) \in ThingsOf(P) /\ Code(c.fun) \in ThingsOf(P)
  BY <1>1, <1>2 DEF Code, Thing, ThingsOf
<1>4. PICK r : r = [want |-> Code(c.fun), arg |-> 0, at |-> c.target]
  OBVIOUS
<1>5. r \in RefsOf(P) /\ r.at = c.target
  BY <1>2, <1>3, <1>4 DEF RefsOf
<1>6. PICK rs : rs = c.refs \cup {r}
  OBVIOUS
<1>7. rs \subseteq RefsOf(P) /\ \A q \in rs : q.at \in DOMAIN c.mod
  BY <1>2, <1>5, <1>6 DEF CurOK
<1>8. PICK th \in ThingsOf(P) : th = Thing(c.fun, n)
  BY <1>3
<1>9. x = [of |-> th, name |-> nm, def |-> TRUE, ext |-> TRUE, asm |-> "-", refs |-> rs]
  BY <1>4, <1>6, <1>8 DEF WrapperOf
<1>10. x \in SymbolsOf(P)
  BY <1>7, <1>9 DEF SymbolsOf
<1>11. x.of = th /\ x.name = nm /\ x.def /\ x.ext /\ x.refs = rs
  BY <1>9
<1>. QED
  BY <1>7, <1>8, <1>10, <1>11

\* What has to be shown of a request whose wrapper is made.
LEMMA CodegenIntro ==
    ASSUME NEW d, d.pc = "codegen", d.fun \in functions, ArgsOK(d.args), Room,
           \A r \in d.refs : r.at \in DOMAIN d.mod /\ ~d.mod[r.at].ext,
           EntryIs(d.mod, d.entries, Thing(d.fun, Turn)),
           Undisturbed(d.fun, d.args) => d.entries = <<Name(d.fun)>>
    PROVE  CurOK(d)
BY DEF CurOK

\* What CreateWrapperFun makes of a request.
Marked(c, N, nm) == [c EXCEPT !.pc = "codegen", !.entries = MarkAsEntry(@, nm), !.mod = N]

\* The request with its last module and its entries.
Entered(c, N, es) == [c EXCEPT !.pc = "codegen", !.entries = es, !.mod = N]

\* A request that has its wrapper and its entries.
LEMMA MarkedRecord ==
    ASSUME NEW p, NEW c \in CurRecords(p), NEW N \in ModulesOf(p), NEW es \in Seq(Names),
           NEW d, d = Entered(c, N, es)
    PROVE  /\ d \in CurRecords(p) /\ d.pc = "codegen" /\ d.fun = c.fun /\ d.args = c.args
           /\ d.refs = c.refs /\ d.entries = es /\ d.mod = N /\ d.bytes = c.bytes
BY DEF Entered, CurRecords

\* The mark is the only one.
LEMMA MarkedFacts ==
    ASSUME NEW p, NEW c \in CurRecords(p), c.entries = <<>>, NEW N \in ModulesOf(p), NEW nm \in Names,
           NEW d, d = Marked(c, N, nm)
    PROVE  /\ d \in CurRecords(p) /\ d.pc = "codegen" /\ d.fun = c.fun /\ d.args = c.args
           /\ d.refs = c.refs /\ d.entries = <<nm>> /\ d.mod = N /\ d.bytes = c.bytes
<1>1. Append(<<>>, nm) = <<nm>> /\ <<nm>> \in Seq(Names)
  OBVIOUS
<1>2. PICK es \in Seq(Names) : es = <<nm>> /\ es = Append(<<>>, nm)
  BY <1>1
<1>3. d = Entered(c, N, es)
  BY <1>2 DEF Marked, MarkAsEntry, Entered
<1>4. /\ d \in CurRecords(p) /\ d.pc = "codegen" /\ d.fun = c.fun /\ d.args = c.args
      /\ d.refs = c.refs /\ d.entries = es /\ d.mod = N /\ d.bytes = c.bytes
  BY <1>3, MarkedRecord
<1>. QED
  BY <1>2, <1>4

\* What was private stays private, and the wrapper is there.
LEMMA WrappedModule ==
    ASSUME NEW p, NEW M, NEW t, NEW w, NEW x, NEW N, Wrapping(p, M, t, w, x, N)
    PROVE  /\ N \in ModulesOf(p) /\ w \in DOMAIN N /\ N[w] = x
           /\ \A i \in DOMAIN M : i \in DOMAIN N /\ (~M[i].ext => ~N[i].ext)
<1>1. N \in ModulesOf(p) /\ w \in DOMAIN N /\ N[w] = x
  BY WrappedFacts
<1>2. \A i \in DOMAIN M : i \in DOMAIN N /\ (i # t => N[i] = M[i]) /\ (i = t => ~N[i].ext)
  BY WrappedFacts
<1>. QED
  BY <1>1, <1>2

\* CreateWrapperFun puts the wrapper x, numbered w, into the module M of the
\* request c, and leaves the module N and the request d.
Making(c, M, nm, w, x, N, d) ==
    /\ c \in CurRecords(P) /\ CurOK(c) /\ c.pc = "inline" /\ c.target \in DOMAIN c.mod
    /\ Turn \in Nat /\ Turn <= P.most /\ Turn # 0
    /\ M = c.mod /\ nm = M[c.target].name /\ w = Top(M) + 1 /\ x = WrapperOf(c, Turn, nm)
    /\ N = Wrapped(M, c.target, w, x) /\ d = Marked(c, N, nm)

\* What is put into the module.
LEMMA MakingFacts ==
    ASSUME ProgOK, NEW c, NEW M, NEW nm, NEW w, NEW x, NEW N, NEW d, Making(c, M, nm, w, x, N, d)
    PROVE  /\ nm \in Names /\ Wrapping(P, M, c.target, w, x, N)
           /\ x.of = Thing(c.fun, Turn) /\ x.name = nm /\ x.def /\ x.ext
<1>1. c \in CurRecords(P) /\ CurOK(c) /\ c.target \in DOMAIN c.mod /\ M = c.mod /\ nm = M[c.target].name
  BY DEF Making
<1>2. PICK t : t = c.target
  OBVIOUS
<1>3. M \in ModulesOf(P) /\ t \in DOMAIN M
  BY <1>1, <1>2 DEF CurRecords
<1>4. nm \in Names
  BY <1>1, <1>2, <1>3, SymbolFacts
<1>5. PICK n \in Nat : n = Turn /\ n <= P.most /\ x = WrapperOf(c, n, nm)
  BY DEF Making
<1>6. /\ x \in SymbolsOf(P) /\ \A r \in x.refs : r.at \in DOMAIN c.mod
      /\ x.of = Thing(c.fun, n) /\ x.name = nm /\ x.def /\ x.ext
  BY <1>1, <1>4, <1>5, WrapperFacts
<1>7. w = Top(M) + 1 /\ N = Wrapped(M, c.target, w, x)
  BY DEF Making
<1>8. Wrapping(P, M, t, w, x, N)
  BY <1>1, <1>2, <1>3, <1>6, <1>7 DEF Wrapping
<1>. QED
  BY <1>2, <1>4, <1>5, <1>6, <1>8

\* The module that CreateWrapperFun leaves.
LEMMA WrapperModule ==
    ASSUME ProgOK, NEW c, NEW M, NEW nm, NEW w, NEW x, NEW N, NEW d, Making(c, M, nm, w, x, N, d)
    PROVE  /\ nm \in Names /\ N \in ModulesOf(P) /\ OneEntry(N, nm, Thing(c.fun, Turn))
           /\ \A r \in c.refs : r.at \in DOMAIN N /\ ~N[r.at].ext
<1>1. CurOK(c) /\ M = c.mod
  BY DEF Making
<1>2. PICK th : th = Thing(c.fun, Turn)
  OBVIOUS
<1>3. /\ nm \in Names /\ Wrapping(P, M, c.target, w, x, N)
      /\ x.of = th /\ x.name = nm /\ x.def /\ x.ext
  BY <1>2, MakingFacts
<1>4. /\ N \in ModulesOf(P) /\ w \in DOMAIN N /\ N[w] = x
      /\ \A i \in DOMAIN M : i \in DOMAIN N /\ (~M[i].ext => ~N[i].ext)
  BY <1>3, WrappedModule
<1>5. OneEntry(N, nm, th)
  <2>1. w \in DOMAIN N /\ N[w].name = nm /\ N[w].def /\ N[w].ext /\ N[w].of = th
    BY <1>3, <1>4
  <2>. QED
    BY <1>3, <2>1 DEF OneEntry, EntryIs
<1>6. ASSUME NEW r \in c.refs PROVE r.at \in DOMAIN N /\ ~N[r.at].ext
  <2>1. r.at \in DOMAIN M /\ ~M[r.at].ext
    BY <1>1 DEF CurOK
  <2>. QED
    BY <1>4, <2>1
<1>. QED
  BY <1>2, <1>3, <1>4, <1>5, <1>6

\* CreateWrapperFun.
LEMMA WrapperStep ==
    ASSUME ProgOK, NEW c \in CurRecords(P), CurOK(c), c.pc = "inline",
           NEW nm \in Names, nm = c.mod[c.target].name,
           NEW N \in ModulesOf(P), OneEntry(N, nm, Thing(c.fun, Turn)),
           \A r \in c.refs : r.at \in DOMAIN N /\ ~N[r.at].ext,
           NEW d, d = Marked(c, N, nm)
    PROVE  d \in CurRecords(P) /\ CurOK(d)
<1>1. c.entries = <<>> /\ c.fun \in functions /\ ArgsOK(c.args) /\ Room
  BY DEF CurOK
<1>2. /\ d \in CurRecords(P) /\ d.pc = "codegen" /\ d.fun = c.fun /\ d.args = c.args
      /\ d.refs = c.refs /\ d.mod = N
  BY <1>1, MarkedFacts
<1>3. d.entries = <<nm>>
  BY <1>1, MarkedFacts
<1>4. EntryIs(d.mod, d.entries, Thing(d.fun, Turn))
  BY <1>2, <1>3 DEF OneEntry
<1>5. Undisturbed(d.fun, d.args) => d.entries = <<Name(d.fun)>>
  <2>1. Undisturbed(c.fun, c.args) => nm = Name(c.fun)
    BY DEF CurOK, FunIn
  <2>. QED
    BY <1>2, <1>3, <2>1
<1>6. \A r \in d.refs : r.at \in DOMAIN d.mod /\ ~d.mod[r.at].ext
  BY <1>2
<1>7. d.fun \in functions /\ ArgsOK(d.args) /\ Room
  BY <1>1, <1>2
<1>8. CurOK(d)
  BY <1>2, <1>4, <1>5, <1>6, <1>7, CodegenIntro
<1>. QED
  BY <1>2, <1>8

---------------------------------------------------------------------------
(* The easy::Functions that are made.                                      *)

\* A function is called at the external definition of the name looked up.
LEMMA AddressFacts ==
    ASSUME NEW p, NEW M \in ModulesOf(p), NEW nm
    PROVE  /\ GetFunctionAddress(M, nm) \in Nat
           /\ \A w \in DOMAIN M : M[w].name = nm /\ M[w].def /\ M[w].ext => GetFunctionAddress(M, nm) = w
<1>1. GetFunctionAddress(M, nm) \in Nat
  <2>1. CASE \E i \in Named(M, nm) : M[i].def /\ M[i].ext
    <3>1. Named(M, nm) # {}
      BY <2>1
    <3>2. GetNamedValue(M, nm) \in DOMAIN M
      BY <3>1, Lookup
    <3>3. GetNamedValue(M, nm) \in Nat
      BY <3>2, SymbolFacts
    <3>. QED
      BY <2>1, <3>3 DEF GetFunctionAddress
  <2>2. CASE ~\E i \in Named(M, nm) : M[i].def /\ M[i].ext
    BY <2>2 DEF GetFunctionAddress
  <2>. QED
    BY <2>1, <2>2
<1>2. ASSUME NEW w \in DOMAIN M, M[w].name = nm, M[w].def, M[w].ext
      PROVE  GetFunctionAddress(M, nm) = w
  <2>1. Named(M, nm) = {w}
    BY <1>2, ModuleFacts DEF Named, NamesDistinct
  <2>2. GetNamedValue(M, nm) = w
    BY <2>1 DEF GetNamedValue
  <2>. QED
    BY <1>2, <2>1, <2>2 DEF GetFunctionAddress
<1>. QED
  BY <1>1, <1>2

\* CompileAndWrap.
LEMMA WrapStep ==
    ASSUME ProgOK, Tracker, NEW c \in CurRecords(P), CurOK(c), c.pc = "codegen",
           NEW th \in ThingsOf(P), th = Thing(c.fun, Turn),
           NEW F, F = [mod |-> c.mod, entries |-> c.entries,
                       address |-> GetFunctionAddress(c.mod, Name(c.fun)),
                       globals |-> P.unit[c.fun], thing |-> th,
                       args |-> c.args, bytes |-> c.bytes, from |-> 0]
    PROVE  F \in MadeRecords(P) /\ MadeOK(F)
<1>1. /\ c.mod \in ModulesOf(P) /\ c.entries \in Seq(Names) /\ c.args \in Seq(AnyArgs(P))
      /\ c.bytes \in P.bytes /\ c.fun \in ObjsOf(P)
  BY DEF CurRecords
<1>2. PICK a \in Nat, u \in Nat : a = GetFunctionAddress(c.mod, Name(c.fun)) /\ u = P.unit[c.fun]
  <2>1. P.unit[c.fun] \in Nat
    BY <1>1, ProgFacts
  <2>. QED
    BY <1>1, <2>1, AddressFacts
<1>3. F = [mod |-> c.mod, entries |-> c.entries, address |-> a, globals |-> u, thing |-> th,
           args |-> c.args, bytes |-> c.bytes, from |-> 0]
  BY <1>2
<1>4. F \in MadeRecords(P)
  BY <1>1, <1>3 DEF MadeRecords
<1>5. /\ F.mod = c.mod /\ F.entries = c.entries /\ F.address = a /\ F.globals = u /\ F.thing = th
      /\ F.args = c.args /\ F.from = 0
  BY <1>3
<1>6. th.obj = c.fun
  BY DEF Thing
<1>7. /\ c.fun \in functions /\ ArgsOK(c.args) /\ EntryIs(c.mod, c.entries, th)
      /\ Undisturbed(c.fun, c.args) => c.entries = <<Name(c.fun)>>
  BY DEF CurOK
<1>. QED
  BY <1>2, <1>4, <1>5, <1>6, <1>7 DEF MadeOK

\* What deserialize gives back.
Revived(F, u, f, a) == [F EXCEPT !.globals = u, !.from = f, !.address = a]

\* deserialize.
LEMMA ReviveStep ==
    ASSUME ProgOK, Tracker, NEW f \in DOMAIN made, f \in Nat, NEW F \in MadeRecords(P), F = made[f], MadeOK(F),
           NEW nm, nm = GetEntryFunctionName(F.entries),
           NEW G, G = Revived(F, GlobalsByName(nm), f, GetFunctionAddress(F.mod, nm))
    PROVE  G \in MadeRecords(P) /\ MadeOK(G)
<1>1. F.mod \in ModulesOf(P)
  BY DEF MadeRecords
<1>2. PICK a \in Nat, u \in Nat : a = GetFunctionAddress(F.mod, nm) /\ u = GlobalsByName(nm)
  <2>1. GlobalsByName(nm) \in Nat
    <3>1. CASE nm \in DOMAIN byName
      <4>1. byName[nm] \in Objs(P)
        BY <3>1, TrackerFacts
      <4>2. P.unit[byName[nm]] \in Nat
        BY <4>1, ProgFacts
      <4>. QED
        BY <4>2 DEF GlobalsByName, GetAddress, NoUnit
    <3>2. CASE nm \notin DOMAIN byName
      BY <3>2 DEF GlobalsByName, GetAddress, NoUnit
    <3>. QED
      BY <3>1, <3>2
  <2>. QED
    BY <1>1, <2>1, AddressFacts
<1>3. G = Revived(F, u, f, a)
  BY <1>2
<1>4. /\ G \in MadeRecords(P) /\ G.mod = F.mod /\ G.entries = F.entries /\ G.address = a /\ G.globals = u
      /\ G.thing = F.thing /\ G.args = F.args /\ G.from = f
  BY <1>3 DEF Revived, MadeRecords
<1>5. PICK o : o = F.thing.obj
  OBVIOUS
<1>6. o \in functions /\ ArgsOK(F.args) /\ EntryIs(F.mod, F.entries, F.thing)
  BY <1>5 DEF MadeOK
<1>7. ASSUME Undisturbed(o, F.args)
      PROVE  /\ F.entries = <<Name(o)>> /\ a = GetFunctionAddress(F.mod, Name(o))
             /\ byName[Name(o)] = o => u = P.unit[o]
  <2>1. F.entries = <<Name(o)>>
    BY <1>5, <1>7 DEF MadeOK
  <2>2. nm = Name(o)
    BY <2>1, HeadOfOne DEF GetEntryFunctionName
  <2>3. Name(o) \in DOMAIN byName
    BY <1>6 DEF Tracker
  <2>4. byName[Name(o)] # NoObject
    BY <2>3, TrackerFacts
  <2>5. byName[Name(o)] = o => u = P.unit[o]
    BY <1>2, <2>2, <2>3, <2>4 DEF GlobalsByName, GetAddress
  <2>. QED
    BY <1>2, <2>1, <2>2, <2>5
<1>. QED
  BY <1>4, <1>5, <1>6, <1>7 DEF MadeOK

---------------------------------------------------------------------------
(* The invariant is inductive.                                             *)

\* What it says of the request in progress.
CurInv == \A c \in {cur} : c \in {Idle, Foreign} \/ (c \in CurRecords(P) /\ CurOK(c))

\* An easy::Function is added.
LEMMA MadeAppended ==
    ASSUME ProgOK, Tracker, MadeInv, Room, UNCHANGED <<P, functions, byName>>,
           NEW F \in MadeRecords(P), MadeOK(F), made' = Append(made, F)
    PROVE  MadeInv' /\ Grown /\ DOMAIN made \subseteq DOMAIN made'
<1>1. /\ made \in Seq(MadeRecords(P)) /\ Len(made) \in Nat /\ Len(made) < P.most /\ P.most \in Nat
  BY ProgFacts DEF MadeInv, Room
<1>2. /\ made' \in Seq(MadeRecords(P)) /\ Len(made') = Len(made) + 1
      /\ \A i \in 1 .. Len(made) : made'[i] = made[i]
      /\ made'[Len(made) + 1] = F
  BY <1>1, AppendProperties
<1>3. DOMAIN made = 1 .. Len(made) /\ DOMAIN made' = 1 .. (Len(made) + 1)
  BY <1>1, <1>2
<1>4. Grown
  BY <1>1, <1>2, <1>3 DEF Grown
<1>5. ASSUME NEW G, G \in Range(made') PROVE MadeOK(G)'
  <2>1. G = F \/ G \in Range(made)
    BY <1>1, <1>2, <1>3, <1>5 DEF Range
  <2>2. MadeOK(G)
    BY <2>1 DEF MadeInv
  <2>. QED
    BY <1>4, <2>2, MadeStays
<1>6. Len(made') <= P.most
  BY <1>1, <1>2
<1>7. \A G \in Range(made)' : MadeOK(G)'
  BY <1>5 DEF Range
<1>8. made' \in Seq(MadeRecords(P)) /\ P' = P
  BY <1>2
<1>9. DOMAIN made \subseteq DOMAIN made'
  BY <1>1, <1>3
<1>. QED
  BY <1>4, <1>6, <1>7, <1>8, <1>9 DEF MadeInv

\* Nothing but the request changes.
LEMMA OnlyCur ==
    ASSUME ProgOK, Tracker, MadeInv, UNCHANGED <<P, functions, byName, made, buffers>>,
           buffers \subseteq DOMAIN made
    PROVE  ProgOK' /\ Tracker' /\ MadeInv' /\ buffers' \subseteq DOMAIN made'
<1>1. P' = P /\ functions' = functions /\ byName' = byName /\ made' = made /\ buffers' = buffers
  OBVIOUS
<1>2. Grown
  BY <1>1 DEF Grown
<1>3. \A G \in Range(made) : MadeOK(G)'
  BY <1>2, MadeStays DEF MadeInv
<1>4. \A o : Name(o)' = Name(o)
  BY <1>1, StaticSame
<1>. QED
  BY <1>1, <1>3, <1>4 DEF ProgOK, Tracker, MadeInv, Range, Name

\* The request becomes d.
LEMMA CurBecomes ==
    ASSUME UNCHANGED <<P, functions, byName, made>>, NEW d, cur' = d,
           d \in {Idle, Foreign} \/ (d \in CurRecords(P) /\ CurOK(d))
    PROVE  CurInv'
<1>1. P' = P
  OBVIOUS
<1>2. d \in {Idle, Foreign} \/ (d \in CurRecords(P') /\ CurOK(d)')
  BY <1>1, CurStays
<1>3. \A e \in {cur'} : e = d
  OBVIOUS
<1>. QED
  BY <1>2, <1>3 DEF CurInv, Idle, Foreign

\* The constructor of a unit.
LEMMA RegisterInd ==
    ASSUME ProgOK, Tracker, MadeInv, buffers \subseteq DOMAIN made, NEW u, RegisterUnit(u)
    PROVE  ProgOK' /\ Tracker' /\ MadeInv' /\ CurInv' /\ buffers' \subseteq DOMAIN made'
<1>1. /\ P' = P /\ made' = made /\ cur' = cur /\ buffers' = buffers /\ cur = Idle
      /\ functions' = functions \cup Registered(u)
      /\ byName' = [nm \in DOMAIN byName \cup {Name(o) : o \in Registered(u)} |->
                      IF nm \in DOMAIN byName THEN byName[nm]
                      ELSE CHOOSE o \in Registered(u) : Name(o) = nm]
  BY DEF RegisterUnit
<1>2. \A o : Name(o)' = Name(o)
  BY <1>1, StaticSame
<1>3. DOMAIN byName' = DOMAIN byName \cup {Name(o) : o \in Registered(u)}
  BY <1>1
<1>4. \A nm \in DOMAIN byName : byName'[nm] = byName[nm]
  BY <1>1
<1>5. ASSUME NEW nm \in {Name(o) : o \in Registered(u)}, nm \notin DOMAIN byName
      PROVE  byName'[nm] \in Registered(u) /\ Name(byName'[nm]) = nm
  <2>1. \E o \in Registered(u) : Name(o) = nm
    BY <1>5
  <2>2. byName'[nm] = CHOOSE o \in Registered(u) : Name(o) = nm
    BY <1>1, <1>5
  <2>. QED
    BY <2>1, <2>2
<1>6. Registered(u) \subseteq P.jit
  BY DEF Registered
<1>7. ASSUME NEW nm \in DOMAIN byName'
      PROVE  byName'[nm] \in functions' /\ Name(byName'[nm]) = nm
  BY <1>1, <1>3, <1>4, <1>5 DEF Tracker
<1>8. Tracker'
  <2>1. functions' \subseteq P'.jit
    BY <1>1, <1>6 DEF Tracker
  <2>2. ASSUME NEW nm \in DOMAIN byName' PROVE byName'[nm] \in functions' /\ (Name(byName[nm]))' = nm
    <3>1. byName'[nm] \in functions' /\ Name(byName'[nm]) = nm
      BY <1>7
    <3>. QED
      BY <1>1, <3>1 DEF Name
  <2>3. ASSUME NEW o \in functions' PROVE Name(o) \in DOMAIN byName'
    BY <1>1, <1>3 DEF Tracker
  <2>. QED
    BY <1>2, <2>1, <2>2, <2>3 DEF Tracker
<1>9. Grown
  BY <1>1, <1>3, <1>4 DEF Grown
<1>10. \A G \in Range(made) : MadeOK(G)'
  BY <1>9, MadeStays DEF MadeInv
<1>11. ProgOK' /\ MadeInv' /\ buffers' \subseteq DOMAIN made'
  BY <1>1, <1>10 DEF ProgOK, MadeInv, Range
<1>12. CurInv'
  BY <1>1 DEF CurInv, Idle
<1>. QED
  BY <1>8, <1>11, <1>12

\* A request in progress.
LEMMA Busy ==
    ASSUME CurInv, NEW c, c = cur, c.pc \in {"resolve", "inline", "codegen"}
    PROVE  c \in CurRecords(P) /\ CurOK(c)
<1>1. c # Idle /\ c # Foreign
  BY DEF Idle, Foreign
<1>. QED
  BY <1>1 DEF CurInv

\* A request starts.
LEMMA CompileInd ==
    ASSUME ProgOK, Tracker, MadeInv, NEW o \in P.asked, NEW b \in P.bytes, NEW dump \in P.dumps,
           NEW args \in Lists(P.takes[o]), Compile(o, args, b, dump)
    PROVE  CurInv'
<1>1. PICK d : d = [pc |-> "resolve", fun |-> o, args |-> args, bytes |-> b, dump |-> dump,
                    mod |-> Embedded(o), todo |-> [k \in DOMAIN P.calls[o] |-> Name(P.calls[o][k])],
                    target |-> 0, refs |-> {}, k |-> 1, entries |-> <<>>]
  OBVIOUS
<1>2. /\ cur' = d /\ HasGlobalMapping(o) /\ Room /\ UNCHANGED <<P, functions, byName, made>>
  BY <1>1 DEF Compile, Room
<1>3. o \in Objs(P) /\ dump \in BOOLEAN /\ made \in Seq(MadeRecords(P))
  BY ProgFacts DEF MadeInv
<1>4. d \in CurRecords(P) /\ CurOK(d)
  BY <1>1, <1>2, <1>3, CompileStep
<1>. QED
  BY <1>2, <1>4, CurBecomes

\* ResolveModule.
LEMMA ResolveInd ==
    ASSUME ProgOK, Tracker, CurInv, ResolveNext
    PROVE  CurInv'
<1>1. PICK c, d : c = cur /\ d = [c EXCEPT !.mod = LinkByName(@, Head(c.todo)), !.todo = Tail(@)]
  OBVIOUS
<1>2. c.pc = "resolve" /\ c.todo # <<>> /\ cur' = d /\ UNCHANGED <<P, functions, byName, made>>
  BY <1>1 DEF ResolveNext
<1>3. c \in CurRecords(P) /\ CurOK(c)
  BY <1>1, <1>2, Busy
<1>4. d \in CurRecords(P) /\ CurOK(d)
  BY <1>1, <1>2, <1>3, ResolveStep
<1>. QED
  BY <1>2, <1>4, CurBecomes

\* EmitCodes.
LEMMA EmitInd ==
    ASSUME ProgOK, CurInv, EmitCodes
    PROVE  CurInv'
<1>1. PICK c : c = cur
  OBVIOUS
<1>2. PICK i : i = GetNamedValue(c.mod, Name(c.fun))
  OBVIOUS
<1>3. PICK N : N = Stubbed(c.mod, i, c.bytes)
  OBVIOUS
<1>4. PICK d : d = [c EXCEPT !.pc = "inline", !.target = i, !.mod = N]
  OBVIOUS
<1>5. c.pc = "resolve" /\ UNCHANGED <<P, functions, byName, made>>
  BY <1>1 DEF EmitCodes
<1>6. c \in CurRecords(P) /\ CurOK(c)
  BY <1>1, <1>5, Busy
<1>7. cur' = [c EXCEPT !.pc = "inline", !.target = i,
                       !.mod[i].asm = IF c.mod[i].def /\ @ = "nop" THEN c.bytes ELSE @]
  BY <1>1, <1>2 DEF EmitCodes
<1>8. cur' = d
  BY <1>3, <1>4, <1>6, <1>7 DEF Stubbed, CurRecords
<1>9. d \in CurRecords(P) /\ CurOK(d)
  BY <1>2, <1>3, <1>4, <1>5, <1>6, EmitStep
<1>. QED
  BY <1>5, <1>8, <1>9, CurBecomes

\* AK_Ptr.
LEMMA PointerInd ==
    ASSUME ProgOK, Tracker, CurInv, InlinePointer
    PROVE  CurInv'
<1>1. PICK c, a : c = cur /\ a = c.args[c.k]
  OBVIOUS
<1>2. /\ c.pc = "inline" /\ NextIs(c, a, "ptr")
      /\ UNCHANGED <<P, functions, byName, made>>
  BY <1>1 DEF InlinePointer, NextIs
<1>3. c \in CurRecords(P) /\ CurOK(c)
  BY <1>1, <1>2, Busy
<1>4. CASE HasGlobalMapping(a.x)
  <2>1. PICK N : N = LinkObject(c.mod, a.x)
    OBVIOUS
  <2>2. PICK g : g = GetNamedValue(N, Name(a.x))
    OBVIOUS
  <2>3. PICK d : d = PassedRef(c, SetPrivate(N, g), Wanted(a), g)
    OBVIOUS
  <2>4. PassSymbol(LinkObject(cur.mod, a.x), Name(a.x), <<>>)
    BY <1>1, <1>4 DEF InlinePointer
  <2>5. cur' = d
    BY <1>1, <2>1, <2>2, <2>3, <2>4 DEF PassSymbol, PassedRef, Passed
  <2>6. d \in CurRecords(P) /\ CurOK(d)
    BY <1>1, <1>2, <1>3, <1>4, <2>1, <2>2, <2>3, PointerStep
  <2>. QED
    BY <1>2, <2>5, <2>6, CurBecomes
<1>5. CASE ~HasGlobalMapping(a.x)
  <2>1. PICK d : d = [c EXCEPT !.k = @ + 1]
    OBVIOUS
  <2>2. cur' = d
    BY <1>1, <1>5, <2>1 DEF InlinePointer
  <2>3. d \in CurRecords(P) /\ CurOK(d)
    BY <1>2, <1>3, <2>1, SkipStep
  <2>. QED
    BY <1>2, <2>2, <2>3, CurBecomes
<1>. QED
  BY <1>4, <1>5

\* AK_Module.
LEMMA ModuleInd ==
    ASSUME ProgOK, CurInv, MadeInv, InlineModule
    PROVE  CurInv'
<1>1. PICK c, a : c = cur /\ a = c.args[c.k]
  OBVIOUS
<1>2. PICK F : F = made[a.x]
  OBVIOUS
<1>3. PICK L : L = LinkModules(c.mod, F.mod)
  OBVIOUS
<1>4. PICK g : g = GetNamedValue(L, GetEntryFunctionName(F.entries))
  OBVIOUS
<1>5. PICK d : d = PassedRef(c, SetPrivate(L, g), Wanted(a), g)
  OBVIOUS
<1>6. /\ c.pc = "inline" /\ NextIs(c, a, "mod")
      /\ UNCHANGED <<P, functions, byName, made>>
  BY <1>1 DEF InlineModule, NextIs
<1>7. c \in CurRecords(P) /\ CurOK(c)
  BY <1>1, <1>6, Busy
<1>8. PassSymbol(LinkModules(cur.mod, F.mod), GetEntryFunctionName(F.entries), <<>>)
  BY <1>1, <1>2 DEF InlineModule, UnmarkEntry
<1>9. cur' = d
  BY <1>1, <1>3, <1>4, <1>5, <1>8 DEF PassSymbol, PassedRef, Passed
<1>10. d \in CurRecords(P) /\ CurOK(d)
  <2>1. ProgOK /\ c \in CurRecords(P) /\ CurOK(c) /\ c.pc = "inline" /\ MadeInv
    BY <1>6, <1>7
  <2>2. NextIs(c, a, "mod") /\ F = made[a.x]
    BY <1>1, <1>2, <1>6
  <2>. QED
    BY <1>3, <1>4, <1>5, <2>1, <2>2, ModuleStep
<1>. QED
  BY <1>6, <1>9, <1>10, CurBecomes

\* The number of the next easy::Function.
LEMMA TurnFacts ==
    ASSUME ProgOK, MadeInv, Room
    PROVE  Turn \in Nat /\ Turn <= P.most /\ Turn # 0
<1>1. Len(made) \in Nat /\ P.most \in Nat /\ Len(made) < P.most
  BY ProgFacts DEF MadeInv, Room
<1>. QED
  BY <1>1 DEF Turn

\* CreateWrapperFun, for the rigid record c of the request.
LEMMA WrapperAction ==
    ASSUME CreateWrapperFun, NEW c, c = cur, NEW M, M = c.mod, NEW w, w = Top(M) + 1,
           NEW nm, nm = M[c.target].name, NEW x, x = WrapperOf(c, Turn, nm),
           NEW N, N = Wrapped(M, c.target, w, x)
    PROVE  cur' = Marked(c, N, nm)
<1>1. cur' = [c EXCEPT
                !.pc = "codegen", !.entries = MarkAsEntry(@, nm),
                !.mod = [i \in DOMAIN M \cup {w} |->
                   IF i = w
                   THEN [of |-> Thing(c.fun, Len(made) + 1), name |-> nm,
                         def |-> TRUE, ext |-> TRUE, asm |-> "-",
                         refs |-> c.refs \cup {[want |-> Code(c.fun), arg |-> 0,
                                                at |-> c.target]}]
                   ELSE IF i = c.target
                   THEN [M[i] EXCEPT !.name = Renamed(@, Suffix(M) + 1), !.ext = FALSE]
                   ELSE M[i]]]
  BY DEF CreateWrapperFun
<1>2. N = [i \in DOMAIN M \cup {w} |->
             IF i = w
             THEN [of |-> Thing(c.fun, Len(made) + 1), name |-> nm,
                   def |-> TRUE, ext |-> TRUE, asm |-> "-",
                   refs |-> c.refs \cup {[want |-> Code(c.fun), arg |-> 0, at |-> c.target]}]
             ELSE IF i = c.target
             THEN [M[i] EXCEPT !.name = Renamed(@, Suffix(M) + 1), !.ext = FALSE]
             ELSE M[i]]
  BY Zenon DEF Wrapped, WrapperOf, Turn
<1>. QED
  BY <1>1, <1>2, Zenon DEF Marked

\* CreateWrapperFun.
LEMMA WrapperInd ==
    ASSUME ProgOK, CurInv, MadeInv, CreateWrapperFun
    PROVE  CurInv'
<1>1. PICK c : c = cur
  OBVIOUS
<1>2. PICK M : M = c.mod
  OBVIOUS
<1>3. PICK w : w = Top(M) + 1
  OBVIOUS
<1>4. PICK nm : nm = M[c.target].name
  OBVIOUS
<1>5. PICK x : x = WrapperOf(c, Turn, nm)
  OBVIOUS
<1>6. PICK N : N = Wrapped(M, c.target, w, x)
  OBVIOUS
<1>7. PICK d : d = Marked(c, N, nm)
  OBVIOUS
<1>8. cur' = d
  BY <1>1, <1>2, <1>3, <1>4, <1>5, <1>6, <1>7, WrapperAction
<1>9. /\ c.pc = "inline" /\ c.target \in DOMAIN c.mod
      /\ UNCHANGED <<P, functions, byName, made>>
  BY <1>1 DEF CreateWrapperFun
<1>10. c \in CurRecords(P) /\ CurOK(c)
  BY <1>1, <1>9, Busy
<1>11. Making(c, M, nm, w, x, N, d)
  <2>1. Room
    BY <1>10 DEF CurOK
  <2>2. Turn \in Nat /\ Turn <= P.most /\ Turn # 0
    BY <2>1, TurnFacts
  <2>. QED
    BY <1>2, <1>3, <1>4, <1>5, <1>6, <1>7, <1>9, <1>10, <2>2 DEF Making
<1>12. /\ nm \in Names /\ N \in ModulesOf(P) /\ OneEntry(N, nm, Thing(c.fun, Turn))
       /\ \A r \in c.refs : r.at \in DOMAIN N /\ ~N[r.at].ext
  BY <1>11, WrapperModule
<1>13. nm = c.mod[c.target].name
  BY <1>2, <1>4
<1>14. d \in CurRecords(P) /\ CurOK(d)
  BY <1>7, <1>9, <1>10, <1>12, <1>13, WrapperStep
<1>. QED
  BY <1>8, <1>9, <1>14, CurBecomes

\* The program loses its meaning: either by a dump that throws, or since the
\* function that is specialised is gone.
LEMMA LostStep ==
    ASSUME NEW c \in CurRecords(P), CurOK(c), c.dump \/ ~Undisturbed(c.fun, c.args),
           NEW d, d = [c EXCEPT !.pc = "undefined"]
    PROVE  d \in CurRecords(P) /\ CurOK(d)
<1>1. /\ d \in CurRecords(P) /\ d.pc = "undefined" /\ d.fun = c.fun /\ d.args = c.args
      /\ d.refs = c.refs /\ d.mod = c.mod /\ d.dump = c.dump
  BY DEF CurRecords
<1>2. /\ c.fun \in functions /\ ArgsOK(c.args) /\ Room
      /\ \A r \in c.refs : r.at \in DOMAIN c.mod /\ ~c.mod[r.at].ext
  BY DEF CurOK
<1>. QED
  BY <1>1, <1>2 DEF CurOK

\* The reference to the function dangles.
LEMMA ErasedInd ==
    ASSUME CurInv, TargetErased
    PROVE  CurInv'
<1>1. PICK c, d : c = cur /\ d = [c EXCEPT !.pc = "undefined"]
  OBVIOUS
<1>2. /\ c.pc = "inline" /\ c.target \notin DOMAIN c.mod /\ cur' = d
      /\ UNCHANGED <<P, functions, byName, made>>
  BY <1>1 DEF TargetErased, LoseMeaning
<1>3. c \in CurRecords(P) /\ CurOK(c)
  BY <1>1, <1>2, Busy
<1>4. ~Undisturbed(c.fun, c.args)
  BY <1>2, <1>3 DEF CurOK, FunIn
<1>5. d \in CurRecords(P) /\ CurOK(d)
  BY <1>1, <1>3, <1>4, LostStep
<1>. QED
  BY <1>2, <1>5, CurBecomes

\* WriteOptimizedToFile throws.
LEMMA DumpInd ==
    ASSUME CurInv, DumpThrows
    PROVE  CurInv'
<1>1. PICK c, d : c = cur /\ d = [c EXCEPT !.pc = "undefined"]
  OBVIOUS
<1>2. /\ c.pc = "codegen" /\ c.dump /\ cur' \in {d, Idle}
      /\ UNCHANGED <<P, functions, byName, made>>
  BY <1>1 DEF DumpThrows, Unwind, LoseMeaning
<1>3. c \in CurRecords(P) /\ CurOK(c)
  BY <1>1, <1>2, Busy
<1>4. d \in CurRecords(P) /\ CurOK(d)
  BY <1>1, <1>2, <1>3, LostStep
<1>5. PICK e : e = cur'
  OBVIOUS
<1>6. e \in {Idle, Foreign} \/ (e \in CurRecords(P) /\ CurOK(e))
  BY <1>2, <1>4, <1>5
<1>. QED
  BY <1>2, <1>5, <1>6, CurBecomes

\* The builder's module goes before the context.
LEMMA EngineUnwinds ==
    ~\E i, j \in DOMAIN EngineUnwind : i < j /\ EngineUnwind[i] = "Ctx" /\ EngineUnwind[j] = "M"
<1>1. DOMAIN EngineUnwind = {1, 2} /\ EngineUnwind[1] = "M" /\ EngineUnwind[2] = "Ctx"
  BY DEF EngineUnwind
<1>. QED
  BY <1>1

\* GetEngine throws.
LEMMA EngineInd ==
    ASSUME CurInv, EngineThrows
    PROVE  CurInv'
<1>1. cur' = Idle /\ UNCHANGED <<P, functions, byName, made>>
  BY EngineUnwinds DEF EngineThrows, Unwind
<1>. QED
  BY <1>1, CurBecomes

\* CompileAndWrap.
LEMMA WrapInd ==
    ASSUME ProgOK, Tracker, CurInv, MadeInv, buffers \subseteq DOMAIN made, CompileAndWrap
    PROVE  ProgOK' /\ Tracker' /\ MadeInv' /\ CurInv' /\ buffers' \subseteq DOMAIN made'
<1>1. PICK c, th : c = cur /\ th = Thing(c.fun, Turn)
  OBVIOUS
<1>2. PICK F : F = [mod |-> c.mod, entries |-> c.entries,
                    address |-> GetFunctionAddress(c.mod, Name(c.fun)),
                    globals |-> P.unit[c.fun], thing |-> th,
                    args |-> c.args, bytes |-> c.bytes, from |-> 0]
  OBVIOUS
<1>3. /\ c.pc = "codegen" /\ made' = Append(made, F) /\ cur' = Idle
      /\ UNCHANGED <<P, functions, byName, buffers>>
  BY <1>1, <1>2 DEF CompileAndWrap, Turn
<1>4. c \in CurRecords(P) /\ CurOK(c)
  BY <1>1, <1>3, Busy
<1>5. Room
  BY <1>4 DEF CurOK
<1>6. th \in ThingsOf(P)
  <2>1. Turn \in Nat /\ Turn <= P.most /\ P.most \in Nat
    BY <1>5, TurnFacts, ProgFacts
  <2>2. c.fun \in ObjsOf(P)
    BY <1>4 DEF CurRecords
  <2>. QED
    BY <1>1, <2>1, <2>2 DEF Thing, ThingsOf
<1>7. F \in MadeRecords(P) /\ MadeOK(F)
  BY <1>1, <1>2, <1>3, <1>4, <1>6, WrapStep
<1>8. MadeInv' /\ Grown /\ DOMAIN made \subseteq DOMAIN made'
  BY <1>3, <1>5, <1>7, MadeAppended
<1>9. ProgOK' /\ Tracker' /\ buffers' \subseteq DOMAIN made'
  BY <1>3, <1>8 DEF ProgOK, Tracker, Name
<1>10. CurInv'
  BY <1>3 DEF CurInv, Idle
<1>. QED
  BY <1>8, <1>9, <1>10

\* deserialize.
LEMMA ReviveInd ==
    ASSUME ProgOK, Tracker, CurInv, MadeInv, buffers \subseteq DOMAIN made, NEW f, Deserialize(f)
    PROVE  ProgOK' /\ Tracker' /\ MadeInv' /\ CurInv' /\ buffers' \subseteq DOMAIN made'
<1>1. PICK F : F = made[f]
  OBVIOUS
<1>2. PICK nm : nm = GetEntryFunctionName(F.entries)
  OBVIOUS
<1>3. PICK G : G = Revived(F, GlobalsByName(nm), f, GetFunctionAddress(F.mod, nm))
  OBVIOUS
<1>4. /\ f \in buffers /\ Room /\ made' = Append(made, G) /\ cur = Idle
      /\ UNCHANGED <<P, functions, byName, cur, buffers>>
  BY <1>1, <1>2, <1>3 DEF Deserialize, Revived, Room
<1>5. f \in DOMAIN made /\ f \in Nat /\ F \in MadeRecords(P) /\ MadeOK(F)
  BY <1>1, <1>4 DEF MadeInv, Range
<1>6. G \in MadeRecords(P) /\ MadeOK(G)
  BY <1>1, <1>2, <1>3, <1>5, ReviveStep
<1>7. MadeInv' /\ Grown /\ DOMAIN made \subseteq DOMAIN made'
  BY <1>4, <1>6, MadeAppended
<1>8. ProgOK' /\ Tracker' /\ buffers' \subseteq DOMAIN made'
  BY <1>4, <1>7 DEF ProgOK, Tracker, Name
<1>9. CurInv'
  BY <1>4 DEF CurInv, Idle
<1>. QED
  BY <1>7, <1>8, <1>9

IndInv == ProgOK /\ Tracker /\ MadeInv /\ CurInv /\ buffers \subseteq DOMAIN made

\* The invariant holds when the program starts.
LEMMA InitInd == Init => IndInv
<1>. SUFFICES ASSUME Init PROVE IndInv
  OBVIOUS
<1>1. /\ ProgOK /\ functions = {} /\ DOMAIN byName = {} /\ made = <<>> /\ cur = Idle /\ buffers = {}
  BY DEF Init, ProgOK
<1>2. Tracker
  BY <1>1 DEF Tracker
<1>3. MadeInv
  <2>1. made \in Seq(MadeRecords(P)) /\ Len(made) = 0 /\ DOMAIN made = {}
    BY <1>1
  <2>2. P.most \in Nat
    BY <1>1, ProgFacts
  <2>. QED
    BY <2>1, <2>2 DEF MadeInv, Range
<1>4. CurInv
  BY <1>1 DEF CurInv
<1>. QED
  BY <1>1, <1>2, <1>3, <1>4 DEF IndInv

\* Every step preserves the invariant.
LEMMA NextInd == IndInv /\ [Next]_vars => IndInv'
<1>. SUFFICES ASSUME IndInv, [Next]_vars PROVE IndInv'
  OBVIOUS
<1>0. ProgOK /\ Tracker /\ MadeInv /\ CurInv /\ buffers \subseteq DOMAIN made
  BY DEF IndInv
<1>1. ASSUME UNCHANGED <<P, functions, byName, made, buffers>>, CurInv' PROVE IndInv'
  BY <1>0, <1>1, OnlyCur DEF IndInv
<1>2. CASE \E u \in {P.unit[o] : o \in Objs(P)} : RegisterUnit(u)
  BY <1>0, <1>2, RegisterInd DEF IndInv
<1>3. CASE \E o \in P.asked, b \in P.bytes, d \in P.dumps : \E args \in Lists(P.takes[o]) :
             Compile(o, args, b, d)
  <2>0. PICK o \in P.asked, b \in P.bytes, d \in P.dumps :
           \E args \in Lists(P.takes[o]) : Compile(o, args, b, d)
    BY <1>3
  <2>1. PICK args \in Lists(P.takes[o]) : Compile(o, args, b, d)
    BY <2>0
  <2>2. UNCHANGED <<P, functions, byName, made, buffers>>
    BY <2>1 DEF Compile
  <2>3. CurInv'
    BY <1>0, <2>1, CompileInd
  <2>. QED
    BY <1>1, <2>2, <2>3
<1>4. CASE ResolveNext
  BY <1>0, <1>1, <1>4, ResolveInd DEF ResolveNext
<1>5. CASE EmitCodes
  BY <1>0, <1>1, <1>5, EmitInd DEF EmitCodes
<1>6. CASE InlinePointer
  BY <1>0, <1>1, <1>6, PointerInd DEF InlinePointer
<1>7. CASE InlineModule
  BY <1>0, <1>1, <1>7, ModuleInd DEF InlineModule
<1>8. CASE CreateWrapperFun
  BY <1>0, <1>1, <1>8, WrapperInd DEF CreateWrapperFun
<1>9. CASE TargetErased
  BY <1>0, <1>1, <1>9, ErasedInd DEF TargetErased
<1>10. CASE CompileAndWrap
  BY <1>0, <1>10, WrapInd DEF IndInv
<1>11. CASE DumpThrows
  BY <1>0, <1>1, <1>11, DumpInd DEF DumpThrows
<1>12. CASE EngineThrows
  BY <1>0, <1>1, <1>12, EngineInd DEF EngineThrows
<1>13. CASE \E f \in DOMAIN made : Serialize(f) \/ Deserialize(f)
  <2>1. PICK f \in DOMAIN made : Serialize(f) \/ Deserialize(f)
    BY <1>13
  <2>2. CASE Deserialize(f)
    BY <1>0, <2>2, ReviveInd DEF IndInv
  <2>3. CASE Serialize(f)
    <3>1. /\ P' = P /\ functions' = functions /\ byName' = byName /\ made' = made /\ cur' = cur
          /\ buffers' = buffers \cup {f} /\ cur = Idle
      BY <2>3 DEF Serialize
    <3>2. Grown
      BY <3>1 DEF Grown
    <3>3. \A G \in Range(made) : MadeOK(G)'
      BY <1>0, <3>2, MadeStays DEF MadeInv
    <3>4. ProgOK' /\ MadeInv' /\ buffers' \subseteq DOMAIN made'
      BY <1>0, <3>1, <3>3 DEF ProgOK, MadeInv, Range
    <3>5. Tracker'
      BY <1>0, <3>1 DEF Tracker, Name
    <3>6. CurInv'
      BY <3>1 DEF CurInv, Idle
    <3>. QED
      BY <3>4, <3>5, <3>6 DEF IndInv
  <2>. QED
    BY <2>1, <2>2, <2>3
<1>14. CASE DeserializeForeign
  <2>1. /\ UNCHANGED <<P, functions, byName, made, buffers>> /\ cur' = Foreign
    BY <1>14 DEF DeserializeForeign
  <2>2. CurInv'
    BY <2>1 DEF CurInv, Foreign
  <2>. QED
    BY <1>1, <2>1, <2>2
<1>15. CASE UNCHANGED vars
  <2>1. /\ UNCHANGED <<P, functions, byName, made, buffers>> /\ cur' = cur
    BY <1>15 DEF vars
  <2>2. PICK c : c = cur
    OBVIOUS
  <2>3. c \in {Idle, Foreign} \/ (c \in CurRecords(P) /\ CurOK(c))
    BY <1>0, <2>2 DEF CurInv
  <2>4. CurInv'
    BY <2>1, <2>2, <2>3, CurBecomes
  <2>. QED
    BY <1>1, <2>1, <2>4
<1>. QED
  BY <1>2, <1>3, <1>4, <1>5, <1>6, <1>7, <1>8, <1>9, <1>10, <1>11, <1>12, <1>13, <1>14, <1>15 DEF Next

\* The invariant always holds.
THEOREM Inductive == Spec => []IndInv
<1>1. Init => IndInv
  BY InitInd
<1>2. IndInv /\ [Next]_vars => IndInv'
  BY NextInd
<1>. QED
  BY <1>1, <1>2, PTL DEF Spec

---------------------------------------------------------------------------
(* The theorems.                                                           *)

\* A module of the program is a module in the sense of the specification.
LEMMA ModuleTyped ==
    ASSUME ProgOK, NEW M \in ModulesOf(P)
    PROVE  IsModule(M)
<1>1. Things = ThingsOf(P)
  BY ProgFacts DEF Things, ThingsOf
<1>2. ASSUME NEW i \in DOMAIN M
      PROVE  /\ M[i].of \in ThingsOf(P) /\ M[i].def \in BOOLEAN /\ M[i].ext \in BOOLEAN
             /\ \A r \in M[i].refs : r.want \in ThingsOf(P)
  <2>1. M[i] \in SymbolsOf(P)
    BY SymbolFacts
  <2>2. /\ M[i].of \in ThingsOf(P) /\ M[i].def \in BOOLEAN /\ M[i].ext \in BOOLEAN
        /\ M[i].refs \subseteq RefsOf(P)
    BY <2>1 DEF SymbolsOf
  <2>3. \A r \in RefsOf(P) : r.want \in ThingsOf(P)
    BY DEF RefsOf
  <2>. QED
    BY <2>2, <2>3
<1>3. RefsInside(M) /\ NamesDistinct(M)
  BY ModuleFacts
<1>. QED
  BY <1>1, <1>2, <1>3 DEF IsModule, RefsInside, NamesDistinct

\* Every piece of the state has its type, whatever the program links: no
\* reference of a module dangles and no two of its symbols share a name.
THEOREM TypeCorrect == Spec => []TypeOK
<1>1. IndInv => TypeOK
  <2>. SUFFICES ASSUME IndInv PROVE TypeOK
    OBVIOUS
  <2>0. ProgOK /\ Tracker /\ MadeInv /\ CurInv /\ buffers \subseteq DOMAIN made
    BY DEF IndInv
  <2>1. ASSUME NEW f \in DOMAIN made PROVE IsModule(made[f].mod) /\ made[f].entries # <<>>
    <3>1. PICK F : F = made[f]
      OBVIOUS
    <3>2. F \in MadeRecords(P) /\ MadeOK(F)
      BY <2>0, <3>1 DEF MadeInv, Range
    <3>3. F.mod \in ModulesOf(P)
      BY <3>2 DEF MadeRecords
    <3>4. IsModule(F.mod)
      BY <2>0, <3>3, ModuleTyped
    <3>5. PICK nm : F.entries = <<nm>>
      BY <3>2 DEF MadeOK, EntryIs
    <3>6. F.entries # <<>>
      BY <3>5, HeadOfOne
    <3>. QED
      BY <3>1, <3>4, <3>6
  <2>2. ASSUME cur \notin {Idle, Foreign} PROVE IsModule(cur.mod)
    <3>1. PICK c : c = cur
      OBVIOUS
    <3>2. c \in CurRecords(P)
      BY <2>0, <2>2, <3>1 DEF CurInv
    <3>3. c.mod \in ModulesOf(P)
      BY <3>2 DEF CurRecords
    <3>4. IsModule(c.mod)
      BY <2>0, <3>3, ModuleTyped
    <3>. QED
      BY <3>1, <3>4
  <2>3. /\ functions \subseteq P.jit
        /\ \A nm \in DOMAIN byName : byName[nm] \in functions /\ Name(byName[nm]) = nm
    BY <2>0 DEF Tracker
  <2>4. Len(made) <= P.most
    BY <2>0 DEF MadeInv
  <2>. QED
    BY <2>0, <2>1, <2>2, <2>3, <2>4 DEF TypeOK
<1>. QED
  BY <1>1, Inductive, PTL

\* While the wrapper is built, the function it is for stays in the module
\* with its body, if the request links no other definition of its name.
THEOREM TargetCorrect == Spec => []TargetKept
<1>1. IndInv => TargetKept
  <2>. SUFFICES ASSUME IndInv, cur.pc = "inline", Undisturbed(cur.fun, cur.args)
                PROVE  cur.target \in DOMAIN cur.mod /\ cur.mod[cur.target].def
    BY DEF TargetKept
  <2>1. PICK c : c = cur
    OBVIOUS
  <2>2. CurOK(c)
    BY <2>1, Busy DEF IndInv
  <2>. QED
    BY <2>1, <2>2 DEF CurOK, FunIn
<1>. QED
  BY <1>1, Inductive, PTL

\* A made function is called at its own wrapper, which is the one entry the
\* metadata of its module names.
THEOREM EntryCorrect == Spec => []EntryExact
<1>1. IndInv => EntryExact
  <2>. SUFFICES ASSUME IndInv, NEW f \in DOMAIN made, NEW F, F = made[f],
                       Undisturbed(F.thing.obj, F.args)
                PROVE  /\ F.address # 0 /\ F.mod[F.address].of = F.thing
                       /\ F.entries = <<F.mod[F.address].name>>
    BY DEF EntryExact
  <2>1. F \in MadeRecords(P) /\ MadeOK(F)
    BY DEF IndInv, MadeInv, Range
  <2>2. PICK M \in ModulesOf(P) : M = F.mod
    BY <2>1 DEF MadeRecords
  <2>3. PICK nm \in Names :
          \E w \in DOMAIN M : F.entries = <<nm>> /\ M[w].name = nm /\ M[w].def /\ M[w].ext /\ M[w].of = F.thing
    BY <2>1, <2>2 DEF MadeOK, EntryIs
  <2>4. PICK w \in DOMAIN M : F.entries = <<nm>> /\ M[w].name = nm /\ M[w].def /\ M[w].ext /\ M[w].of = F.thing
    BY <2>3
  <2>5. F.entries = <<Name(F.thing.obj)>> /\ F.address = GetFunctionAddress(M, Name(F.thing.obj))
    BY <2>1, <2>2 DEF MadeOK
  <2>6. nm = Name(F.thing.obj)
    BY <2>4, <2>5
  <2>7. GetFunctionAddress(M, nm) = w
    BY <2>4, AddressFacts
  <2>8. w # 0
    BY SymbolFacts
  <2>9. F.address = w
    BY <2>5, <2>6, <2>7
  <2>. QED
    BY <2>2, <2>4, <2>8, <2>9
<1>. QED
  BY <1>1, Inductive, PTL

\* A program loses its meaning only by a dump that fails, by a request that
\* links the function it specialises again, or by foreign bytes.
THEOREM MeaningCorrect == Spec => []MeaningKept
<1>1. IndInv => MeaningKept
  <2>. SUFFICES ASSUME IndInv, cur.pc = "undefined", cur # Foreign
                PROVE  cur.dump \/ ~Undisturbed(cur.fun, cur.args)
    BY DEF MeaningKept
  <2>1. PICK c : c = cur
    OBVIOUS
  <2>2. c # Idle
    BY <2>1 DEF Idle
  <2>3. CurOK(c)
    BY <2>1, <2>2 DEF IndInv, CurInv
  <2>. QED
    BY <2>1, <2>3 DEF CurOK
<1>. QED
  BY <1>1, Inductive, PTL

\* deserialize gives back the function that was serialized, if the tracker
\* leads from the name of its entry to the function it was made from.
THEOREM RoundTripCorrect == Spec => []RoundTrip
<1>1. IndInv => RoundTrip
  <2>. SUFFICES ASSUME IndInv, NEW f \in DOMAIN made, made[f].from # 0,
                       NEW o, o = made[f].thing.obj, NEW g, g = made[f].from,
                       byName[Name(o)] = o, Undisturbed(o, made[f].args)
                PROVE  /\ made[f].address = made[g].address
                       /\ \A i \in DOMAIN made[f].mod : Means(f, i) = Means(g, i)
    BY DEF RoundTrip
  <2>1. PICK F, G : F = made[f] /\ G = made[g]
    OBVIOUS
  <2>2. MadeOK(F)
    BY <2>1 DEF IndInv, MadeInv, Range
  <2>3. g \in DOMAIN made /\ G.mod = F.mod /\ G.thing.obj = o /\ G.args = F.args
    BY <2>1, <2>2 DEF MadeOK
  <2>4. MadeOK(G)
    BY <2>1, <2>3 DEF IndInv, MadeInv, Range
  <2>5. F.address = GetFunctionAddress(F.mod, Name(o)) /\ F.globals = P.unit[o]
    BY <2>1, <2>2 DEF MadeOK
  <2>6. G.address = GetFunctionAddress(F.mod, Name(o)) /\ G.globals = P.unit[o]
    BY <2>1, <2>3, <2>4 DEF MadeOK
  <2>7. ASSUME NEW i PROVE Means(f, i) = Means(g, i)
    <3>1. made[f].mod = made[g].mod /\ made[f].globals = made[g].globals
      BY <2>1, <2>3, <2>5, <2>6
    <3>. QED
      BY <3>1 DEF Means
  <2>. QED
    BY <2>1, <2>5, <2>6, <2>7
<1>. QED
  BY <1>1, Inductive, PTL
===========================================================================
