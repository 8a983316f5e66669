-------------------------- MODULE ComposedProofs --------------------------
(***************************************************************************)
(* Proofs about functions composed of others, for every set of programs:   *)
(* the wrappers in a module, what they call, and the placeholders.  They   *)
(* use the invariants of LinkingProofs and BindingProofs.                  *)
(***************************************************************************)
EXTENDS BindingProofs

---------------------------------------------------------------------------
(* Wrappers: what linking makes of a module with the wrappers of composed  *)
(* functions.                                                              *)

\* The reference of wrapper w to the function it calls.
CalleeIs(M, w, r) == r \in M[w].refs /\ r.arg = 0 /\ \A q \in M[w].refs : q.arg = 0 => q = r

\* The wrappers of M are among things, have a body and call a private
\* function, and they are private themselves unless they have a name in
\* outer.
Wraps(M, things, outer) ==
    \A w \in Wrappers(M) :
        /\ M[w].of \in things /\ M[w].def /\ (M[w].ext => M[w].name \in outer)
        /\ \E r \in M[w].refs : CalleeIs(M, w, r) /\ ~M[r.at].ext

AllIn(M, things) == \A w \in Wrappers(M) : M[w].of \in things

\* What has no body is external: it can be found when the code is loaded.
Declared(M) == \A i \in DOMAIN M : M[i].def \/ M[i].ext

\* The functions that wrappers call.
Called(M) == {i \in DOMAIN M : \E w \in Wrappers(M) : \E r \in M[w].refs : CalleeIs(M, w, r) /\ r.at = i}

\* The bytes of the n-th request, b for a request in progress.
BytesOf(n, b) == IF n \in DOMAIN made THEN made[n].bytes ELSE b

\* Functions that wrappers call have the bytes of the request.
Filled(M, b) ==
    \A w \in Wrappers(M) : M[w].of.obj \in P.stub =>
        \A r \in M[w].refs : CalleeIs(M, w, r) => M[r.at].asm = BytesOf(M[w].of.n, b)

\* Others have their placeholder, apart from e.
Untouched(M, e) ==
    \A i \in DOMAIN M \ Called(M) :
        i # e /\ M[i].of.n = 0 /\ M[i].of.obj \in P.stub => M[i].asm = "nop"

\* A wrapper of M that is private stays, and so does the private function
\* it calls.
LEMMA KeptCallee ==
    ASSUME NEW p, NEW M \in ModulesOf(p), NEW S \in ModulesOf(p), NEW L, L = LinkModules(M, S),
           NEW t, NEW N, N = SetPrivate(L, t), NEW w \in DOMAIN M, ~M[w].ext,
           NEW r, CalleeIs(M, w, r), ~M[r.at].ext
    PROVE  /\ w \in DOMAIN N /\ N[w].of = M[w].of /\ (N[w].def <=> M[w].def) /\ ~N[w].ext
           /\ \E q \in N[w].refs : CalleeIs(N, w, q) /\ q.at = r.at /\ ~N[q.at].ext /\ N[q.at].asm = M[r.at].asm
<1>1. L \in ModulesOf(p)
  BY LinkIsModule
<1>2. r.at \in DOMAIN M /\ r \in M[w].refs /\ r.arg = 0
  BY SymbolFacts DEF CalleeIs
<1>3. w \in DOMAIN M \ ErasedOf(M, S) /\ r.at \in DOMAIN M \ ErasedOf(M, S)
  BY <1>2, PrivateStays
<1>4. /\ w \in DOMAIN L /\ L[w].of = M[w].of /\ (L[w].def <=> M[w].def) /\ (L[w].ext <=> M[w].ext)
      /\ L[w].refs = {[want |-> q.want, arg |-> q.arg, at |-> AfterOf(M, S, q.at)] : q \in M[w].refs}
  BY <1>3, LinkStays
<1>5. r.at \in DOMAIN L /\ L[r.at].asm = M[r.at].asm /\ (L[r.at].ext <=> M[r.at].ext)
  BY <1>3, LinkStays
<1>6. /\ DOMAIN N = DOMAIN L
      /\ \A j \in DOMAIN L :
           /\ N[j].of = L[j].of /\ (N[j].def <=> L[j].def)
           /\ N[j].asm = L[j].asm /\ N[j].refs = L[j].refs
           /\ N[j].ext => L[j].ext
  BY <1>1, PrivateFacts
<1>7. AfterOf(M, S, r.at) = r.at
  BY <1>3, LinkedTargets
<1>8. PICK q : q = [want |-> r.want, arg |-> r.arg, at |-> r.at]
  OBVIOUS
<1>9. q.at = r.at /\ q.arg = 0
  BY <1>2, <1>8
<1>10. q \in L[w].refs
  BY <1>2, <1>4, <1>7, <1>8
<1>11. ASSUME NEW y \in L[w].refs, y.arg = 0 PROVE y = q
  <2>1. PICK z \in M[w].refs : y = [want |-> z.want, arg |-> z.arg, at |-> AfterOf(M, S, z.at)]
    BY <1>4, <1>11
  <2>2. z.arg = 0
    BY <1>11, <2>1
  <2>3. z = r
    BY <2>2 DEF CalleeIs
  <2>. QED
    BY <1>7, <1>8, <2>1, <2>3
<1>12. CalleeIs(N, w, q)
  BY <1>4, <1>6, <1>9, <1>10, <1>11 DEF CalleeIs
<1>. QED
  BY <1>4, <1>5, <1>6, <1>9, <1>10, <1>12

\* A wrapper of S comes in, with the private function it calls.
LEMMA BroughtCallee ==
    ASSUME NEW p, NEW M \in ModulesOf(p), NEW S \in ModulesOf(p), NEW L, L = LinkModules(M, S),
           NEW t, NEW N, N = SetPrivate(L, t), NEW w \in DOMAIN S, S[w].def,
           NEW r, CalleeIs(S, w, r), ~S[r.at].ext, NEW j, j = Top(M) + w
    PROVE  /\ j \in DOMAIN N /\ N[j].of = S[w].of /\ N[j].def /\ (N[j].ext => S[w].ext /\ j # t)
           /\ r.at \in DOMAIN S
           /\ \E q \in N[j].refs : CalleeIs(N, j, q) /\ q.at = Top(M) + r.at /\ ~N[q.at].ext /\ N[q.at].asm = S[r.at].asm
<1>1. L \in ModulesOf(p)
  BY LinkIsModule
<1>2. r.at \in DOMAIN S /\ r \in S[w].refs /\ r.arg = 0
  BY SymbolFacts DEF CalleeIs
<1>3. w \in MovedOf(M, S) /\ r.at \in MovedOf(M, S)
  BY <1>2 DEF MovedOf, MergedOf, PeerOf
<1>4. /\ j \in DOMAIN L /\ L[j].of = S[w].of /\ (L[j].def <=> S[w].def) /\ (L[j].ext <=> S[w].ext)
      /\ L[j].refs = {[want |-> q.want, arg |-> q.arg, at |-> IntoOf(M, S, q.at)] : q \in S[w].refs}
  BY <1>3, LinkMoves
<1>5. PICK c : c = Top(M) + r.at
  OBVIOUS
<1>6. c \in DOMAIN L /\ L[c].asm = S[r.at].asm /\ (L[c].ext <=> S[r.at].ext)
  BY <1>3, <1>5, LinkMoves
<1>7. /\ DOMAIN N = DOMAIN L
      /\ \A i \in DOMAIN L :
           /\ N[i].of = L[i].of /\ (N[i].def <=> L[i].def)
           /\ N[i].asm = L[i].asm /\ N[i].refs = L[i].refs
           /\ N[i].ext => L[i].ext /\ i # t
  BY <1>1, PrivateFacts
<1>8. IntoOf(M, S, r.at) = c
  BY <1>3, <1>5, LinkedTargets
<1>9. PICK q : q = [want |-> r.want, arg |-> r.arg, at |-> c]
  OBVIOUS
<1>10. q.at = c /\ q.arg = 0
  BY <1>2, <1>9
<1>11. q \in L[j].refs
  BY <1>2, <1>4, <1>8, <1>9
<1>12. ASSUME NEW y \in L[j].refs, y.arg = 0 PROVE y = q
  <2>1. PICK z \in S[w].refs : y = [want |-> z.want, arg |-> z.arg, at |-> IntoOf(M, S, z.at)]
    BY <1>4, <1>12
  <2>2. z.arg = 0
    BY <1>12, <2>1
  <2>3. z = r
    BY <2>2 DEF CalleeIs
  <2>. QED
    BY <1>8, <1>9, <2>1, <2>3
<1>13. CalleeIs(N, j, q)
  BY <1>4, <1>7, <1>10, <1>11, <1>12 DEF CalleeIs
<1>14. j \in DOMAIN N /\ N[j].of = S[w].of /\ N[j].def /\ (N[j].ext => S[w].ext /\ j # t)
  BY <1>4, <1>7
<1>15. ~N[q.at].ext /\ N[q.at].asm = S[r.at].asm /\ q \in N[j].refs
  BY <1>4, <1>6, <1>7, <1>10, <1>11
<1>. QED
  BY <1>2, <1>5, <1>10, <1>13, <1>14, <1>15

\* A symbol of N comes from M or from S.
LEMMA PrivateSymbol ==
    ASSUME NEW p, NEW M \in ModulesOf(p), NEW S \in ModulesOf(p), NEW L, L = LinkModules(M, S),
           NEW t, NEW N, N = SetPrivate(L, t), NEW j \in DOMAIN N
    PROVE  \/ j \in DOMAIN M /\ N[j].of = M[j].of /\ (N[j].def <=> M[j].def) /\ N[j].asm = M[j].asm
                /\ (N[j].ext <=> M[j].ext /\ j # t)
           \/ \E s \in DOMAIN S : j = Top(M) + s /\ N[j].of = S[s].of /\ (N[j].def <=> S[s].def)
                /\ N[j].asm = S[s].asm /\ (N[j].ext <=> S[s].ext /\ j # t)
<1>1. L \in ModulesOf(p)
  BY LinkIsModule
<1>2. /\ j \in DOMAIN L /\ N[j].of = L[j].of /\ (N[j].def <=> L[j].def) /\ N[j].asm = L[j].asm
      /\ N[j].ext <=> L[j].ext /\ j # t
  BY <1>1, PrivateFacts
<1>3. \/ j \in DOMAIN M /\ Like(L[j], M[j])
      \/ \E s \in DOMAIN S : j = Top(M) + s /\ Like(L[j], S[s])
  BY <1>2, LinkedSymbol DEF MovedOf
<1>. QED
  BY <1>2, <1>3 DEF Like

\* Two modules linked: what is linked becomes private.
LinksIn(p, M, S, s, N) ==
    /\ M \in ModulesOf(p) /\ S \in ModulesOf(p) /\ s \in DOMAIN S /\ S[s].def
    /\ N = SetPrivate(LinkModules(M, S), Top(M) + s)

\* Wrapper x of M is wrapper w of N, and what it calls is off further on.
SameWrapper(M, x, off, N, w) ==
    /\ w \in Wrappers(N) /\ N[w].of = M[x].of /\ N[w].def /\ ~N[w].ext
    /\ \E r \in M[x].refs : \E q \in N[w].refs :
         /\ CalleeIs(M, x, r) /\ CalleeIs(N, w, q) /\ r.at \in DOMAIN M /\ q.at = off + r.at
         /\ ~N[q.at].ext /\ N[q.at].asm = M[r.at].asm

\* A wrapper of M that stays is the one it was, and its callee too.
LEMMA KeptWrapper ==
    ASSUME NEW p, NEW M, NEW S, NEW s, NEW N, LinksIn(p, M, S, s, N), NEW things, Wraps(M, things, {}),
           NEW w \in Wrappers(M)
    PROVE  SameWrapper(M, w, 0, N, w) /\ M[w].of \in things
<1>0. PICK L, t : L = LinkModules(M, S) /\ t = Top(M) + s
  OBVIOUS
<1>. M \in ModulesOf(p) /\ S \in ModulesOf(p) /\ N = SetPrivate(L, t)
  BY <1>0 DEF LinksIn
<1>1. w \in DOMAIN M /\ M[w].of.n # 0 /\ M[w].of \in things /\ M[w].def /\ ~M[w].ext
  BY DEF Wraps, Wrappers
<1>2. PICK r \in M[w].refs : CalleeIs(M, w, r) /\ ~M[r.at].ext
  BY DEF Wraps
<1>3. /\ w \in DOMAIN N /\ N[w].of = M[w].of /\ (N[w].def <=> M[w].def) /\ ~N[w].ext
      /\ \E q \in N[w].refs : CalleeIs(N, w, q) /\ q.at = r.at /\ ~N[q.at].ext /\ N[q.at].asm = M[r.at].asm
  BY <1>0, <1>1, <1>2, KeptCallee
<1>4. w \in Wrappers(N)
  BY <1>1, <1>3 DEF Wrappers
<1>5. r.at \in DOMAIN M
  BY <1>1, SymbolFacts
<1>6. r.at \in Nat
  BY <1>5, SymbolFacts
<1>7. 0 + r.at = r.at
  BY <1>6
<1>. QED
  BY <1>1, <1>2, <1>3, <1>4, <1>5, <1>7 DEF SameWrapper

\* A wrapper of S is brought along with its callee.
LEMMA BroughtWrapper ==
    ASSUME NEW p, NEW M, NEW S, NEW s, NEW N, LinksIn(p, M, S, s, N), NEW things, Wraps(S, things, {S[s].name}),
           NEW x \in Wrappers(S), NEW w, w = Top(M) + x
    PROVE  SameWrapper(S, x, Top(M), N, w) /\ S[x].of \in things
<1>0. PICK L, t : L = LinkModules(M, S) /\ t = Top(M) + s
  OBVIOUS
<1>. M \in ModulesOf(p) /\ S \in ModulesOf(p) /\ s \in DOMAIN S /\ N = SetPrivate(L, t)
  BY <1>0 DEF LinksIn
<1>1. x \in DOMAIN S /\ S[x].of.n # 0 /\ S[x].of \in things /\ S[x].def /\ (S[x].ext => S[x].name = S[s].name)
  BY DEF Wraps, Wrappers
<1>2. PICK r \in S[x].refs : CalleeIs(S, x, r) /\ ~S[r.at].ext
  BY DEF Wraps
<1>3. /\ w \in DOMAIN N /\ N[w].of = S[x].of /\ N[w].def /\ (N[w].ext => S[x].ext /\ w # t)
      /\ r.at \in DOMAIN S
      /\ \E q \in N[w].refs : CalleeIs(N, w, q) /\ q.at = Top(M) + r.at /\ ~N[q.at].ext /\ N[q.at].asm = S[r.at].asm
  BY <1>0, <1>1, <1>2, BroughtCallee
<1>4. ~N[w].ext
  <2>. SUFFICES ASSUME N[w].ext PROVE FALSE
    OBVIOUS
  <2>1. S[x].name = S[s].name /\ w # t
    BY <1>1, <1>3
  <2>2. NamesDistinct(S)
    BY ModuleFacts
  <2>3. x = s
    BY <1>1, <2>1, <2>2 DEF NamesDistinct
  <2>. QED
    BY <1>0, <2>1, <2>3
<1>5. w \in Wrappers(N)
  BY <1>1, <1>3 DEF Wrappers
<1>. QED
  BY <1>1, <1>2, <1>3, <1>4, <1>5 DEF SameWrapper

\* The wrappers of N are those of M and those of S.
LEMMA LinkedWrapper ==
    ASSUME NEW p, NEW M, NEW S, NEW s, NEW N, LinksIn(p, M, S, s, N), NEW w \in Wrappers(N)
    PROVE  w \in Wrappers(M) \/ \E x \in Wrappers(S) : w = Top(M) + x
<1>0. PICK L, t : L = LinkModules(M, S) /\ t = Top(M) + s
  OBVIOUS
<1>. M \in ModulesOf(p) /\ S \in ModulesOf(p) /\ N = SetPrivate(L, t)
  BY <1>0 DEF LinksIn
<1>1. w \in DOMAIN N /\ N[w].of.n # 0
  BY DEF Wrappers
<1>2. \/ w \in DOMAIN M /\ N[w].of = M[w].of
      \/ \E x \in DOMAIN S : w = Top(M) + x /\ N[w].of = S[x].of
  BY <1>0, <1>1, PrivateSymbol
<1>. QED
  BY <1>1, <1>2 DEF Wrappers

\* Wrappers stay wrappers, and all of N's are good if and only if all of
\* both modules are.
LEMMA LinkWraps ==
    ASSUME NEW p, NEW M, NEW S, NEW s, NEW N, LinksIn(p, M, S, s, N),
           NEW things, Wraps(M, things, {}), Wraps(S, things, {S[s].name})
    PROVE  /\ Wraps(N, things, {})
           /\ \A G : AllIn(N, G) => AllIn(M, G) /\ AllIn(S, G)
<1>1. ASSUME NEW w \in Wrappers(N)
      PROVE  /\ N[w].of \in things /\ N[w].def /\ ~N[w].ext
             /\ \E q \in N[w].refs : CalleeIs(N, w, q) /\ ~N[q.at].ext
  <2>1. CASE w \in Wrappers(M)
    <3>1. SameWrapper(M, w, 0, N, w) /\ M[w].of \in things
      BY <2>1, KeptWrapper
    <3>. QED
      BY <3>1 DEF SameWrapper
  <2>2. CASE \E x \in Wrappers(S) : w = Top(M) + x
    <3>1. PICK x \in Wrappers(S) : w = Top(M) + x
      BY <2>2
    <3>2. SameWrapper(S, x, Top(M), N, w) /\ S[x].of \in things
      BY <3>1, BroughtWrapper
    <3>. QED
      BY <3>2 DEF SameWrapper
  <2>. QED
    BY <1>1, <2>1, <2>2, LinkedWrapper
<1>2. Wraps(N, things, {})
  BY <1>1 DEF Wraps
<1>3. ASSUME NEW G, AllIn(N, G) PROVE AllIn(M, G) /\ AllIn(S, G)
  <2>1. ASSUME NEW w \in Wrappers(M) PROVE M[w].of \in G
    <3>1. SameWrapper(M, w, 0, N, w)
      BY <2>1, KeptWrapper
    <3>. QED
      BY <1>3, <3>1 DEF AllIn, SameWrapper
  <2>2. ASSUME NEW x \in Wrappers(S) PROVE S[x].of \in G
    <3>1. PICK w : w = Top(M) + x
      OBVIOUS
    <3>2. SameWrapper(S, x, Top(M), N, w)
      BY <2>2, <3>1, BroughtWrapper
    <3>. QED
      BY <1>3, <3>2 DEF AllIn, SameWrapper
  <2>. QED
    BY <2>1, <2>2 DEF AllIn
<1>. QED
  BY <1>2, <1>3

\* Linking leaves no declaration that cannot be found.
LEMMA LinkDeclared ==
    ASSUME NEW p, NEW M, NEW S, NEW s, NEW N, LinksIn(p, M, S, s, N), Declared(M), Declared(S)
    PROVE  Declared(N)
<1>1. PICK L : L = LinkModules(M, S)
  OBVIOUS
<1>2. PICK t : t = Top(M) + s
  OBVIOUS
<1>3. /\ M \in ModulesOf(p) /\ S \in ModulesOf(p) /\ s \in DOMAIN S /\ S[s].def
      /\ N = SetPrivate(L, t)
  BY <1>1, <1>2 DEF LinksIn
<1>. SUFFICES ASSUME NEW j \in DOMAIN N, ~N[j].def PROVE N[j].ext
  BY DEF Declared
<1>4. CASE j \in DOMAIN M /\ (N[j].def <=> M[j].def) /\ (N[j].ext <=> M[j].ext /\ j # t)
  <2>1. j <= Top(M) /\ Top(M) \in Nat /\ j \in Nat /\ s \in Nat /\ s # 0
    BY <1>3, <1>4, TopFacts, SymbolFacts
  <2>2. j # t
    BY <1>2, <2>1
  <2>. QED
    BY <1>4, <2>2 DEF Declared
<1>5. CASE \E x \in DOMAIN S : j = Top(M) + x /\ (N[j].def <=> S[x].def) /\ (N[j].ext <=> S[x].ext /\ j # t)
  <2>1. PICK x \in DOMAIN S : j = Top(M) + x /\ (N[j].def <=> S[x].def) /\ (N[j].ext <=> S[x].ext /\ j # t)
    BY <1>5
  <2>2. x # s /\ S[x].ext
    BY <1>3, <2>1 DEF Declared
  <2>3. Top(M) \in Nat /\ x \in Nat /\ s \in Nat
    BY <1>3, TopFacts, SymbolFacts
  <2>4. j # t
    BY <1>2, <2>1, <2>2, <2>3
  <2>. QED
    BY <2>1, <2>2, <2>4
<1>. QED
  BY <1>1, <1>3, <1>4, <1>5, PrivateSymbol

\* A wrapper that is the same calls the same.
LEMMA SameCallee ==
    ASSUME NEW M, NEW x, NEW off, NEW N, NEW w, SameWrapper(M, x, off, N, w)
    PROVE  /\ \A y : CalleeIs(N, w, y) => \E r \in M[x].refs : CalleeIs(M, x, r) /\ N[y.at].asm = M[r.at].asm
           /\ \A r : CalleeIs(M, x, r) => r.at \in DOMAIN M /\ \E y \in N[w].refs : CalleeIs(N, w, y) /\ y.at = off + r.at
<1>1. PICK r \in M[x].refs : \E q \in N[w].refs :
         CalleeIs(M, x, r) /\ CalleeIs(N, w, q) /\ r.at \in DOMAIN M /\ q.at = off + r.at /\ N[q.at].asm = M[r.at].asm
  BY DEF SameWrapper
<1>2. PICK q \in N[w].refs :
         CalleeIs(M, x, r) /\ CalleeIs(N, w, q) /\ r.at \in DOMAIN M /\ q.at = off + r.at /\ N[q.at].asm = M[r.at].asm
  BY <1>1
<1>3. \A y : CalleeIs(N, w, y) => y = q
  BY <1>2 DEF CalleeIs
<1>4. \A y : CalleeIs(M, x, y) => y = r
  BY <1>2 DEF CalleeIs
<1>. QED
  BY <1>2, <1>3, <1>4

\* Functions that wrappers call keep their bytes.
LEMMA LinkFilled ==
    ASSUME NEW p, NEW M, NEW S, NEW s, NEW N, LinksIn(p, M, S, s, N),
           NEW things, Wraps(M, things, {}), Wraps(S, things, {S[s].name}),
           NEW b, Filled(M, b), Filled(S, b)
    PROVE  Filled(N, b)
<1>. SUFFICES ASSUME NEW w \in Wrappers(N), N[w].of.obj \in P.stub, NEW y \in N[w].refs, CalleeIs(N, w, y)
              PROVE  N[y.at].asm = BytesOf(N[w].of.n, b)
  BY DEF Filled
<1>1. CASE w \in Wrappers(M)
  <2>1. SameWrapper(M, w, 0, N, w)
    BY <1>1, KeptWrapper
  <2>2. PICK r \in M[w].refs : CalleeIs(M, w, r) /\ N[y.at].asm = M[r.at].asm
    BY <2>1, SameCallee
  <2>3. N[w].of = M[w].of
    BY <2>1 DEF SameWrapper
  <2>. QED
    BY <1>1, <2>2, <2>3 DEF Filled
<1>2. CASE \E x \in Wrappers(S) : w = Top(M) + x
  <2>1. PICK x \in Wrappers(S) : w = Top(M) + x
    BY <1>2
  <2>2. SameWrapper(S, x, Top(M), N, w)
    BY <2>1, BroughtWrapper
  <2>3. PICK r \in S[x].refs : CalleeIs(S, x, r) /\ N[y.at].asm = S[r.at].asm
    BY <2>2, SameCallee
  <2>4. N[w].of = S[x].of
    BY <2>2 DEF SameWrapper
  <2>. QED
    BY <2>3, <2>4 DEF Filled
<1>. QED
  BY <1>1, <1>2, LinkedWrapper

\* What wrappers do not call keeps its placeholder.
LEMMA LinkUntouched ==
    ASSUME NEW p, NEW M, NEW S, NEW s, NEW N, LinksIn(p, M, S, s, N),
           NEW things, Wraps(M, things, {}), Wraps(S, things, {S[s].name}),
           NEW e, Untouched(M, e), Untouched(S, 0)
    PROVE  Untouched(N, e)
<1>0. PICK L, t : L = LinkModules(M, S) /\ t = Top(M) + s
  OBVIOUS
<1>. M \in ModulesOf(p) /\ S \in ModulesOf(p) /\ N = SetPrivate(L, t)
  BY <1>0 DEF LinksIn
<1>. SUFFICES ASSUME NEW j \in DOMAIN N, j \notin Called(N), j # e, N[j].of.n = 0, N[j].of.obj \in P.stub
              PROVE  N[j].asm = "nop"
  BY DEF Untouched
<1>1. CASE j \in DOMAIN M /\ N[j].of = M[j].of /\ N[j].asm = M[j].asm
  <2>1. ASSUME NEW w \in Wrappers(M), NEW y \in M[w].refs, CalleeIs(M, w, y), y.at = j PROVE FALSE
    <3>1. SameWrapper(M, w, 0, N, w)
      BY KeptWrapper
    <3>2. PICK q \in N[w].refs : CalleeIs(N, w, q) /\ q.at = 0 + j
      BY <2>1, <3>1, SameCallee
    <3>3. j \in Nat
      BY <1>1, SymbolFacts
    <3>4. q.at = j
      BY <3>2, <3>3
    <3>. QED
      BY <3>1, <3>2, <3>4 DEF Called, SameWrapper
  <2>2. j \notin Called(M)
    BY <2>1 DEF Called
  <2>3. M[j].asm = "nop"
    BY <1>1, <2>2 DEF Untouched
  <2>. QED
    BY <1>1, <2>3
<1>2. CASE \E x \in DOMAIN S : j = Top(M) + x /\ N[j].of = S[x].of /\ N[j].asm = S[x].asm
  <2>0. PICK z \in DOMAIN S : j = Top(M) + z /\ N[j].of = S[z].of /\ N[j].asm = S[z].asm
    BY <1>2
  <2>1. ASSUME NEW x \in Wrappers(S), NEW y \in S[x].refs, CalleeIs(S, x, y), y.at = z PROVE FALSE
    <3>0. PICK w : w = Top(M) + x
      OBVIOUS
    <3>1. SameWrapper(S, x, Top(M), N, w)
      BY <3>0, BroughtWrapper
    <3>2. PICK q \in N[w].refs : CalleeIs(N, w, q) /\ q.at = j
      BY <2>0, <2>1, <3>1, SameCallee
    <3>. QED
      BY <3>1, <3>2 DEF Called, SameWrapper
  <2>2. z \notin Called(S)
    BY <2>1 DEF Called
  <2>3. z \in Nat /\ z # 0
    BY SymbolFacts
  <2>4. S[z].asm = "nop"
    BY <2>0, <2>2, <2>3 DEF Untouched
  <2>. QED
    BY <2>0, <2>4
<1>3. \/ j \in DOMAIN M /\ N[j].of = M[j].of /\ N[j].asm = M[j].asm
      \/ \E x \in DOMAIN S : j = Top(M) + x /\ N[j].of = S[x].of /\ N[j].asm = S[x].asm
  BY <1>0, PrivateSymbol
<1>. QED
  BY <1>1, <1>2, <1>3

---------------------------------------------------------------------------
(* The requests whose wrappers a module may have.                          *)

MadeThings == {th \in ThingsOf(P) : th.n \in DOMAIN made /\ made[th.n].thing = th}

\* Those that linked their function once.
Calm == {th \in MadeThings : Undisturbed(th.obj, made[th.n].args)}

\* Those of which a call of itself gets the function's own module.
Own == {th \in MadeThings : OwnModule(th.obj)}

\* A module composed of requests made: what it does not define can be found
\* if they linked their functions once, and if they called themselves only
\* in their own modules, the bytes of each are where they belong.
Tidy(M, outer, e, b) ==
    /\ Wraps(M, MadeThings, outer)
    /\ AllIn(M, Calm) => Declared(M)
    /\ AllIn(M, Calm \cap Own) => Filled(M, b) /\ Untouched(M, e)

\* A module without wrappers.
LEMMA PlainTidy ==
    ASSUME NEW M, Wrappers(M) = {}, Declared(M), NEW e, Untouched(M, e), NEW outer, NEW b
    PROVE  Tidy(M, outer, e, b) /\ \A things : Wraps(M, things, outer)
BY DEF Tidy, Wraps, Filled

\* Once the requests are made, their bytes are known.
LEMMA TidyAny ==
    ASSUME NEW M, NEW outer, NEW e, NEW a, Tidy(M, outer, e, a), NEW b
    PROVE  Tidy(M, outer, e, b)
<1>1. ASSUME NEW w \in Wrappers(M) PROVE BytesOf(M[w].of.n, a) = BytesOf(M[w].of.n, b)
  <2>1. M[w].of \in MadeThings
    BY DEF Tidy, Wraps
  <2>. QED
    BY <2>1 DEF MadeThings, BytesOf
<1>2. Filled(M, a) => Filled(M, b)
  BY <1>1 DEF Filled
<1>. QED
  BY <1>2 DEF Tidy

\* Linking keeps a module tidy.
LEMMA LinkTidy ==
    ASSUME NEW M, NEW S, NEW s, NEW N, LinksIn(P, M, S, s, N), NEW e, NEW b, NEW a,
           Tidy(M, {}, e, b), Tidy(S, {S[s].name}, 0, a)
    PROVE  Tidy(N, {}, e, b)
<1>1. Tidy(S, {S[s].name}, 0, b)
  BY TidyAny
<1>2. Wraps(M, MadeThings, {}) /\ Wraps(S, MadeThings, {S[s].name})
  BY <1>1 DEF Tidy
<1>3. /\ Wraps(N, MadeThings, {})
      /\ \A G : AllIn(N, G) => AllIn(M, G) /\ AllIn(S, G)
  BY <1>2, LinkWraps
<1>4. ASSUME AllIn(N, Calm) PROVE Declared(N)
  <2>1. AllIn(M, Calm) /\ AllIn(S, Calm)
    BY <1>3, <1>4
  <2>2. Declared(M) /\ Declared(S)
    BY <1>1, <2>1 DEF Tidy
  <2>. QED
    BY <2>2, LinkDeclared
<1>5. ASSUME AllIn(N, Calm \cap Own) PROVE Filled(N, b) /\ Untouched(N, e)
  <2>0. PICK G : G = Calm \cap Own
    OBVIOUS
  <2>1. AllIn(M, G) /\ AllIn(S, G)
    BY <1>3, <1>5, <2>0
  <2>2. Filled(M, b) /\ Untouched(M, e)
    BY <2>0, <2>1 DEF Tidy
  <2>3. Filled(S, b) /\ Untouched(S, 0)
    BY <1>1, <2>0, <2>1 DEF Tidy
  <2>4. Filled(N, b)
    BY <1>2, <2>2, <2>3, LinkFilled
  <2>5. Untouched(N, e)
    BY <1>2, <2>2, <2>3, LinkUntouched
  <2>. QED
    BY <2>4, <2>5
<1>. QED
  BY <1>3, <1>4, <1>5 DEF Tidy

\* What the plugin leaves has no wrappers, and only placeholders.
LEMMA EmbeddedTidy ==
    ASSUME NEW o, NEW E, E = Embedded(o)
    PROVE  Wrappers(E) = {} /\ Declared(E) /\ Untouched(E, 0)
<1>1. ASSUME NEW q \in DOMAIN E
      PROVE  E[q].of.n = 0 /\ E[q].of.obj = q /\ (E[q].def \/ E[q].ext) /\ (q \in P.stub => E[q].asm = "nop")
  <2>1. E[q].of = Code(q)
    BY EmbeddedSymbol
  <2>2. E[q].of.n = 0 /\ E[q].of.obj = q
    BY <2>1 DEF Code, Thing
  <2>3. E[q].def \/ E[q].ext
    BY EmbeddedSymbol
  <2>4. q \in P.stub => E[q].asm = "nop"
    BY EmbeddedSymbol
  <2>. QED
    BY <2>2, <2>3, <2>4
<1>2. Wrappers(E) = {}
  BY <1>1 DEF Wrappers
<1>3. Declared(E)
  BY <1>1 DEF Declared
<1>4. Untouched(E, 0)
  BY <1>1 DEF Untouched
<1>. QED
  BY <1>2, <1>3, <1>4

\* An object linked into a module.
LEMMA ObjectLinked ==
    ASSUME ProgOK, NEW M \in ModulesOf(P), NEW o \in Objs(P), NEW E, E = Embedded(o),
           NEW N, N = LinkObject(M, o)
    PROVE  LinksIn(P, M, E, o, N)
<1>1. PICK t : t = Top(M) + o
  OBVIOUS
<1>2. E \in ModulesOf(P) /\ o \in DOMAIN E /\ E[o].def /\ N = SetPrivate(LinkModules(M, E), t)
  BY <1>1, LinkObjectFacts
<1>. QED
  BY <1>1, <1>2 DEF LinksIn

\* Callees are linked into a module without wrappers.
LEMMA ObjectPlain ==
    ASSUME ProgOK, NEW M \in ModulesOf(P), NEW o \in Objs(P), NEW N, N = LinkObject(M, o),
           Wrappers(M) = {}, Declared(M), Untouched(M, 0)
    PROVE  Wrappers(N) = {} /\ Declared(N) /\ Untouched(N, 0)
<1>1. PICK E : E = Embedded(o)
  OBVIOUS
<1>2. LinksIn(P, M, E, o, N)
  BY <1>1, ObjectLinked
<1>3. Wrappers(E) = {} /\ Declared(E) /\ Untouched(E, 0)
  BY <1>1, EmbeddedTidy
<1>4. Wrappers(N) = {}
  BY <1>2, <1>3, LinkedWrapper
<1>5. Declared(N)
  BY <1>2, <1>3, LinkDeclared
<1>6. Wraps(M, {}, {}) /\ Wraps(E, {}, {E[o].name})
  BY <1>3 DEF Wraps
<1>7. Untouched(N, 0)
  BY <1>2, <1>3, <1>6, LinkUntouched
<1>. QED
  BY <1>4, <1>5, <1>7

---------------------------------------------------------------------------
(* A request in progress.                                                  *)

\* What has the name of o is o.
Mine(M, o) == \A i \in DOMAIN M : M[i].name = Name(o) => M[i].of = Code(o)

\* The module while callees are linked.
ResolveTidy(M, o, args) ==
    /\ Wrappers(M) = {} /\ Declared(M) /\ Untouched(M, 0)
    /\ Undisturbed(o, args) /\ OwnModule(o) => Mine(M, o)

\* The module while arguments are linked: t has been filled.
InlineTidy(M, t, refs, o, args, b) ==
    /\ Tidy(M, {}, t, b) /\ \A r \in refs : r.arg # 0
    /\ Undisturbed(o, args) /\ OwnModule(o) => M[t].of = Code(o) /\ (o \in P.stub => M[t].asm = b)

\* The module with the wrapper th.
WrapTidy(M, nm, o, args, b, th) ==
    /\ Wraps(M, MadeThings \cup {th}, {nm})
    /\ Undisturbed(o, args) /\ AllIn(M, Calm \cup {th}) => Declared(M)
    /\ Undisturbed(o, args) /\ OwnModule(o) /\ AllIn(M, (Calm \cap Own) \cup {th}) =>
         Filled(M, b) /\ Untouched(M, 0)

\* The module of an object brings the object.
LEMMA LinkedObject ==
    ASSUME ProgOK, NEW M \in ModulesOf(P), NEW b \in Objs(P), NEW N, N = LinkObject(M, b),
           NEW u, u = Top(M) + b
    PROVE  N \in ModulesOf(P) /\ u \in DOMAIN N /\ N[u].name = Name(b) /\ N[u].of = Code(b)
<1>1. PICK E : E = Embedded(b)
  OBVIOUS
<1>. QED
  BY <1>1, LinkObjectFacts

\* The function of a request is found by its name after a callee has been
\* linked, if the callee's module does not define it again.
LEMMA CalleeMine ==
    ASSUME ProgOK, Tracker, NEW o \in Objs(P), NEW args, NEW M \in ModulesOf(P), Mine(M, o),
           Undisturbed(o, args), NEW t \in DOMAIN M, M[t].name = Name(o), M[t].ext \/ SelfCalls(o),
           NEW q \in P.uses[o], Name(q) \in DOMAIN byName, q = o => byName[Name(o)] = o,
           NEW b, b = byName[Name(q)], b \in Objs(P), NEW N, N = LinkObject(M, b)
    PROVE  Mine(N, o)
<1>1. PICK E, u : E = Embedded(b) /\ u = Top(M) + b
  OBVIOUS
<1>2. /\ N \in ModulesOf(P) /\ u \in DOMAIN N /\ N[u].name = Name(b) /\ N[u].of = Code(b)
  BY <1>1, LinkedObject
<1>3. NamesDistinct(N)
  BY <1>2, ModuleFacts
<1>4. CASE q = o
  <2>1. b = o
    BY <1>4
  <2>2. u \in DOMAIN N /\ N[u].name = Name(o) /\ N[u].of = Code(o)
    BY <1>2, <2>1
  <2>. QED
    BY <1>3, <2>2 DEF NamesDistinct, Mine
<1>5. CASE q # o
  <2>1. E \in Linked(o, args)
    BY <1>1, <1>5, CalleeApart
  <2>2. Clear(M, E, t)
    BY <2>1 DEF Clear, Undisturbed
  <2>3. t \in DOMAIN N /\ N[t].name = M[t].name /\ N[t].of = M[t].of
    BY <1>1, <2>2, LinkObjectFacts
  <2>4. t \in DOMAIN N /\ N[t].name = Name(o) /\ N[t].of = Code(o)
    BY <2>3 DEF Mine
  <2>. QED
    BY <1>3, <2>4 DEF NamesDistinct, Mine
<1>. QED
  BY <1>4, <1>5

\* ResolveModule links a callee.
LEMMA ResolveTidyStep ==
    ASSUME ProgOK, Tracker, NEW o \in Objs(P), NEW args, NEW M \in ModulesOf(P), ResolveTidy(M, o, args),
           Undisturbed(o, args) => \E t \in DOMAIN M : M[t].name = Name(o) /\ (M[t].ext \/ SelfCalls(o)),
           NEW q \in P.uses[o], q = o => SelfCalls(o), NEW N, N = LinkByName(M, Name(q))
    PROVE  ResolveTidy(N, o, args)
<1>1. CASE Name(q) \notin DOMAIN byName
  <2>1. N = M
    BY <1>1 DEF LinkByName, GetAddress
  <2>. QED
    BY <2>1
<1>2. CASE Name(q) \in DOMAIN byName
  <2>1. PICK b : b = byName[Name(q)]
    OBVIOUS
  <2>2. b \in Objs(P) /\ b # NoObject
    BY <1>2, <2>1, TrackerFacts
  <2>3. N = LinkObject(M, b)
    BY <1>2, <2>1, <2>2 DEF LinkByName, GetAddress
  <2>4. Wrappers(M) = {} /\ Declared(M) /\ Untouched(M, 0)
    BY DEF ResolveTidy
  <2>5. Wrappers(N) = {} /\ Declared(N) /\ Untouched(N, 0)
    BY <2>2, <2>3, <2>4, ObjectPlain
  <2>6. ASSUME Undisturbed(o, args), OwnModule(o) PROVE Mine(N, o)
    <3>1. PICK t \in DOMAIN M : M[t].name = Name(o) /\ (M[t].ext \/ SelfCalls(o))
      BY <2>6
    <3>2. Mine(M, o) /\ (q = o => byName[Name(o)] = o)
      BY <2>6 DEF ResolveTidy, OwnModule
    <3>. QED
      BY <1>2, <2>1, <2>2, <2>3, <2>6, <3>1, <3>2, CalleeMine
  <2>. QED
    BY <2>5, <2>6 DEF ResolveTidy
<1>. QED
  BY <1>1, <1>2

\* EmitCodes fills the function of the request.
LEMMA EmitTidyStep ==
    ASSUME ProgOK, NEW o \in Objs(P), NEW args, NEW M \in ModulesOf(P), ResolveTidy(M, o, args),
           Named(M, Name(o)) # {},
           Undisturbed(o, args) => \E t \in DOMAIN M : M[t].name = Name(o) /\ M[t].def,
           NEW i, i = GetNamedValue(M, Name(o)), NEW b \in P.bytes, NEW N, N = Stubbed(M, i, b)
    PROVE  InlineTidy(N, i, {}, o, args, b)
<1>1. i \in DOMAIN M /\ M[i].name = Name(o)
  BY Lookup
<1>2. /\ N \in ModulesOf(P) /\ DOMAIN N = DOMAIN M
      /\ \A j \in DOMAIN M :
           /\ N[j].of = M[j].of /\ (N[j].def <=> M[j].def) /\ (N[j].ext <=> M[j].ext)
           /\ N[j].asm = IF j = i /\ M[i].def /\ M[i].asm = "nop" THEN b ELSE M[j].asm
  BY <1>1, StubbedFacts
<1>3. Wrappers(M) = {} /\ Declared(M) /\ Untouched(M, 0)
  BY DEF ResolveTidy
<1>4. Wrappers(N) = {}
  BY <1>2, <1>3 DEF Wrappers
<1>5. Declared(N)
  BY <1>2, <1>3 DEF Declared
<1>6. Called(M) = {} /\ \A j \in DOMAIN M : j # 0
  BY <1>3, SymbolFacts DEF Called
<1>7. \A j \in DOMAIN M : M[j].of.n = 0 /\ M[j].of.obj \in P.stub => M[j].asm = "nop"
  BY <1>3, <1>6 DEF Untouched
<1>8. Untouched(N, i)
  BY <1>2, <1>7 DEF Untouched
<1>9. Tidy(N, {}, i, b)
  BY <1>4, <1>5, <1>8, PlainTidy
<1>10. ASSUME Undisturbed(o, args), OwnModule(o) PROVE N[i].of = Code(o) /\ (o \in P.stub => N[i].asm = b)
  <2>1. M[i].of = Code(o)
    BY <1>1, <1>10 DEF ResolveTidy, Mine
  <2>2. M[i].of.n = 0 /\ M[i].of.obj = o
    BY <2>1 DEF Code, Thing
  <2>3. PICK t \in DOMAIN M : M[t].name = Name(o) /\ M[t].def
    BY <1>10
  <2>4. NamesDistinct(M)
    BY ModuleFacts
  <2>5. M[i].def
    BY <1>1, <2>3, <2>4 DEF NamesDistinct
  <2>6. o \in P.stub => M[i].asm = "nop"
    BY <1>1, <1>7, <2>2
  <2>. QED
    BY <1>1, <1>2, <2>1, <2>5, <2>6
<1>. QED
  BY <1>9, <1>10 DEF InlineTidy

\* An argument is linked.
LEMMA PassTidyStep ==
    ASSUME ProgOK, NEW o, NEW args, NEW M, NEW S, NEW s, NEW N, LinksIn(P, M, S, s, N),
           NEW t, NEW refs, NEW b, InlineTidy(M, t, refs, o, args, b),
           NEW a, Tidy(S, {S[s].name}, 0, a), Undisturbed(o, args) => t \in DOMAIN M /\ t \in DOMAIN N,
           NEW r, r.arg # 0
    PROVE  InlineTidy(N, t, refs \cup {r}, o, args, b)
<1>1. Tidy(N, {}, t, b)
  BY LinkTidy DEF InlineTidy
<1>2. ASSUME Undisturbed(o, args), OwnModule(o) PROVE N[t].of = Code(o) /\ (o \in P.stub => N[t].asm = b)
  <2>0. PICK L, u : L = LinkModules(M, S) /\ u = Top(M) + s
    OBVIOUS
  <2>1. M \in ModulesOf(P) /\ S \in ModulesOf(P) /\ N = SetPrivate(L, u) /\ t \in DOMAIN M /\ t \in DOMAIN N
    BY <1>2, <2>0 DEF LinksIn
  <2>2. \/ N[t].of = M[t].of /\ N[t].asm = M[t].asm
        \/ \E x \in DOMAIN S : t = Top(M) + x
    BY <2>0, <2>1, PrivateSymbol
  <2>3. t <= Top(M) /\ Top(M) \in Nat /\ t \in Nat
    BY <2>1, TopFacts, SymbolFacts
  <2>4. ASSUME NEW x \in DOMAIN S PROVE t # Top(M) + x
    <3>1. x \in Nat /\ x # 0
      BY <2>1, SymbolFacts
    <3>. QED
      BY <2>3, <3>1
  <2>5. N[t].of = M[t].of /\ N[t].asm = M[t].asm
    BY <2>2, <2>4
  <2>. QED
    BY <1>2, <2>5 DEF InlineTidy
<1>3. \A y \in refs \cup {r} : y.arg # 0
  BY DEF InlineTidy
<1>. QED
  BY <1>1, <1>2, <1>3 DEF InlineTidy

\* The wrappers of a module with one more.
LEMMA WrappedWrappers ==
    ASSUME NEW p, NEW M, NEW t, NEW w, NEW x, NEW N, Wrapping(p, M, t, w, x, N), x.of.n # 0,
           NEW things, Wraps(M, things, {}), NEW refs, \A r \in refs : r.arg # 0,
           NEW rt, rt.arg = 0, rt.at = t, x.refs = refs \cup {rt}, x.def
    PROVE  /\ w \in Wrappers(N) /\ N[w] = x /\ CalleeIs(N, w, rt)
           /\ \A v \in Wrappers(N) : v = w \/ v \in Wrappers(M)
           /\ \A v \in Wrappers(M) : /\ v \in Wrappers(N) /\ N[v].of = M[v].of /\ N[v].refs = M[v].refs
                                     /\ \A r : CalleeIs(N, v, r) <=> CalleeIs(M, v, r)
           /\ Wraps(N, things \cup {x.of}, {x.name})
<1>0. t \in DOMAIN M /\ M \in ModulesOf(p)
  BY DEF Wrapping
<1>1. /\ w \notin DOMAIN M /\ w \in DOMAIN N /\ N[w] = x
      /\ \A i \in DOMAIN N : i \in DOMAIN M \/ i = w
  BY WrappedFacts
<1>2. \A i \in DOMAIN M :
        /\ i \in DOMAIN N /\ N[i].of = M[i].of /\ (N[i].def <=> M[i].def) /\ N[i].refs = M[i].refs
        /\ i # t => N[i] = M[i]
        /\ i = t => ~N[i].ext
  BY WrappedFacts
<1>3. w \in Wrappers(N)
  BY <1>1 DEF Wrappers
<1>4. CalleeIs(N, w, rt)
  BY <1>1 DEF CalleeIs
<1>5. \A v \in Wrappers(N) : v = w \/ v \in Wrappers(M)
  BY <1>1, <1>2 DEF Wrappers
<1>6. ASSUME NEW v \in Wrappers(M)
      PROVE  /\ v \in Wrappers(N) /\ N[v].of = M[v].of /\ N[v].refs = M[v].refs
             /\ \A r : CalleeIs(N, v, r) <=> CalleeIs(M, v, r)
  <2>1. v \in DOMAIN M /\ M[v].of.n # 0
    BY DEF Wrappers
  <2>2. v \in DOMAIN N /\ N[v].of = M[v].of /\ N[v].refs = M[v].refs
    BY <1>2, <2>1
  <2>. QED
    BY <2>1, <2>2 DEF CalleeIs, Wrappers
<1>7. ASSUME NEW v \in Wrappers(M)
      PROVE  /\ N[v].of \in things /\ N[v].def /\ ~N[v].ext
             /\ \E r \in N[v].refs : CalleeIs(N, v, r) /\ ~N[r.at].ext
  <2>1. v \in DOMAIN M /\ M[v].of \in things /\ M[v].def /\ ~M[v].ext
    BY DEF Wrappers, Wraps
  <2>2. PICK r \in M[v].refs : CalleeIs(M, v, r) /\ ~M[r.at].ext
    BY DEF Wraps
  <2>3. r.at \in DOMAIN M
    BY <1>0, <2>1, SymbolFacts
  <2>4. ~N[v].ext /\ ~N[r.at].ext
    BY <1>2, <2>1, <2>2, <2>3
  <2>. QED
    BY <1>2, <1>6, <2>1, <2>2, <2>4
<1>8. N[w].of = x.of /\ N[w].def /\ N[w].name = x.name /\ rt \in N[w].refs /\ ~N[rt.at].ext
  BY <1>0, <1>1, <1>2
<1>9. Wraps(N, things \cup {x.of}, {x.name})
  BY <1>4, <1>5, <1>7, <1>8 DEF Wraps
<1>. QED
  BY <1>1, <1>3, <1>4, <1>5, <1>6, <1>9

\* The requests made have numbers.
LEMMA MadeNumber ==
    ASSUME NEW th \in MadeThings
    PROVE  th.n \in DOMAIN made /\ made[th.n].thing = th
BY DEF MadeThings

\* CreateWrapperFun.
LEMMA WrapTidyStep ==
    ASSUME NEW o, NEW args, NEW M, NEW t, NEW refs, NEW b, InlineTidy(M, t, refs, o, args, b),
           Undisturbed(o, args) => M[t].def,
           NEW w, NEW x, NEW N, Wrapping(P, M, t, w, x, N),
           NEW th, x.of = th, th.obj = o, th.n # 0, th.n \notin DOMAIN made, x.def,
           NEW rt, rt.arg = 0, rt.at = t, x.refs = refs \cup {rt}
    PROVE  WrapTidy(N, x.name, o, args, b, th)
<1>0. Wraps(M, MadeThings, {}) /\ (\A r \in refs : r.arg # 0) /\ t \in DOMAIN M
  BY DEF InlineTidy, Tidy, Wrapping
<1>1. /\ w \in Wrappers(N) /\ N[w] = x /\ CalleeIs(N, w, rt)
      /\ \A v \in Wrappers(N) : v = w \/ v \in Wrappers(M)
      /\ \A v \in Wrappers(M) : /\ v \in Wrappers(N) /\ N[v].of = M[v].of /\ N[v].refs = M[v].refs
                                /\ \A r : CalleeIs(N, v, r) <=> CalleeIs(M, v, r)
      /\ Wraps(N, MadeThings \cup {x.of}, {x.name})
  BY <1>0, WrappedWrappers
<1>2. /\ \A i \in DOMAIN N : i \in DOMAIN M \/ i = w
      /\ \A i \in DOMAIN M :
           /\ i \in DOMAIN N /\ N[i].of = M[i].of /\ (N[i].def <=> M[i].def) /\ N[i].asm = M[i].asm
           /\ i # t => (N[i].ext <=> M[i].ext)
  BY WrappedFacts
<1>3. ASSUME NEW G, AllIn(N, G \cup {th}) PROVE AllIn(M, G)
  <2>. SUFFICES ASSUME NEW v \in Wrappers(M) PROVE M[v].of \in G
    BY DEF AllIn
  <2>1. M[v].of \in G \cup {th}
    BY <1>1, <1>3 DEF AllIn
  <2>2. M[v].of \in MadeThings
    BY <1>0 DEF Wraps
  <2>3. M[v].of # th
    BY <2>2, MadeNumber
  <2>. QED
    BY <2>1, <2>3
<1>4. ASSUME Undisturbed(o, args), AllIn(N, Calm \cup {th}) PROVE Declared(N)
  <2>1. Declared(M) /\ M[t].def
    BY <1>3, <1>4 DEF InlineTidy, Tidy
  <2>. QED
    BY <1>1, <1>2, <2>1 DEF Declared
<1>5. ASSUME Undisturbed(o, args), OwnModule(o), AllIn(N, (Calm \cap Own) \cup {th})
      PROVE  Filled(N, b) /\ Untouched(N, 0)
  <2>1. AllIn(M, Calm \cap Own)
    BY <1>3, <1>5
  <2>2. Filled(M, b) /\ Untouched(M, t) /\ (o \in P.stub => M[t].asm = b)
    BY <1>5, <2>1 DEF InlineTidy, Tidy
  <2>3. ASSUME NEW v \in Wrappers(N), N[v].of.obj \in P.stub, NEW r \in N[v].refs, CalleeIs(N, v, r)
        PROVE  N[r.at].asm = BytesOf(N[v].of.n, b)
    <3>1. CASE v = w
      <4>1. r = rt
        BY <1>1, <2>3, <3>1 DEF CalleeIs
      <4>2. N[r.at].asm = b
        BY <1>0, <1>1, <1>2, <2>2, <2>3, <3>1, <4>1
      <4>3. BytesOf(N[v].of.n, b) = b
        BY <1>1, <3>1 DEF BytesOf
      <4>. QED
        BY <4>2, <4>3
    <3>2. CASE v \in Wrappers(M)
      <4>1. N[v].of = M[v].of /\ r \in M[v].refs /\ CalleeIs(M, v, r) /\ v \in DOMAIN M
        BY <1>1, <2>3, <3>2 DEF Wrappers
      <4>2. M[r.at].asm = BytesOf(M[v].of.n, b)
        BY <2>2, <2>3, <3>2, <4>1 DEF Filled
      <4>3. M \in ModulesOf(P)
        BY DEF Wrapping
      <4>4. r.at \in DOMAIN M
        BY <4>1, <4>3, SymbolFacts
      <4>. QED
        BY <1>2, <4>1, <4>2, <4>4
    <3>. QED
      BY <1>1, <3>1, <3>2
  <2>4. ASSUME NEW i \in DOMAIN N, i \notin Called(N), N[i].of.n = 0, N[i].of.obj \in P.stub
        PROVE  N[i].asm = "nop"
    <3>1. i # w
      BY <1>1, <2>4
    <3>2. i \in DOMAIN M
      BY <1>2, <3>1
    <3>3. i # t
      BY <1>1, <2>4 DEF Called, CalleeIs
    <3>4. i \notin Called(M)
      BY <1>1, <2>4 DEF Called
    <3>5. M[i].asm = "nop"
      BY <1>2, <2>2, <2>4, <3>2, <3>3, <3>4 DEF Untouched
    <3>. QED
      BY <1>2, <3>2, <3>5
  <2>. QED
    BY <2>3, <2>4 DEF Filled, Untouched
<1>. QED
  BY <1>1, <1>4, <1>5 DEF WrapTidy

\* The same, with the reference to the function in IsWrapper.
LEMMA WrapTidyMarked ==
    ASSUME NEW o, NEW args, NEW M, NEW t, NEW refs, NEW b, InlineTidy(M, t, refs, o, args, b),
           Undisturbed(o, args) => M[t].def,
           NEW w, NEW x, NEW N, Wrapping(P, M, t, w, x, N), IsWrapper(x, o, t, refs),
           x.of.n \notin DOMAIN made
    PROVE  WrapTidy(N, x.name, o, args, b, x.of)
<1>1. PICK rt : rt.arg = 0 /\ rt.at = t /\ x.refs = refs \cup {rt}
  BY DEF IsWrapper
<1>2. x.of.n # 0 /\ x.def /\ x.of.obj = o
  BY DEF IsWrapper
<1>3. PICK th : th = x.of
  OBVIOUS
<1>4. x.of = th /\ th.obj = o /\ th.n # 0 /\ th.n \notin DOMAIN made
  BY <1>2, <1>3
<1>5. WrapTidy(N, x.name, o, args, b, th)
  BY <1>1, <1>2, <1>4, WrapTidyStep
<1>. QED
  BY <1>3, <1>5

\* The name of the only entry.
LEMMA OnlyEntryName ==
    ASSUME NEW es, NEW nm, OnlyEntry(es, nm)
    PROVE  GetEntryFunctionName(es) = nm
BY HeadOfOne DEF OnlyEntry, GetEntryFunctionName

---------------------------------------------------------------------------
(* The invariant.                                                          *)

\* A request in progress, with the record c.
CurTidy(c) ==
    /\ c.pc = "resolve" => ResolveTidy(c.mod, c.fun, c.args)
    /\ c.pc = "inline" => InlineTidy(c.mod, c.target, c.refs, c.fun, c.args, c.bytes)
    /\ c.pc = "codegen" =>
         WrapTidy(c.mod, GetEntryFunctionName(c.entries), c.fun, c.args, c.bytes, Thing(c.fun, Turn))

NoBytes == "-"

FunctionTidy(F) == Tidy(F.mod, {GetEntryFunctionName(F.entries)}, 0, NoBytes)

MadeTidy == \A F \in Range(made) : FunctionTidy(F)

TidyInv == MadeTidy /\ \A c \in {cur} : CurTidy(c)

\* A function's own module is the same later.
LEMMA OwnModuleSame ==
    ASSUME Grown, Tracker, NEW o \in functions
    PROVE  OwnModule(o)' <=> OwnModule(o)
<1>1. P' = P
  BY DEF Grown
<1>2. Name(o)' = Name(o) /\ (SelfCalls(o)' <=> SelfCalls(o))
  BY <1>1, StaticSame
<1>3. Name(o) \in DOMAIN byName
  BY DEF Tracker
<1>4. byName'[Name(o)] = byName[Name(o)]
  BY <1>3 DEF Grown
<1>. QED
  BY <1>2, <1>4 DEF OwnModule

\* The requests made stay, and those that are good later were so before.
LEMMA MadeBefore ==
    ASSUME Grown, Tracker, MadeInv, NEW th \in MadeThings
    PROVE  /\ th \in MadeThings' /\ (th \in Calm' => th \in Calm) /\ (th \in Own' => th \in Own)
           /\ \A b : BytesOf(th.n, b)' = BytesOf(th.n, b)
<1>1. PICK F : F = made[th.n]
  OBVIOUS
<1>2. th \in ThingsOf(P) /\ th.n \in DOMAIN made /\ F.thing = th
  BY <1>1 DEF MadeThings
<1>3. F \in Range(made)
  BY <1>1, <1>2 DEF Range
<1>4. th.obj \in functions /\ ArgsOK(F.args)
  BY <1>2, <1>3 DEF MadeInv, MadeOK
<1>5. th.n \in DOMAIN made' /\ made'[th.n] = F /\ P' = P
  BY <1>1, <1>2 DEF Grown
<1>6. th \in MadeThings'
  BY <1>2, <1>5 DEF MadeThings
<1>7. ASSUME th \in Calm' PROVE th \in Calm
  <2>1. Undisturbed(th.obj, F.args)'
    BY <1>5, <1>7 DEF Calm
  <2>2. Undisturbed(th.obj, F.args)
    BY <1>4, <2>1, UndisturbedBefore
  <2>. QED
    BY <1>1, <2>2 DEF Calm
<1>8. ASSUME th \in Own' PROVE th \in Own
  <2>1. OwnModule(th.obj)'
    BY <1>8 DEF Own
  <2>2. OwnModule(th.obj)
    BY <1>4, <2>1, OwnModuleSame
  <2>. QED
    BY <2>2 DEF Own
<1>9. \A b : BytesOf(th.n, b)' = BytesOf(th.n, b)
  BY <1>1, <1>2, <1>5 DEF BytesOf
<1>. QED
  BY <1>6, <1>7, <1>8, <1>9

\* A module that is tidy stays so.
LEMMA TidyGrows ==
    ASSUME Grown, Tracker, MadeInv, NEW M, NEW outer, NEW e, NEW b, Tidy(M, outer, e, b)
    PROVE  Tidy(M, outer, e, b)'
<1>1. \A w \in Wrappers(M) :
        /\ M[w].of \in MadeThings' /\ (M[w].of \in Calm' => M[w].of \in Calm)
        /\ (M[w].of \in Own' => M[w].of \in Own)
        /\ BytesOf(M[w].of.n, b)' = BytesOf(M[w].of.n, b)
  <2>. SUFFICES ASSUME NEW w \in Wrappers(M)
                PROVE  /\ M[w].of \in MadeThings' /\ (M[w].of \in Calm' => M[w].of \in Calm)
                       /\ (M[w].of \in Own' => M[w].of \in Own)
                       /\ BytesOf(M[w].of.n, b)' = BytesOf(M[w].of.n, b)
    OBVIOUS
  <2>1. PICK th : th = M[w].of
    OBVIOUS
  <2>2. th \in MadeThings
    BY <2>1 DEF Tidy, Wraps
  <2>. QED
    BY <2>1, <2>2, MadeBefore
<1>2. Wrappers(M)' = Wrappers(M) /\ P' = P
  BY DEF Wrappers, Grown
<1>3. Wraps(M, MadeThings, outer)'
  BY <1>1, <1>2 DEF Tidy, Wraps, CalleeIs
<1>4. AllIn(M, Calm)' => AllIn(M, Calm)
  BY <1>1, <1>2 DEF AllIn
<1>5. AllIn(M, Calm \cap Own)' => AllIn(M, Calm \cap Own)
  BY <1>1, <1>2 DEF AllIn
<1>6. Filled(M, b) => Filled(M, b)'
  BY <1>1, <1>2 DEF Filled, CalleeIs
<1>7. Untouched(M, e) => Untouched(M, e)'
  BY <1>2 DEF Untouched, Called, CalleeIs
<1>8. Declared(M) => Declared(M)'
  BY DEF Declared
<1>. QED
  BY <1>3, <1>4, <1>5, <1>6, <1>7, <1>8 DEF Tidy

\* While nothing else changes, neither does what is said of a request.
LEMMA CurTidySame ==
    ASSUME UNCHANGED <<P, functions, byName, made>>, NEW c
    PROVE  CurTidy(c)' <=> CurTidy(c)
<1>1. P' = P /\ functions' = functions /\ byName' = byName /\ made' = made
  OBVIOUS
<1>2. ASSUME NEW o, NEW args
      PROVE  /\ Name(o)' = Name(o) /\ (OwnModule(o)' <=> OwnModule(o))
             /\ Undisturbed(o, args)' <=> Undisturbed(o, args)
  <2>1. Linked(o, args)' = Linked(o, args)
    BY <1>1 DEF Linked, Embedded, Referenced, Name, Objs, Code, Thing
  <2>2. Name(o)' = Name(o) /\ (SelfCalls(o)' <=> SelfCalls(o))
    BY <1>1, StaticSame
  <2>. QED
    BY <1>1, <2>1, <2>2 DEF OwnModule, Undisturbed
<1>3. MadeThings' = MadeThings
  BY <1>1 DEF MadeThings
<1>4. Calm' = Calm /\ Own' = Own
  BY <1>1, <1>2, <1>3 DEF Calm, Own
<1>5. \A M, b : Filled(M, b)' <=> Filled(M, b)
  BY <1>1 DEF Filled, BytesOf, Wrappers, CalleeIs
<1>6. \A M, e : Untouched(M, e)' <=> Untouched(M, e)
  BY <1>1 DEF Untouched, Called, Wrappers, CalleeIs
<1>7. /\ \A M : Declared(M)' <=> Declared(M)
      /\ \A M, G : AllIn(M, G)' <=> AllIn(M, G)
      /\ \A M, G, outer : Wraps(M, G, outer)' <=> Wraps(M, G, outer)
      /\ \A M : Wrappers(M)' = Wrappers(M)
  BY DEF Declared, AllIn, Wraps, Wrappers, CalleeIs
<1>8. \A M, outer, e, b : Tidy(M, outer, e, b)' <=> Tidy(M, outer, e, b)
  BY <1>3, <1>4, <1>5, <1>6, <1>7 DEF Tidy
<1>9. \A M, o, args : ResolveTidy(M, o, args)' <=> ResolveTidy(M, o, args)
  BY <1>2, <1>6, <1>7 DEF ResolveTidy, Mine, Code, Thing
<1>10. \A M, t, refs, o, args, b :
         InlineTidy(M, t, refs, o, args, b)' <=> InlineTidy(M, t, refs, o, args, b)
  BY <1>1, <1>2, <1>8 DEF InlineTidy, Code, Thing
<1>11. \A M, nm, o, args, b, th : WrapTidy(M, nm, o, args, b, th)' <=> WrapTidy(M, nm, o, args, b, th)
  BY <1>2, <1>3, <1>4, <1>5, <1>6, <1>7 DEF WrapTidy
<1>12. Turn' = Turn
  BY <1>1 DEF Turn
<1>. QED
  BY <1>9, <1>10, <1>11, <1>12 DEF CurTidy, GetEntryFunctionName, Thing

\* The request becomes d.
LEMMA TidyBecomes ==
    ASSUME UNCHANGED <<P, functions, byName, made>>, Tracker, MadeInv, TidyInv, NEW d, cur' = d, CurTidy(d)
    PROVE  TidyInv'
<1>1. P' = P /\ functions' = functions /\ byName' = byName /\ made' = made
  OBVIOUS
<1>2. Grown
  BY <1>1 DEF Grown
<1>3. ASSUME NEW F \in Range(made) PROVE FunctionTidy(F)'
  <2>1. PICK nm : nm = GetEntryFunctionName(F.entries)
    OBVIOUS
  <2>2. Tidy(F.mod, {nm}, 0, NoBytes)
    BY <2>1 DEF TidyInv, MadeTidy, FunctionTidy
  <2>3. Tidy(F.mod, {nm}, 0, NoBytes)'
    BY <1>2, <2>2, TidyGrows
  <2>. QED
    BY <2>1, <2>3 DEF FunctionTidy, GetEntryFunctionName, NoBytes
<1>4. Range(made)' = Range(made)
  BY <1>1 DEF Range
<1>5. MadeTidy'
  BY <1>3, <1>4 DEF MadeTidy
<1>6. CurTidy(d)'
  BY <1>1, CurTidySame
<1>7. \A c \in {cur'} : c = d
  OBVIOUS
<1>. QED
  BY <1>5, <1>6, <1>7 DEF TidyInv

---------------------------------------------------------------------------
(* The steps.                                                              *)

\* What is known of a request in progress.
LEMMA BusyTidy ==
    ASSUME IndInv, TidyInv, NEW c, c = cur, c.pc \in {"resolve", "inline", "codegen"}
    PROVE  /\ ProgOK /\ Tracker /\ MadeInv /\ c \in CurRecords(P) /\ CurOK(c)
           /\ c.fun \in functions /\ c.fun \in Objs(P) /\ c.mod \in ModulesOf(P) /\ CurTidy(c)
<1>1. /\ ProgOK /\ Tracker /\ MadeInv /\ c \in CurRecords(P) /\ CurOK(c)
      /\ c.fun \in functions /\ c.fun \in Objs(P) /\ c.mod \in ModulesOf(P)
  BY BusyBound
<1>2. CurTidy(c)
  BY DEF TidyInv
<1>. QED
  BY <1>1, <1>2

\* A request starts.
LEMMA CompileTidy ==
    ASSUME IndInv, TidyInv, NEW o, NEW b, NEW dump, NEW args, Compile(o, args, b, dump)
    PROVE  TidyInv'
<1>1. PICK E, todo, es : E = Embedded(o) /\ todo = [k \in DOMAIN P.calls[o] |-> Name(P.calls[o][k])] /\ es = <<>>
  OBVIOUS
<1>2. PICK d : d = [pc |-> "resolve", fun |-> o, args |-> args, bytes |-> b, dump |-> dump,
                    mod |-> E, todo |-> todo, target |-> 0, refs |-> {}, k |-> 1, entries |-> es]
  OBVIOUS
<1>3. /\ cur' = d /\ o \in functions /\ UNCHANGED <<P, functions, byName, made>>
  BY <1>1, <1>2 DEF Compile, HasGlobalMapping
<1>4. ProgOK /\ Tracker /\ MadeInv
  BY DEF IndInv
<1>5. o \in Objs(P)
  BY <1>3, <1>4, TrackerFacts
<1>6. E \in ModulesOf(P) /\ o \in DOMAIN E /\ E[o].name = Name(o) /\ E[o].of = Code(o)
  BY <1>1, <1>4, <1>5, EmbeddedFacts
<1>7. NamesDistinct(E)
  BY <1>6, ModuleFacts
<1>8. Mine(E, o)
  BY <1>6, <1>7 DEF Mine, NamesDistinct
<1>9. Wrappers(E) = {} /\ Declared(E) /\ Untouched(E, 0)
  BY <1>1, EmbeddedTidy
<1>10. ResolveTidy(E, o, args)
  BY <1>8, <1>9 DEF ResolveTidy
<1>11. d.pc = "resolve" /\ d.mod = E /\ d.fun = o /\ d.args = args
  BY <1>2
<1>12. CurTidy(d)
  BY <1>10, <1>11 DEF CurTidy
<1>. QED
  BY <1>3, <1>4, <1>12, TidyBecomes

\* ResolveModule.
LEMMA ResolveNextTidy ==
    ASSUME IndInv, TidyInv, ResolveNext
    PROVE  TidyInv'
<1>1. PICK c, nm, td : c = cur /\ nm = Head(c.todo) /\ td = Tail(c.todo)
  OBVIOUS
<1>2. PICK N : N = LinkByName(c.mod, nm)
  OBVIOUS
<1>3. PICK d : d = [c EXCEPT !.mod = N, !.todo = td]
  OBVIOUS
<1>4. c.pc = "resolve" /\ c.todo # <<>> /\ cur' = d /\ UNCHANGED <<P, functions, byName, made>>
  BY <1>1, <1>2, <1>3 DEF ResolveNext
<1>5. /\ ProgOK /\ Tracker /\ MadeInv /\ c \in CurRecords(P) /\ CurOK(c)
      /\ c.fun \in functions /\ c.fun \in Objs(P) /\ c.mod \in ModulesOf(P) /\ CurTidy(c)
  BY <1>1, <1>4, BusyTidy
<1>6. d.pc = "resolve" /\ d.mod = N /\ d.fun = c.fun /\ d.args = c.args
  BY <1>3, <1>4, <1>5 DEF CurRecords
<1>7. PICK i \in DOMAIN P.calls[c.fun] : nm = Name(P.calls[c.fun][i])
  <2>1. c.todo \in Seq(Names)
    BY <1>5 DEF CurRecords
  <2>2. 1 \in DOMAIN c.todo /\ c.todo[1] = nm
    BY <1>1, <1>4, <2>1
  <2>. QED
    BY <1>4, <1>5, <2>2 DEF CurOK
<1>8. PICK q : q = P.calls[c.fun][i]
  OBVIOUS
<1>9. q \in P.uses[c.fun]
  <2>1. P.calls[c.fun] \in Seq(P.uses[c.fun] \ P.vars)
    BY <1>5, ProgFacts
  <2>. QED
    BY <1>7, <1>8, <2>1
<1>10. q = c.fun => SelfCalls(c.fun)
  BY <1>7, <1>8 DEF SelfCalls
<1>args. PICK args : args = c.args
  OBVIOUS
<1>11. PICK M \in ModulesOf(P), o \in Objs(P) : M = c.mod /\ o = c.fun /\ args = c.args
  BY <1>5, <1>args
<1>12. ResolveTidy(M, o, args)
  BY <1>4, <1>5, <1>11 DEF CurTidy
<1>13. Undisturbed(o, args) => \E t \in DOMAIN M : M[t].name = Name(o) /\ (M[t].ext \/ SelfCalls(o))
  BY <1>4, <1>5, <1>11 DEF CurOK, FunIn
<1>14. q \in P.uses[o] /\ (q = o => SelfCalls(o)) /\ N = LinkByName(M, Name(q))
  BY <1>2, <1>7, <1>8, <1>9, <1>10, <1>11
<1>15. ResolveTidy(N, o, args)
  BY <1>5, <1>12, <1>13, <1>14, ResolveTidyStep
<1>16. CurTidy(d)
  BY <1>6, <1>11, <1>15 DEF CurTidy
<1>. QED
  BY <1>4, <1>5, <1>16, TidyBecomes

\* EmitCodes.
LEMMA EmitTidy ==
    ASSUME IndInv, TidyInv, EmitCodes
    PROVE  TidyInv'
<1>1. PICK c : c = cur
  OBVIOUS
<1>2. PICK i : i = GetNamedValue(c.mod, Name(c.fun))
  OBVIOUS
<1>3. PICK N : N = Stubbed(c.mod, i, c.bytes)
  OBVIOUS
<1>4. PICK d : d = [c EXCEPT !.pc = "inline", !.target = i, !.mod = N]
  OBVIOUS
<1>5. c.pc = "resolve" /\ UNCHANGED <<P, functions, byName, made>>
  BY <1>1 DEF EmitCodes
<1>6. /\ ProgOK /\ Tracker /\ MadeInv /\ c \in CurRecords(P) /\ CurOK(c)
      /\ c.fun \in functions /\ c.fun \in Objs(P) /\ c.mod \in ModulesOf(P) /\ CurTidy(c)
  BY <1>1, <1>5, BusyTidy
<1>7. cur' = [c EXCEPT !.pc = "inline", !.target = i,
                       !.mod[i].asm = IF c.mod[i].def /\ @ = "nop" THEN c.bytes ELSE @]
  BY <1>1, <1>2 DEF EmitCodes
<1>8. cur' = d
  BY <1>3, <1>4, <1>6, <1>7 DEF Stubbed, CurRecords
<1>9. /\ d.pc = "inline" /\ d.mod = N /\ d.fun = c.fun /\ d.args = c.args /\ d.target = i /\ d.refs = c.refs
      /\ d.bytes = c.bytes
  BY <1>4, <1>6 DEF CurRecords
<1>parts. PICK args, b : args = c.args /\ b = c.bytes
  OBVIOUS
<1>10. PICK M \in ModulesOf(P), o \in Objs(P) : M = c.mod /\ o = c.fun /\ args = c.args /\ b = c.bytes
  BY <1>6, <1>parts
<1>11. Named(M, Name(o)) # {} /\ c.refs = {}
  BY <1>5, <1>6, <1>10 DEF CurOK
<1>12. b \in P.bytes
  BY <1>6, <1>10 DEF CurRecords
<1>13. Undisturbed(o, args) => \E t \in DOMAIN M : M[t].name = Name(o) /\ M[t].def
  BY <1>5, <1>6, <1>10 DEF CurOK, FunIn
<1>14. ResolveTidy(M, o, args) /\ i = GetNamedValue(M, Name(o)) /\ N = Stubbed(M, i, b)
  BY <1>2, <1>3, <1>5, <1>6, <1>10 DEF CurTidy
<1>15. InlineTidy(N, i, {}, o, args, b)
  BY <1>6, <1>11, <1>12, <1>13, <1>14, EmitTidyStep
<1>16. CurTidy(d)
  BY <1>9, <1>10, <1>11, <1>15 DEF CurTidy
<1>. QED
  BY <1>5, <1>6, <1>8, <1>16, TidyBecomes

\* The target of a request is there before and after an argument is linked.
LEMMA TargetThere ==
    ASSUME NEW c, CurOK(c), c.pc = "inline", NEW d, CurOK(d), d.pc = "inline",
           d.fun = c.fun, d.args = c.args, d.target = c.target
    PROVE  Undisturbed(c.fun, c.args) => c.target \in DOMAIN c.mod /\ c.target \in DOMAIN d.mod /\ c.mod[c.target].def
BY DEF CurOK, FunIn

\* A pointer to a registered object.
LEMMA PointerKept ==
    ASSUME ProgOK, Tracker, NEW c \in CurRecords(P), CurOK(c), c.pc = "inline",
           NEW a, NextIs(c, a, "ptr"), HasGlobalMapping(a.x),
           NEW N, N = LinkObject(c.mod, a.x), NEW g, g = GetNamedValue(N, Name(a.x)),
           NEW d, d = PassedRef(c, SetPrivate(N, g), Wanted(a), g), CurTidy(c)
    PROVE  CurTidy(d)
<1>0. c.mod \in ModulesOf(P) /\ d \in CurRecords(P) /\ CurOK(d)
  BY PointerStep DEF CurRecords
<1>arg. PICK x : x = a.x
  OBVIOUS
<1>1. PICK M \in ModulesOf(P) : M = c.mod /\ x = a.x
  BY <1>0, <1>arg
<1>2. PICK t, E : t = Top(M) + x /\ E = Embedded(x)
  OBVIOUS
<1>3. x \in Objs(P)
  <2>1. a.kind = "ptr"
    BY DEF NextIs
  <2>2. a.x \in ObjsOf(P)
    BY <2>1, NextArgument
  <2>. QED
    BY <1>1, <2>2, ProgFacts
<1>4. N = LinkObject(M, x)
  BY <1>1
<1>5. N \in ModulesOf(P) /\ t \in Nat /\ GetNamedValue(N, Name(x)) = t /\ SetPrivate(N, t) = N
  BY <1>1, <1>2, <1>3, <1>4, LinkObjectFacts
<1>6. PICK want : want = Code(x)
  OBVIOUS
<1>7. want \in ThingsOf(P) /\ Wanted(a) = want
  <2>1. a.kind = "ptr"
    BY DEF NextIs
  <2>2. P.most \in Nat /\ x \in ObjsOf(P)
    BY <1>3, ProgFacts
  <2>. QED
    BY <1>1, <1>6, <2>1, <2>2 DEF Wanted, Code, Thing, ThingsOf
<1>8. d = PassedRef(c, N, want, t)
  BY <1>1, <1>5, <1>7
<1>9. PICK r : /\ r.want = want /\ r.at = t /\ d.refs = c.refs \cup {r}
               /\ d.pc = "inline" /\ d.fun = c.fun /\ d.args = c.args /\ d.mod = N
               /\ d.target = c.target /\ d.bytes = c.bytes /\ r.arg # 0
  BY <1>5, <1>7, <1>8, PassedFields
<1>10. LinksIn(P, M, E, x, N)
  BY <1>2, <1>3, <1>4, ObjectLinked
<1>11. Wrappers(E) = {} /\ Declared(E) /\ Untouched(E, 0)
  BY <1>2, EmbeddedTidy
<1>12. Tidy(E, {E[x].name}, 0, NoBytes)
  BY <1>11, PlainTidy
<1>13. Undisturbed(c.fun, c.args) => c.target \in DOMAIN c.mod /\ c.target \in DOMAIN d.mod
  BY <1>0, <1>9, TargetThere
<1>14. InlineTidy(M, c.target, c.refs, c.fun, c.args, c.bytes)
  BY <1>1 DEF CurTidy
<1>15. InlineTidy(N, c.target, c.refs \cup {r}, c.fun, c.args, c.bytes)
  BY <1>1, <1>9, <1>10, <1>12, <1>13, <1>14, PassTidyStep
<1>. QED
  BY <1>9, <1>15 DEF CurTidy

\* AK_Ptr.
LEMMA PointerTidy ==
    ASSUME IndInv, TidyInv, InlinePointer
    PROVE  TidyInv'
<1>1. PICK c, a : c = cur /\ a = c.args[c.k]
  OBVIOUS
<1>2. /\ c.pc = "inline" /\ NextIs(c, a, "ptr")
      /\ UNCHANGED <<P, functions, byName, made>>
  BY <1>1 DEF InlinePointer, NextIs
<1>3. /\ ProgOK /\ Tracker /\ MadeInv /\ c \in CurRecords(P) /\ CurOK(c) /\ CurTidy(c)
  BY <1>1, <1>2, BusyTidy
<1>4. CASE HasGlobalMapping(a.x)
  <2>1. PICK N : N = LinkObject(c.mod, a.x)
    OBVIOUS
  <2>2. PICK g : g = GetNamedValue(N, Name(a.x))
    OBVIOUS
  <2>3. PICK d : d = PassedRef(c, SetPrivate(N, g), Wanted(a), g)
    OBVIOUS
  <2>4. PassSymbol(LinkObject(cur.mod, a.x), Name(a.x), <<>>)
    BY <1>1, <1>4 DEF InlinePointer
  <2>5. cur' = d
    BY <1>1, <2>1, <2>2, <2>3, <2>4 DEF PassSymbol, PassedRef, Passed
  <2>6. CurTidy(d)
    BY <1>2, <1>3, <1>4, <2>1, <2>2, <2>3, PointerKept
  <2>. QED
    BY <1>2, <1>3, <2>5, <2>6, TidyBecomes
<1>5. CASE ~HasGlobalMapping(a.x)
  <2>1. PICK n : n = c.k + 1
    OBVIOUS
  <2>2. PICK d : d = [c EXCEPT !.k = n]
    OBVIOUS
  <2>3. cur' = d
    BY <1>1, <1>5, <2>1, <2>2 DEF InlinePointer
  <2>4. /\ d.pc = c.pc /\ d.fun = c.fun /\ d.args = c.args
        /\ d.refs = c.refs /\ d.entries = c.entries /\ d.mod = c.mod /\ d.target = c.target
        /\ d.bytes = c.bytes
    BY <1>3, <2>2 DEF CurRecords
  <2>5. CurTidy(d)
    BY <1>3, <2>4 DEF CurTidy
  <2>. QED
    BY <1>2, <1>3, <2>3, <2>5, TidyBecomes
<1>. QED
  BY <1>4, <1>5

\* A composed function.
LEMMA ModuleKept ==
    ASSUME ProgOK, Tracker, NEW c \in CurRecords(P), CurOK(c), c.pc = "inline",
           MadeInv, MadeTidy, NEW a, NextIs(c, a, "mod"),
           NEW F, F = made[a.x], NEW L, L = LinkModules(c.mod, F.mod),
           NEW g, g = GetNamedValue(L, GetEntryFunctionName(F.entries)),
           NEW d, d = PassedRef(c, SetPrivate(L, g), Wanted(a), g), CurTidy(c)
    PROVE  CurTidy(d)
<1>0. c.mod \in ModulesOf(P) /\ d \in CurRecords(P) /\ CurOK(d)
  BY ModuleStep DEF CurRecords
<1>1. PICK M \in ModulesOf(P) : M = c.mod
  BY <1>0
<1>2. a.x \in DOMAIN made /\ a.kind = "mod"
  <2>1. a.kind = "mod"
    BY DEF NextIs
  <2>. QED
    BY <2>1, NextArgument
<1>3. F \in MadeRecords(P) /\ MadeOK(F) /\ FunctionTidy(F)
  BY <1>2 DEF MadeInv, MadeTidy, Range
<1>4. PICK S \in ModulesOf(P) : S = F.mod
  BY <1>3 DEF MadeRecords
<1>5. PICK nm \in Names, w \in DOMAIN S :
         F.entries = <<nm>> /\ S[w].name = nm /\ S[w].def /\ S[w].ext /\ S[w].of = F.thing
  BY <1>3, <1>4 DEF MadeOK, EntryIs
<1>6. PICK t : t = Top(M) + w
  OBVIOUS
<1>7. L = LinkModules(M, S) /\ GetEntryFunctionName(F.entries) = nm
  BY <1>1, <1>4, <1>5, HeadOfOne DEF GetEntryFunctionName
<1>8. g = t
  <2>1. GetEntryFunctionName(F.entries) = S[w].name /\ S[w].def /\ S[w].ext
    BY <1>5, <1>7
  <2>. QED
    BY <1>6, <1>7, <2>1, LinkEntry
<1>9. Tidy(S, {S[w].name}, 0, NoBytes)
  BY <1>3, <1>4, <1>5, <1>7 DEF FunctionTidy
<1>10. PICK want \in ThingsOf(P) : want = Wanted(a)
  <2>1. F.thing \in ThingsOf(P)
    BY <1>3 DEF MadeRecords
  <2>2. Wanted(a) = F.thing
    BY <1>2 DEF Wanted
  <2>. QED
    BY <2>1, <2>2
<1>11. PICK N : N = SetPrivate(LinkModules(M, S), t)
  OBVIOUS
<1>12. d = PassedRef(c, N, want, t)
  BY <1>7, <1>8, <1>10, <1>11
<1>13. N \in ModulesOf(P) /\ t \in Nat
  <2>1. S[w].def /\ S[w].ext
    BY <1>5
  <2>2. PICK K : K = LinkModules(M, S) /\ N = SetPrivate(K, t)
    BY <1>11
  <2>. QED
    BY <1>6, <2>1, <2>2, LinkEntry
<1>14. PICK r : /\ r.want = want /\ r.at = t /\ d.refs = c.refs \cup {r}
                /\ d.pc = "inline" /\ d.fun = c.fun /\ d.args = c.args /\ d.mod = N
                /\ d.target = c.target /\ d.bytes = c.bytes /\ r.arg # 0
  BY <1>12, <1>13, PassedFields
<1>15. LinksIn(P, M, S, w, N)
  BY <1>5, <1>6, <1>11 DEF LinksIn
<1>16. Undisturbed(c.fun, c.args) => c.target \in DOMAIN c.mod /\ c.target \in DOMAIN d.mod
  BY <1>0, <1>14, TargetThere
<1>17. InlineTidy(M, c.target, c.refs, c.fun, c.args, c.bytes)
  BY <1>1 DEF CurTidy
<1>18. InlineTidy(N, c.target, c.refs \cup {r}, c.fun, c.args, c.bytes)
  BY <1>1, <1>9, <1>14, <1>15, <1>16, <1>17, PassTidyStep
<1>. QED
  BY <1>14, <1>18 DEF CurTidy

\* AK_Module.
LEMMA ModuleTidy ==
    ASSUME IndInv, TidyInv, InlineModule
    PROVE  TidyInv'
<1>1. PICK c, a : c = cur /\ a = c.args[c.k]
  OBVIOUS
<1>2. PICK F : F = made[a.x]
  OBVIOUS
<1>3. PICK L : L = LinkModules(c.mod, F.mod)
  OBVIOUS
<1>4. PICK g : g = GetNamedValue(L, GetEntryFunctionName(F.entries))
  OBVIOUS
<1>5. PICK d : d = PassedRef(c, SetPrivate(L, g), Wanted(a), g)
  OBVIOUS
<1>6. /\ c.pc = "inline" /\ NextIs(c, a, "mod")
      /\ UNCHANGED <<P, functions, byName, made>>
  BY <1>1 DEF InlineModule, NextIs
<1>7. /\ ProgOK /\ Tracker /\ MadeInv /\ c \in CurRecords(P) /\ CurOK(c) /\ CurTidy(c)
  BY <1>1, <1>6, BusyTidy
<1>8. PassSymbol(LinkModules(cur.mod, F.mod), GetEntryFunctionName(F.entries), <<>>)
  BY <1>1, <1>2 DEF InlineModule, UnmarkEntry
<1>9. cur' = d
  BY <1>1, <1>3, <1>4, <1>5, <1>8 DEF PassSymbol, PassedRef, Passed
<1>10. MadeTidy
  BY DEF TidyInv
<1>11. CurTidy(d)
  BY <1>2, <1>3, <1>4, <1>5, <1>6, <1>7, <1>10, ModuleKept
<1>. QED
  BY <1>6, <1>7, <1>9, <1>11, TidyBecomes

\* The next request has no number yet.
LEMMA TurnFree ==
    ASSUME MadeInv
    PROVE  Turn \notin DOMAIN made
<1>1. made \in Seq(MadeRecords(P))
  BY DEF MadeInv
<1>2. DOMAIN made = 1 .. Len(made) /\ Len(made) \in Nat
  BY <1>1
<1>. QED
  BY <1>2 DEF Turn

\* The wrapper, for the rigid record of the request.
LEMMA WrapperKept ==
    ASSUME ProgOK, MadeInv, NEW c, NEW M, NEW nm, NEW w, NEW x, NEW N, NEW d, Making(c, M, nm, w, x, N, d),
           CurTidy(c)
    PROVE  CurTidy(d)
<1>1. CurOK(c) /\ c.pc = "inline" /\ M = c.mod
  BY DEF Making
<1>2. PICK o, args, refs, b, t : o = c.fun /\ args = c.args /\ refs = c.refs /\ b = c.bytes /\ t = c.target
  OBVIOUS
<1>3. /\ Wrapping(P, M, t, w, x, N) /\ IsWrapper(x, o, t, refs)
      /\ x.of = Thing(o, Turn) /\ x.name = nm
  BY <1>2, MakingWrapper
<1>4. /\ d.pc = "codegen" /\ d.mod = N /\ d.fun = o /\ d.args = args /\ d.bytes = b
      /\ OnlyEntry(d.entries, nm)
  BY <1>2, MakingRequest
<1>5. GetEntryFunctionName(d.entries) = nm
  BY <1>4, OnlyEntryName
<1>6. x.of.n \notin DOMAIN made
  BY <1>3, TurnFree DEF Thing
<1>7. InlineTidy(M, t, refs, o, args, b)
  BY <1>1, <1>2 DEF CurTidy
<1>8. Undisturbed(o, args) => M[t].def
  BY <1>1, <1>2 DEF CurOK, FunIn
<1>9. WrapTidy(N, x.name, o, args, b, x.of)
  BY <1>3, <1>6, <1>7, <1>8, WrapTidyMarked
<1>10. WrapTidy(N, nm, o, args, b, Thing(o, Turn))
  BY <1>3, <1>9
<1>. QED
  BY <1>4, <1>5, <1>10 DEF CurTidy

\* CreateWrapperFun.
LEMMA WrapperTidy ==
    ASSUME IndInv, TidyInv, CreateWrapperFun
    PROVE  TidyInv'
<1>1. PICK c : c = cur
  OBVIOUS
<1>2. PICK M : M = c.mod
  OBVIOUS
<1>3. PICK w : w = Top(M) + 1
  OBVIOUS
<1>4. PICK nm : nm = M[c.target].name
  OBVIOUS
<1>5. PICK x : x = WrapperOf(c, Turn, nm)
  OBVIOUS
<1>6. PICK N : N = Wrapped(M, c.target, w, x)
  OBVIOUS
<1>7. PICK d : d = Marked(c, N, nm)
  OBVIOUS
<1>8. cur' = d
  BY <1>1, <1>2, <1>3, <1>4, <1>5, <1>6, <1>7, WrapperAction
<1>9. /\ c.pc = "inline" /\ c.target \in DOMAIN c.mod
      /\ UNCHANGED <<P, functions, byName, made>>
  BY <1>1 DEF CreateWrapperFun
<1>10. /\ ProgOK /\ Tracker /\ MadeInv /\ c \in CurRecords(P) /\ CurOK(c) /\ CurTidy(c)
  BY <1>1, <1>9, BusyTidy
<1>11. Turn \in Nat /\ Turn <= P.most /\ Turn # 0
  <2>1. Room
    BY <1>10 DEF CurOK
  <2>. QED
    BY <1>10, <2>1, TurnFacts
<1>12. Making(c, M, nm, w, x, N, d)
  BY <1>2, <1>3, <1>4, <1>5, <1>6, <1>7, <1>9, <1>10, <1>11 DEF Making
<1>13. CurTidy(d)
  BY <1>10, <1>12, WrapperKept
<1>. QED
  BY <1>8, <1>9, <1>10, <1>13, TidyBecomes

\* The request ends, or the program loses its meaning.
LEMMA EndTidy ==
    ASSUME IndInv, TidyInv, UNCHANGED <<P, functions, byName, made>>,
           cur' \in {Idle, Foreign, [cur EXCEPT !.pc = "undefined"]},
           cur' = Idle \/ cur' = Foreign \/ cur.pc \in {"inline", "codegen"}
    PROVE  TidyInv'
<1>1. PICK c, d : c = cur /\ d = cur'
  OBVIOUS
<1>2. Tracker /\ MadeInv
  BY DEF IndInv
<1>3. d.pc \notin {"resolve", "inline", "codegen"}
  <2>1. CASE d = Idle \/ d = Foreign
    BY <2>1 DEF Idle, Foreign
  <2>2. CASE c.pc \in {"inline", "codegen"} /\ d = [c EXCEPT !.pc = "undefined"]
    <3>1. c \in CurRecords(P)
      BY <1>1, <2>2, BusyTidy
    <3>. QED
      BY <2>2, <3>1 DEF CurRecords
  <2>. QED
    BY <1>1, <2>1, <2>2
<1>4. CurTidy(d)
  BY <1>3 DEF CurTidy
<1>. QED
  BY <1>1, <1>2, <1>4, TidyBecomes

\* An easy::Function F is added whose module is tidy.
LEMMA AddTidy ==
    ASSUME IndInv, TidyInv, UNCHANGED <<P, functions, byName>>, NEW F \in MadeRecords(P), MadeOK(F), Room,
           made' = Append(made, F), cur' = Idle, FunctionTidy(F)'
    PROVE  TidyInv'
<1>1. ProgOK /\ Tracker /\ MadeInv
  BY DEF IndInv
<1>2. Grown
  BY <1>1, MadeAppended
<1>3. ASSUME NEW G \in Range(made) PROVE FunctionTidy(G)'
  <2>1. PICK nm : nm = GetEntryFunctionName(G.entries)
    OBVIOUS
  <2>2. Tidy(G.mod, {nm}, 0, NoBytes)
    BY <2>1 DEF TidyInv, MadeTidy, FunctionTidy
  <2>3. Tidy(G.mod, {nm}, 0, NoBytes)'
    BY <1>1, <1>2, <2>2, TidyGrows
  <2>. QED
    BY <2>1, <2>3 DEF FunctionTidy, GetEntryFunctionName, NoBytes
<1>4. \A G \in Range(made') : G = F \/ G \in Range(made)
  <2>1. made \in Seq(MadeRecords(P))
    BY <1>1 DEF MadeInv
  <2>2. /\ DOMAIN made' = 1 .. (Len(made) + 1) /\ made'[Len(made) + 1] = F /\ Len(made) \in Nat
        /\ \A i \in 1 .. Len(made) : made'[i] = made[i]
        /\ DOMAIN made = 1 .. Len(made)
    BY <2>1, AppendProperties
  <2>. QED
    BY <2>2 DEF Range
<1>5. \A G \in Range(made') : FunctionTidy(G)'
  BY <1>3, <1>4
<1>6. MadeTidy'
  BY <1>5 DEF MadeTidy, Range
<1>7. \A c \in {cur'} : CurTidy(c)'
  BY DEF CurTidy, Idle
<1>. QED
  BY <1>6, <1>7 DEF TidyInv

\* A request that has been made is one of those made.
LEMMA WrapMade ==
    ASSUME Grown, Tracker, MadeInv, NEW o \in functions, NEW args, ArgsOK(args), NEW M, NEW nm, NEW b,
           NEW th \in ThingsOf(P), WrapTidy(M, nm, o, args, b, th),
           th.obj = o, th.n # 0, th.n \notin DOMAIN made, NEW w \in DOMAIN M, M[w].of = th,
           NEW F, F.thing = th, F.args = args, F.bytes = b, th.n \in DOMAIN made', made'[th.n] = F
    PROVE  Tidy(M, {nm}, 0, NoBytes)'
<1>1. P' = P
  BY DEF Grown
<1>2. th \in MadeThings'
  BY <1>1 DEF MadeThings
<1>3. w \in Wrappers(M)
  BY DEF Wrappers
<1>4. th \in Calm' => Undisturbed(o, args)
  <2>1. th \in Calm' => Undisturbed(o, args)'
    BY DEF Calm
  <2>. QED
    BY <2>1, UndisturbedBefore
<1>5. th \in Own' => OwnModule(o)
  <2>1. th \in Own' => OwnModule(o)'
    BY DEF Own
  <2>. QED
    BY <2>1, OwnModuleSame
<1>6. BytesOf(th.n, NoBytes)' = b /\ BytesOf(th.n, b) = b
  BY DEF BytesOf
<1>7. ASSUME NEW v \in Wrappers(M)
      PROVE  /\ M[v].of \in MadeThings'
             /\ M[v].of = th \/ (M[v].of \in Calm' => M[v].of \in Calm)
             /\ M[v].of = th \/ (M[v].of \in Own' => M[v].of \in Own)
             /\ BytesOf(M[v].of.n, NoBytes)' = BytesOf(M[v].of.n, b)
  <2>1. PICK z : z = M[v].of
    OBVIOUS
  <2>2. z \in MadeThings \cup {th}
    BY <2>1 DEF WrapTidy, Wraps
  <2>3. CASE z = th
    BY <1>2, <1>6, <2>1, <2>3
  <2>4. CASE z \in MadeThings
    <3>1. /\ z \in MadeThings' /\ (z \in Calm' => z \in Calm) /\ (z \in Own' => z \in Own)
          /\ BytesOf(z.n, NoBytes)' = BytesOf(z.n, NoBytes)
      BY <2>4, MadeBefore
    <3>2. BytesOf(z.n, NoBytes) = BytesOf(z.n, b)
      BY <2>4, MadeNumber DEF BytesOf
    <3>. QED
      BY <2>1, <3>1, <3>2
  <2>. QED
    BY <2>2, <2>3, <2>4
<1>8. Wrappers(M)' = Wrappers(M)
  BY DEF Wrappers
<1>9. Wraps(M, MadeThings, {nm})'
  BY <1>7, <1>8 DEF WrapTidy, Wraps, CalleeIs
<1>10. ASSUME AllIn(M, Calm)' PROVE Declared(M)
  <2>1. \A v \in Wrappers(M) : M[v].of \in Calm'
    BY <1>8, <1>10 DEF AllIn
  <2>2. Undisturbed(o, args)
    BY <1>3, <1>4, <2>1
  <2>3. AllIn(M, Calm \cup {th})
    BY <1>7, <2>1 DEF AllIn
  <2>. QED
    BY <2>2, <2>3 DEF WrapTidy
<1>11. ASSUME AllIn(M, Calm \cap Own)' PROVE Filled(M, b) /\ Untouched(M, 0)
  <2>1. \A v \in Wrappers(M) : M[v].of \in Calm' /\ M[v].of \in Own'
    BY <1>8, <1>11 DEF AllIn
  <2>2. Undisturbed(o, args) /\ OwnModule(o)
    BY <1>3, <1>4, <1>5, <2>1
  <2>3. AllIn(M, (Calm \cap Own) \cup {th})
    BY <1>7, <2>1 DEF AllIn
  <2>. QED
    BY <2>2, <2>3 DEF WrapTidy
<1>12. Filled(M, b) => Filled(M, NoBytes)'
  BY <1>1, <1>7, <1>8 DEF Filled, CalleeIs
<1>13. Untouched(M, 0) => Untouched(M, 0)'
  BY <1>1, <1>8 DEF Untouched, Called, CalleeIs
<1>14. Declared(M) => Declared(M)'
  BY DEF Declared
<1>. QED
  BY <1>9, <1>10, <1>11, <1>12, <1>13, <1>14 DEF Tidy

\* CompileAndWrap.
LEMMA WrapTidies ==
    ASSUME IndInv, TidyInv, CompileAndWrap
    PROVE  TidyInv'
<1>1. PICK c, th : c = cur /\ th = Thing(c.fun, Turn)
  OBVIOUS
<1>2. PICK F : F = [mod |-> c.mod, entries |-> c.entries,
                    address |-> GetFunctionAddress(c.mod, Name(c.fun)),
                    globals |-> P.unit[c.fun], thing |-> th,
                    args |-> c.args, bytes |-> c.bytes, from |-> 0]
  OBVIOUS
<1>3. /\ c.pc = "codegen" /\ made' = Append(made, F) /\ cur' = Idle
      /\ UNCHANGED <<P, functions, byName>>
  BY <1>1, <1>2 DEF CompileAndWrap, Turn
<1>4. /\ ProgOK /\ Tracker /\ MadeInv /\ c \in CurRecords(P) /\ CurOK(c) /\ CurTidy(c)
  BY <1>1, <1>3, BusyTidy
<1>5. Room /\ c.fun \in functions /\ ArgsOK(c.args)
  BY <1>4 DEF CurOK
<1>6. th \in ThingsOf(P) /\ th.obj = c.fun /\ th.n = Turn /\ th.n # 0
  <2>1. Turn \in Nat /\ Turn <= P.most /\ P.most \in Nat /\ Turn # 0
    BY <1>4, <1>5, TurnFacts, ProgFacts
  <2>2. c.fun \in ObjsOf(P)
    BY <1>4 DEF CurRecords
  <2>. QED
    BY <1>1, <2>1, <2>2 DEF Thing, ThingsOf
<1>7. F \in MadeRecords(P) /\ MadeOK(F)
  BY <1>1, <1>2, <1>3, <1>4, <1>6, WrapStep
<1>8. PICK ad, un : ad = GetFunctionAddress(c.mod, Name(c.fun)) /\ un = P.unit[c.fun]
  OBVIOUS
<1>9. F = [mod |-> c.mod, entries |-> c.entries, address |-> ad, globals |-> un, thing |-> th,
           args |-> c.args, bytes |-> c.bytes, from |-> 0]
  BY <1>2, <1>8
<1>10. F.mod = c.mod /\ F.entries = c.entries /\ F.thing = th /\ F.args = c.args /\ F.bytes = c.bytes
  BY <1>9
<1>11. Grown
  BY <1>3, <1>4, <1>5, <1>7, MadeAppended
<1>12. th.n \in DOMAIN made' /\ made'[th.n] = F
  <2>1. made \in Seq(MadeRecords(P))
    BY <1>4 DEF MadeInv
  <2>2. /\ DOMAIN made' = 1 .. (Len(made) + 1) /\ made'[Len(made) + 1] = F /\ Len(made) \in Nat
    BY <1>3, <1>7, <2>1, AppendProperties
  <2>. QED
    BY <1>6, <2>2 DEF Turn
<1>13. th.n \notin DOMAIN made
  BY <1>4, <1>6, TurnFree
<1>14. PICK M, nm, o, args, b :
         /\ M = c.mod /\ nm = GetEntryFunctionName(c.entries) /\ o = c.fun /\ args = c.args /\ b = c.bytes
  OBVIOUS
<1>15. WrapTidy(M, nm, o, args, b, th)
  BY <1>1, <1>3, <1>4, <1>14 DEF CurTidy
<1>16. PICK w \in DOMAIN M : M[w].of = th
  BY <1>1, <1>3, <1>4, <1>14 DEF CurOK, EntryIs
<1>17. Tracker /\ MadeInv /\ o \in functions /\ ArgsOK(args) /\ th.obj = o /\ F.thing = th /\ F.args = args /\ F.bytes = b
  BY <1>4, <1>5, <1>6, <1>10, <1>14
<1>18. Tidy(M, {nm}, 0, NoBytes)'
  BY <1>6, <1>11, <1>12, <1>13, <1>15, <1>16, <1>17, WrapMade
<1>19. F.mod = M /\ nm = GetEntryFunctionName(F.entries)
  BY <1>10, <1>14
<1>20. FunctionTidy(F)'
  BY <1>18, <1>19 DEF FunctionTidy, GetEntryFunctionName, NoBytes
<1>. QED
  BY <1>3, <1>5, <1>7, <1>20, AddTidy

\* deserialize.
LEMMA ReviveTidy ==
    ASSUME IndInv, TidyInv, NEW f, Deserialize(f)
    PROVE  TidyInv'
<1>1. PICK F : F = made[f]
  OBVIOUS
<1>2. PICK nm : nm = GetEntryFunctionName(F.entries)
  OBVIOUS
<1>3. PICK G : G = Revived(F, GlobalsByName(nm), f, GetFunctionAddress(F.mod, nm))
  OBVIOUS
<1>4. /\ f \in buffers /\ Room /\ made' = Append(made, G) /\ cur' = Idle
      /\ UNCHANGED <<P, functions, byName>>
  BY <1>1, <1>2, <1>3 DEF Deserialize, Revived, Room
<1>5. ProgOK /\ Tracker /\ MadeInv /\ buffers \subseteq DOMAIN made
  BY DEF IndInv
<1>6. f \in DOMAIN made /\ f \in Nat /\ F \in MadeRecords(P) /\ MadeOK(F) /\ F \in Range(made)
  BY <1>1, <1>4, <1>5 DEF MadeInv, Range
<1>7. G \in MadeRecords(P) /\ MadeOK(G)
  BY <1>1, <1>2, <1>3, <1>5, <1>6, ReviveStep
<1>8. PICK u, a : u = GlobalsByName(nm) /\ a = GetFunctionAddress(F.mod, nm)
  OBVIOUS
<1>9. G.mod = F.mod /\ G.entries = F.entries
  BY <1>3, <1>6, <1>8 DEF Revived, MadeRecords
<1>10. Grown
  BY <1>4, <1>5, <1>7, MadeAppended
<1>11. Tidy(F.mod, {nm}, 0, NoBytes)
  BY <1>2, <1>6 DEF TidyInv, MadeTidy, FunctionTidy
<1>12. Tidy(F.mod, {nm}, 0, NoBytes)'
  BY <1>5, <1>10, <1>11, TidyGrows
<1>13. FunctionTidy(G)'
  BY <1>2, <1>9, <1>12 DEF FunctionTidy, GetEntryFunctionName, NoBytes
<1>. QED
  BY <1>4, <1>7, <1>13, AddTidy

\* The constructor of a unit.
LEMMA RegisterTidy ==
    ASSUME IndInv, TidyInv, NEW u, RegisterUnit(u)
    PROVE  TidyInv'
<1>1. ProgOK /\ Tracker /\ MadeInv
  BY DEF IndInv
<1>2. /\ P' = P /\ made' = made /\ cur' = Idle
      /\ functions' = functions \cup Registered(u)
      /\ byName' = [nm \in DOMAIN byName \cup {Name(o) : o \in Registered(u)} |->
                      IF nm \in DOMAIN byName THEN byName[nm]
                      ELSE CHOOSE o \in Registered(u) : Name(o) = nm]
  BY DEF RegisterUnit
<1>3. \A nm \in DOMAIN byName : nm \in DOMAIN byName' /\ byName'[nm] = byName[nm]
  BY <1>2
<1>4. Grown
  BY <1>2, <1>3 DEF Grown
<1>5. ASSUME NEW G \in Range(made) PROVE FunctionTidy(G)'
  <2>1. PICK nm : nm = GetEntryFunctionName(G.entries)
    OBVIOUS
  <2>2. Tidy(G.mod, {nm}, 0, NoBytes)
    BY <2>1 DEF TidyInv, MadeTidy, FunctionTidy
  <2>3. Tidy(G.mod, {nm}, 0, NoBytes)'
    BY <1>1, <1>4, <2>2, TidyGrows
  <2>. QED
    BY <2>1, <2>3 DEF FunctionTidy, GetEntryFunctionName, NoBytes
<1>6. MadeTidy'
  BY <1>2, <1>5 DEF MadeTidy, Range
<1>7. \A c \in {cur'} : CurTidy(c)'
  BY <1>2 DEF CurTidy, Idle
<1>. QED
  BY <1>6, <1>7 DEF TidyInv

---------------------------------------------------------------------------
(* The invariant is inductive.                                             *)

\* It holds when the program starts.
LEMMA InitTidy == Init => TidyInv
<1>. SUFFICES ASSUME Init PROVE TidyInv
  OBVIOUS
<1>1. made = <<>> /\ cur = Idle
  BY DEF Init
<1>2. DOMAIN made = {}
  BY <1>1
<1>. QED
  BY <1>1, <1>2 DEF TidyInv, MadeTidy, Range, CurTidy, Idle

\* Every step preserves it.
LEMMA NextTidy == IndInv /\ TidyInv /\ [Next]_vars => TidyInv'
<1>. SUFFICES ASSUME IndInv, TidyInv, [Next]_vars PROVE TidyInv'
  OBVIOUS
<1>1. CASE \E u \in {P.unit[o] : o \in Objs(P)} : RegisterUnit(u)
  BY <1>1, RegisterTidy
<1>2. CASE \E o \in P.asked, b \in P.bytes, d \in P.dumps : \E args \in Lists(P.takes[o]) :
             Compile(o, args, b, d)
  <2>1. PICK o, b, d, args : Compile(o, args, b, d)
    BY <1>2
  <2>. QED
    BY <2>1, CompileTidy
<1>3. CASE ResolveNext
  BY <1>3, ResolveNextTidy
<1>4. CASE EmitCodes
  BY <1>4, EmitTidy
<1>5. CASE InlinePointer
  BY <1>5, PointerTidy
<1>6. CASE InlineModule
  BY <1>6, ModuleTidy
<1>7. CASE CreateWrapperFun
  BY <1>7, WrapperTidy
<1>8. CASE TargetErased
  BY <1>8, EndTidy DEF TargetErased, LoseMeaning
<1>9. CASE CompileAndWrap
  BY <1>9, WrapTidies
<1>10. CASE DumpThrows
  BY <1>10, EndTidy DEF DumpThrows, Unwind, LoseMeaning
<1>11. CASE EngineThrows
  BY <1>11, EndTidy DEF EngineThrows, Unwind, LoseMeaning
<1>12. CASE \E f \in DOMAIN made : Serialize(f) \/ Deserialize(f)
  <2>1. PICK f \in DOMAIN made : Serialize(f) \/ Deserialize(f)
    BY <1>12
  <2>2. CASE Serialize(f)
    BY <2>2, EndTidy DEF Serialize
  <2>. QED
    BY <2>1, <2>2, ReviveTidy
<1>13. CASE DeserializeForeign
  BY <1>13, EndTidy DEF DeserializeForeign
<1>14. CASE UNCHANGED vars
  <2>1. UNCHANGED <<P, functions, byName, made>> /\ cur' = cur
    BY <1>14 DEF vars
  <2>2. PICK d : d = cur
    OBVIOUS
  <2>3. CurTidy(d)
    BY <2>2 DEF TidyInv
  <2>. QED
    BY <2>1, <2>2, <2>3, TidyBecomes DEF IndInv
<1>. QED
  BY <1>1, <1>2, <1>3, <1>4, <1>5, <1>6, <1>7, <1>8, <1>9, <1>10, <1>11, <1>12, <1>13, <1>14 DEF Next

\* The modules are always tidy.
THEOREM Tidiness == Spec => []TidyInv
<1>1. Init => IndInv /\ TidyInv
  BY InitInd, InitTidy
<1>2. IndInv /\ TidyInv /\ [Next]_vars => (IndInv /\ TidyInv)'
  BY NextInd, NextTidy
<1>. QED
  BY <1>1, <1>2, PTL DEF Spec

---------------------------------------------------------------------------
(* The theorems.                                                           *)

\* The wrappers of a made function are those of requests that were made.
LEMMA WrapperMade ==
    ASSUME MadeTidy, NEW f \in DOMAIN made, NEW M, M = made[f].mod, NEW w \in Wrappers(M)
    PROVE  /\ M[w].of \in MadeThings /\ made[M[w].of.n].thing = M[w].of
           /\ \E r \in M[w].refs : CalleeIs(M, w, r)
<1>1. PICK F : F = made[f]
  OBVIOUS
<1>2. FunctionTidy(F)
  BY <1>1 DEF MadeTidy, Range
<1>3. M[w].of \in MadeThings /\ \E r \in M[w].refs : CalleeIs(M, w, r)
  BY <1>1, <1>2 DEF FunctionTidy, Tidy, Wraps
<1>. QED
  BY <1>3, MadeNumber

\* AllUndisturbed says that they are good.
LEMMA AllCalm ==
    ASSUME MadeTidy, NEW f \in DOMAIN made, NEW M, M = made[f].mod, AllUndisturbed(M)
    PROVE  AllIn(M, Calm)
<1>. SUFFICES ASSUME NEW w \in Wrappers(M) PROVE M[w].of \in Calm
  BY DEF AllIn
<1>1. PICK th : th = M[w].of
  OBVIOUS
<1>2. th \in MadeThings /\ made[th.n].thing = th
  BY <1>1, WrapperMade
<1>3. Undisturbed(made[th.n].thing.obj, made[th.n].args)
  BY <1>1 DEF AllUndisturbed
<1>. QED
  BY <1>1, <1>2, <1>3 DEF Calm

\* Everything the code of a function refers to is found, if it uses local
\* variables only of the unit whose globals are mapped, and neither its
\* request nor one composed into it has linked its function again.
THEOREM AllBoundCorrect == Spec => []AllBound
<1>1. ASSUME IndInv, BindInv, TidyInv PROVE AllBound
  <2>. SUFFICES ASSUME BoundApart, NEW f \in DOMAIN made, AllUndisturbed(made[f].mod),
                       \A q \in Refs(f) : q.want.obj \in P.vars \cap P.local => P.unit[q.want.obj] = made[f].globals,
                       NEW r \in Refs(f)
                PROVE  Means(f, r.at) = r.want
    BY DEF AllBound
  <2>1. PICK M, u : M = made[f].mod /\ u = made[f].globals
    OBVIOUS
  <2>2. M \in ModulesOf(P) /\ r.at \in DOMAIN M /\ M[r.at].of = r.want /\ Origins(M)
    BY <1>1, <2>1, RefFacts
  <2>3. ProgOK /\ NamesApart /\ MadeTidy
    BY <1>1 DEF IndInv, BoundApart, TidyInv
  <2>4. AllIn(M, Calm)
    BY <2>1, <2>3, AllCalm
  <2>5. Declared(M)
    <3>1. FunctionTidy(made[f])
      BY <2>3 DEF MadeTidy, Range
    <3>. QED
      BY <2>1, <2>4, <3>1 DEF FunctionTidy, Tidy
  <2>6. PICK i \in DOMAIN M : i = r.at
    BY <2>2
  <2>7. CASE M[i].def
    <3>1. Means(f, i) = M[i].of
      BY <2>1, <2>2, <2>3, <2>7, MeansFacts
    <3>. QED
      BY <2>2, <2>6, <3>1
  <2>8. CASE ~M[i].def
    <3>1. M[i].ext /\ Origin(M[i])
      BY <2>2, <2>5, <2>8 DEF Declared, Origins
    <3>2. PICK o : o = M[i].of.obj
      OBVIOUS
    <3>3. o = r.want.obj
      BY <2>2, <2>6, <3>2
    <3>4. o \in P.local => o \in P.vars
      BY <2>8, <3>1, <3>2 DEF Origin
    <3>5. o \in P.local => P.unit[o] = u
      BY <2>1, <3>3, <3>4
    <3>6. o \in P.local => o \in Globals(u)
      BY <3>4, <3>5 DEF Globals
    <3>7. Means(f, i) = M[i].of
      BY <2>1, <2>2, <2>3, <3>1, <3>2, <3>6, MeansFacts
    <3>. QED
      BY <2>2, <2>6, <3>7
  <2>. QED
    BY <2>7, <2>8
<1>. QED
  BY <1>1, Binding, Tidiness, PTL

\* The bytes of a request replace the placeholders of the function it
\* specialises and no others, also in functions composed of several.
THEOREM StubsCorrect == Spec => []StubsExact
<1>1. ASSUME IndInv, TidyInv PROVE StubsExact
  <2>. SUFFICES ASSUME NEW f \in DOMAIN made, NEW M, M = made[f].mod,
                       NEW callees, callees = {Callee(M, w).at : w \in Wrappers(M)},
                       AllUndisturbed(M), \A w \in Wrappers(M) : OwnModule(M[w].of.obj)
                PROVE  /\ \A w \in Wrappers(M) : M[w].of.obj \in P.stub =>
                            M[Callee(M, w).at].asm = made[M[w].of.n].bytes
                       /\ \A i \in DOMAIN M \ callees :
                            M[i].of.n = 0 /\ M[i].of.obj \in P.stub => M[i].asm = "nop"
    BY DEF StubsExact
  <2>1. MadeTidy
    BY <1>1 DEF TidyInv
  <2>2. AllIn(M, Calm)
    BY <2>1, AllCalm
  <2>3. AllIn(M, Calm \cap Own)
    <3>. SUFFICES ASSUME NEW w \in Wrappers(M) PROVE M[w].of \in Own
      BY <2>2 DEF AllIn
    <3>1. M[w].of \in MadeThings
      BY <2>1, WrapperMade
    <3>. QED
      BY <3>1 DEF Own
  <2>4. Filled(M, NoBytes) /\ Untouched(M, 0)
    <3>1. FunctionTidy(made[f])
      BY <2>1 DEF MadeTidy, Range
    <3>. QED
      BY <2>3, <3>1 DEF FunctionTidy, Tidy
  <2>5. ASSUME NEW w \in Wrappers(M)
        PROVE  CalleeIs(M, w, Callee(M, w)) /\ BytesOf(M[w].of.n, NoBytes) = made[M[w].of.n].bytes
    <3>1. M[w].of \in MadeThings /\ \E r \in M[w].refs : CalleeIs(M, w, r)
      BY <2>1, WrapperMade
    <3>2. PICK r \in M[w].refs : CalleeIs(M, w, r)
      BY <3>1
    <3>3. Callee(M, w) = r
      BY <3>2 DEF Callee, CalleeIs
    <3>4. M[w].of.n \in DOMAIN made
      BY <3>1, MadeNumber
    <3>. QED
      BY <3>2, <3>3, <3>4 DEF BytesOf
  <2>6. ASSUME NEW w \in Wrappers(M), M[w].of.obj \in P.stub
        PROVE  M[Callee(M, w).at].asm = made[M[w].of.n].bytes
    <3>1. Callee(M, w) \in M[w].refs
      BY <2>5 DEF CalleeIs
    <3>. QED
      BY <2>4, <2>5, <2>6, <3>1 DEF Filled
  <2>7. ASSUME NEW i \in DOMAIN M \ callees, M[i].of.n = 0, M[i].of.obj \in P.stub
        PROVE  M[i].asm = "nop"
    <3>1. i \notin Called(M)
      <4>. SUFFICES ASSUME NEW w \in Wrappers(M), NEW r \in M[w].refs, CalleeIs(M, w, r), r.at = i
                    PROVE  FALSE
        BY DEF Called
      <4>1. r = Callee(M, w)
        BY <2>5 DEF CalleeIs
      <4>. QED
        BY <4>1
    <3>2. M \in ModulesOf(P)
      <4>1. made \in Seq(MadeRecords(P))
        BY <1>1 DEF IndInv, MadeInv
      <4>2. PICK F \in MadeRecords(P) : F = made[f]
        BY <4>1
      <4>. QED
        BY <4>2 DEF MadeRecords
    <3>3. i # 0
      BY <3>2, SymbolFacts
    <3>. QED
      BY <2>4, <2>7, <3>1, <3>3 DEF Untouched
  <2>. QED
    BY <2>6, <2>7
<1>. QED
  BY <1>1, Inductive, Tidiness, PTL
===========================================================================
