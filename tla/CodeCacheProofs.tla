-------------------------- MODULE CodeCacheProofs --------------------------
(***************************************************************************)
(* Proofs about CodeCache, for any functions, scalars, addresses and       *)
(* number of compilations, for programs that keep alive the functions      *)
(* their cached keys refer to (DropReferenced false).                      *)
(***************************************************************************)
EXTENDS CodeCache, TLAPS

\* The bounds on what is compiled and emplaced.
Bounds == Len(meaning) <= MaxCompiles /\ Len(entries) <= MaxCompiles

\* A compilation lives at one address.
HeapInjective ==
    \A a, b \in Addrs : heap[a] # Null /\ heap[a] = heap[b] => a = b

\* The program owns functions that exist.
ClientsLive == \A a \in clients : heap[a] # Null

\* A key that names a function names the one it named when it was emplaced.
KeyAlive(x) ==
    x.key.arg.kind = "mod" => heap[x.key.arg.at] # Null /\ x.was = heap[x.key.arg.at]

\* A filled entry owns code for its key.
Filled(x) ==
    x.addr # Null => /\ heap[x.addr] # Null
                     /\ x.addr \notin clients
                     /\ meaning[heap[x.addr]] = MeaningOf(x.key)

\* An entry is empty while it is being compiled, or since that threw.
EntriesInv ==
    \A e \in DOMAIN entries :
        /\ KeyAlive(entries[e])
        /\ Filled(entries[e])
        /\ entries[e].addr = Null => e \in threw \/ Pending(e)

\* No two entries have equal keys.
KeysDistinct ==
    \A e, f \in DOMAIN entries :
        e # f => ~SameKey(entries[e].key, entries[f].key)

\* What the call in progress knows of its entry.
CurInv ==
    cur # Idle =>
        /\ Live(cur.req)
        /\ cur.fresh => cur.req = entries[cur.e].key
        /\ ~cur.fresh => cur.pc = "emplaced" /\ SameKey(entries[cur.e].key, cur.req)
        /\ cur.pc = "ready" => entries[cur.e].addr # Null
        /\ Pending(cur.e) => entries[cur.e].addr = Null

\* What was returned was compiled for the request or for an equal one.
ResultInv ==
    result # NoResult =>
        IF result.serial = Null
        THEN result.e \in threw
        ELSE /\ result.serial \in 1 .. Len(meaning)
             /\ \/ meaning[result.serial] = result.asked
                \/ Equivalent(meaning[result.serial], result.asked)

IndInv ==
    /\ TypeOK /\ Bounds /\ HeapInjective /\ ClientsLive
    /\ EntriesInv /\ KeysDistinct /\ CurInv /\ ResultInv

\* What a request is made of.
LEMMA RequestParts ==
    ASSUME NEW r \in Requests
    PROVE  /\ r.fun \in Funs
           /\ r.arg.kind \in {"val", "mod"}
           /\ r.arg.kind = "val" => r.arg \in [kind : {"val"}, v : Scalars]
           /\ r.arg.kind = "mod" => r.arg.at \in Addrs
  BY DEF Requests

\* The meaning of a live request is a meaning.
LEMMA MeaningType ==
    ASSUME TypeOK, Bounds, NEW r \in Requests, Live(r)
    PROVE  MeaningOf(r) \in Meanings
<1>1. CASE r.arg.kind = "val"
  BY <1>1, RequestParts DEF MeaningOf, Meanings
<1>2. CASE r.arg.kind = "mod"
  <2>1. r.arg.at \in Addrs /\ r.fun \in Funs
    BY <1>2, RequestParts
  <2>2. Len(meaning) \in Nat
    BY DEF TypeOK
  <2>3. heap[r.arg.at] \in 1 .. MaxCompiles
    BY <1>2, <2>1, <2>2, CacheAssumption DEF TypeOK, Bounds, Live, Null
  <2>. QED
    BY <1>2, <2>1, <2>3 DEF MeaningOf, Meanings
<1>. QED
  BY <1>1, <1>2, RequestParts

\* Keys that compare equal mean the same up to the == of scalars.
LEMMA SameKeyEquivalent ==
    ASSUME NEW r \in Requests, NEW q \in Requests, SameKey(r, q)
    PROVE  Equivalent(MeaningOf(r), MeaningOf(q))
  BY RequestParts DEF SameKey, Equivalent, MeaningOf

\* What a request compares equal to by meaning it compares equal to by key:
\* live functions at two addresses are two functions.
LEMMA EquivalentSameKey ==
    ASSUME IndInv, NEW r \in Requests, NEW q \in Requests, Live(r), Live(q),
           Equivalent(MeaningOf(r), MeaningOf(q))
    PROVE  SameKey(r, q)
<1>1. r.fun = q.fun
  BY DEF Equivalent, MeaningOf
<1>2. CASE r.arg.kind = "val"
  <2>1. MeaningOf(r).arg = r.arg
    BY <1>2 DEF MeaningOf
  <2>2. q.arg.kind = "val"
    BY <1>2, <2>1, RequestParts DEF Equivalent, MeaningOf
  <2>3. MeaningOf(q).arg = q.arg
    BY <2>2 DEF MeaningOf
  <2>. QED
    BY <1>1, <1>2, <2>1, <2>2, <2>3 DEF Equivalent, SameKey
<1>3. CASE r.arg.kind = "mod"
  <2>1. MeaningOf(r).arg = [kind |-> "mod", of |-> heap[r.arg.at]]
    BY <1>3 DEF MeaningOf
  <2>2. q.arg.kind = "mod"
    BY <1>3, <2>1, RequestParts DEF Equivalent, MeaningOf
  <2>3. MeaningOf(q).arg = [kind |-> "mod", of |-> heap[q.arg.at]]
    BY <2>2 DEF MeaningOf
  <2>4. heap[r.arg.at] = heap[q.arg.at] /\ heap[r.arg.at] # Null
    BY <1>3, <2>1, <2>3 DEF Equivalent, Live
  <2>5. r.arg.at = q.arg.at
    BY <1>3, <2>2, <2>4, RequestParts DEF IndInv, HeapInjective
  <2>. QED
    BY <1>1, <1>3, <2>2, <2>5 DEF SameKey
<1>. QED
  BY <1>2, <1>3, RequestParts

\* Comparing keys is symmetric.
LEMMA SameKeySymmetric ==
    ASSUME NEW r \in Requests, NEW q \in Requests, SameKey(r, q)
    PROVE  SameKey(q, r)
<1>1. CASE r.arg.kind = "val"
  <2>1. r.arg.v \in Scalars /\ q.arg.v \in Scalars
    BY <1>1, RequestParts DEF SameKey
  <2>. QED
    BY <1>1, <2>1, CacheAssumption DEF SameKey
<1>2. CASE r.arg.kind = "mod"
  BY <1>2 DEF SameKey
<1>. QED
  BY <1>1, <1>2, RequestParts

\* A compilation that changes nothing but a free address keeps the meaning
\* of every live request.
LEMMA MeaningKept ==
    ASSUME TypeOK, NEW r \in Requests, Live(r),
           r.arg.kind = "mod" => heap'[r.arg.at] = heap[r.arg.at]
    PROVE  MeaningOf(r)' = MeaningOf(r)
  BY RequestParts DEF MeaningOf

\* Nothing is compiled or cached yet.
LEMMA InitInd == Init => IndInv
<1>. SUFFICES ASSUME Init PROVE IndInv
  OBVIOUS
<1>1. Len(meaning) = 0 /\ meaning \in Seq(Meanings)
  BY DEF Init
<1>2. Len(entries) = 0 /\ entries \in Seq(Entry) /\ DOMAIN entries = {}
  BY DEF Init
<1>3. TypeOK
  BY <1>1, <1>2 DEF Init, TypeOK, Null
<1>4. Bounds
  BY <1>1, <1>2, CacheAssumption DEF Bounds
<1>5. HeapInjective /\ ClientsLive
  BY DEF Init, HeapInjective, ClientsLive
<1>6. EntriesInv /\ KeysDistinct /\ CurInv /\ ResultInv
  BY <1>2 DEF Init, EntriesInv, KeysDistinct, CurInv, ResultInv
<1>. QED
  BY <1>3, <1>4, <1>5, <1>6 DEF IndInv

\* What Compile does to the heap: one free address is filled with a new
\* compilation, whose meaning is appended.
LEMMA CompileEffect ==
    ASSUME IndInv, NEW r \in Requests, Live(r), NEW a \in Addrs, Compile(r, a)
    PROVE  /\ heap' \in [Addrs -> 0 .. Len(meaning')]
           /\ meaning' \in Seq(Meanings)
           /\ Len(meaning') = Len(meaning) + 1
           /\ Len(meaning') <= MaxCompiles
           /\ heap[a] = Null /\ heap'[a] = Len(meaning) + 1
           /\ meaning'[Len(meaning) + 1] = MeaningOf(r)
           /\ \A b \in Addrs : b # a => heap'[b] = heap[b]
           /\ \A b \in Addrs : heap[b] # Null => heap'[b] = heap[b]
           /\ \A i \in 1 .. Len(meaning) : meaning'[i] = meaning[i]
           /\ HeapInjective' /\ (clients' = clients => ClientsLive')
           /\ (clients' = clients \cup {a} => ClientsLive')
<1>1. Len(meaning) \in Nat /\ meaning \in Seq(Meanings)
  BY DEF IndInv, TypeOK
<1>2. MeaningOf(r) \in Meanings
  BY MeaningType DEF IndInv
<1>3. /\ meaning' \in Seq(Meanings)
      /\ Len(meaning') = Len(meaning) + 1
      /\ meaning'[Len(meaning) + 1] = MeaningOf(r)
      /\ \A i \in 1 .. Len(meaning) : meaning'[i] = meaning[i]
  BY <1>1, <1>2 DEF Compile
<1>4. Len(meaning') <= MaxCompiles
  BY <1>1, <1>3, CacheAssumption DEF Compile
<1>5. heap[a] = Null
  BY DEF Compile, Free
<1>6. heap \in [Addrs -> 0 .. Len(meaning)]
  BY DEF IndInv, TypeOK
<1>7. heap' = [heap EXCEPT ![a] = Len(meaning) + 1]
  BY DEF Compile
<1>8. heap' \in [Addrs -> 0 .. Len(meaning')]
  BY <1>1, <1>3, <1>6, <1>7
<1>9. HeapInjective'
  <2>1. \A b \in Addrs : b # a => heap'[b] # Len(meaning) + 1
    BY <1>1, <1>6, <1>7
  <2>. QED
    BY <1>6, <1>7, <2>1 DEF IndInv, HeapInjective
<1>10. clients' \subseteq clients \cup {a} => ClientsLive'
  <2>1. heap'[a] # Null /\ clients \subseteq Addrs
    BY <1>1, <1>6, <1>7 DEF Null, IndInv, TypeOK
  <2>. QED
    BY <1>5, <1>6, <1>7, <2>1 DEF IndInv, ClientsLive
<1>. QED
  BY <1>3, <1>4, <1>5, <1>6, <1>7, <1>8, <1>9, <1>10

\* What the state is made of, in the form the steps below use.
LEMMA StateParts ==
    ASSUME IndInv
    PROVE  /\ entries \in Seq(Entry) /\ Len(entries) \in Nat
           /\ DOMAIN entries = 1 .. Len(entries)
           /\ Len(meaning) \in Nat
           /\ heap \in [Addrs -> 0 .. Len(meaning)]
           /\ \A e \in DOMAIN entries :
                /\ entries[e].key \in Requests
                /\ entries[e].addr \in Addrs \cup {Null}
           /\ cur # Idle =>
                /\ cur \in [pc : {"emplaced", "ready"}, req : Requests, e : Nat,
                            fresh : BOOLEAN]
                /\ cur.req \in Requests /\ cur.e \in DOMAIN entries
                /\ cur.pc \in {"emplaced", "ready"} /\ cur.fresh \in BOOLEAN
           /\ Null \notin Addrs
<1>1. entries \in Seq(Entry) /\ heap \in [Addrs -> 0 .. Len(meaning)]
  BY DEF IndInv, TypeOK
<1>2. Len(entries) \in Nat /\ DOMAIN entries = 1 .. Len(entries)
  BY <1>1
<1>3. \A e \in DOMAIN entries : entries[e] \in Entry
  BY <1>1
<1>4. \A e \in DOMAIN entries :
        entries[e].key \in Requests /\ entries[e].addr \in Addrs \cup {Null}
  BY <1>3 DEF Entry
<1>5. Len(meaning) \in Nat
  BY DEF IndInv, TypeOK
<1>6. cur # Idle =>
        /\ cur \in [pc : {"emplaced", "ready"}, req : Requests, e : Nat, fresh : BOOLEAN]
        /\ cur.e \in DOMAIN entries
  BY DEF IndInv, TypeOK
<1>. QED
  BY <1>1, <1>2, <1>4, <1>5, <1>6, CacheAssumption DEF Null

\* An entry survives a step that keeps it, the addresses it depends on and
\* the meanings, whoever else is compiled or destroyed.
LEMMA EntrySurvives ==
    ASSUME IndInv, NEW e \in DOMAIN entries,
           entries'[e] = entries[e],
           entries[e].key.arg.kind = "mod"
             => heap'[entries[e].key.arg.at] = heap[entries[e].key.arg.at],
           entries[e].addr # Null => /\ heap'[entries[e].addr] = heap[entries[e].addr]
                                     /\ entries[e].addr \notin clients',
           \A i \in 1 .. Len(meaning) : meaning'[i] = meaning[i]
    PROVE  KeyAlive(entries[e])' /\ Filled(entries[e])'
<1>. DEFINE x == entries[e]
<1>1. KeyAlive(x) /\ Filled(x)
  BY DEF IndInv, EntriesInv
<1>2. x.key \in Requests /\ x.addr \in Addrs \cup {Null}
  BY StateParts
<1>3. KeyAlive(entries[e])'
  BY <1>1 DEF KeyAlive
<1>4. MeaningOf(x.key)' = MeaningOf(x.key)
  BY <1>2, RequestParts DEF MeaningOf
<1>5. ASSUME x.addr # Null
      PROVE  /\ heap'[x.addr] # Null
             /\ x.addr \notin clients'
             /\ meaning'[heap'[x.addr]] = MeaningOf(x.key)'
  <2>1. heap[x.addr] # Null /\ meaning[heap[x.addr]] = MeaningOf(x.key)
    BY <1>1, <1>5 DEF Filled
  <2>2. heap[x.addr] \in 1 .. Len(meaning)
    BY <1>2, <1>5, <2>1, StateParts DEF Null
  <2>. QED
    BY <1>4, <1>5, <2>1, <2>2
<1>6. Filled(entries[e])'
  BY <1>5 DEF Filled, MeaningOf
<1>. QED
  BY <1>3, <1>6

\* Appending meanings does not change what was returned.
LEMMA ResultSurvives ==
    ASSUME IndInv, result' = result, threw \subseteq threw',
           Len(meaning') \in Nat, Len(meaning) <= Len(meaning'),
           \A i \in 1 .. Len(meaning) : meaning'[i] = meaning[i]
    PROVE  ResultInv'
<1>. SUFFICES ASSUME result # NoResult, result.serial # Null
              PROVE  /\ result.serial \in 1 .. Len(meaning')
                     /\ \/ meaning'[result.serial] = result.asked
                        \/ Equivalent(meaning'[result.serial], result.asked)
  BY DEF IndInv, ResultInv, Equivalent
<1>1. /\ result.serial \in 1 .. Len(meaning)
      /\ \/ meaning[result.serial] = result.asked
         \/ Equivalent(meaning[result.serial], result.asked)
  BY DEF IndInv, ResultInv
<1>. QED
  BY <1>1, StateParts

\* A compilation outside the cache takes a free address.
LEMMA ClientJitKeeps ==
    ASSUME IndInv, NEW r \in Requests, NEW a \in Addrs, ClientJit(r, a)
    PROVE  IndInv'
<1>0. /\ cur = Idle /\ Live(r) /\ Compile(r, a) /\ clients' = clients \cup {a}
      /\ entries' = entries /\ cur' = cur /\ result' = result /\ threw' = threw
  BY DEF ClientJit
<1>1. /\ heap' \in [Addrs -> 0 .. Len(meaning')]
      /\ meaning' \in Seq(Meanings)
      /\ Len(meaning') = Len(meaning) + 1
      /\ Len(meaning') <= MaxCompiles
      /\ heap[a] = Null
      /\ \A b \in Addrs : heap[b] # Null => heap'[b] = heap[b]
      /\ \A i \in 1 .. Len(meaning) : meaning'[i] = meaning[i]
      /\ HeapInjective' /\ ClientsLive'
  BY <1>0, CompileEffect
<1>2. TypeOK' /\ Bounds'
  BY <1>0, <1>1 DEF IndInv, TypeOK, Bounds
<1>3. EntriesInv'
  <2>. SUFFICES ASSUME NEW e \in DOMAIN entries
                PROVE  /\ KeyAlive(entries[e])' /\ Filled(entries[e])'
                       /\ entries[e].addr = Null => e \in threw
    BY <1>0 DEF EntriesInv
  <2>1. KeyAlive(entries[e]) /\ Filled(entries[e])
    BY DEF IndInv, EntriesInv
  <2>2. entries[e].key.arg.kind = "mod"
          => heap'[entries[e].key.arg.at] = heap[entries[e].key.arg.at]
    BY <1>1, <2>1, StateParts, RequestParts DEF KeyAlive
  <2>3. entries[e].addr # Null => /\ heap'[entries[e].addr] = heap[entries[e].addr]
                                  /\ entries[e].addr \notin clients'
    BY <1>0, <1>1, <2>1, StateParts DEF Filled
  <2>4. entries[e].addr = Null => e \in threw
    BY <1>0 DEF IndInv, EntriesInv, Pending
  <2>. QED
    BY <1>0, <1>1, <2>2, <2>3, <2>4, EntrySurvives
<1>4. KeysDistinct' /\ CurInv'
  BY <1>0 DEF IndInv, KeysDistinct, CurInv, SameKey
<1>5. ResultInv'
  BY <1>0, <1>1, ResultSurvives, StateParts
<1>. QED
  BY <1>1, <1>2, <1>3, <1>4, <1>5 DEF IndInv

\* What is destroyed belongs to no entry and is named by no key.
LEMMA ClientDropKeeps ==
    ASSUME IndInv, ~DropReferenced, NEW a \in Addrs, ClientDrop(a)
    PROVE  IndInv'
<1>0. /\ cur = Idle /\ a \in clients /\ ~Referenced(a) /\ clients' = clients \ {a}
      /\ heap' = [heap EXCEPT ![a] = Null] /\ meaning' = meaning
      /\ entries' = entries /\ cur' = cur /\ result' = result /\ threw' = threw
  BY DEF ClientDrop
<1>1. heap' \in [Addrs -> 0 .. Len(meaning)] /\ \A b \in Addrs : b # a => heap'[b] = heap[b]
  BY <1>0, StateParts DEF Null
<1>2. TypeOK' /\ Bounds'
  BY <1>0, <1>1 DEF IndInv, TypeOK, Bounds
<1>3. HeapInjective' /\ ClientsLive'
  <2>1. clients \subseteq Addrs
    BY DEF IndInv, TypeOK
  <2>. QED
    BY <1>0, <1>1, <2>1, StateParts DEF IndInv, HeapInjective, ClientsLive
<1>4. EntriesInv'
  <2>. SUFFICES ASSUME NEW e \in DOMAIN entries
                PROVE  /\ KeyAlive(entries[e])' /\ Filled(entries[e])'
                       /\ entries[e].addr = Null => e \in threw
    BY <1>0 DEF EntriesInv
  <2>1. entries[e].key.arg.kind = "mod"
          => heap'[entries[e].key.arg.at] = heap[entries[e].key.arg.at]
    BY <1>0, <1>1, StateParts, RequestParts DEF Referenced
  <2>2. entries[e].addr # Null => /\ heap'[entries[e].addr] = heap[entries[e].addr]
                                  /\ entries[e].addr \notin clients'
    BY <1>0, <1>1, StateParts DEF IndInv, EntriesInv, Filled
  <2>3. entries[e].addr = Null => e \in threw
    BY <1>0 DEF IndInv, EntriesInv, Pending
  <2>. QED
    BY <1>0, <2>1, <2>2, <2>3, EntrySurvives
<1>5. KeysDistinct' /\ CurInv' /\ ResultInv'
  BY <1>0 DEF IndInv, KeysDistinct, CurInv, ResultInv, SameKey, Equivalent
<1>. QED
  BY <1>2, <1>3, <1>4, <1>5 DEF IndInv

\* A hit finds an entry whose key compares equal to the request.
LEMMA EmplaceHitKeeps ==
    ASSUME IndInv, NEW r \in Requests, EmplaceHit(r)
    PROVE  IndInv'
<1>1. PICK e \in Matching(r) :
        cur' = [pc |-> "emplaced", req |-> r, e |-> e, fresh |-> FALSE]
  BY DEF EmplaceHit
<1>2. /\ cur = Idle /\ Live(r) /\ heap' = heap /\ meaning' = meaning /\ clients' = clients
      /\ entries' = entries /\ result' = result /\ threw' = threw
  BY DEF EmplaceHit
<1>3. e \in DOMAIN entries /\ SameKey(entries[e].key, r)
  BY DEF Matching
<1>4. e \in Nat
  BY <1>3, StateParts
<1>5. TypeOK' /\ Bounds' /\ HeapInjective' /\ ClientsLive'
  BY <1>1, <1>2, <1>3, <1>4 DEF IndInv, TypeOK, Bounds, HeapInjective, ClientsLive
<1>6. EntriesInv'
  BY <1>1, <1>2 DEF IndInv, EntriesInv, KeyAlive, Filled, Pending, MeaningOf
<1>7. CurInv'
  BY <1>1, <1>2, <1>3 DEF CurInv, Live, SameKey, Pending
<1>8. KeysDistinct' /\ ResultInv'
  BY <1>2 DEF IndInv, KeysDistinct, ResultInv, SameKey, Equivalent
<1>. QED
  BY <1>5, <1>6, <1>7, <1>8 DEF IndInv

\* A miss appends an entry: no key has moved, so no entry has an equal key.
LEMMA EmplaceMissKeeps ==
    ASSUME IndInv, NEW r \in Requests, EmplaceMiss(r)
    PROVE  IndInv'
<1>a. PICK n \in Nat : n = Len(entries) + 1
  BY StateParts
<1>b. PICK x \in Entry : x = NewEntry(r)
  <2>1. NewEntry(r).was \in 0 .. MaxCompiles
    BY StateParts, RequestParts, CacheAssumption DEF NewEntry, IndInv, Bounds, Null
  <2>. QED
    BY <2>1 DEF Entry, NewEntry
<1>1. /\ cur = Idle /\ Live(r) /\ heap' = heap /\ meaning' = meaning /\ clients' = clients
      /\ result' = result /\ threw' = threw /\ entries' = Append(entries, x)
      /\ cur' = [pc |-> "emplaced", req |-> r, e |-> n, fresh |-> TRUE]
      /\ Len(entries) < MaxCompiles /\ \A e \in Matching(r) : Moved(e)
  BY <1>a, <1>b DEF EmplaceMiss
<1>2. /\ x.key = r /\ x.addr = Null
      /\ r.arg.kind = "mod" => x.was = heap[r.arg.at] /\ heap[r.arg.at] # Null
  BY <1>1, <1>b DEF NewEntry, Live
<1>4. /\ entries' \in Seq(Entry) /\ Len(entries') = n /\ DOMAIN entries' = 1 .. n
      /\ entries'[n] = x
      /\ \A e \in DOMAIN entries : entries'[e] = entries[e]
  BY <1>1, <1>a, StateParts
<1>5. n \notin DOMAIN entries /\ DOMAIN entries' = DOMAIN entries \cup {n}
  BY <1>4, <1>a, StateParts
<1>6. \A e \in DOMAIN entries : ~SameKey(entries[e].key, r) /\ ~SameKey(r, entries[e].key)
  <2>. SUFFICES ASSUME NEW e \in DOMAIN entries, SameKey(entries[e].key, r)
                PROVE  FALSE
    BY StateParts, SameKeySymmetric
  <2>1. Moved(e)
    BY <1>1 DEF Matching
  <2>2. KeyAlive(entries[e])
    BY DEF IndInv, EntriesInv
  <2>. QED
    BY <2>1, <2>2 DEF Moved, KeyAlive
<1>7. TypeOK'
  <2>1. cur' \in [pc : {"emplaced", "ready"}, req : Requests, e : Nat, fresh : BOOLEAN]
    BY <1>1, <1>5
  <2>2. cur'.e \in DOMAIN entries' /\ threw' \subseteq DOMAIN entries'
    BY <1>1, <1>5 DEF IndInv, TypeOK
  <2>. QED
    BY <1>1, <1>4, <2>1, <2>2 DEF IndInv, TypeOK
<1>8. Bounds' /\ HeapInjective' /\ ClientsLive'
  BY <1>1, <1>4, StateParts, CacheAssumption DEF IndInv, Bounds, HeapInjective, ClientsLive
<1>9. EntriesInv'
  <2>1. ASSUME NEW e \in DOMAIN entries
        PROVE  /\ KeyAlive(entries[e])' /\ Filled(entries[e])'
               /\ entries'[e].addr = Null => e \in threw'
    <3>1. KeyAlive(entries[e]) /\ Filled(entries[e]) /\ entries'[e] = entries[e]
      BY <1>4 DEF IndInv, EntriesInv
    <3>2. entries[e].addr = Null => e \in threw
      BY <1>1 DEF IndInv, EntriesInv, Pending
    <3>3. KeyAlive(entries[e])' /\ Filled(entries[e])'
      BY <1>1, <3>1, EntrySurvives DEF Filled
    <3>. QED
      BY <1>1, <3>1, <3>2, <3>3
  <2>2. KeyAlive(entries[n])' /\ Filled(entries[n])'
    BY <1>1, <1>2, <1>4 DEF KeyAlive, Filled
  <2>3. Pending(n)'
    BY <1>1 DEF Pending, Idle
  <2>. QED
    BY <1>5, <2>1, <2>2, <2>3 DEF EntriesInv
<1>10. KeysDistinct'
  <2>1. entries'[n].key = r /\ \A e \in DOMAIN entries : entries'[e].key = entries[e].key
    BY <1>2, <1>4
  <2>2. \A e, f \in DOMAIN entries' :
          e # f => ~SameKey(entries'[e].key, entries'[f].key)
    <3>. SUFFICES ASSUME NEW e \in DOMAIN entries', NEW f \in DOMAIN entries', e # f
                  PROVE  ~SameKey(entries'[e].key, entries'[f].key)
      OBVIOUS
    <3>1. CASE e = n
      BY <1>5, <1>6, <2>1, <3>1
    <3>2. CASE f = n
      BY <1>5, <1>6, <2>1, <3>2
    <3>3. CASE e # n /\ f # n
      BY <1>5, <2>1, <3>3 DEF IndInv, KeysDistinct
    <3>. QED
      BY <3>1, <3>2, <3>3
  <2>. QED
    BY <2>2 DEF KeysDistinct, SameKey
<1>11. CurInv'
  BY <1>1, <1>2, <1>4 DEF CurInv, Live, Pending
<1>12. ResultInv'
  BY <1>1 DEF IndInv, ResultInv, Equivalent
<1>. QED
  BY <1>7, <1>8, <1>9, <1>10, <1>11, <1>12 DEF IndInv

\* The fresh entry receives code compiled for its own key.
LEMMA CompileEntryKeeps ==
    ASSUME IndInv, NEW a \in Addrs, CompileEntry(a)
    PROVE  IndInv'
<1>a. PICK c \in DOMAIN entries, q \in Requests : c = cur.e /\ q = cur.req
  BY StateParts DEF CompileEntry
<1>0. /\ cur # Idle /\ cur.pc = "emplaced" /\ cur.fresh /\ Compile(q, a)
      /\ entries' = [entries EXCEPT ![c].addr = a]
      /\ cur' = [cur EXCEPT !.pc = "ready"]
      /\ clients' = clients /\ result' = result /\ threw' = threw
  BY <1>a DEF CompileEntry
<1>1. Live(q) /\ entries[c].key = q /\ entries[c].addr = Null
  BY <1>a, <1>0, StateParts DEF IndInv, CurInv, Pending
<1>2. /\ heap' \in [Addrs -> 0 .. Len(meaning')]
      /\ meaning' \in Seq(Meanings)
      /\ Len(meaning') = Len(meaning) + 1
      /\ Len(meaning') <= MaxCompiles
      /\ heap[a] = Null /\ heap'[a] = Len(meaning) + 1
      /\ meaning'[Len(meaning) + 1] = MeaningOf(q)
      /\ \A b \in Addrs : heap[b] # Null => heap'[b] = heap[b]
      /\ \A i \in 1 .. Len(meaning) : meaning'[i] = meaning[i]
      /\ HeapInjective' /\ ClientsLive'
  BY <1>0, <1>1, CompileEffect
<1>3. /\ DOMAIN entries' = DOMAIN entries /\ Len(entries') = Len(entries)
      /\ entries'[c] = [entries[c] EXCEPT !.addr = a]
      /\ \A e \in DOMAIN entries : e # c => entries'[e] = entries[e]
  BY <1>0, <1>1, StateParts
<1>4. /\ entries'[c] \in Entry
      /\ entries'[c].key = q /\ entries'[c].addr = a
      /\ entries'[c].was = entries[c].was
  <2>1. entries[c] \in Entry
    BY <1>1, StateParts
  <2>. QED
    BY <1>1, <1>3, <2>1 DEF Entry
<1>5. entries' \in Seq(Entry)
  BY <1>0, <1>1, <1>3, <1>4, StateParts
<1>6. /\ cur' # Idle /\ cur'.req = q /\ cur'.e = c /\ cur'.fresh
      /\ cur'.pc = "ready"
      /\ cur' \in [pc : {"emplaced", "ready"}, req : Requests, e : Nat, fresh : BOOLEAN]
  <2>1. cur \in [pc : {"emplaced", "ready"}, req : Requests, e : Nat, fresh : BOOLEAN]
    BY <1>0, StateParts
  <2>. QED
    BY <1>a, <1>0, <2>1 DEF Idle
<1>7. TypeOK' /\ Bounds'
  BY <1>0, <1>1, <1>2, <1>3, <1>5, <1>6 DEF IndInv, TypeOK, Bounds
<1>8. \A r \in Requests : r.arg.kind = "mod" /\ heap[r.arg.at] # Null
                            => heap'[r.arg.at] = heap[r.arg.at]
  BY <1>2, RequestParts
<1>9. EntriesInv'
  <2>1. ASSUME NEW e \in DOMAIN entries, e # c
        PROVE  /\ KeyAlive(entries[e])' /\ Filled(entries[e])'
               /\ entries'[e].addr = Null => e \in threw'
    <3>1. KeyAlive(entries[e]) /\ Filled(entries[e])
      BY DEF IndInv, EntriesInv
    <3>2. entries[e].key.arg.kind = "mod"
            => heap'[entries[e].key.arg.at] = heap[entries[e].key.arg.at]
      BY <1>8, <3>1, StateParts DEF KeyAlive
    <3>3. entries[e].addr # Null => /\ heap'[entries[e].addr] = heap[entries[e].addr]
                                    /\ entries[e].addr \notin clients'
      BY <1>0, <1>2, <3>1, StateParts DEF Filled
    <3>4. entries[e].addr = Null => e \in threw
      BY <1>a, <2>1 DEF IndInv, EntriesInv, Pending
    <3>. QED
      BY <1>0, <1>2, <1>3, <2>1, <3>2, <3>3, <3>4, EntrySurvives
  <2>2. KeyAlive(entries[c])'
    BY <1>1, <1>4, <1>8 DEF IndInv, EntriesInv, KeyAlive
  <2>4. /\ heap'[a] # Null /\ a \notin clients'
        /\ meaning'[heap'[a]] = MeaningOf(q)'
    <3>1. Len(meaning) + 1 # Null
      BY StateParts DEF Null
    <3>2. a \notin clients
      BY <1>0, <1>2 DEF IndInv, ClientsLive
    <3>3. q.arg.kind = "mod" => heap'[q.arg.at] = heap[q.arg.at]
      BY <1>1, <1>8 DEF Live
    <3>4. MeaningOf(q)' = MeaningOf(q)
      BY <3>3, RequestParts DEF MeaningOf
    <3>. QED
      BY <1>0, <1>2, <3>1, <3>2, <3>4
  <2>5. Filled(entries[c])'
    BY <1>4, <2>4 DEF Filled, MeaningOf
  <2>6. entries'[c].addr # Null
    BY <1>4, StateParts
  <2>. QED
    BY <1>3, <2>1, <2>2, <2>5, <2>6 DEF EntriesInv
<1>10. KeysDistinct'
  <2>1. \A e \in DOMAIN entries : entries'[e].key = entries[e].key
    BY <1>1, <1>3, <1>4
  <2>. QED
    BY <1>3, <2>1 DEF IndInv, KeysDistinct, SameKey
<1>11. CurInv'
  <2>1. Live(q)'
    BY <1>1, <1>8 DEF Live
  <2>2. entries'[c].addr # Null
    BY <1>4, StateParts
  <2>. QED
    BY <1>4, <1>6, <2>1, <2>2 DEF CurInv, Live, Pending
<1>12. ResultInv'
  BY <1>0, <1>2, ResultSurvives, StateParts
<1>. QED
  BY <1>2, <1>7, <1>9, <1>10, <1>11, <1>12 DEF IndInv

\* An exception leaves the entry empty, and known to be so.
LEMMA CompileThrowsKeeps ==
    ASSUME IndInv, CompileThrows
    PROVE  IndInv'
<1>1. /\ cur # Idle /\ cur' = Idle /\ result' = NoResult /\ threw' = threw \cup {cur.e}
      /\ heap' = heap /\ meaning' = meaning /\ clients' = clients /\ entries' = entries
  BY DEF CompileThrows
<1>2. TypeOK' /\ Bounds' /\ HeapInjective' /\ ClientsLive'
  BY <1>1, StateParts DEF IndInv, TypeOK, Bounds, HeapInjective, ClientsLive
<1>3. EntriesInv'
  BY <1>1 DEF IndInv, EntriesInv, KeyAlive, Filled, Pending, MeaningOf
<1>4. KeysDistinct' /\ CurInv' /\ ResultInv'
  BY <1>1 DEF IndInv, KeysDistinct, CurInv, ResultInv, SameKey
<1>. QED
  BY <1>2, <1>3, <1>4 DEF IndInv

\* What is returned is the entry's code, compiled for a key equal to the
\* request, or an entry that threw.
LEMMA ReturnEntryKeeps ==
    ASSUME IndInv, ReturnEntry
    PROVE  IndInv'
<1>. DEFINE x == entries[cur.e]
            s == IF x.addr = Null THEN Null ELSE heap[x.addr]
<1>1. /\ cur # Idle /\ cur' = Idle /\ threw' = threw
      /\ heap' = heap /\ meaning' = meaning /\ clients' = clients /\ entries' = entries
      /\ result' = [serial |-> s, asked |-> MeaningOf(cur.req), e |-> cur.e]
      /\ cur.pc = "ready" \/ (cur.pc = "emplaced" /\ ~cur.fresh)
  BY DEF ReturnEntry
<1>2. /\ cur.e \in DOMAIN entries /\ cur.req \in Requests /\ x.key \in Requests
      /\ x.addr \in Addrs \cup {Null} /\ Live(cur.req)
  BY <1>1, StateParts DEF IndInv, CurInv
<1>3. KeyAlive(x) /\ Filled(x) /\ (x.addr = Null => cur.e \in threw)
  BY <1>1, <1>2 DEF IndInv, EntriesInv, Pending
<1>4. cur.req = x.key \/ SameKey(x.key, cur.req)
  BY <1>1, StateParts DEF IndInv, CurInv
<1>5. s \in 0 .. MaxCompiles /\ (s # Null => s \in 1 .. Len(meaning))
  BY <1>2, StateParts, CacheAssumption DEF IndInv, Bounds, Null
<1>6. MeaningOf(cur.req) \in Meanings
  BY <1>2, MeaningType DEF IndInv
<1>7. TypeOK'
  <2>1. result' \in [serial : 0 .. MaxCompiles, asked : Meanings, e : Nat]
    BY <1>1, <1>2, <1>5, <1>6, StateParts
  <2>. QED
    BY <1>1, <2>1 DEF IndInv, TypeOK
<1>8. Bounds' /\ HeapInjective' /\ ClientsLive' /\ KeysDistinct' /\ CurInv'
  BY <1>1 DEF IndInv, Bounds, HeapInjective, ClientsLive, KeysDistinct, CurInv, SameKey
<1>9. EntriesInv'
  BY <1>1 DEF IndInv, EntriesInv, KeyAlive, Filled, Pending, MeaningOf
<1>10. ResultInv'
  <2>1. CASE x.addr = Null
    BY <1>1, <1>3, <2>1 DEF ResultInv
  <2>2. CASE x.addr # Null
    <3>1. meaning[s] = MeaningOf(x.key) /\ s # Null
      BY <1>3, <2>2 DEF Filled
    <3>2. meaning[s] = MeaningOf(cur.req) \/ Equivalent(meaning[s], MeaningOf(cur.req))
      BY <1>2, <1>4, <3>1, SameKeyEquivalent
    <3>. QED
      BY <1>1, <1>5, <3>1, <3>2 DEF ResultInv, Equivalent
  <2>. QED
    BY <2>1, <2>2
<1>. QED
  BY <1>7, <1>8, <1>9, <1>10 DEF IndInv

\* Every step keeps the invariant.
LEMMA StepInd ==
    ASSUME ~DropReferenced
    PROVE  IndInv /\ [Next]_vars => IndInv'
<1>. SUFFICES ASSUME IndInv, [Next]_vars PROVE IndInv'
  OBVIOUS
<1>1. CASE \E r \in Requests : EmplaceHit(r) \/ EmplaceMiss(r)
  BY <1>1, EmplaceHitKeeps, EmplaceMissKeeps
<1>2. CASE \E r \in Requests, a \in Addrs : ClientJit(r, a)
  BY <1>2, ClientJitKeeps
<1>3. CASE \E a \in Addrs : ClientDrop(a) \/ CompileEntry(a)
  BY <1>3, ClientDropKeeps, CompileEntryKeeps
<1>4. CASE CompileThrows
  BY <1>4, CompileThrowsKeeps
<1>5. CASE ReturnEntry
  BY <1>5, ReturnEntryKeeps
<1>6. CASE UNCHANGED vars
  BY <1>6 DEF vars, IndInv, TypeOK, Bounds, HeapInjective, ClientsLive, EntriesInv,
     KeysDistinct, CurInv, ResultInv, KeyAlive, Filled, Pending, MeaningOf, Live,
     SameKey, Equivalent
<1>. QED
  BY <1>1, <1>2, <1>3, <1>4, <1>5, <1>6 DEF Next

\* A step leaves a filled entry and its code alone.
LEMMA StepStable ==
    ASSUME IndInv, [Next]_vars, NEW e \in DOMAIN entries, entries[e].addr # Null
    PROVE  /\ entries'[e] = entries[e]
           /\ heap'[entries[e].addr] = heap[entries[e].addr]
<1>. DEFINE b == entries[e].addr
<1>0. b \in Addrs /\ heap[b] # Null /\ b \notin clients
  BY StateParts DEF IndInv, EntriesInv, Filled
<1>1. ASSUME NEW r \in Requests, NEW a \in Addrs, Live(r), Compile(r, a)
      PROVE  heap'[b] = heap[b]
  BY <1>0, <1>1, CompileEffect
<1>2. CASE \E r \in Requests : EmplaceHit(r)
  BY <1>2 DEF EmplaceHit
<1>3. CASE \E r \in Requests : EmplaceMiss(r)
  <2>1. PICK r \in Requests : entries' = Append(entries, NewEntry(r)) /\ heap' = heap
    BY <1>3 DEF EmplaceMiss
  <2>. QED
    BY <2>1, StateParts
<1>4. CASE \E r \in Requests, a \in Addrs : ClientJit(r, a)
  BY <1>1, <1>4 DEF ClientJit
<1>5. CASE \E a \in Addrs : ClientDrop(a)
  BY <1>0, <1>5, StateParts DEF ClientDrop
<1>6. CASE \E a \in Addrs : CompileEntry(a)
  <2>1. PICK a \in Addrs : CompileEntry(a)
    BY <1>6
  <2>2. cur.e # e
    BY <2>1 DEF IndInv, CurInv, Pending, CompileEntry
  <2>3. entries'[e] = entries[e]
    BY <2>1, <2>2, StateParts DEF CompileEntry
  <2>4. Live(cur.req) /\ cur.req \in Requests /\ Compile(cur.req, a)
    BY <2>1, StateParts DEF CompileEntry, IndInv, CurInv
  <2>. QED
    BY <1>1, <2>3, <2>4
<1>7. CASE CompileThrows \/ ReturnEntry \/ UNCHANGED vars
  BY <1>7 DEF CompileThrows, ReturnEntry, vars
<1>. QED
  BY <1>2, <1>3, <1>4, <1>5, <1>6, <1>7 DEF Next

---------------------------------------------------------------------------
\* The inductive invariant holds throughout, if the functions that cached
\* keys refer to are kept alive.
THEOREM Inductive == ~DropReferenced => (Spec => []IndInv)
<1>. SUFFICES ASSUME ~DropReferenced PROVE Spec => []IndInv
  OBVIOUS
<1>1. IndInv /\ [Next]_vars => IndInv'
  BY StepInd
<1>. QED
  BY InitInd, <1>1, PTL DEF Spec

\* Every variable keeps its type; the call in progress refers to an entry of
\* the map.
THEOREM TypeCorrect == ~DropReferenced => (Spec => []TypeOK)
<1>1. IndInv => TypeOK
  BY DEF IndInv
<1>. QED
  BY Inductive, <1>1, PTL

\* Cache::jit returns code for what was asked, or the empty wrapper of an
\* entry whose compilation threw.
THEOREM ServedCorrect == ~DropReferenced => (Spec => []ServedCode)
<1>1. IndInv => ServedCode
  BY DEF IndInv, ResultInv, ServedCode, SameCode
<1>. QED
  BY Inductive, <1>1, PTL

\* The cache never holds two compilations for requests that compare equal.
THEOREM CompiledOnce == ~DropReferenced => (Spec => []CompileOnce)
<1>1. IndInv => CompileOnce
  <2>. SUFFICES ASSUME IndInv, NEW s \in Stored, NEW t \in Stored, s # t,
                       Equivalent(meaning[s], meaning[t])
                PROVE  FALSE
    BY DEF CompileOnce
  <2>1. PICK e \in DOMAIN entries : entries[e].addr # Null /\ s = heap[entries[e].addr]
    BY DEF Stored
  <2>2. PICK f \in DOMAIN entries : entries[f].addr # Null /\ t = heap[entries[f].addr]
    BY DEF Stored
  <2>. DEFINE k == entries[e].key
              l == entries[f].key
  <2>3. k \in Requests /\ l \in Requests
    BY StateParts
  <2>4. /\ meaning[s] = MeaningOf(k) /\ meaning[t] = MeaningOf(l)
        /\ KeyAlive(entries[e]) /\ KeyAlive(entries[f])
    BY <2>1, <2>2 DEF IndInv, EntriesInv, Filled
  <2>5. ~SameKey(k, l)
    BY <2>1, <2>2 DEF IndInv, KeysDistinct
  <2>. QED
    BY <2>3, <2>4, <2>5, EquivalentSameKey DEF KeyAlive, Live
<1>. QED
  BY Inductive, <1>1, PTL

\* A filled entry and the code it owns never change: the reference
\* Cache::jit returned stays good.
THEOREM EntriesNeverMove == ~DropReferenced => (Spec => EntriesStable)
<1>1. IndInv /\ [Next]_vars =>
        [\A e \in DOMAIN entries :
           entries[e].addr # Null =>
             /\ entries'[e] = entries[e]
             /\ heap'[entries[e].addr] = heap[entries[e].addr]]_vars
  BY StepStable
<1>. QED
  BY Inductive, <1>1, PTL DEF Spec, EntriesStable

---------------------------------------------------------------------------
(* The cache implements the memo table.                                    *)

\* Entries other than the one being compiled.
Settled == {e \in DOMAIN entries : ~Pending(e)}

\* What an entry contributes to the table.
Row(x) == [ask |-> AskOf(x), does |-> DoesOf(x)]

\* An entry is asked for by what its key means, and its key is live.
LEMMA AskIsMeaning ==
    ASSUME IndInv, NEW e \in DOMAIN entries
    PROVE  /\ AskOf(entries[e]) = MeaningOf(entries[e].key)
           /\ Live(entries[e].key) /\ entries[e].key \in Requests
           /\ AskOf(entries[e]) \in Meanings
<1>1. KeyAlive(entries[e]) /\ entries[e].key \in Requests
  BY StateParts DEF IndInv, EntriesInv
<1>2. Live(entries[e].key)
  BY <1>1 DEF KeyAlive, Live
<1>3. AskOf(entries[e]) = MeaningOf(entries[e].key)
  BY <1>1, RequestParts DEF KeyAlive, AskOf, MeaningOf
<1>. QED
  BY <1>1, <1>2, <1>3, MeaningType DEF IndInv

\* Nothing in the table answers the entry that is being compiled.
LEMMA PendingUnknown ==
    ASSUME IndInv, NEW c \in DOMAIN entries, Pending(c)
    PROVE  ~Memo!Known(AskOf(entries[c]))
<1>. DEFINE m == AskOf(entries[c])
<1>. SUFFICES ASSUME NEW x \in TableOfEntries,
                     <<x.ask, m>> \in {p \in Meanings \X Meanings : Equivalent(p[1], p[2])}
              PROVE  FALSE
  BY DEF Memo!Known
<1>1. PICK e \in DOMAIN entries : ~Pending(e) /\ x.ask = AskOf(entries[e])
  BY DEF TableOfEntries
<1>2. Equivalent(AskOf(entries[e]), m) /\ e # c
  BY <1>1
<1>3. SameKey(entries[e].key, entries[c].key)
  BY <1>1, <1>2, AskIsMeaning, EquivalentSameKey
<1>. QED
  BY <1>2, <1>3 DEF IndInv, KeysDistinct

\* The table only changes with its rows and with which entries are settled.
LEMMA TableRows ==
    /\ TableOfEntries = {Row(entries[e]) : e \in Settled}
    /\ TableOfEntries' = {Row(entries[e])' : e \in Settled'}
  BY DEF TableOfEntries, Row, Settled

\* A step keeps the row of an entry it keeps, with the code it owns.
LEMMA RowKept ==
    ASSUME IndInv, NEW e \in DOMAIN entries, entries'[e] = entries[e],
           entries[e].addr # Null => heap'[entries[e].addr] = heap[entries[e].addr],
           \A i \in 1 .. Len(meaning) : meaning'[i] = meaning[i]
    PROVE  Row(entries[e])' = Row(entries[e])
<1>1. AskOf(entries[e])' = AskOf(entries[e])
  BY DEF AskOf
<1>2. entries[e].addr # Null => heap[entries[e].addr] \in 1 .. Len(meaning)
  BY StateParts DEF IndInv, EntriesInv, Filled, Null
<1>3. DoesOf(entries[e])' = DoesOf(entries[e])
  BY <1>2 DEF DoesOf
<1>. QED
  BY <1>1, <1>3 DEF Row

\* What was answered does not change when meanings are appended.
LEMMA AnswerKept ==
    ASSUME IndInv, result' = result,
           \A i \in 1 .. Len(meaning) : meaning'[i] = meaning[i]
    PROVE  AnswerOfResult' = AnswerOfResult
  BY DEF IndInv, ResultInv, AnswerOfResult

\* A step that settles no entry and keeps the rows and the result is no
\* step of the table.
LEMMA StutterRefines ==
    ASSUME IndInv, Settled' = Settled, \A e \in Settled : Row(entries[e])' = Row(entries[e]),
           AnswerOfResult' = AnswerOfResult
    PROVE  UNCHANGED Memo!vars
<1>1. TableOfEntries' = TableOfEntries
  BY TableRows
<1>. QED
  BY <1>1 DEF Memo!vars

\* A step that settles the entry being compiled adds its row to the table.
LEMMA SettleRefines ==
    ASSUME IndInv, NEW c \in DOMAIN entries, Settled' = Settled \cup {c},
           \A e \in Settled : Row(entries[e])' = Row(entries[e])
    PROVE  TableOfEntries' = TableOfEntries \cup {Row(entries[c])'}
  BY TableRows

\* While no compilation is in progress every entry is settled.
LEMMA AllSettled ==
    ASSUME cur = Idle \/ ~cur.fresh \/ cur.pc = "ready"
    PROVE  Settled = DOMAIN entries
  BY DEF Settled, Pending

\* A compilation that returns fills the table with what was asked for.
LEMMA CompileEntryRefines ==
    ASSUME IndInv, NEW a \in Addrs, CompileEntry(a)
    PROVE  Memo!Next
<1>1. PICK c \in DOMAIN entries, q \in Requests : c = cur.e /\ q = cur.req
  BY StateParts DEF CompileEntry
<1>2. /\ cur # Idle /\ cur.pc = "emplaced" /\ cur.fresh /\ Compile(q, a)
      /\ entries' = [entries EXCEPT ![c].addr = a]
      /\ cur' = [cur EXCEPT !.pc = "ready"] /\ result' = result
  BY <1>1 DEF CompileEntry
<1>3. Live(q) /\ entries[c].key = q /\ Pending(c)
  BY <1>1, <1>2, StateParts DEF IndInv, CurInv, Pending
<1>4. /\ Len(meaning) \in Nat /\ heap'[a] = Len(meaning) + 1
      /\ meaning'[Len(meaning) + 1] = MeaningOf(q)
      /\ \A b \in Addrs : heap[b] # Null => heap'[b] = heap[b]
      /\ \A i \in 1 .. Len(meaning) : meaning'[i] = meaning[i]
  BY <1>2, <1>3, CompileEffect, StateParts
<1>5. /\ DOMAIN entries' = DOMAIN entries
      /\ \A e \in DOMAIN entries : e # c => entries'[e] = entries[e]
      /\ entries'[c].key = q /\ entries'[c].addr = a /\ entries'[c].was = entries[c].was
  <2>1. entries[c] \in Entry
    BY StateParts
  <2>. QED
    BY <1>2, <1>3, <2>1, StateParts DEF Entry
<1>6. Settled = DOMAIN entries \ {c}
  BY <1>1, <1>2, <1>3 DEF Settled, Pending
<1>7. cur'.pc = "ready"
  <2>1. cur \in [pc : {"emplaced", "ready"}, req : Requests, e : Nat, fresh : BOOLEAN]
    BY <1>2, StateParts
  <2>. QED
    BY <1>2, <2>1
<1>8. Settled' = Settled \cup {c}
  BY <1>5, <1>6, <1>7 DEF Settled, Pending
<1>9. \A e \in Settled : Row(entries[e])' = Row(entries[e])
  <2>. SUFFICES ASSUME NEW e \in DOMAIN entries, e # c
                PROVE  Row(entries[e])' = Row(entries[e])
    BY <1>6
  <2>1. entries[e].addr # Null => heap'[entries[e].addr] = heap[entries[e].addr]
    BY <1>4, StateParts DEF IndInv, EntriesInv, Filled
  <2>. QED
    BY <1>4, <1>5, <2>1, RowKept
<1>. DEFINE m == AskOf(entries[c])
<1>10. m = MeaningOf(q) /\ m \in Meanings
  BY <1>3, AskIsMeaning
<1>11. Row(entries[c])' = [ask |-> m, does |-> {m}]
  <2>1. AskOf(entries[c])' = m
    BY <1>3, <1>5 DEF AskOf
  <2>2. DoesOf(entries[c])' = {m}
    BY <1>4, <1>5, <1>10, StateParts DEF DoesOf
  <2>. QED
    BY <2>1, <2>2 DEF Row
<1>12. TableOfEntries' = TableOfEntries \cup {[ask |-> m, does |-> {m}]}
  BY <1>8, <1>9, <1>11, SettleRefines
<1>13. AnswerOfResult' = AnswerOfResult
  BY <1>2, <1>4, AnswerKept
<1>14. Memo!Fill(m)
  BY <1>3, <1>12, <1>13, PendingUnknown DEF Memo!Fill
<1>. QED
  BY <1>10, <1>14 DEF Memo!Next

\* A compilation that throws records the failure.
LEMMA CompileThrowsRefines ==
    ASSUME IndInv, CompileThrows
    PROVE  Memo!Next
<1>1. PICK c \in DOMAIN entries : c = cur.e
  BY StateParts DEF CompileThrows
<1>2. /\ cur # Idle /\ cur.pc = "emplaced" /\ cur.fresh /\ cur' = Idle /\ result' = NoResult
      /\ heap' = heap /\ meaning' = meaning /\ entries' = entries
  BY DEF CompileThrows
<1>3. Pending(c) /\ entries[c].addr = Null
  BY <1>1, <1>2 DEF IndInv, CurInv, Pending
<1>4. Settled = DOMAIN entries \ {c} /\ Settled' = Settled \cup {c}
  BY <1>1, <1>2, <1>3 DEF Settled, Pending
<1>5. \A e \in DOMAIN entries : Row(entries[e])' = Row(entries[e])
  BY <1>2, RowKept
<1>. DEFINE m == AskOf(entries[c])
<1>6. Row(entries[c]) = [ask |-> m, does |-> {}]
  BY <1>3 DEF Row, DoesOf
<1>7. TableOfEntries' = TableOfEntries \cup {[ask |-> m, does |-> {}]}
  BY <1>4, <1>5, <1>6, SettleRefines
<1>8. AnswerOfResult' = {}
  BY <1>2 DEF AnswerOfResult
<1>9. Memo!Fail(m)
  BY <1>3, <1>7, <1>8, PendingUnknown DEF Memo!Fail
<1>. QED
  BY <1>9, AskIsMeaning DEF Memo!Next

\* What Cache::jit returns is the row of its entry.
LEMMA ReturnEntryRefines ==
    ASSUME IndInv, ReturnEntry
    PROVE  Memo!Next
<1>1. PICK c \in DOMAIN entries, q \in Requests : c = cur.e /\ q = cur.req
  BY StateParts DEF ReturnEntry
<1>. DEFINE x == entries[c]
            s == IF x.addr = Null THEN Null ELSE heap[x.addr]
            m == MeaningOf(q)
<1>2. /\ cur # Idle /\ cur' = Idle /\ heap' = heap /\ meaning' = meaning /\ entries' = entries
      /\ result' = [serial |-> s, asked |-> m, e |-> c]
      /\ cur.pc = "ready" \/ (cur.pc = "emplaced" /\ ~cur.fresh)
  BY <1>1 DEF ReturnEntry
<1>3. Settled = DOMAIN entries /\ Settled' = Settled
  BY <1>2, AllSettled DEF Settled, Pending
<1>4. \A e \in DOMAIN entries : Row(entries[e])' = Row(entries[e])
  BY <1>2, RowKept
<1>5. TableOfEntries' = TableOfEntries
  BY <1>3, <1>4, TableRows
<1>6. Live(q) /\ (q = x.key \/ SameKey(x.key, q))
  BY <1>1, <1>2, StateParts DEF IndInv, CurInv
<1>7. /\ AskOf(x) = MeaningOf(x.key) /\ AskOf(x) \in Meanings
      /\ m \in Meanings /\ x.key \in Requests
  BY <1>6, AskIsMeaning, MeaningType DEF IndInv
<1>8. AskOf(x) = m \/ <<AskOf(x), m>> \in {p \in Meanings \X Meanings : Equivalent(p[1], p[2])}
  BY <1>6, <1>7, SameKeyEquivalent
<1>9. AnswerOfResult' = {[asked |-> m, does |-> DoesOf(x)]}
  <2>1. x.addr # Null => s # Null
    BY DEF IndInv, EntriesInv, Filled
  <2>2. result' # NoResult
    BY <1>2 DEF NoResult
  <2>. QED
    BY <1>2, <2>1, <2>2 DEF AnswerOfResult, DoesOf
<1>10. Row(x) \in TableOfEntries
  BY <1>3, TableRows
<1>11. Memo!Answer(m)
  BY <1>5, <1>8, <1>9, <1>10 DEF Memo!Answer, Row
<1>. QED
  BY <1>7, <1>11 DEF Memo!Next

\* The other steps leave the table and the answer alone.
LEMMA OtherStepsStutter ==
    ASSUME IndInv, [Next]_vars, ~CompileThrows, ~ReturnEntry,
           \A a \in Addrs : ~CompileEntry(a)
    PROVE  UNCHANGED Memo!vars
<1>1. /\ \A e \in DOMAIN entries : entries'[e] = entries[e]
      /\ \A i \in 1 .. Len(meaning) : meaning'[i] = meaning[i]
      /\ result' = result /\ Settled' = Settled
  <2>1. CASE \E r \in Requests : EmplaceHit(r)
    <3>1. PICK e \in DOMAIN entries, r \in Requests :
            cur' = [pc |-> "emplaced", req |-> r, e |-> e, fresh |-> FALSE]
      BY <2>1 DEF EmplaceHit, Matching
    <3>2. cur = Idle /\ entries' = entries /\ meaning' = meaning /\ result' = result
      BY <2>1 DEF EmplaceHit
    <3>. QED
      BY <3>1, <3>2 DEF Settled, Pending
  <2>2. CASE \E r \in Requests : EmplaceMiss(r)
    <3>1. PICK r \in Requests : EmplaceMiss(r)
      BY <2>2
    <3>2. /\ cur = Idle /\ meaning' = meaning /\ result' = result
          /\ entries' = Append(entries, NewEntry(r))
          /\ cur' = [pc |-> "emplaced", req |-> r, e |-> Len(entries) + 1, fresh |-> TRUE]
      BY <3>1 DEF EmplaceMiss
    <3>3. /\ DOMAIN entries = 1 .. Len(entries) /\ Len(entries) \in Nat
          /\ DOMAIN entries' = DOMAIN entries \cup {Len(entries) + 1}
          /\ \A e \in DOMAIN entries : entries'[e] = entries[e]
      BY <3>2, StateParts
    <3>4. \A e : Pending(e)' <=> e = Len(entries) + 1
      BY <3>2 DEF Pending, Idle
    <3>5. Settled = DOMAIN entries
      BY <3>2, AllSettled
    <3>6. Settled' = DOMAIN entries
      BY <3>3, <3>4 DEF Settled
    <3>. QED
      BY <3>2, <3>3, <3>5, <3>6
  <2>3. CASE \E r \in Requests, a \in Addrs : ClientJit(r, a)
    <3>1. PICK r \in Requests, a \in Addrs : ClientJit(r, a)
      BY <2>3
    <3>2. Live(r) /\ Compile(r, a) /\ entries' = entries /\ cur' = cur /\ result' = result
      BY <3>1 DEF ClientJit
    <3>. QED
      BY <3>2, CompileEffect DEF Settled, Pending
  <2>4. CASE \E a \in Addrs : ClientDrop(a)
    BY <2>4 DEF ClientDrop, Settled, Pending
  <2>5. CASE UNCHANGED vars
    BY <2>5 DEF vars, Settled, Pending
  <2>. QED
    BY <2>1, <2>2, <2>3, <2>4, <2>5 DEF Next
<1>2. \A e \in DOMAIN entries :
        entries[e].addr # Null => heap'[entries[e].addr] = heap[entries[e].addr]
  BY StepStable
<1>3. \A e \in DOMAIN entries : Row(entries[e])' = Row(entries[e])
  BY <1>1, <1>2, RowKept
<1>4. AnswerOfResult' = AnswerOfResult
  BY <1>1, AnswerKept
<1>. QED
  BY <1>1, <1>3, <1>4, StutterRefines DEF Settled

\* Every step is a step of the memo table or leaves it alone.
LEMMA StepRefines ==
    ASSUME IndInv, [Next]_vars
    PROVE  [Memo!Next]_(Memo!vars)
<1>1. CASE CompileThrows \/ ReturnEntry \/ \E a \in Addrs : CompileEntry(a)
  BY <1>1, CompileThrowsRefines, ReturnEntryRefines, CompileEntryRefines
<1>2. CASE ~(CompileThrows \/ ReturnEntry \/ \E a \in Addrs : CompileEntry(a))
  BY <1>2, OtherStepsStutter
<1>. QED
  BY <1>1, <1>2

\* Cache::jit implements the memo table, for any functions, values and
\* addresses, if the functions that cached keys refer to are kept alive.
THEOREM ImplementsMemo == ~DropReferenced => (Spec => Memoizes)
<1>1. Init => Memo!Init
  <2>. SUFFICES ASSUME Init PROVE Memo!Init
    OBVIOUS
  <2>1. DOMAIN entries = {} /\ result = NoResult
    BY DEF Init
  <2>. QED
    BY <2>1 DEF Memo!Init, TableOfEntries, AnswerOfResult
<1>2. IndInv /\ [Next]_vars => [Memo!Next]_(Memo!vars)
  BY StepRefines
<1>. QED
  BY Inductive, <1>1, <1>2, PTL DEF Spec, Memoizes, Memo!Spec
===========================================================================
