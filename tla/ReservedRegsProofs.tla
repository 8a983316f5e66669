------------------------- MODULE ReservedRegsProofs -------------------------
(***************************************************************************)
(* Proofs about ReservedRegs, for any number of threads, registers and     *)
(* calls, under the usage FirstAlone: one jit completes before a second    *)
(* thread enters the library.                                              *)
(***************************************************************************)
EXTENDS ReservedRegs, TLAPS

\* Until a jit has completed at most one thread is in the library.
OneWhileCold ==
    ~warm => \A t, u \in Threads : pc[t] # "idle" /\ pc[u] # "idle" => t = u

\* The original is saved before the hook is stored, and a thread past the
\* installation finds both done.
HookInv ==
    /\ org # "hook"
    /\ slot = "hook" => org = "orig"
    /\ org = "orig" /\ slot = "orig" => \E t \in Threads : pc[t] = "store"
    /\ warm => org = "orig" /\ slot = "hook"
    /\ \A t \in Threads :
         /\ pc[t] = "save" => org = "null" /\ slot = "orig"
         /\ pc[t] = "store" => org = "orig"
         /\ pc[t] \in {"write", "codegen", "fill", "call", "return"}
              => org = "orig" /\ slot = "hook"

\* The name map holds right indices; it is empty or complete unless a thread
\* is filling it, and complete where it is read.
MapInv ==
    /\ \A n \in DOMAIN regmap : regmap[n] = IndexOf(n)
    /\ \/ DOMAIN regmap = {}
       \/ Regs \subseteq DOMAIN regmap
       \/ \E t \in Threads : pc[t] \in {"fill", "dfill"}
    /\ warm => Regs \subseteq DOMAIN regmap
    /\ \A t \in Threads :
         /\ pc[t] \in {"call", "dcall", "return"} => Regs \subseteq DOMAIN regmap
         /\ pc[t] \in {"fill", "dfill"} =>
              /\ fill[t] \in Regs /\ ~warm
              /\ \A i \in Regs : i < fill[t] => i \in DOMAIN regmap

\* During code generation the thread_local points to the current Context.
TlsInv ==
    \A t \in Threads : pc[t] \in {"codegen", "fill", "call"} => tls[t] = calls[t]

IndInv ==
    /\ TypeOK /\ OneWhileCold /\ HookInv /\ MapInv /\ TlsInv
    /\ ReservedExact /\ CrashOnlyInDeserialize

\* Nothing has started: everything holds vacuously.
LEMMA InitInd == Init => IndInv
<1>. SUFFICES ASSUME Init PROVE IndInv
  OBVIOUS
<1>1. TypeOK
  <2>1. 0 \in 0 .. NumRegs + 1
    BY RegsAssumption
  <2>. QED
    BY <2>1 DEF Init, TypeOK, NoOne
<1>2. OneWhileCold /\ HookInv /\ TlsInv
  BY DEF Init, OneWhileCold, HookInv, TlsInv
<1>3. MapInv
  BY DEF Init, MapInv
<1>4. ReservedExact /\ CrashOnlyInDeserialize
  BY DEF Init, ReservedExact, CrashOnlyInDeserialize
<1>. QED
  BY <1>1, <1>2, <1>3, <1>4 DEF IndInv

\* A call starts: while cold, no other thread is in the library.
LEMMA StartJitKeeps ==
    ASSUME IndInv, FirstAlone, NEW t \in Threads, NEW regs \in Requests, StartJit(t, regs)
    PROVE  IndInv'
<1>. USE DEF IndInv, StartJit, At, Jump, Compiling, MayStart
<1>1. TypeOK'
  BY RegsAssumption DEF TypeOK, Regs, Names, NoOne
<1>2. OneWhileCold'
  BY DEF TypeOK, OneWhileCold
<1>3. HookInv'
  BY DEF TypeOK, OneWhileCold, HookInv
<1>4. MapInv'
  BY DEF TypeOK, OneWhileCold, HookInv, MapInv
<1>5. TlsInv'
  BY DEF TypeOK, TlsInv
<1>6. ReservedExact' /\ CrashOnlyInDeserialize'
  BY DEF TypeOK, HookInv, ReservedExact, CrashOnlyInDeserialize, NoOne
<1>. QED
  BY <1>1, <1>2, <1>3, <1>4, <1>5, <1>6

\* A deserialization starts under the same condition.
LEMMA StartDeserializeKeeps ==
    ASSUME IndInv, FirstAlone, NEW t \in Threads, StartDeserialize(t)
    PROVE  IndInv'
<1>. USE DEF IndInv, StartDeserialize, At, Jump, Deserializing, MayStart
<1>1. TypeOK'
  BY RegsAssumption DEF TypeOK, Regs, Names, NoOne
<1>2. OneWhileCold'
  BY DEF TypeOK, OneWhileCold
<1>3. HookInv'
  BY DEF TypeOK, OneWhileCold, HookInv
<1>4. MapInv'
  BY DEF TypeOK, OneWhileCold, HookInv, MapInv
<1>5. TlsInv'
  BY DEF TypeOK, TlsInv
<1>6. ReservedExact' /\ CrashOnlyInDeserialize'
  BY DEF TypeOK, HookInv, ReservedExact, CrashOnlyInDeserialize, NoOne
<1>. QED
  BY <1>1, <1>2, <1>3, <1>4, <1>5, <1>6

\* A call that fails only goes away.
LEMMA ThrowKeeps ==
    ASSUME IndInv, NEW t \in Threads, Throw(t)
    PROVE  IndInv'
<1>. USE DEF IndInv, Throw, Jump
<1>1. TypeOK'
  BY RegsAssumption DEF TypeOK, Regs, Names, NoOne
<1>2. OneWhileCold'
  BY DEF TypeOK, OneWhileCold
<1>3. HookInv'
  BY DEF TypeOK, OneWhileCold, HookInv
<1>4. MapInv'
  BY DEF TypeOK, OneWhileCold, HookInv, MapInv
<1>5. TlsInv'
  BY DEF TypeOK, TlsInv
<1>6. ReservedExact' /\ CrashOnlyInDeserialize'
  BY DEF TypeOK, HookInv, ReservedExact, CrashOnlyInDeserialize, NoOne
<1>. QED
  BY <1>1, <1>2, <1>3, <1>4, <1>5, <1>6

\* The test of g_org: a warm library never installs again.
LEMMA HookCheckKeeps ==
    ASSUME IndInv, NEW t \in Threads, HookCheck(t)
    PROVE  IndInv'
<1>. USE DEF IndInv, HookCheck, At, Jump, Compiling
<1>1. TypeOK'
  BY RegsAssumption DEF TypeOK, Regs, Names, NoOne
<1>2. OneWhileCold'
  BY DEF TypeOK, OneWhileCold
<1>3. HookInv'
  BY DEF TypeOK, OneWhileCold, HookInv
<1>4. MapInv'
  BY DEF TypeOK, OneWhileCold, HookInv, MapInv
<1>5. TlsInv'
  BY DEF TypeOK, TlsInv
<1>6. ReservedExact' /\ CrashOnlyInDeserialize'
  BY DEF TypeOK, HookInv, ReservedExact, CrashOnlyInDeserialize, NoOne
<1>. QED
  BY <1>1, <1>2, <1>3, <1>4, <1>5, <1>6

\* Saving finds the slot untouched.
LEMMA HookSaveKeeps ==
    ASSUME IndInv, NEW t \in Threads, HookSave(t)
    PROVE  IndInv'
<1>. USE DEF IndInv, HookSave, At, Jump, Compiling
<1>1. TypeOK'
  BY RegsAssumption DEF TypeOK, Regs, Names, NoOne
<1>2. OneWhileCold'
  BY DEF TypeOK, OneWhileCold
<1>3. HookInv'
  BY DEF TypeOK, OneWhileCold, HookInv
<1>4. MapInv'
  BY DEF TypeOK, OneWhileCold, HookInv, MapInv
<1>5. TlsInv'
  BY DEF TypeOK, TlsInv
<1>6. ReservedExact' /\ CrashOnlyInDeserialize'
  BY DEF TypeOK, HookInv, ReservedExact, CrashOnlyInDeserialize, NoOne
<1>. QED
  BY <1>1, <1>2, <1>3, <1>4, <1>5, <1>6

\* Storing finds the original saved.
LEMMA HookStoreKeeps ==
    ASSUME IndInv, NEW t \in Threads, HookStore(t)
    PROVE  IndInv'
<1>. USE DEF IndInv, HookStore, At, Jump, Compiling
<1>1. TypeOK'
  BY RegsAssumption DEF TypeOK, Regs, Names, NoOne
<1>2. OneWhileCold'
  BY DEF TypeOK, OneWhileCold
<1>3. HookInv'
  BY DEF TypeOK, OneWhileCold, HookInv
<1>4. MapInv'
  BY DEF TypeOK, OneWhileCold, HookInv, MapInv
<1>5. TlsInv'
  BY DEF TypeOK, TlsInv
<1>6. ReservedExact' /\ CrashOnlyInDeserialize'
  BY DEF TypeOK, HookInv, ReservedExact, CrashOnlyInDeserialize, NoOne
<1>. QED
  BY <1>1, <1>2, <1>3, <1>4, <1>5, <1>6

\* The thread_local is set to the current Context.
LEMMA SetReservedRegsKeeps ==
    ASSUME IndInv, NEW t \in Threads, SetReservedRegs(t)
    PROVE  IndInv'
<1>. USE DEF IndInv, SetReservedRegs, At, Jump, Compiling
<1>1. TypeOK'
  BY RegsAssumption DEF TypeOK, Regs, Names, NoOne
<1>2. OneWhileCold'
  BY DEF TypeOK, OneWhileCold
<1>3. HookInv'
  BY DEF TypeOK, OneWhileCold, HookInv
<1>4. MapInv'
  BY DEF TypeOK, OneWhileCold, HookInv, MapInv
<1>5. TlsInv'
  BY DEF TypeOK, TlsInv
<1>6. ReservedExact' /\ CrashOnlyInDeserialize'
  BY DEF TypeOK, HookInv, ReservedExact, CrashOnlyInDeserialize, NoOne
<1>. QED
  BY <1>1, <1>2, <1>3, <1>4, <1>5, <1>6

\* Only deserialize can find the slot untouched.
LEMMA CallUnhookedKeeps ==
    ASSUME IndInv, NEW t \in Threads, CallUnhooked(t)
    PROVE  IndInv'
<1>. USE DEF IndInv, CallUnhooked, At, In, Jump, Step, ContextLive, Compiling, Deserializing
<1>1. TypeOK'
  BY RegsAssumption DEF TypeOK, Regs, Names, NoOne
<1>2. OneWhileCold'
  BY DEF TypeOK, OneWhileCold
<1>3. HookInv'
  BY DEF TypeOK, OneWhileCold, HookInv
<1>4. MapInv'
  BY DEF TypeOK, OneWhileCold, HookInv, MapInv
<1>5. TlsInv'
  BY DEF TypeOK, TlsInv
<1>6. ReservedExact' /\ CrashOnlyInDeserialize'
  BY DEF TypeOK, HookInv, ReservedExact, CrashOnlyInDeserialize, NoOne
<1>. QED
  BY <1>1, <1>2, <1>3, <1>4, <1>5, <1>6

\* A non-empty map is complete, since nobody else is filling it.
LEMMA EnterHookKeeps ==
    ASSUME IndInv, NEW t \in Threads, EnterHook(t)
    PROVE  IndInv'
<1>. USE DEF IndInv
<1>1. TypeOK'
  <2>1. fill' \in [Threads -> 0 .. NumRegs + 1]
    <3>1. 0 \in 0 .. NumRegs + 1
      BY RegsAssumption
    <3>. QED
      BY <3>1 DEF TypeOK, EnterHook
  <2>. QED
    BY <2>1 DEF TypeOK, EnterHook, At, In, Jump, Step, ContextLive, Compiling,
       Deserializing
<1>2. OneWhileCold'
  BY DEF TypeOK, OneWhileCold, EnterHook, At, In, Jump, Step, ContextLive,
     Compiling, Deserializing
<1>3. HookInv'
  BY DEF TypeOK, OneWhileCold, HookInv, EnterHook, At, In, Jump, Step,
     ContextLive, Compiling, Deserializing
<1>4. MapInv'
  <2>1. 0 \in Regs
    BY RegsAssumption DEF Regs
  <2>2. CASE DOMAIN regmap = {}
    <3>1. ~warm
      BY <2>1, <2>2 DEF MapInv
    <3>2. fill' = [fill EXCEPT ![t] = 0] /\ regmap' = regmap /\ warm' = warm
      BY <2>2 DEF EnterHook
    <3>3. pc' = [pc EXCEPT ![t] = IF ContextLive(t) THEN "fill" ELSE "dfill"]
      BY <2>2 DEF EnterHook, Step, Jump
    <3>4. \A u \in Threads : u # t => pc'[u] = pc[u] /\ fill'[u] = fill[u]
      BY <3>2, <3>3 DEF TypeOK
    <3>5. pc'[t] \in {"fill", "dfill"} /\ fill'[t] = 0
      BY <3>2, <3>3 DEF TypeOK
    <3>6. \A i \in Regs : ~(i < 0)
      BY RegsAssumption DEF Regs
    <3>. QED
      BY <2>1, <2>2, <3>1, <3>2, <3>4, <3>5, <3>6 DEF MapInv
  <2>3. CASE DOMAIN regmap # {}
    <3>1. Regs \subseteq DOMAIN regmap
      BY <2>3 DEF TypeOK, OneWhileCold, MapInv, EnterHook, At, In, Jump, Step,
         ContextLive, Compiling, Deserializing
    <3>. QED
      BY <2>3, <3>1 DEF TypeOK, MapInv, EnterHook, At, In, Jump, Step,
         ContextLive, Compiling, Deserializing
  <2>. QED
    BY <2>2, <2>3
<1>5. TlsInv'
  BY DEF TypeOK, TlsInv, EnterHook, At, In, Jump, Step, ContextLive, Compiling,
     Deserializing
<1>6. ReservedExact' /\ CrashOnlyInDeserialize'
  BY DEF TypeOK, HookInv, ReservedExact, CrashOnlyInDeserialize, NoOne, EnterHook,
     At, In, Jump, Step, ContextLive, Compiling, Deserializing
<1>. QED
  BY <1>1, <1>2, <1>3, <1>4, <1>5, <1>6

\* One more register is entered.
LEMMA FillMapKeeps ==
    ASSUME IndInv, NEW t \in Threads, FillMap(t)
    PROVE  IndInv'
<1>. USE DEF IndInv
<1>0. fill[t] \in Regs /\ fill[t] \in Names /\ IndexOf(fill[t]) = fill[t]
  BY RegsAssumption DEF TypeOK, MapInv, FillMap, Regs, Names, In, At, IndexOf
<1>a. DOMAIN regmap' = DOMAIN regmap \cup {fill[t]}
  BY DEF FillMap, Enter
<1>b. \A n \in DOMAIN regmap' : regmap'[n] = IF n = fill[t] THEN fill[t] ELSE regmap[n]
  BY DEF FillMap, Enter
<1>1. TypeOK'
  <2>1. fill' \in [Threads -> 0 .. NumRegs + 1]
    <3>1. fill[t] + 1 \in 0 .. NumRegs + 1
      BY <1>0, RegsAssumption DEF Regs
    <3>. QED
      BY <3>1 DEF TypeOK, FillMap
  <2>2. /\ DOMAIN regmap' \subseteq Names
        /\ \A n \in DOMAIN regmap' : regmap'[n] \in 0 .. NumRegs
    BY <1>0, <1>a, <1>b DEF TypeOK, Regs
  <2>. QED
    BY <2>1, <2>2 DEF TypeOK, FillMap, At, In, Jump, Step, ContextLive, Compiling,
       Deserializing
<1>2. OneWhileCold'
  BY DEF TypeOK, OneWhileCold, FillMap, At, In, Jump, Step, ContextLive,
     Compiling, Deserializing
<1>3. HookInv'
  BY DEF TypeOK, OneWhileCold, HookInv, FillMap, At, In, Jump, Step, ContextLive,
     Compiling, Deserializing
<1>4. MapInv'
  <2>1. \A n \in DOMAIN regmap' : regmap'[n] = IndexOf(n)
    BY <1>0, <1>a, <1>b DEF MapInv
  <2>2. pc[t] \in {"fill", "dfill"} /\ ~warm /\ warm' = warm
    BY DEF MapInv, FillMap, In, At
  <2>3. \A u \in Threads : u # t => pc[u] = "idle" /\ pc'[u] = "idle"
    BY <2>2 DEF TypeOK, OneWhileCold, FillMap, Step, Jump
  <2>4. CASE fill[t] = NumRegs
    <3>1. pc'[t] \in {"call", "dcall"}
      BY <2>4 DEF TypeOK, FillMap, Step, Jump
    <3>2. \A i \in Regs : i = fill[t] \/ i < fill[t]
      BY <2>4, RegsAssumption DEF Regs
    <3>3. Regs \subseteq DOMAIN regmap'
      BY <1>a, <2>2, <3>2 DEF MapInv
    <3>. QED
      BY <2>1, <2>2, <2>3, <3>1, <3>3 DEF MapInv
  <2>5. CASE fill[t] # NumRegs
    <3>1. pc'[t] = pc[t] /\ fill'[t] = fill[t] + 1
      BY <2>5 DEF TypeOK, FillMap
    <3>2. fill'[t] \in Regs
      BY <1>0, <2>5, <3>1, RegsAssumption DEF Regs
    <3>3. \A i \in Regs : i < fill[t] + 1 => i = fill[t] \/ i < fill[t]
      BY <1>0, RegsAssumption DEF Regs
    <3>4. \A i \in Regs : i < fill'[t] => i \in DOMAIN regmap'
      BY <1>a, <2>2, <3>1, <3>3 DEF MapInv
    <3>. QED
      BY <2>1, <2>2, <2>3, <3>1, <3>2, <3>4 DEF MapInv
  <2>. QED
    BY <2>4, <2>5
<1>5. TlsInv'
  BY DEF TypeOK, TlsInv, FillMap, At, In, Jump, Step, ContextLive, Compiling,
     Deserializing
<1>6. ReservedExact' /\ CrashOnlyInDeserialize'
  BY DEF TypeOK, HookInv, ReservedExact, CrashOnlyInDeserialize, NoOne, FillMap,
     At, In, Jump, Step, ContextLive, Compiling, Deserializing
<1>. QED
  BY <1>1, <1>2, <1>3, <1>4, <1>5, <1>6

\* The map is complete when it is read.
LEMMA ReadReservedRegsKeeps ==
    ASSUME IndInv, NEW t \in Threads, ReadReservedRegs(t)
    PROVE  IndInv'
<1>. USE DEF IndInv
<1>0. pc[t] = "call" /\ pc' = [pc EXCEPT ![t] = "return"]
  BY DEF ReadReservedRegs, ReadsLive, At, In, Jump, Step, ContextLive, Compiling,
     Deserializing
<1>a. \A n : Lookup(regmap, n) = IndexOf(n)
  BY <1>0 DEF MapInv, Lookup, IndexOf
<1>b. /\ DOMAIN regmap' = DOMAIN regmap \cup wanted[t]
      /\ \A n \in DOMAIN regmap' : regmap'[n] = IndexOf(n)
  BY <1>a DEF ReadReservedRegs
<1>c. bits' = [bits EXCEPT ![t] = {IndexOf(n) : n \in wanted[t]}]
  BY <1>a DEF ReadReservedRegs
<1>d. \A n : IndexOf(n) \in 0 .. NumRegs
  BY RegsAssumption DEF IndexOf, Regs
<1>1. TypeOK'
  <2>1. bits' \in [Threads -> SUBSET (0 .. NumRegs)]
    BY <1>c, <1>d DEF TypeOK
  <2>2. /\ DOMAIN regmap' \subseteq Names
        /\ \A n \in DOMAIN regmap' : regmap'[n] \in 0 .. NumRegs
    BY <1>b, <1>d DEF TypeOK
  <2>. QED
    BY <1>0, <2>1, <2>2 DEF TypeOK, ReadReservedRegs, Compiling
<1>2. OneWhileCold'
  BY DEF TypeOK, OneWhileCold, ReadReservedRegs, At, In, Jump, Step, ContextLive,
     Compiling, Deserializing
<1>3. HookInv'
  BY DEF TypeOK, OneWhileCold, HookInv, ReadReservedRegs, At, In, Jump, Step,
     ContextLive, Compiling, Deserializing
<1>4. MapInv'
  <2>1. Regs \subseteq DOMAIN regmap'
    BY <1>0, <1>b DEF MapInv
  <2>2. \A u \in Threads : pc'[u] \in {"fill", "dfill"} => pc[u] = pc'[u]
    BY <1>0 DEF TypeOK
  <2>. QED
    BY <1>b, <2>1, <2>2 DEF MapInv, ReadReservedRegs
<1>5. TlsInv'
  BY DEF TypeOK, TlsInv, ReadReservedRegs, At, In, Jump, Step, ContextLive,
     Compiling, Deserializing
<1>6. ReservedExact' /\ CrashOnlyInDeserialize'
  BY <1>0, <1>c DEF TypeOK, ReservedExact, CrashOnlyInDeserialize,
     ReadReservedRegs, In, At
<1>. QED
  BY <1>1, <1>2, <1>3, <1>4, <1>5, <1>6

\* Only a deserialization can crash.
LEMMA CrashKeeps ==
    ASSUME IndInv, NEW t \in Threads, Crash(t)
    PROVE  IndInv'
<1>. USE DEF IndInv, Crash, In, At, ContextLive, Compiling, Deserializing
<1>1. TypeOK'
  BY RegsAssumption DEF TypeOK, Regs, Names, NoOne
<1>2. OneWhileCold'
  BY DEF TypeOK, OneWhileCold
<1>3. HookInv'
  BY DEF TypeOK, OneWhileCold, HookInv
<1>4. MapInv'
  BY DEF TypeOK, OneWhileCold, HookInv, MapInv
<1>5. TlsInv'
  BY DEF TypeOK, TlsInv
<1>6. ReservedExact' /\ CrashOnlyInDeserialize'
  BY DEF TypeOK, HookInv, TlsInv, ReadsLive, ReservedExact,
     CrashOnlyInDeserialize, NoOne
<1>. QED
  BY <1>1, <1>2, <1>3, <1>4, <1>5, <1>6

\* A call returns; a jit makes the library warm.
LEMMA ReturnKeeps ==
    ASSUME IndInv, NEW t \in Threads, Return(t)
    PROVE  IndInv'
<1>. USE DEF IndInv, Return, In, At, Jump
<1>1. TypeOK'
  BY RegsAssumption DEF TypeOK, Regs, Names, NoOne
<1>2. OneWhileCold'
  BY DEF TypeOK, OneWhileCold
<1>3. HookInv'
  BY DEF TypeOK, OneWhileCold, HookInv
<1>4. MapInv'
  BY DEF TypeOK, OneWhileCold, HookInv, MapInv
<1>5. TlsInv'
  BY DEF TypeOK, TlsInv
<1>6. ReservedExact' /\ CrashOnlyInDeserialize'
  BY DEF TypeOK, HookInv, ReservedExact, CrashOnlyInDeserialize, NoOne
<1>. QED
  BY <1>1, <1>2, <1>3, <1>4, <1>5, <1>6

\* Every step keeps the invariant.
LEMMA StepInd ==
    ASSUME FirstAlone
    PROVE  IndInv /\ [Next]_vars => IndInv'
<1>. SUFFICES ASSUME IndInv, [Next]_vars PROVE IndInv'
  OBVIOUS
<1>1. CASE UNCHANGED vars
  BY <1>1 DEF vars, IndInv, TypeOK, OneWhileCold, HookInv, MapInv, TlsInv,
     ReservedExact, CrashOnlyInDeserialize
<1>2. CASE Next
  <2>1. PICK t \in Threads :
          \/ \E regs \in Requests : StartJit(t, regs)
          \/ StartDeserialize(t) \/ Throw(t) \/ Run(t)
    BY <1>2 DEF Next
  <2>2. CASE \E regs \in Requests : StartJit(t, regs)
    BY <2>2, StartJitKeeps
  <2>3. CASE StartDeserialize(t)
    BY <2>3, StartDeserializeKeeps
  <2>4. CASE Throw(t)
    BY <2>4, ThrowKeeps
  <2>5. CASE Run(t)
    BY <2>5, HookCheckKeeps, HookSaveKeeps, HookStoreKeeps, SetReservedRegsKeeps,
       CallUnhookedKeeps, EnterHookKeeps, FillMapKeeps, ReadReservedRegsKeeps,
       CrashKeeps, ReturnKeeps DEF Run
  <2>. QED
    BY <2>1, <2>2, <2>3, <2>4, <2>5
<1>. QED
  BY <1>1, <1>2

---------------------------------------------------------------------------
\* The inductive invariant holds throughout, if the first jit runs alone.
THEOREM Inductive == FirstAlone => (Spec => []IndInv)
<1>. SUFFICES ASSUME FirstAlone PROVE Spec => []IndInv
  OBVIOUS
<1>1. IndInv /\ [Next]_vars => IndInv'
  BY StepInd
<1>. QED
  BY InitInd, <1>1, PTL DEF Spec

\* Every variable keeps its type: in particular the map never holds an index
\* that is not a register's or 0.
THEOREM TypeCorrect == FirstAlone => (Spec => []TypeOK)
<1>1. IndInv => TypeOK
  BY DEF IndInv
<1>. QED
  BY Inductive, <1>1, PTL

\* Code is generated with exactly the reserved registers its own caller
\* listed, for any number of threads compiling with different lists.
THEOREM ReservedCorrect == FirstAlone => (Spec => []ReservedExact)
<1>1. IndInv => ReservedExact
  BY DEF IndInv
<1>. QED
  BY Inductive, <1>1, PTL

\* Function::Compile never enters its own hook as the original and never
\* reads a register list that is not its own; only deserialize can.
THEOREM CompileNeverCrashes == FirstAlone => (Spec => []CrashOnlyInDeserialize)
<1>1. IndInv => CrashOnlyInDeserialize
  BY DEF IndInv
<1>. QED
  BY Inductive, <1>1, PTL

\* The saved original is never overwritten and the hook never removed.
THEOREM HookInstalledOnce == FirstAlone => (Spec => HookOnce)
<1>1. IndInv /\ [Next]_vars =>
        [(org # "null" => org' = org) /\ (slot = "hook" => slot' = "hook")]_vars
  BY DEF IndInv, HookInv, vars, Next, Run, StartJit, StartDeserialize, Throw,
     HookCheck,
     HookSave, HookStore, SetReservedRegs, CallUnhooked, EnterHook, FillMap,
     ReadReservedRegs, Crash, Return, At
<1>. QED
  BY Inductive, <1>1, PTL DEF Spec, HookOnce
===========================================================================
