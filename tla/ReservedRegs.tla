---------------------------- MODULE ReservedRegs ----------------------------
(***************************************************************************)
(* How Function::Compile and Function::deserialize (runtime/Function.cpp)  *)
(* tell LLVM which registers code generation must not use.  The first      *)
(* Compile overwrites the vtable slot of getReservedRegs with a hook; each *)
(* Compile stores a pointer to the register list of its Context in a       *)
(* thread_local, and the hook, called during code generation, reads it.    *)
(*                                                                         *)
(* The steps of one thread are the accesses to shared state: the saved     *)
(* original (g_org), the vtable slot, and the map from register names to   *)
(* indices, which the hook fills on its first call.  None is locked.       *)
(* Formally the unsynchronised accesses are data races; the model takes    *)
(* the mildest outcome, an interleaving of whole accesses.  Code           *)
(* generation calls getReservedRegs many times; the calls after the first  *)
(* repeat it, so the model makes one.                                      *)
(***************************************************************************)
EXTENDS Integers, FiniteSets

CONSTANTS
    Threads,    \* threads of the program
    NumRegs,    \* the target has registers 1 .. NumRegs; 0 is NoRegister
    Requests,   \* the register lists (sets of names) passed to jit_
    FirstAlone, \* does the program finish one jit before using threads?
    MaxCalls    \* bound: calls per thread

Regs == 0 .. NumRegs            \* what getNumRegs counts
Names == 0 .. (NumRegs + 1)     \* NumRegs + 1 names no register

ASSUME RegsAssumption ==
    /\ NumRegs \in Nat \ {0}
    /\ Requests \subseteq SUBSET Names
    /\ FirstAlone \in BOOLEAN
    /\ MaxCalls \in Nat
    /\ "none" \notin Threads

VARIABLES
    org,        \* g_org_getReservedRegsType: "null", "orig" or "hook"
    slot,       \* the vtable slot of getReservedRegs: "orig" or "hook"
    regmap,     \* g_regNameToIdx
    pc,         \* pc[t]
    calls,      \* calls[t]: the calls t has made, naming its contexts
    wanted,     \* wanted[t]: reserved_regs of the context of the current call
    tls,        \* tls[t]: g_reservedRegs, a context of t (0: null pointer)
    fill,       \* fill[t]: i, the index the fill loop of t enters next
    bits,       \* bits[t]: what getReservedRegs returned, beyond the original
    warm,       \* some jit has completed
    crashed     \* the thread whose undefined behaviour ended the process

vars == <<org, slot, regmap, pc, calls, wanted, tls, fill, bits, warm, crashed>>

NoOne == "none"

Compiling == {"check", "save", "store", "write", "codegen",
              "fill", "call", "return"}
Deserializing == {"dcodegen", "dfill", "dcall", "dreturn"}

\* The Context of a jit lives until the call returns or throws.
ContextLive(t) == pc[t] \in Compiling

\* Thread t is at l, and the process runs.
At(t, l) == pc[t] = l /\ crashed = NoOne

Jump(t, l) == pc' = [pc EXCEPT ![t] = l]

\* Until a jit has completed, the program keeps to one thread (if it does).
MayStart(t) ==
    FirstAlone => warm \/ \A u \in Threads \ {t} : pc[u] = "idle"

\* easy::jit_: a Context with the caller's register list.
StartJit(t, regs) ==
    /\ At(t, "idle") /\ calls[t] < MaxCalls /\ MayStart(t)
    /\ calls' = [calls EXCEPT ![t] = @ + 1]
    /\ wanted' = [wanted EXCEPT ![t] = regs]
    /\ Jump(t, "check")
    /\ UNCHANGED <<org, slot, regmap, tls, fill, bits, warm, crashed>>

\* Defect: the hook is installed by every Compile.
HookCheckAlways(t) ==
    /\ At(t, "check")
    /\ Jump(t, "save")
    /\ UNCHANGED <<org, slot, regmap, calls, wanted, tls, fill, bits, warm, crashed>>

\* Hook_getReservedRegs: the hook is installed unless g_org is set.
HookCheck(t) ==
    /\ At(t, "check")
    /\ Jump(t, IF org = "null" THEN "save" ELSE "write")
    /\ UNCHANGED <<org, slot, regmap, calls, wanted, tls, fill, bits, warm, crashed>>

\* g_org.addr = vtbl[idx], after the page has been made writable.
HookSave(t) ==
    /\ At(t, "save")
    /\ org' = slot
    /\ Jump(t, "store")
    /\ UNCHANGED <<slot, regmap, calls, wanted, tls, fill, bits, warm, crashed>>

\* vtbl[idx] = hooked.addr.
HookStore(t) ==
    /\ At(t, "store")
    /\ slot' = "hook"
    /\ Jump(t, "write")
    /\ UNCHANGED <<org, regmap, calls, wanted, tls, fill, bits, warm, crashed>>

\* The optimised module is written to the dump file, then the thread_local
\* is pointed at the register list of the Context.
SetReservedRegs(t) ==
    /\ At(t, "write")
    /\ tls' = [tls EXCEPT ![t] = calls[t]]
    /\ Jump(t, "codegen")
    /\ UNCHANGED <<org, slot, regmap, calls, wanted, fill, bits, warm, crashed>>

\* An exception ends the call: the function is not registered, the dump
\* file cannot be opened, the bitcode to deserialize cannot be parsed (a null
\* result, with the same effect here), or the engine cannot be created.  (A
\* failing dump also deletes the module twice: see Linking.)
Throw(t) ==
    /\ pc[t] \in {"check", "write", "codegen", "dcodegen"} /\ crashed = NoOne
    /\ Jump(t, "idle")
    /\ UNCHANGED <<org, slot, regmap, calls, wanted, tls, fill, bits, warm, crashed>>

\* Function::deserialize: straight to code generation.
StartDeserialize(t) ==
    /\ At(t, "idle") /\ calls[t] < MaxCalls /\ MayStart(t)
    /\ calls' = [calls EXCEPT ![t] = @ + 1]
    /\ Jump(t, "dcodegen")
    /\ UNCHANGED <<org, slot, regmap, wanted, tls, fill, bits, warm, crashed>>

\* The same code runs in both kinds of call.
In(t, l, d) == At(t, l) \/ At(t, d)
Step(t, l, d) == Jump(t, IF ContextLive(t) THEN l ELSE d)

\* getFunctionAddress generates code, which calls getReservedRegs through
\* the vtable.
CallUnhooked(t) ==
    /\ In(t, "codegen", "dcodegen") /\ slot = "orig"
    /\ bits' = [bits EXCEPT ![t] = {}]
    /\ Step(t, "return", "dreturn")
    /\ UNCHANGED <<org, slot, regmap, calls, wanted, tls, fill, warm, crashed>>

\* Defect: the map is not filled on the first call.
EnterHookUnfilled(t) ==
    /\ In(t, "codegen", "dcodegen") /\ slot = "hook"
    /\ Step(t, "call", "dcall")
    /\ UNCHANGED <<org, slot, regmap, calls, wanted, tls, fill, bits, warm, crashed>>

\* Hooked_getReservedRegs: if the map is empty, every register is entered.
EnterHook(t) ==
    /\ In(t, "codegen", "dcodegen") /\ slot = "hook"
    /\ IF DOMAIN regmap = {}
       THEN fill' = [fill EXCEPT ![t] = 0] /\ Step(t, "fill", "dfill")
       ELSE UNCHANGED fill /\ Step(t, "call", "dcall")
    /\ UNCHANGED <<org, slot, regmap, calls, wanted, tls, bits, warm, crashed>>

\* Defect: registers are counted from one too many.
EnterNext(m, r, i) == [n \in DOMAIN m \cup {r} |-> IF n = r THEN i + 1 ELSE m[n]]

\* g_regNameToIdx[name] = i, in the order of the indices.
Enter(m, r, i) == [n \in DOMAIN m \cup {r} |-> IF n = r THEN i ELSE m[n]]

\* Defect: the loop does not advance.
FillMapStuck(t) ==
    /\ In(t, "fill", "dfill")
    /\ regmap' = Enter(regmap, fill[t], fill[t])
    /\ UNCHANGED <<org, slot, pc, calls, wanted, tls, fill, bits, warm, crashed>>

FillMap(t) ==
    /\ In(t, "fill", "dfill")
    /\ regmap' = Enter(regmap, fill[t], fill[t])
    /\ fill' = [fill EXCEPT ![t] = @ + 1]
    /\ IF fill[t] = NumRegs THEN Step(t, "call", "dcall") ELSE UNCHANGED pc
    /\ UNCHANGED <<org, slot, calls, wanted, tls, bits, warm, crashed>>

\* The list the hook reads is there: the pointer is to a live Context.
ReadsLive(t) == ContextLive(t) /\ tls[t] = calls[t]

\* operator[] gives an absent name the index 0, and keeps it.
Lookup(m, n) == IF n \in DOMAIN m THEN m[n] ELSE 0

\* The hook calls the original, then sets the bit of each reserved register.
ReadReservedRegs(t) ==
    /\ In(t, "call", "dcall") /\ org = "orig" /\ ReadsLive(t)
    /\ bits' = [bits EXCEPT ![t] = {Lookup(regmap, n) : n \in wanted[t]}]
    /\ regmap' = [n \in DOMAIN regmap \cup wanted[t] |-> Lookup(regmap, n)]
    /\ Step(t, "return", "dreturn")
    /\ UNCHANGED <<org, slot, calls, wanted, tls, fill, warm, crashed>>

\* The hook calls itself for ever, or reads through a null or dangling
\* pointer.
Crash(t) ==
    /\ In(t, "call", "dcall") /\ (org # "orig" \/ ~ReadsLive(t))
    /\ crashed' = t
    /\ UNCHANGED <<org, slot, regmap, pc, calls, wanted, tls, fill, bits, warm>>

\* The call returns; a jit's Context is destroyed.
Return(t) ==
    /\ In(t, "return", "dreturn")
    /\ warm' = (warm \/ pc[t] = "return")
    /\ Jump(t, "idle")
    /\ UNCHANGED <<org, slot, regmap, calls, wanted, tls, fill, bits, crashed>>

Init ==
    /\ org = "null" /\ slot = "orig" /\ regmap = [n \in {} |-> 0]
    /\ pc = [t \in Threads |-> "idle"] /\ calls = [t \in Threads |-> 0]
    /\ wanted = [t \in Threads |-> {}] /\ tls = [t \in Threads |-> 0]
    /\ fill = [t \in Threads |-> 0] /\ bits = [t \in Threads |-> {}]
    /\ warm = FALSE /\ crashed = NoOne

\* One thread runs on until it is done.
Run(t) ==
    \/ HookCheck(t) \/ HookSave(t) \/ HookStore(t) \/ SetReservedRegs(t)
    \/ CallUnhooked(t) \/ EnterHook(t) \/ FillMap(t) \/ ReadReservedRegs(t)
    \/ Crash(t) \/ Return(t)

Next ==
    \E t \in Threads :
        \/ \E regs \in Requests : StartJit(t, regs)
        \/ StartDeserialize(t) \/ Throw(t) \/ Run(t)

Spec == Init /\ [][Next]_vars

\* The operating system schedules every thread.
FairSpec == Spec /\ \A t \in Threads : WF_vars(Run(t))
---------------------------------------------------------------------------
(* Properties.                                                             *)

\* Registers a name list stands for; a name of no register stands for 0.
IndexOf(n) == IF n \in Regs THEN n ELSE 0

\* Every piece of the state has its type: the map never gives an index that
\* is not a register of the target (bit.set is in range).
TypeOK ==
    /\ org \in {"null", "orig", "hook"}
    /\ slot \in {"orig", "hook"}
    /\ DOMAIN regmap \subseteq Names
    /\ \A n \in DOMAIN regmap : regmap[n] \in 0 .. NumRegs
    /\ pc \in [Threads -> {"idle"} \cup Compiling \cup Deserializing]
    /\ calls \in [Threads -> Nat]
    /\ wanted \in [Threads -> SUBSET Names]
    /\ tls \in [Threads -> Nat]
    /\ fill \in [Threads -> 0 .. NumRegs + 1]
    /\ bits \in [Threads -> SUBSET (0 .. NumRegs)]
    /\ warm \in BOOLEAN
    /\ crashed \in Threads \cup {NoOne}

\* Code generated for a jit reserves exactly the registers its own caller
\* listed, whatever other threads compile with other lists meanwhile.
ReservedExact ==
    \A t \in Threads :
        pc[t] = "return" => bits[t] = {IndexOf(n) : n \in wanted[t]}

\* Compile never recurses into its own hook nor reads another call's or a
\* dead Context; only deserialize, which sets no register list, can.
CrashOnlyInDeserialize == crashed # NoOne => pc[crashed] = "dcall"

\* The original getReservedRegs is saved once and stays saved, and the hook
\* stays installed.
HookOnce ==
    [][/\ org # "null" => org' = org
       /\ slot = "hook" => slot' = "hook"]_vars

\* Every call returns, throws, or ends the process.
CallsEnd == \A t \in Threads : pc[t] # "idle" ~> pc[t] = "idle" \/ crashed # NoOne

\* Compiling and deserializing functions does not crash.
NoCrash == crashed = NoOne
===========================================================================
