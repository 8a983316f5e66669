------------------------------ MODULE Linking ------------------------------
(***************************************************************************)
(* What code an easy::Function consists of: the BitcodeTracker and the     *)
(* names it knows, the linking done by Function::Compile (by name) and by  *)
(* InlineParameters (by address, and of composed functions), the EmitCodes *)
(* pass, the entry metadata, the mapping of local globals, and the way     *)
(* through serialize and deserialize (runtime/Function.cpp, Utils.cpp,     *)
(* BitcodeTracker.cpp, pass/EmitCodes.cpp).                                *)
(*                                                                         *)
(* A module is a set of numbered symbols.  Every reference of a body       *)
(* records what it refers to in the source (want) and the symbol it is     *)
(* bound to (at): linking goes by name, and the question is whether the    *)
(* two still agree in the code that runs.                                  *)
(***************************************************************************)
EXTENDS Integers, Sequences, FiniteSets, Functions

CONSTANT Programs   \* the programs considered

NoUnit == 0
NoObject == 0

(***************************************************************************)
(* A program: its global objects are numbered, each is defined in one      *)
(* translation unit.  vars: the variables, constant: those never written;  *)
(* local: static objects, string literals, ...; optnone: functions with    *)
(* that attribute; stub: functions that contain an EMIT_STUB; uses: what   *)
(* the body or initializer names; calls: the direct calls of a function in *)
(* the order of its instructions; jit: the objects the plugin extracts;    *)
(* asked: the functions the program specialises; passed: the objects whose *)
(* address is bound to a parameter; takes: how many pointer parameters a   *)
(* function has; bytes: the contents of RawBytes::bytes in use; dumps:     *)
(* whether requests have the option dump_ir; most: a bound on the          *)
(* easy::Functions it creates.                                             *)
(*                                                                         *)
(* Two objects may share a name only if one of them is local to its unit.  *)
(* Left out: inline functions and template instances that several units    *)
(* define under one name (linkonce_odr).  Such copies are the same code.   *)
(***************************************************************************)
Objs(p) == 1 .. Len(p.name)

WellFormed(p) ==
    LET O == Objs(p) IN
    /\ p.unit \in [O -> Nat \ {NoUnit}]
    /\ \A f \in {"vars", "constant", "local", "optnone", "stub", "jit", "asked", "passed"} : p[f] \subseteq O
    /\ p.asked \cap p.vars = {} /\ p.most \in Nat /\ p.dumps \subseteq BOOLEAN
    /\ \A o \in O : /\ p.uses[o] \subseteq O
                    /\ p.calls[o] \in Seq(p.uses[o] \ p.vars)
                    /\ p.takes[o] \in Nat
                    /\ \A q \in p.uses[o] : p.unit[q] = p.unit[o] \/ q \notin p.local
    /\ p.name \in Seq(STRING)
    /\ \A o, q \in O : o # q /\ p.name[o] = p.name[q] =>
                         /\ p.unit[o] # p.unit[q] /\ (o \in p.local \/ q \in p.local)
                         /\ \A x \in O : p.unit[x] = p.unit[o] => q \notin p.uses[x]

ASSUME LinkingAssumption == \A p \in Programs : WellFormed(p)

VARIABLES
    P,          \* the program
    functions,  \* Functions: the registered objects, by address
    byName,     \* NameToAddress
    made,       \* the easy::Functions
    cur,        \* the call of Function::Compile in progress
    buffers     \* what has been serialized: numbers of functions

vars == <<P, functions, byName, made, cur, buffers>>

\* A piece of code: an object of the program, or the wrapper that the n-th
\* easy::Function was created with.
Thing(o, n) == [obj |-> o, n |-> n]
Code(o) == Thing(o, 0)
Unresolved == Thing(0, 0)

\* Symbol names: LLVM appends a number to a name that is taken.
Name(o) == <<P.name[o], 0>>
Renamed(nm, n) == <<nm[1], n>>

---------------------------------------------------------------------------
(* What the plugin leaves in the program (pass/Easy.cpp).                  *)

\* getReferencedFromEntry, within the unit of the entry.
Referenced(o) ==
    LET R[n \in Nat] ==
          IF n = 0 THEN {o}
          ELSE LET T == R[n - 1]
               IN T \cup UNION {P.uses[q] : q \in {x \in T : P.unit[x] = P.unit[o]}}
    IN R[Cardinality(Objs(P))]

\* cleanModule: the functions referenced are defined, other objects are
\* declarations; the extraction makes all of them external, and fixLinkages
\* makes functions private again.
Embedded(o) ==
    LET defs == {o} \cup {q \in Referenced(o) : q \notin P.vars /\ P.unit[q] = P.unit[o]}
        all == defs \cup UNION {P.uses[d] : d \in defs}
    IN [q \in all |->
          [of   |-> Code(q), name |-> Name(q), def |-> q \in defs,
           ext  |-> q = o \/ q \notin defs \/ o \in P.vars \/ q \in P.optnone,
           asm  |-> IF q \in P.stub THEN "nop" ELSE "-",
           refs |-> IF q \in defs THEN {[want |-> Code(x), arg |-> 0, at |-> x] : x \in P.uses[q]}
                    ELSE {}]]

\* Defect: only extracted variables are in the mapping.
GlobalsExtracted(u) == {v \in P.vars \cap P.local \cap P.jit : P.unit[v] = u}

\* collectLocalGlobals, nameGlobals, getGlobalMapping: the variables a
\* function registered by unit u has the addresses of.
Globals(u) == {v \in P.vars \cap P.local : P.unit[v] = u}

---------------------------------------------------------------------------
(* Modules.                                                                *)

Top(M) == CHOOSE t \in DOMAIN M : \A i \in DOMAIN M : i <= t

\* The largest number LLVM has appended to a name of M.
Suffix(M) == LET S == {M[i].name[2] : i \in DOMAIN M}
             IN CHOOSE n \in S : \A m \in S : m <= n

Named(M, nm) == {i \in DOMAIN M : M[i].name = nm}

\* Module::getNamedValue, Module::getFunction.
GetNamedValue(M, nm) == CHOOSE i \in Named(M, nm) : TRUE

\* GlobalValue::setLinkage(PrivateLinkage).
SetPrivate(M, i) == [M EXCEPT ![i].ext = FALSE]

\* Linker::linkModules with OverrideFromSrc.  Only external symbols meet by
\* name: a definition of the source replaces the symbol of M it meets, which
\* is erased; a declaration of the source becomes it.  An external symbol
\* of the source takes its name from a private one of M; a private one of
\* the source does not.
LinkModules(M, S) ==
    LET off == Top(M)
        Peer(s) == {i \in DOMAIN M : S[s].ext /\ M[i].ext /\ M[i].name = S[s].name}
        merged == {s \in DOMAIN S : Peer(s) # {} /\ ~S[s].def}
        moved == DOMAIN S \ merged
        erased == {i \in DOMAIN M : \E s \in moved : i \in Peer(s)}
        taken == {S[s].name : s \in {x \in moved : S[x].ext}}
        new == Suffix(M) + Suffix(S)
        Into(s) == IF s \in merged THEN CHOOSE i \in Peer(s) : TRUE ELSE off + s
        After(i) == IF i \in erased THEN off + (CHOOSE s \in moved : i \in Peer(s)) ELSE i
    IN [i \in (DOMAIN M \ erased) \cup {off + s : s \in moved} |->
          IF i <= off
          THEN [M[i] EXCEPT !.name = IF @ \in taken THEN Renamed(@, new + i) ELSE @,
                            !.refs = {[r EXCEPT !.at = After(@)] : r \in @}]
          ELSE [S[i - off] EXCEPT
                  !.name = IF ~S[i - off].ext /\ Named(M, @) # {} THEN Renamed(@, new + i) ELSE @,
                  !.refs = {[r EXCEPT !.at = Into(@)] : r \in @}]]

\* Both LinkPointerIfPossible, once the object is known to be registered.
LinkObject(M, o) ==
    LET L == LinkModules(M, Embedded(o))
    IN SetPrivate(L, GetNamedValue(L, Name(o)))

\* BitcodeTracker::hasGlobalMapping.
HasGlobalMapping(o) == o \in functions

\* BitcodeTracker::getAddress, NoObject being the null pointer.
GetAddress(nm) == IF nm \in DOMAIN byName THEN byName[nm] ELSE NoObject

\* LinkPointerIfPossible(M, Name) of Function.cpp.
LinkByName(M, nm) == IF GetAddress(nm) # NoObject THEN LinkObject(M, GetAddress(nm)) ELSE M

(* The metadata easy::jit: the names of the entries of a module.           *)

GetEntryFunctionName(entries) == Head(entries)

MarkAsEntry(entries, nm) == Append(entries, nm)

\* Defect: the entry of the copy stays marked.
UnmarkEntryNot(entries) == entries

UnmarkEntry(entries) == <<>>

---------------------------------------------------------------------------
(* Registration.                                                           *)

Idle == [pc |-> "idle"]
Foreign == [pc |-> "undefined", fun |-> NoObject]

Registered(u) == {o \in P.jit : P.unit[o] = u}

\* Defect: a name is registered with the address of any object of the unit.
RegisterUnitMixed(u) ==
    /\ cur = Idle /\ Registered(u) # {} /\ Registered(u) \cap functions = {}
    /\ functions' = functions \cup Registered(u)
    /\ byName' = [nm \in DOMAIN byName \cup {Name(o) : o \in Registered(u)} |->
                    IF nm \in DOMAIN byName THEN byName[nm]
                    ELSE CHOOSE o \in Registered(u) : TRUE]
    /\ UNCHANGED <<P, made, cur, buffers>>

\* The constructor register_bitcode of a unit: registerFunction for each of
\* its objects.  A name that is already known keeps its address.
RegisterUnit(u) ==
    /\ cur = Idle /\ Registered(u) # {} /\ Registered(u) \cap functions = {}
    /\ functions' = functions \cup Registered(u)
    /\ byName' = [nm \in DOMAIN byName \cup {Name(o) : o \in Registered(u)} |->
                    IF nm \in DOMAIN byName THEN byName[nm]
                    ELSE CHOOSE o \in Registered(u) : Name(o) = nm]
    /\ UNCHANGED <<P, made, cur, buffers>>

---------------------------------------------------------------------------
(* Function::Compile.                                                      *)

\* A request binds pointers to objects and easy::Functions to the first
\* pointer parameters of fun.  A class argument whose fields are pointers to
\* functions makes GetGlobalStruct link each of them in the way a pointer
\* argument is linked; it is represented by as many pointer arguments.
Arguments == [kind : {"ptr"}, x : P.passed]
               \cup [kind : {"mod"}, x : DOMAIN made]

Lists(n) == UNION {[1 .. k -> Arguments] : k \in 0 .. n}

Wanted(a) == IF a.kind = "ptr" THEN Code(a.x) ELSE made[a.x].thing

\* BT.getNameAndGlobalMapping, which throws BitcodeNotRegistered for other
\* addresses, and BT.getModule; ResolveModule collects the names of the
\* direct callees.
Compile(o, args, bytes, dump) ==
    /\ cur = Idle /\ HasGlobalMapping(o) /\ Len(made) < P.most
    /\ cur' = [pc |-> "resolve", fun |-> o, args |-> args, bytes |-> bytes, dump |-> dump,
               mod |-> Embedded(o), todo |-> [k \in DOMAIN P.calls[o] |-> Name(P.calls[o][k])],
               target |-> 0, refs |-> {}, k |-> 1, entries |-> <<>>]
    /\ UNCHANGED <<P, functions, byName, made, buffers>>

\* ResolveModule links the next callee.
ResolveNext ==
    /\ cur.pc = "resolve" /\ cur.todo # <<>>
    /\ cur' = [cur EXCEPT !.mod = LinkByName(@, Head(cur.todo)), !.todo = Tail(@)]
    /\ UNCHANGED <<P, functions, byName, made, buffers>>

\* Defect: the function is looked up before ResolveModule.
EmitCodesStale ==
    /\ cur.pc = "resolve" /\ cur.todo = <<>>
    /\ cur' = [cur EXCEPT !.pc = "inline", !.target = cur.fun]
    /\ UNCHANGED <<P, functions, byName, made, buffers>>

\* Defect: EmitCodes runs after InlineParameters, on the wrapper.
EmitCodesLate ==
    /\ cur.pc = "resolve" /\ cur.todo = <<>>
    /\ cur' = [cur EXCEPT !.pc = "inline",
                          !.target = GetNamedValue(cur.mod, Name(cur.fun))]
    /\ UNCHANGED <<P, functions, byName, made, buffers>>

\* EmitCodes::runOnFunction: the placeholders of the function named Name are
\* replaced by the bytes (by nothing, if there are none).  Then runOnModule
\* of InlineParameters looks the function up.
EmitCodes ==
    /\ cur.pc = "resolve" /\ cur.todo = <<>>
    /\ LET i == GetNamedValue(cur.mod, Name(cur.fun))
       IN cur' = [cur EXCEPT !.pc = "inline", !.target = i,
                             !.mod[i].asm = IF cur.mod[i].def /\ @ = "nop" THEN cur.bytes ELSE @]
    /\ UNCHANGED <<P, functions, byName, made, buffers>>

\* GetInlineArgs takes the symbol named nm of the module as next argument;
\* marks are the entries that linking has brought along.
PassSymbol(M, nm, marks) ==
    cur' = [cur EXCEPT
              !.mod = SetPrivate(M, GetNamedValue(M, nm)), !.k = @ + 1,
              !.entries = @ \o marks,
              !.refs = @ \cup {[want |-> Wanted(cur.args[cur.k]), arg |-> cur.k,
                                at |-> GetNamedValue(M, nm)]}]

\* Defect: a pointer is linked by the name of what it points to.
InlinePointerByName ==
    /\ cur.pc = "inline" /\ cur.k <= Len(cur.args) /\ cur.args[cur.k].kind = "ptr"
    /\ LET o == cur.args[cur.k].x
       IN IF HasGlobalMapping(o) THEN PassSymbol(LinkByName(cur.mod, Name(o)), Name(o), <<>>)
                                 ELSE cur' = [cur EXCEPT !.k = @ + 1]
    /\ UNCHANGED <<P, functions, byName, made, buffers>>

\* AK_Ptr: a registered object is linked, any other stays an address.
InlinePointer ==
    /\ cur.pc = "inline" /\ cur.k <= Len(cur.args) /\ cur.args[cur.k].kind = "ptr"
    /\ LET o == cur.args[cur.k].x
       IN IF HasGlobalMapping(o) THEN PassSymbol(LinkObject(cur.mod, o), Name(o), <<>>)
                                 ELSE cur' = [cur EXCEPT !.k = @ + 1]
    /\ UNCHANGED <<P, functions, byName, made, buffers>>

\* AK_Module: the composed function's module is cloned, its entry unmarked,
\* linked, and found again by the name of the entry.
InlineModule ==
    /\ cur.pc = "inline" /\ cur.k <= Len(cur.args) /\ cur.args[cur.k].kind = "mod"
    /\ LET f == made[cur.args[cur.k].x]
       IN PassSymbol(LinkModules(cur.mod, f.mod), GetEntryFunctionName(f.entries),
                     UnmarkEntry(f.entries))
    /\ UNCHANGED <<P, functions, byName, made, buffers>>

\* CreateWrapperFun and runOnModule: the wrapper calls the function, which
\* becomes private, takes its name and is marked as the entry.
CreateWrapperFun ==
    /\ cur.pc = "inline" /\ cur.k > Len(cur.args) /\ cur.target \in DOMAIN cur.mod
    /\ LET M == cur.mod
           w == Top(M) + 1
           nm == M[cur.target].name
       IN cur' = [cur EXCEPT
                    !.pc = "codegen", !.entries = MarkAsEntry(@, nm),
                    !.mod = [i \in DOMAIN M \cup {w} |->
                       IF i = w
                       THEN [of |-> Thing(cur.fun, Len(made) + 1), name |-> nm,
                             def |-> TRUE, ext |-> TRUE, asm |-> "-",
                             refs |-> cur.refs \cup {[want |-> Code(cur.fun), arg |-> 0,
                                                      at |-> cur.target]}]
                       ELSE IF i = cur.target
                       THEN [M[i] EXCEPT !.name = Renamed(@, Suffix(M) + 1), !.ext = FALSE]
                       ELSE M[i]]]
    /\ UNCHANGED <<P, functions, byName, made, buffers>>

\* The program has no meaning any more.
LoseMeaning == cur' = [cur EXCEPT !.pc = "undefined"]

\* Linking an argument erased the function that is being specialised: F is
\* a dangling reference.
TargetErased ==
    /\ cur.pc = "inline" /\ cur.k > Len(cur.args) /\ cur.target \notin DOMAIN cur.mod
    /\ LoseMeaning
    /\ UNCHANGED <<P, functions, byName, made, buffers>>

\* ExecutionEngine::getFunctionAddress: 0 if no symbol can be called.
GetFunctionAddress(M, nm) ==
    IF \E i \in Named(M, nm) : M[i].def /\ M[i].ext THEN GetNamedValue(M, nm) ELSE 0

\* CompileAndWrap.  The request is kept to state the properties.
CompileAndWrap ==
    /\ cur.pc = "codegen"
    /\ made' = Append(made, [mod |-> cur.mod, entries |-> cur.entries,
                             address |-> GetFunctionAddress(cur.mod, Name(cur.fun)),
                             globals |-> P.unit[cur.fun],
                             thing |-> Thing(cur.fun, Len(made) + 1),
                             args |-> cur.args, bytes |-> cur.bytes, from |-> 0])
    /\ cur' = Idle
    /\ UNCHANGED <<P, functions, byName, buffers>>

\* The order in which an exception destroys the owners of the module (M)
\* and of its context (Ctx): the local variables of Function::Compile,
\* last declared first.
CompileUnwind == <<"Ctx", "M">>

\* Defect: the context goes before the engine builder's module.
EngineUnwindLate == <<"Ctx", "M">>

\* The builder in GetEngine owns the module, CompileAndWrap the context.
EngineUnwind == <<"M", "Ctx">>

\* A context deletes the modules that still live in it, so the module's own
\* owner must go first.
Unwind(order) ==
    IF \E i, j \in DOMAIN order : i < j /\ order[i] = "Ctx" /\ order[j] = "M"
    THEN LoseMeaning
    ELSE cur' = Idle

\* WriteOptimizedToFile cannot open the file to dump to.
DumpThrows ==
    /\ cur.pc = "codegen" /\ cur.dump
    /\ Unwind(CompileUnwind)
    /\ UNCHANGED <<P, functions, byName, made, buffers>>

\* GetEngine cannot create the engine.
EngineThrows ==
    /\ cur.pc = "codegen"
    /\ Unwind(EngineUnwind)
    /\ UNCHANGED <<P, functions, byName, made, buffers>>

---------------------------------------------------------------------------
(* Serialization.                                                          *)

\* Function::serialize.
Serialize(f) ==
    /\ cur = Idle /\ f \in DOMAIN made \ buffers
    /\ buffers' = buffers \cup {f}
    /\ UNCHANGED <<P, functions, byName, made, cur>>

\* Defect: deserialize maps no globals.
GlobalsByNameNone(nm) == NoUnit

\* The unit whose globals deserialize maps: that of the function registered
\* under the name of the entry.
GlobalsByName(nm) == IF GetAddress(nm) # NoObject THEN P.unit[GetAddress(nm)] ELSE NoUnit

\* Function::deserialize.
Deserialize(f) ==
    /\ cur = Idle /\ f \in buffers /\ Len(made) < P.most
    /\ LET nm == GetEntryFunctionName(made[f].entries)
       IN made' = Append(made, [made[f] EXCEPT
                                  !.globals = GlobalsByName(nm), !.from = f,
                                  !.address = GetFunctionAddress(made[f].mod, nm)])
    /\ UNCHANGED <<P, functions, byName, cur, buffers>>

\* GetEntryFunctionName dereferences null for bitcode that easy::jit has
\* not produced.  (Bytes that are no bitcode give a null Function.)
DeserializeForeign ==
    /\ cur = Idle
    /\ cur' = Foreign
    /\ UNCHANGED <<P, functions, byName, made, buffers>>

Init ==
    /\ P \in Programs
    /\ functions = {} /\ byName = [nm \in {} |-> 0]
    /\ made = <<>> /\ cur = Idle /\ buffers = {}

Next ==
    \/ \E u \in {P.unit[o] : o \in Objs(P)} : RegisterUnit(u)
    \/ \E o \in P.asked, b \in P.bytes, d \in P.dumps : \E args \in Lists(P.takes[o]) :
          Compile(o, args, b, d)
    \/ ResolveNext \/ EmitCodes \/ InlinePointer \/ InlineModule
    \/ CreateWrapperFun \/ TargetErased \/ CompileAndWrap \/ DumpThrows \/ EngineThrows
    \/ \E f \in DOMAIN made : Serialize(f) \/ Deserialize(f)
    \/ DeserializeForeign

Spec == Init /\ [][Next]_vars

---------------------------------------------------------------------------
(* Properties.                                                             *)

Things == [obj : Objs(P), n : 0 .. P.most]

\* A module: its names are distinct and its references stay inside.
IsModule(M) ==
    /\ \A i \in DOMAIN M :
         /\ M[i].of \in Things
         /\ M[i].def \in BOOLEAN /\ M[i].ext \in BOOLEAN
         /\ \A r \in M[i].refs : r.want \in Things /\ r.at \in DOMAIN M
    /\ \A i, j \in DOMAIN M : M[i].name = M[j].name => i = j

\* Every piece of the state has its type; in particular linking leaves a
\* module whose references are not dangling and whose names are distinct.
TypeOK ==
    /\ functions \subseteq P.jit
    /\ \A nm \in DOMAIN byName : byName[nm] \in functions /\ Name(byName[nm]) = nm
    /\ Len(made) <= P.most
    /\ \A f \in DOMAIN made : IsModule(made[f].mod) /\ made[f].entries # <<>>
    /\ cur \notin {Idle, Foreign} => IsModule(cur.mod)
    /\ buffers \subseteq DOMAIN made

\* What symbol i of a function is when the code runs: a definition is the
\* code it has (a private copy, if it is a variable that is written), a
\* declaration is looked up in the mapped globals, then in the process.
Resolve(u, nm) ==
    LET S == {v \in Globals(u) : Name(v) = nm}
        T == {o \in Objs(P) \ P.local : Name(o) = nm}
    IN IF S # {} THEN Code(CHOOSE v \in S : TRUE)
       ELSE IF T # {} THEN Code(CHOOSE o \in T : TRUE)
       ELSE Unresolved

IsCopy(t) == t.n = 0 /\ t.obj \in P.vars \ P.constant

Means(f, i) ==
    LET sym == made[f].mod[i]
    IN IF sym.def THEN IF IsCopy(sym.of) THEN Thing(sym.of.obj, -1) ELSE sym.of
       ELSE IF sym.ext THEN Resolve(made[f].globals, sym.name)
       ELSE Unresolved

\* The references of the code of a function.
Refs(f) == UNION {made[f].mod[i].refs : i \in {j \in DOMAIN made[f].mod : made[f].mod[j].def}}

\* What the initializers of extracted variables name: in their modules
\* functions stay external.
Tabled == UNION {Referenced(v) : v \in P.jit \cap P.vars}

\* Programs in which only private functions share a name with another
\* object, those in tables with none that can be linked, and only constants
\* are exported among the variables.
NamesApart ==
    /\ \A o, q \in Objs(P) : o # q /\ P.name[o] = P.name[q] =>
         /\ {o, q} \subseteq P.local \ (P.vars \cup P.optnone)
         /\ o \in Tabled => q \notin P.jit \cup Tabled
    /\ P.jit \cap P.vars \subseteq P.constant

\* The modules a request links into the one of o, apart from o's own.
Linked(o, args) ==
    {Embedded(byName[nm]) : nm \in {Name(q) : q \in P.uses[o] \ {o}} \cap DOMAIN byName}
      \cup {Embedded(a.x) : a \in {b \in Range(args) : b.kind = "ptr" /\ b.x \in functions}}
      \cup {made[a.x].mod : a \in {b \in Range(args) : b.kind = "mod"}}

SelfCalls(o) == \E k \in DOMAIN P.calls[o] : P.calls[o][k] = o

\* For the call of itself a function gets its own module.
OwnModule(o) == SelfCalls(o) => byName[Name(o)] = o

\* The names of functions by which the modules of a request refer to each
\* other, except that of the function itself.
Meeting(o, args) ==
    {Name(q) : q \in {x \in DOMAIN Embedded(o) \ {o} : Embedded(o)[x].ext}}
      \cup UNION {{S[i].name : i \in {j \in DOMAIN S : S[j].ext /\ S[j].of.n = 0}} : S \in Linked(o, args)}

\* A composed function shares its name with none of these: it would take
\* the place of the function it specialises.
Composable(o, args) ==
    \A a \in Range(args) : a.kind = "mod" =>
        GetEntryFunctionName(made[a.x].entries) \notin Meeting(o, args)

BoundApart ==
    /\ NamesApart
    /\ \A f \in DOMAIN made : LET F == made[f] IN
         OwnModule(F.thing.obj) /\ Composable(F.thing.obj, F.args)

\* Linking by name never binds a reference to other code or other data than
\* the source names: at worst the symbol is missing and code generation
\* fails.  This holds as long as no request has composed a function with
\* code that names the original, or has linked the namesake of a recursive
\* function in its place.
NeverMisbound ==
    BoundApart => \A f \in DOMAIN made : \A r \in Refs(f) : Means(f, r.at) \in {r.want, Unresolved}

\* No module that is linked defines the function that is specialised once
\* more, or even names it if it is recursive (its own module is then linked
\* first, which makes it private).
Undisturbed(o, args) ==
    \A S \in Linked(o, args) : \A i \in DOMAIN S :
        S[i].ext /\ S[i].name = Name(o) => ~S[i].def /\ ~SelfCalls(o)

\* The wrappers in a module: its own and those of the functions composed
\* into it.
Wrappers(M) == {w \in DOMAIN M : M[w].of.n # 0}

AllUndisturbed(M) ==
    \A w \in Wrappers(M) : LET F == made[M[w].of.n] IN Undisturbed(F.thing.obj, F.args)

\* While InlineParameters builds the wrapper, the function it has looked up
\* is still in the module, with its body.
TargetKept ==
    cur.pc = "inline" /\ Undisturbed(cur.fun, cur.args) =>
        cur.target \in DOMAIN cur.mod /\ cur.mod[cur.target].def

\* A made function is called at the wrapper of its request, and this is the
\* one entry its metadata names: a composed function's mark is gone.
EntryExact ==
    \A f \in DOMAIN made :
        LET F == made[f] IN
        Undisturbed(F.thing.obj, F.args) =>
          /\ F.address # 0 /\ F.mod[F.address].of = F.thing
          /\ F.entries = <<F.mod[F.address].name>>

\* A program keeps its meaning whatever it compiles, composes, serializes
\* and whichever engine cannot be created, except by a request that links
\* the function it specialises again, a dump file that cannot be opened
\* (the module is deleted twice), or bytes that easy::jit did not write.
MeaningKept ==
    cur.pc = "undefined" /\ cur # Foreign =>
        cur.dump \/ ~Undisturbed(cur.fun, cur.args)

\* The function a wrapper w calls.
Callee(M, w) == CHOOSE r \in M[w].refs : r.arg = 0

\* The bytes of a request replace the placeholders of the function it
\* specialises and no others: composed functions keep theirs, and functions
\* only called or passed keep the placeholder.
StubsExact ==
    \A f \in DOMAIN made :
        LET M == made[f].mod
            callees == {Callee(M, w).at : w \in Wrappers(M)}
        IN AllUndisturbed(M) /\ (\A w \in Wrappers(M) : OwnModule(M[w].of.obj)) =>
           /\ \A w \in Wrappers(M) : M[w].of.obj \in P.stub =>
                M[Callee(M, w).at].asm = made[M[w].of.n].bytes
           /\ \A i \in DOMAIN M \ callees :
                M[i].of.n = 0 /\ M[i].of.obj \in P.stub => M[i].asm = "nop"

\* deserialize gives back the function that was serialized: it is called at
\* the same wrapper, and its symbols mean the same, if the name of the entry
\* leads the tracker to the function it was made from.
RoundTrip ==
    \A f \in DOMAIN made : made[f].from # 0 =>
        LET o == made[f].thing.obj
            g == made[f].from
        IN byName[Name(o)] = o /\ Undisturbed(o, made[f].args) =>
             /\ made[f].address = made[g].address
             /\ \A i \in DOMAIN made[f].mod : Means(f, i) = Means(g, i)

\* Everything the code of a function refers to is found, if it uses local
\* variables only of the unit whose globals are mapped, and neither its
\* request nor one composed into it has linked its function again.
AllBound ==
    BoundApart => \A f \in DOMAIN made :
        /\ AllUndisturbed(made[f].mod)
        /\ \A r \in Refs(f) : r.want.obj \in P.vars \cap P.local => P.unit[r.want.obj] = made[f].globals
        => \A r \in Refs(f) : Means(f, r.at) = r.want

\* Every reference of the code that runs is bound to what the source names:
\* the tracker keeps what is needed to compile a function.
RefsFaithful ==
    \A f \in DOMAIN made : \A r \in Refs(f) : Means(f, r.at) = r.want
===========================================================================
