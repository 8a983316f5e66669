# Verification of Easy::Jit

TLA+ specifications of Easy::Jit: a compiler plugin that embeds the LLVM
bitcode of functions in the program, and a runtime library, `easy::jit`, that
specialises such a function for some of its arguments and compiles the result.
The specifications are checked with TLC on small instances, and the most
important properties are proved with TLAPS for every instance.

## 1. The system

| part | source | state it keeps | operations |
|---|---|---|---|
| binding | `include/easy/meta.h`, `param.h`, `jit.h`, `options.h` | the `Context` under construction | the template metaprogram that checks an argument list and computes the new signature; `set_parameters`, `set_options` |
| Context | `include/easy/runtime/Context.h`, `runtime/Context.cpp` | `ArgumentMapping_`, options, `RawBytes_` | setters, `operator==`, hash |
| InlineParameters | `runtime/pass/InlineParameters*.cpp` | layouts of the function and of the wrapper | build the wrapper: forwarded and constant operands, attributes |
| compilation | `runtime/Function.cpp` | the JIT engine and module of each `Function` | `Compile`, `serialize`, `deserialize`, linking |
| reserved registers | `runtime/Function.cpp` | `g_org`, a vtable slot of LLVM, `g_regNameToIdx`, a `thread_local` list | install the hook, the hook itself |
| code cache | `include/easy/code_cache.h`, `function_wrapper.h` | map from (function, Context) to wrapper | `jit`, `has` |
| bitcode tracker | `BitcodeTracker.h/.cpp` | registered functions by address, addresses by name | registration at start-up, look-ups |
| EmitCodes | `runtime/pass/EmitCodes.cpp` | none | replace the placeholders of the function by `RawBytes::bytes` |
| module utilities | `runtime/Utils.cpp` | the metadata `easy::jit` of a module | mark, unmark and find the entry |
| plugin | `pass/Easy.cpp`, `pass/MayAliasTracer.cpp` | sections of the globals, search sets | find the objects to embed, clone, clean and embed a module each |

A program is compiled with the plugin, which embeds one module per extracted
object and a constructor that registers it with the tracker. `easy::jit` binds
its arguments into a `Context` (partly while the program is compiled), and
`Function::Compile` takes the module from the tracker, links what it calls,
runs InlineParameters with the Context, installs the register hook, and
generates code, during which LLVM calls the hook. The cache calls `easy::jit`
for a key it has not met. A compiled function can be an argument of another
`easy::jit` call (composition); the Context then holds a reference to it.

What is hard in this code:

- two sides compute one thing: the C++ signature at compile time, the LLVM
  signature at run time, through four index spaces (arguments, parameters,
  LLVM slots, placeholders);
- process-wide state without locks (vtable slot, name map) used by threads;
- pointers that outlive what they point to (`g_reservedRegs`, cache keys);
- exceptions between two steps that belong together (cache entry, register list);
- searches over cyclic graphs with two mutually recursive halves;
- linking by name: two units may use one name for two things, and the function
  being specialised shares its name with its wrapper and with copies of itself;
- boundaries: no parameters, struct returns, classes that take two slots or none.

`PROJECT.json` lists each hazard at its line with the properties that cover it.

## 2. Modules

| module | models | kind |
|---|---|---|
| `Bind` | `meta.h`, `param.h`, `jit.h`, `options.h` | component |
| `InlineParameters` | `InlineParameters.cpp`, `InlineParametersHelper.cpp` | component, composed with `Bind` |
| `CodeCache` | `code_cache.h`, equality of `Context` | component |
| `ReservedRegs` | hook, `Compile`, `deserialize` of `Function.cpp` | component, concurrent |
| `Extraction` | `Easy.cpp`, `MayAliasTracer.cpp` | component |
| `Linking` | `BitcodeTracker`, `Compile`, `serialize`, `deserialize` of `Function.cpp`, linking in InlineParameters, `EmitCodes.cpp`, `Utils.cpp`, the mapping and linkage made by `Easy.cpp` | composition of these parts |
| `MemoTable` | what the cache promises | abstract specification, implemented by `CodeCache` |
| `MC...` | constants of the TLC instances | instances |
| `ExtractionProofs`, `ReservedRegsProofs`, `CodeCacheProofs`, `InlineParametersProofs`, `LinkingProofs`, `BindingProofs`, `ComposedProofs` | theorems | proofs; the last two extend the one before |
| `NatFacts` | induction and recursive functions over `Nat` | lemmas of the proofs |

Some modules hold operators whose comment starts with *Defect*. They are
plausible bugs of the operator below them: putting one in its place must make
the property named in `PROJECT.json` fail. No specification uses them.

### Bind and InlineParameters

One behaviour is one call of `easy::jit`. `call` holds the C++ parameter types,
the arguments written by the caller, whether the function returns through
memory, and its LLVM parameter types. Recursions over type lists and loops over
arguments are one step per element, with the index `k`:

| phase (`pc`) | code |
|---|---|
| `scan` | `discard_options`, `max_placeholder` |
| `map` | `map_placeholder_to_type::helper`, which stops when all placeholders are seen |
| `params` | `set_parameters`, then `set_options` |
| `layout` | the constructor of `HighLevelLayout` |
| `count`, `keep`, `number` | the three loops of `GetNewLayout` |
| `inline` | `GetInlineArgs`, then `CreateCall` |
| `attrs` | `RemapAttributes`, then `runOnModule` |

A call ends `rejected` (the program does not compile), `undefined` (the pass
reads past an end, dereferences null or builds an ill-typed call), `aborted` (its
assertion) or `compiled`.

What the C++ language and clang make of a type is external and a constant. `Kind`
is the overload of `set_param` a parameter type selects. A scalar or pointer
parameter is copy-initialised, so it takes the types that convert to it implicitly
(`Converts`: a pointer for a `bool`, a derived pointer for a base pointer). A class
parameter takes any object and any option without conversion. A reference, an
enumeration or a union takes no value: `std::addressof<Param>` is ill formed for a
reference, and no overload exists for the others. A function wrapper is taken where
`can_assign_fun_pointer` can be called with its function (`Composes`: function
pointers of its type, but also `bool` and classes made from a function). `Conv` and
`Trunc` are real conversions in the instance: wrapping integers, `bool`, rounding
floating types.

`Lower` is the LLVM type of a parameter, `InMemory` says which classes are passed
by address, `Leaves` which fields a class has in memory. The bytes of a class
argument are abstracted to its value and the type they were copied from. How many
there are is `Size`, how many the pass reads `Extent` (field by field, from memory)
or `SlotSize` (in a register): `StructUndefined` is a read past the end, or a field
for which there is no constant. `FunTypes` are the parameters that really are
functions: a composed function bound to another parameter gives an ill-typed call
(`IllTyped`). A pointer argument is its address; that a registered pointer is
replaced by the linked symbol is in Linking.

### CodeCache

Compiled functions live at addresses that can be reused (`heap`), since a key
may refer to a function by address. `meaning[n]` is what the n-th compilation
computes. `Cache::jit` is three steps: emplace (`EmplaceHit`, `EmplaceMiss`),
compile (`CompileEntry`, `CompileThrows`), return (`ReturnEntry`); between the
first two an exception can leave the empty wrapper. The program compiles and
destroys functions of its own (`ClientJit`, `ClientDrop`). A key whose function
has been replaced has another hash than the bucket it sits in, so it may be
found or missed: both `EmplaceHit` and `EmplaceMiss` are possible then.
`DropReferenced` says whether a client may destroy a function that a cached key
refers to; nothing in the library prevents it.

The two `Cache<Key>::jit` overloads for user-chosen keys run the same three
steps; the model's key is the automatic one.

`Memo == INSTANCE MemoTable WITH ...` maps the cache to a memo table of
meanings: an entry is in the table once its compilation has returned or thrown,
asked for by what its key meant when it was emplaced; `result` is the answer.
`CompileEntry` is `Fill`, `CompileThrows` is `Fail`, `ReturnEntry` is `Answer`,
every other step stutters. `Memoizes` says that this is so. It excludes, beyond
the other properties, an entry added beside an equal one that failed, and a
failure that is forgotten: a key whose compilation threw is never retried.

### ReservedRegs

One process per thread; its steps are its accesses to shared state. `org`,
`slot`, `regmap` are `g_org_getReservedRegsType`, the vtable slot and
`g_regNameToIdx`; `tls[t]` says which call's Context the thread's
`g_reservedRegs` points to. Registers are 0 .. NumRegs, with a name each, and
one name that is no register, which `operator[]` gives the index 0.
Unsynchronised accesses are data races; the model takes the mildest outcome,
interleaved whole accesses, so what it refutes fails in fact, and what it shows
assumes that much. Code generation calls the hook many times; the calls after
the first repeat it, so the model makes one. `Throw` is any exception of
`Compile` or `deserialize`. `FirstAlone` restricts the program: it completes a
jit before it uses a second thread.

### Extraction

A translation unit is a graph of LLVM values with kinds, operands and function
bodies. The mutually recursive functions of `MayAliasTracer` and the loop of
`getReferencedFromEntry` are the same search (`Search`, `Explore`) over nodes
tagged `L` (loaded), `S` (stored) and `R` (referenced). The code explores depth
first; the model explores pending nodes in any order, which includes the code's,
and is insensitive to it exactly if the properties hold. `CleanModule` is the
extraction pass and `fixLinkages`.

### Linking

A program is a constant record: objects (functions and variables) with their
unit, name, linkage, what they use and call, and how the program specialises
them. Its behaviour is a sequence of constructors (`RegisterUnit`, in any order,
also between compilations as with `dlopen`), compilations, and serializations.
A module is a set of symbols; every reference carries what the source names
(`want`) and the symbol it is bound to (`at`), so that the properties can
compare the two after any number of links by name.

| action | code |
|---|---|
| `RegisterUnit` | the constructor `register_bitcode`, `registerFunction`; a known name keeps its address |
| `Compile` | `Function::Compile` up to `ResolveModule`, which collects the names of the direct callees |
| `ResolveNext` | `LinkPointerIfPossible(M, Name)` for the next name |
| `EmitCodes` | the pass, then the look-up of the function by `InlineParameters::runOnModule` |
| `InlinePointer`, `InlineModule` | the cases `AK_Ptr` and `AK_Module` of `GetInlineArgs` |
| `CreateWrapperFun` | the wrapper calls the function, takes its name, is marked |
| `TargetErased` | the function has been erased by a link: `CreateCall(&F, ...)` uses a dangling reference |
| `CompileAndWrap`, `EngineThrows` | the engine, the mapped globals, the address; an engine that cannot be created |
| `DumpThrows` | a request with `dump_ir` whose file cannot be opened: `Compile` declares `M` before `Ctx`, so the context deletes the module before its owner does |
| `Serialize`, `Deserialize`, `DeserializeForeign` | the three outcomes of a buffer |

A class argument with fields that are function pointers links each of them like a
pointer argument (`GetGlobalStruct`); it is represented by pointer arguments. Inline
functions and template instances that several units define under one name
(`linkonce_odr`) are left out: `WellFormed` lets two objects share a name only if
one of them is local.

External and modelled from its use: `Linker::linkModules` with
`OverrideFromSrc` (external symbols of one name become one, a definition of the
source wins; private ones are renamed), the symbol table, `getFunctionAddress`.
`Embedded` takes the closure that `Extraction` computes and adds the linkage.
Optimisation is left out: it changes no meaning of a symbol that is used.

Some conditions occur in the properties, because the code does not meet them
without:

- `NamesApart`: only private functions share a name with another object, those
  in tables with none that can be linked, and only constants are exported among
  the variables. Otherwise a static `optnone` function, or one that an extracted
  table names, meets its namesake in the linker, a local variable is mapped to
  its namesake in the entry's unit, and an exported variable that is written is
  copied privately.
- `Undisturbed`: no linked module defines the function being specialised again
  (composing it with itself, binding it to itself), or names it if it is
  recursive (a callee that calls back). Otherwise the function is erased under
  the pass, or the look-up by name finds a declaration, and the address is null.
- `OwnModule`: the name of a recursive function leads the tracker to itself. Of
  two recursive static functions of one name, the second to register links the
  first in its own place.
- `Composable`: no module of the request names the function that a composed one
  specialises. The composed function has its name and would take the place of
  the declaration.

`NeverMisbound` and `AllBound` assume `BoundApart`, which is `NamesApart` and the
last two for every request. That the last two, and the part of `NamesApart` about
tables, are needed was found while proving: the earlier statements held in the
instance and failed for programs outside it, which are now in the instance.

`AllBound` and `StubsExact` assume `AllUndisturbed`: that a function *and those it
is composed of* come from undisturbed requests. That the last part is needed was
found in the same way. A disturbed request can leave a private symbol without a
body, which nothing resolves, and a function composed with it inherits the symbol
although its own request is in order. The program `Callback` of the instance does
this.

The instance contains programs on both sides of each condition; `TypeOK` is
unconditional. The conditional properties do not catch what their conditions
exclude. What is excluded by `NamesApart`, `OwnModule` and `Composable` is caught by
`RefsFaithful`, which has no condition: TLC refutes it on each of `Composition({},
{4}, "str")` (the run), `Table({}, {})` (a written variable is copied),
`Table({"constant"}, {"optnone"})`, `Tables`, `RecursiveTwins` and `Composition({3},
{}, "buf")` when the instance holds that program alone. For what `Undisturbed`
excludes (`TargetKept` fails without it on `Callback` and on `Composition`,
`EntryExact` on `Recursion`), and for the failing dump in `MeaningKept`, there is no
property that catches it.

## 3. Runs

| run | instance | states | result |
|---|---|---|---|
| `inline_parameters` | 10,794 calls: one parameter of any of 26 types with any argument; two parameters with every lowering next to every other; three with every order and repetition of placeholders; degenerate lists; the calls of `inline_struct` | 99,423 | passes |
| `inline_repeat` | the argument lists of `tests/meta/new_func_traits.cpp` | | violation |
| `inline_struct` | the calls of `tests/simple/struct_arg.cpp` and `struct_return.cpp`, one instance of the templates per lowering | | violation |
| `code_cache` | 1 function that may throw, scalars 0.0, -0.0, NaN, 3 addresses, 3 compilations | 815,732 | passes |
| `code_cache_throw` | as above, integers | | violation |
| `code_cache_module` | clients may destroy referenced functions | | violation |
| `reserved_regs` | 2 threads, registers 0..2, 4 register lists, 2 calls each, `FirstAlone` | about 51,000 | passes |
| `reserved_regs_race` | the same without `FirstAlone` | | violation |
| `reserved_regs_deserialize` | 1 thread | | violation |
| `extraction` | 54 variants of a unit of 18 values | 35,127 | passes |
| `linking` | 20 programs of two units: recursion and callbacks, composition, static namesakes (recursive or in tables), tables of functions | 245,672 | passes |
| `linking_units` | one of them: functions of two units with a local variable each of the same name | | violation |

The properties:

- **OutcomeExact**: the metaprogram rejects exactly the binds that are not
  `WellBound` (the rule of `std::bind`, with the overloads of `param.h` for single
  arguments), and the pass compiles exactly the well-formed ones that are
  `Supported`, both written without the algorithm's phases. `Supported` is what the
  pass can do, not what the tests expect: where they expect more, it is
  `TestedCallCompiles` that fails.
- **TestedCallCompiles**: the calls of two tests compile. They do not. The trace is
  `Point<long>`, in two registers; the assumption `UnsupportedTests`, which TLC
  evaluates, says that exactly three groups of these calls are accepted by the
  compiler and not supported: all with a `Point<long>`, those that fix a
  `Point<long double>`, and the one that returns it.
- **WrapperABI**: the signature of `meta.h` and the type of the wrapper agree;
  the generated code is called through a pointer of the first type.
- **CallFaithful**: the wrapper passes what the caller wrote, after exactly the
  C++ conversion. Its preconditions exclude `long double` (stored as `double`),
  classes given an argument of another type, and classes whose only slot is a
  pointer.
- **AttributesFollow**: each forwarded argument has the attributes of the
  parameter it is forwarded to.
- **ServedCode, CompileOnce, EntriesStable**: the cache returns code for the
  request, compiles equal requests once, and never disturbs what it returned.
  *Equal* is the key's `==`: that 0.0 and -0.0 share code and NaN never does is
  accepted, not caught.
- **ReservedExact, CrashOnlyInDeserialize, HookOnce**: see their comments.
- **SearchExact, EmbeddedClosed, ExtractedExact**: the searches find exactly
  what is reachable, modules define what they can name, and the right objects
  are embedded (against a reference definition by levels, over the same successors:
  which constants the tracer should look into is not in question).
- **Memoizes**: the cache implements the memo table.
- **NeverMisbound**: whatever is linked, in whichever order units register, a
  reference is bound to what the source names or to nothing at all.
- **AllBound**: and it is bound, when local variables are those of the entry's
  unit and no request the function is composed of was disturbed. `RefsFaithful` is the same without conditions, and fails.
- **TargetKept**: the function InlineParameters has looked up keeps its place
  and its body while arguments are linked.
- **EntryExact**: a function is called at its own wrapper, its one marked entry.
- **StubsExact**: bytes go to the placeholders of the function specialised with
  them and nowhere else.
- **RoundTrip**: a deserialized function has the address and the meaning of the
  serialized one, if the name of its entry leads to it.
- **MeaningKept**: compiling, composing, serializing and failing to create an
  engine never delete an object that is still in use, except where a request
  links its own function again, or a dump file cannot be opened (the module is
  then deleted twice, once by its context).
- **CallEnds, CallsEnd, PassEnds**: termination.

Bounds. Three parameters are enough for every order, gap and repetition of the
placeholders, and for a parameter before, between and after others. Three
compilations and addresses allow a composed function, a cached function that
refers to it and a third that takes a freed address. Two threads with two calls
each give every overlap of first and later calls. The extraction unit has one
value of each kind the tracer tells apart, cycles through phi, through memory
and through calls, and a declaration, exposed or not. Two units suffice for
every conflict of two names; two functions made allow composition or
deserialization of one, three (where both occur) the composition of a composed
or a deserialized function.

Deadlock is not checked for the cache, the registers and linking, where the
bounds on compilations and calls stop a behaviour; the other specifications end in an
explicit stuttering action.

Fairness: weak fairness of the one thread that runs a call (`CallEnds`) or the
pass (`PassEnds`), and of every thread that is inside a call (`CallsEnd`): no
step waits for another thread, and the operating system schedules them all.
Starting a call is never required.

### Disagreements

The seven violation runs are described, with the lines each contradicts, in
`PROJECT.json` under `findings`: repeated placeholders, structs in two
registers, of `long double` fields or returned through memory (one run, three
findings), the empty entry after an exception, keys that refer to destroyed
functions, first compilations in two threads, `deserialize` without a register list, and
local variables of linked units.

## 4. Proofs

All theorems hold for every value of the constants allowed by the named
assumptions, and follow one scheme: an inductive invariant `IndInv`, a lemma
that `Init` implies it, one lemma or step per action, then the properties.

**ExtractionProofs** (from `UnitsAssumption`: units are well formed, and have
finitely many values). `TypeOK`, `SearchExact`, `EmbeddedClosed` and
`ExtractedExact`. The invariant adds to the type: the root of
a search is visited or pending, every successor of a visited node is visited or
pending, and every set that contains the root and is closed under successors
contains what is visited and pending. The last part is what makes *exactly*
reachable follow without induction over paths: reachability is the least closed
set. For embedded modules it adds that each was cleaned from a closed set.
`ExtractedExact` compares the pass with the recursive `Reach`, of which
`ReachLeast` proves that it is the least closed set: every level is inside every
closed set, and the levels cannot grow more often than there are nodes. `MarkInv`
then says that a marked object is one of those asked for, that all constants met
by the finished trace are marked, and that embedding forgets none.

**NatFacts**. The library's induction theorems take a predicate as parameter,
which the provers cannot instantiate. `NatInd` is the same for a *set* of
numbers, and `LevelsExist` that a function defined by recursion on the number
before it exists; both follow from the least-element principle. `LevelsFixed`
says that the levels of such a function stop growing.

**InlineParametersProofs** (from `TypesAssumption`, `LoweringAssumption` and
`CallsAssumption`).
`TypeOK`, `OutcomeExact`, `WrapperABI`, `CallFaithful` and `AttributesFollow`,
for every number of parameters and arguments. A loop over arguments is one step
per element, so the invariant has one part per loop that says what the prefix
done so far has established, and what stays true after the loop: `ScanInv` (the
arguments without options, their largest placeholder), `MapInv` (the signature
has the types of placeholders seen), `ContextInv` (one mapping per parameter;
when the pass starts the bind is well formed), `LayoutInv`, `CountInv`,
`KeepInv` (the entry kept for a forwarded index is that of a parameter forwarded
from it), `NumberInv`, `OperandInv` (each operand is the one of its mapping, and
the index of a forwarded one was kept for this parameter) and `AttrsInv`.
`OutcomeInv` is inductive with them: a call that has ended has done so as the
closed form `EndOf` says, because each early exit shows that the call has the
defect, and the normal end that it has none. `OutcomeExact` follows by comparing
`EndOf` with `WellBound` and `Supported`. The properties of the wrapper
then need one more fact: a bind that compiles repeats no placeholder
(`NoRepeats`), so the entry kept for an index is the only one.

**ReservedRegsProofs** (from `RegsAssumption`, and `FirstAlone` as hypothesis).
`TypeOK`, `ReservedExact`, `CrashOnlyInDeserialize`, `HookOnce`, for any number
of threads, calls and registers. The invariant says: until a jit has completed
at most one thread is inside a call; the hook's two stores are consistent with
the place of that thread; the map is empty, being filled by that thread up to
`fill[t]`, or holds every register at its index; and a thread past
`SetReservedRegs` has its own Context in `tls`. The hypothesis is necessary:
`reserved_regs_race` refutes `ReservedExact` without it.

**CodeCacheProofs** (from `CacheAssumption`, and `~DropReferenced` as
hypothesis). `TypeOK`, `ServedCode`, `CompileOnce`, `EntriesStable`, for any
number of functions, values and addresses and any symmetric `==`. The invariant
says: a compilation lives at one address; an address belongs to the client or to
one entry; the function a key refers to is alive and is the one that was hashed;
a filled entry holds code for its key; keys of two entries differ. The
hypothesis is necessary: `code_cache_module` refutes `ServedCode` without it.

`ImplementsMemo` proves the refinement `Memoizes` from the same invariant. Its
key fact, `EquivalentSameKey`, is that live requests with equal meanings have
equal keys (two addresses hold two functions); with `KeysDistinct` it gives that
the entry being compiled is unknown to the table. Each action then has one lemma
that names the abstract step, and the others leave the rows of settled entries
and the answer alone.

**LinkingProofs** (from `LinkingAssumption`: programs are well formed). `TypeOK`,
`TargetKept`, `EntryExact`, `MeaningKept` and `RoundTrip`, for every program, any
number of units, calls, arguments and functions made. The argument has three
parts. First the linker: `ModulesOf(p)` is the set of modules with finitely
large numbers and suffixes, distinct names and references inside, and
`LinkIsModule`, `LinkStays`, `LinkMoves`, `TargetStays`, `LinkEntry` say that
linking two of them gives another, which symbols stay as they are, and that the
entry of the linked module is found under its name. `EmbeddedFacts` says that
what the plugin embeds is a module that defines its entry. Then one lemma per
step of a request (`ResolveStep`, `EmitStep`, `PassStep`, `WrapperStep`, ...) for
a rigid record `c`: `CurOK(c)` says that the function specialised is in the
module, defined under its name, external unless it is recursive, as long as the
request is undisturbed; that what is passed is private, so that no later link
can take its name; and that the wrapper is the one marked entry. `MadeOK(F)` says
the same of an easy::Function. `Undisturbed` speaks of the tracker and of the
functions made, which grow: `UndisturbedBefore` shows that a request that is
undisturbed later was so from the start, and with `Grown` that what is known of a
function stays true. Last, `NextInd` puts the actions together.

**BindingProofs** (from `LinkingAssumption`). `NeverMisbound`, for every program
and every order of registrations and requests. Its condition `BoundApart` is part
of the property. `NeverMisbound` is not inductive: a module whose references are
right is spoiled by the next link if one of its symbols meets a namesake. The
invariant `BindInv` therefore describes all symbols of a module: every reference
leads to the code it names (`RefsRight`), a symbol has one of the forms that
extraction and wrapping give (`Origins`), and what is external is the function
being specialised, or an object that `NamesApart` lets other modules name, under
one of the names that the modules of this request bring (`Outer`, `Meeting`). `LinkBound` is the core: linking
two modules that agree on the external symbols that meet keeps all of this, and
`NamesApart`, `OwnModule` and `Composable` are each what makes two modules agree at
one kind of link (an argument or callee, the function itself, a composed one).
Each step of a request then has a lemma for a rigid record (`ResolveRight`,
`InlineRight`, `MadeRight` say what holds between steps). Last, `GetFunctionAddress`,
the tracker's mapping and the process are shown to give what the symbol stands for.

**ComposedProofs** (from `LinkingAssumption`). `AllBound` and `StubsExact`. Both are
about modules that contain the wrappers of several requests, of which each may or
may not have been disturbed. The invariant `TidyInv` holds without conditions and
says of every module: its wrappers are those of requests made (and of the current
one), defined, private except for the entry, and each calls one private function
(`Wraps`); *if* all those requests were undisturbed, what has no body is external
and so can be found (`Declared`); *if* they also have their own modules, the
function each wrapper calls has the bytes of its request (`Filled`) and no other
placeholder has been touched (`Untouched`). It has to be about all wrappers at once
because a composed module is linked as a whole. `KeptCallee` and `LinkedWrapper` show
that a link erases neither a private wrapper nor the function it calls. `Calm` and
`Own` are the requests that are undisturbed and those with their own module; one
that is in them later was in them when it was made (`Grown`), so the conditionals
stay true. `AllBound` follows with `BindInv`: a reference is bound right or is
unresolved, and in an undisturbed module what has no body is external and found.

Only model-checked: the liveness properties, which are out of the prover's reach.
Every invariant and action property of the passing runs is stated by a theorem.

## 5. Not modelled

- `pass/Layout.cpp`, `DevirtualizeConstant.cpp`, `IndirectcallConstant.cpp` and
  `deduceVirtualMethodsToJIT`: never run, their calls are commented out or absent.
- LLVM: optimisation, code generation, the linker beyond what the library relies
  on; `InitNativeTarget.cpp`.
- `deserialize` of bytes that are no bitcode (a null `Function`, no state).
- `linkonce_odr` copies of one function in several units (see Linking).
- `mprotect` failing (the process exits), aliases and ifuncs (a fatal error in
  `fixLinkages`).
- Several threads on one `Cache`: the class is not synchronised and does not say
  it is.

## 6. Plan

Done: the components above, the cache as an implementation of a memo table.
Left:

1. An abstract specification of `easy::jit` as `std::bind`, implemented by
   `InlineParameters` under a refinement mapping.
