------------------------------- MODULE Bind -------------------------------
(***************************************************************************)
(* The compile-time half of easy::jit(Fun, args...): the template          *)
(* metaprogram of include/easy/meta.h that computes the signature of the   *)
(* specialised function, and the set_param overloads of                    *)
(* include/easy/param.h that turn the arguments into an easy::Context.     *)
(*                                                                         *)
(* Arguments are the values a caller may write: a placeholder _n, a value  *)
(* of some C++ type, a function wrapper (another specialised function), or *)
(* an option such as opt_level.  The recursions over type lists are loops  *)
(* of one step per list element.  A failed static_assert, or an overload   *)
(* that does not exist, ends the call as "rejected": the program does not  *)
(* compile.                                                                *)
(***************************************************************************)
EXTENDS Integers, Sequences, FiniteSets

CONSTANTS
    Types,      \* C++ types of parameters and arguments
    Kind,       \* Kind[t]: which set_param overload the type selects
    Converts,   \* Converts[t]: the types that convert implicitly to t
    Composes,   \* Composes[t]: the function types can_assign_fun_pointer
                \* takes for a parameter of type t
    Vals,       \* values of scalars, addresses, contents of objects
    Conv,       \* Conv[t][s][v]: the conversion to t of the value v of type s
    Int64,      \* the type IntArgument stores (int64_t)
    Double,     \* the type FloatArgument stores (double)
    DefaultOptions,  \* OptLevel_ and DebugFile_ of a fresh Context
    Calls       \* the calls of easy::jit considered

\* "other" is what no overload takes: enumerations, unions, member pointers.
Kinds == {"int", "float", "ptr", "ref", "class", "other"}

OptionNames == {"opt_level", "dump_ir"}

ASSUME TypesAssumption ==
    /\ Kind \in [Types -> Kinds]
    /\ Converts \in [Types -> SUBSET Types]
    /\ Composes \in [Types -> SUBSET Types]
    /\ Int64 \in Types /\ Double \in Types
    /\ Conv \in [Types -> [Types -> [Vals -> Vals]]]
    /\ DefaultOptions \in [OptionNames -> Vals]

\* What a caller writes in one argument position of easy::jit.
Args ==
    [kind : {"ph"}, n : Nat \ {0}]
      \cup [kind : {"val"}, ty : Types, val : Vals]
      \cup [kind : {"fw"}, ty : Types, val : Vals]
      \cup [kind : {"opt"}, opt : OptionNames, val : Vals]

\* The entries of Context::ArgumentMapping_.
Mappings ==
    [kind : {"Forward"}, idx : Nat]
      \cup [kind : {"Int", "Float", "Ptr", "Module"}, val : Vals]
      \cup [kind : {"Struct"}, from : Types \cup {"option"}, val : Vals]

VARIABLES
    call,       \* the call being compiled: constant after Init
    pc,         \* phase of the call
    outcome,    \* "running" until the call has ended
    k,          \* loop index of the current phase
    clean,      \* the arguments without the options
    nph,        \* max_placeholder
    sig,        \* Result of map_placeholder_to_type: the new parameter list
    seen,       \* Seen: the placeholders met
    ctx,        \* Context::ArgumentMapping_
    options     \* Context::OptLevel_ and DebugFile_

bindVars == <<call, pc, outcome, k, clean, nph, sig, seen, ctx, options>>

Void == "void"

\* The next phase starts its loop at the first element.
Goto(phase) == pc' = phase /\ k' = 1

End(result) == outcome' = result

\* The call is in a phase and has not ended.
At(phase) == outcome = "running" /\ pc = phase

MaxOf(a, b) == IF a > b THEN a ELSE b

(***************************************************************************)
(* meta.h: discard_options and max_placeholder, one argument per step.     *)
(***************************************************************************)
\* Defect: the placeholders are counted, not maximised.
ScanArgCounting ==
    /\ At("scan") /\ k <= Len(call.args)
    /\ LET a == call.args[k]
       IN /\ clean' = IF a.kind = "opt" THEN clean ELSE Append(clean, a)
          /\ nph' = IF a.kind = "ph" THEN nph + 1 ELSE nph
    /\ k' = k + 1
    /\ UNCHANGED <<call, pc, outcome, sig, seen, ctx, options>>

ScanArg ==
    /\ At("scan") /\ k <= Len(call.args)
    /\ LET a == call.args[k]
       IN /\ clean' = IF a.kind = "opt" THEN clean ELSE Append(clean, a)
          /\ nph' = IF a.kind = "ph" THEN MaxOf(a.n, nph) ELSE nph
    /\ k' = k + 1
    /\ UNCHANGED <<call, pc, outcome, sig, seen, ctx, options>>

\* init_list<N, void>; a call without placeholders needs no mapping.
StartMap ==
    /\ At("scan") /\ k > Len(call.args)
    /\ sig' = [n \in 1 .. nph |-> Void]
    /\ Goto(IF nph = 0 THEN "params" ELSE "map")
    /\ UNCHANGED <<call, outcome, clean, nph, seen, ctx, options>>

\* PL::at<PL::size - AL::size>, where AL is what is left of the arguments.
ParamAtIdx == call.params[Len(call.params) - (Len(clean) - k + 1) + 1]

(***************************************************************************)
(* map_placeholder_to_type::helper: the type of the first parameter bound  *)
(* to _n becomes the n-th type of the new signature.  The recursion stops  *)
(* as soon as every placeholder has been seen.                             *)
(***************************************************************************)
MapPlaceholder ==
    /\ At("map") /\ k <= Len(clean)
    /\ Len(call.params) >= Len(clean) - k + 1
    /\ LET a == clean[k]
           parse == a.kind = "ph" /\ a.n \notin seen
           newSeen == IF parse THEN seen \cup {a.n} ELSE seen
       IN /\ sig' = IF parse THEN [sig EXCEPT ![a.n] = ParamAtIdx] ELSE sig
          /\ seen' = newSeen
          /\ IF Cardinality(newSeen) = nph
             THEN Goto("params")
             ELSE pc' = pc /\ k' = k + 1
    /\ UNCHANGED <<call, outcome, clean, nph, ctx, options>>

\* "More parameters than arguments specified", or the argument list is
\* exhausted with a placeholder of 1..N unseen ("Invalid bind").
RejectMap ==
    /\ At("map")
    /\ \/ k > Len(clean)
       \/ Len(call.params) < Len(clean) - k + 1
    /\ End("rejected")
    /\ UNCHANGED <<call, pc, k, clean, nph, sig, seen, ctx, options>>

(***************************************************************************)
(* param.h: which set_param overload accepts an argument for a parameter   *)
(* of type p.  A function wrapper only has to initialize a Param without   *)
(* its pointer (a function, but also a bool or a class made from one).     *)
(* Scalars and pointers are copy-initialized ("Param arg_as_param = arg"). *)
(* The overload for classes takes any argument; the one for references     *)
(* takes none, as std::addressof<T&> is ill-formed.                        *)
(***************************************************************************)
Scalar(t) == Kind[t] \in {"int", "float"}

CopyInitialized(t) == Kind[t] \in {"int", "float", "ptr"}

Accepts(p, a) ==
    \/ a.kind = "ph"
    \/ a.kind = "fw" /\ a.ty \in Composes[p]
    \/ a.kind = "val" /\ CopyInitialized(p) /\ a.ty \in Converts[p]
    \/ a.kind \in {"val", "opt"} /\ Kind[p] = "class"

\* Defect: the argument is not converted to the parameter's type first.
StoredScalarDirect(p, s, v) ==
    Conv[IF Kind[p] = "int" THEN Int64 ELSE Double][s][v]

\* The conversion to the parameter's type, then to the type of the Context.
StoredScalar(p, s, v) ==
    Conv[IF Kind[p] = "int" THEN Int64 ELSE Double][p][Conv[p][s][v]]

Mapping(p, a) ==
    CASE a.kind = "ph" -> [kind |-> "Forward", idx |-> a.n - 1]
      [] a.kind = "fw" -> [kind |-> "Module", val |-> a.val]
      [] a.kind \in {"val", "opt"} /\ Kind[p] = "class" ->
           [kind |-> "Struct",
            from |-> IF a.kind = "opt" THEN "option" ELSE a.ty,
            val |-> a.val]
      [] a.kind = "val" /\ Kind[p] = "int" ->
           [kind |-> "Int", val |-> StoredScalar(p, a.ty, a.val)]
      [] a.kind = "val" /\ Kind[p] = "float" ->
           [kind |-> "Float", val |-> StoredScalar(p, a.ty, a.val)]
      [] a.kind = "val" /\ Kind[p] = "ptr" ->
           [kind |-> "Ptr", val |-> Conv[p][a.ty][a.val]]

\* set_parameters, one parameter per step.
SetParam ==
    /\ At("params") /\ k <= Len(call.params)
    /\ Len(call.params) <= Len(call.args)
    /\ Accepts(call.params[k], call.args[k])
    /\ ctx' = Append(ctx, Mapping(call.params[k], call.args[k]))
    /\ k' = k + 1
    /\ UNCHANGED <<call, pc, outcome, clean, nph, sig, seen, options>>

\* set_options, once the parameter list is empty: each option's handle sets
\* its own part of the Context, the last of a kind wins.
SetOption ==
    /\ At("params") /\ k > Len(call.params) /\ k <= Len(call.args)
    /\ call.args[k].kind = "opt"
    /\ options' = [options EXCEPT ![call.args[k].opt] = call.args[k].val]
    /\ k' = k + 1
    /\ UNCHANGED <<call, pc, outcome, clean, nph, sig, seen, ctx>>

ContextReady ==
    /\ At("params") /\ k > Len(call.params) /\ k > Len(call.args)
    /\ Goto("layout")
    /\ UNCHANGED <<call, outcome, clean, nph, sig, seen, ctx, options>>

\* "not providing enough argument to actual call", no matching overload,
\* "composition is not possible", or "An easy::jit option is expected".
RejectParams ==
    /\ At("params")
    /\ \/ Len(call.params) > Len(call.args)
       \/ k <= Len(call.params) /\ Len(call.params) <= Len(call.args)
            /\ ~Accepts(call.params[k], call.args[k])
       \/ k > Len(call.params) /\ k <= Len(call.args)
            /\ call.args[k].kind # "opt"
    /\ End("rejected")
    /\ UNCHANGED <<call, pc, k, clean, nph, sig, seen, ctx, options>>

BindInit ==
    /\ call \in Calls
    /\ pc = "scan" /\ k = 1 /\ outcome = "running"
    /\ clean = <<>> /\ nph = 0 /\ sig = <<>> /\ seen = {}
    /\ ctx = <<>> /\ options = DefaultOptions

BindNext ==
    \/ ScanArg \/ StartMap
    \/ MapPlaceholder \/ RejectMap
    \/ SetParam \/ SetOption \/ ContextReady \/ RejectParams
===========================================================================
