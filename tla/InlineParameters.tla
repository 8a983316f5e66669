------------------------- MODULE InlineParameters -------------------------
(***************************************************************************)
(* The run-time half of easy::jit: the InlineParameters pass               *)
(* (runtime/pass/InlineParameters.cpp, InlineParametersHelper.cpp), which  *)
(* takes the Context that module Bind builds and the LLVM function of the  *)
(* embedded bitcode, and creates the wrapper whose body calls the function *)
(* with forwarded and constant operands.                                   *)
(*                                                                         *)
(* How clang lowers a C++ parameter list to an LLVM one is external: a     *)
(* call carries the LLVM parameter types (fty), and Lower gives the slots  *)
(* of each C++ type.  "undefined" is undefined behaviour in the pass (a    *)
(* read past the end, a null operand); "aborted" is its failed assertion.  *)
(***************************************************************************)
EXTENDS Bind

CONSTANTS
    Lower,      \* Lower[t]: the LLVM slots a C++ parameter of type t takes
    FunTypes,   \* pointers and references to functions
    InMemory,   \* classes whose slot holds the address of the object
    Leaves,     \* Leaves[t][s]: the leaf fields of the LLVM type the slot of
                \* t points to, filled with the bytes of an argument of type s
    Extent,     \* Extent[t]: how many bytes reading those leaves takes
    Size,       \* Size[s]: sizeof an argument of type s, or of an option
    SlotSize,   \* SlotSize[ir]: how many bytes GetConstantFromRaw reads
    Trunc,      \* Trunc[ir][v]: the LLVM constant of type ir for v
    OddIR       \* IR types GetConstantFromRaw has no case for

PtrTy == "ptr"

\* What setParameterTypedStruct copies the bytes of.
Sources == Types \cup {"option"}

\* Scalars a constant can be read for, function pointers (null, registered
\* with the BitcodeTracker, or neither), other pointers, and integers and
\* floating types GetConstantFromRaw has no case for.
LeafKinds == {"scalar", "null_fun", "registered_fun", "unregistered_fun",
              "data_ptr", "odd"}

ASSUME LoweringAssumption ==
    /\ Lower \in [Types -> Seq(DOMAIN Trunc)]
    /\ FunTypes \subseteq Types /\ InMemory \subseteq Types
    /\ Leaves \in [Types -> [Sources -> SUBSET LeafKinds]]
    /\ Extent \in [Types -> Nat] /\ Size \in [Sources -> Nat]
    /\ SlotSize \in [DOMAIN Trunc -> Nat]
    /\ \A ir \in DOMAIN Trunc : Trunc[ir] \in [Vals -> Vals]
    /\ OddIR \subseteq DOMAIN Trunc
    /\ PtrTy \in DOMAIN Trunc \ OddIR

\* The calls are those a program can contain: an argument list for some
\* function, and the LLVM parameter list clang gave that function.
CallRecords == [sret : BOOLEAN, params : Seq(Types), args : Seq(Args),
                fty : Seq(DOMAIN Trunc)]

ASSUME CallsAssumption == Calls \subseteq CallRecords

\* HighLevelLayout::HighLevelArg.
HighLevelArg == [pos : Nat, first : Nat, types : Seq(DOMAIN Trunc),
                 byptr : BOOLEAN]

\* Operands of the call in the wrapper's body.
Operands ==
    [op : {"arg"}, i : Nat]
      \cup [op : {"const", "fun"}, val : Vals]
      \cup [op : {"raw", "global"}, from : Sources, val : Vals]

NullValue == [op |-> "null"]

\* A default-constructed HighLevelArg: Position_ and FirstParamIdx_ are not
\* initialised (-1 stands for the indeterminate value).
Fresh == [pos |-> -1, first |-> -1, types |-> <<>>, byptr |-> FALSE]

NoAttrs == -1

VARIABLES
    hll,        \* HighLevelLayout of the original function
    nnew,       \* NNewArgs
    newhll,     \* layout of the wrapper
    visited,    \* VisitedArgs
    paramIdx,   \* ParamIdx of the numbering loop
    operands,   \* Args of GetInlineArgs
    attrs       \* attrs[i]: the LLVM parameter of F whose attributes the
                \* wrapper's i-th parameter got

inlineVars == <<hll, nnew, newhll, visited, paramIdx, operands, attrs>>
vars == <<bindVars, inlineVars>>

Stay == UNCHANGED <<call, clean, nph, sig, seen, ctx, options>>

(***************************************************************************)
(* HighLevelLayout::HighLevelLayout: one HighLevelArg per LLVM parameter,  *)
(* read from index ParamIdx, which starts at 1 after a struct return       *)
(* pointer.  The loop runs FTy->params().size() times, so it reads past    *)
(* the end whenever there is one; and F.arg_begin() is dereferenced even   *)
(* when F has no parameter.                                                *)
(***************************************************************************)
FirstParam == IF call.sret THEN 1 ELSE 0

ReadsPastEnd == Len(call.fty) = 0 \/ FirstParam + Len(call.fty) > Len(call.fty)

BuildLayout ==
    /\ At("layout")
    /\ IF ReadsPastEnd
       THEN End("undefined") /\ UNCHANGED <<pc, k, hll>>
       ELSE /\ hll' = [i \in 1 .. Len(call.fty) |->
                         [pos |-> i - 1, first |-> FirstParam + i - 1,
                          types |-> <<call.fty[FirstParam + i]>>,
                          byptr |-> call.fty[FirstParam + i] = PtrTy]]
            /\ Goto("count") /\ UNCHANGED outcome
    /\ Stay /\ UNCHANGED <<nnew, newhll, visited, paramIdx, operands, attrs>>

\* GetNewLayout: assert(C.size() == HLL.Args_.size()).
LayoutAssertion == Len(ctx) = Len(hll)

AbortLayout ==
    /\ At("count") /\ ~LayoutAssertion
    /\ End("aborted")
    /\ Stay /\ UNCHANGED <<pc, k, inlineVars>>

\* Defect: one layout entry too many.
CountNewArgsOneMore ==
    /\ At("count") /\ LayoutAssertion /\ k <= Len(ctx)
    /\ nnew' = IF ctx[k].kind = "Forward" THEN MaxOf(nnew, ctx[k].idx + 2)
                                          ELSE nnew
    /\ k' = k + 1
    /\ Stay
    /\ UNCHANGED <<pc, outcome, hll, newhll, visited, paramIdx, operands, attrs>>

\* GetNewLayout: NNewArgs is one more than the largest forwarded index.
CountNewArgs ==
    /\ At("count") /\ LayoutAssertion /\ k <= Len(ctx)
    /\ nnew' = IF ctx[k].kind = "Forward" THEN MaxOf(nnew, ctx[k].idx + 1)
                                          ELSE nnew
    /\ k' = k + 1
    /\ Stay
    /\ UNCHANGED <<pc, outcome, hll, newhll, visited, paramIdx, operands, attrs>>

ResizeNewLayout ==
    /\ At("count") /\ LayoutAssertion /\ k > Len(ctx)
    /\ newhll' = [i \in 1 .. nnew |-> Fresh]
    /\ Goto("keep")
    /\ Stay
    /\ UNCHANGED <<outcome, hll, nnew, visited, paramIdx, operands, attrs>>

\* Defect: forwarded parameters are kept in the order of F's parameters.
KeepForwardedInOrder ==
    /\ At("keep") /\ k <= Len(hll)
    /\ IF ctx[k].kind = "Forward" /\ ctx[k].idx \notin visited
       THEN /\ visited' = visited \cup {ctx[k].idx}
            /\ newhll' = [newhll EXCEPT ![Cardinality(visited) + 1] = hll[k]]
       ELSE UNCHANGED <<visited, newhll>>
    /\ k' = k + 1
    /\ Stay /\ UNCHANGED <<pc, outcome, hll, nnew, paramIdx, operands, attrs>>

\* Defect: a repeated index is retried instead of skipped.
KeepForwardedStuck ==
    /\ At("keep") /\ k <= Len(hll)
    /\ IF ctx[k].kind = "Forward" /\ ctx[k].idx \in visited
       THEN UNCHANGED <<visited, newhll, k>>
       ELSE /\ k' = k + 1
            /\ IF ctx[k].kind = "Forward"
               THEN /\ visited' = visited \cup {ctx[k].idx}
                    /\ newhll' = [newhll EXCEPT ![ctx[k].idx + 1] = hll[k]]
               ELSE UNCHANGED <<visited, newhll>>
    /\ Stay /\ UNCHANGED <<pc, outcome, hll, nnew, paramIdx, operands, attrs>>

\* GetNewLayout: only forwarded parameters are kept, each at its index; the
\* first parameter forwarded from an index wins.
KeepForwarded ==
    /\ At("keep") /\ k <= Len(hll)
    /\ IF ctx[k].kind = "Forward" /\ ctx[k].idx \notin visited
       THEN /\ visited' = visited \cup {ctx[k].idx}
            /\ newhll' = [newhll EXCEPT ![ctx[k].idx + 1] = hll[k]]
       ELSE UNCHANGED <<visited, newhll>>
    /\ k' = k + 1
    /\ Stay /\ UNCHANGED <<pc, outcome, hll, nnew, paramIdx, operands, attrs>>

StartNumbering ==
    /\ At("keep") /\ k > Len(hll)
    /\ Goto("number")
    /\ Stay /\ UNCHANGED <<outcome, inlineVars>>

\* GetNewLayout: the wrapper's arguments are numbered in their new order.
NumberArg ==
    /\ At("number") /\ k <= Len(newhll)
    /\ newhll' = [newhll EXCEPT ![k].first = paramIdx]
    /\ paramIdx' = paramIdx + Len(newhll[k].types)
    /\ k' = k + 1
    /\ Stay /\ UNCHANGED <<pc, outcome, hll, nnew, visited, operands, attrs>>

\* CreateWrapperFun creates the wrapper; GetInlineArgs first forwards the
\* struct return pointer.
StartInlining ==
    /\ At("number") /\ k > Len(newhll)
    /\ operands' = IF call.sret THEN <<[op |-> "arg", i |-> 0]>> ELSE <<>>
    /\ Goto("inline")
    /\ Stay /\ UNCHANGED <<outcome, hll, nnew, newhll, visited, paramIdx, attrs>>

(***************************************************************************)
(* GetForwardArgs: std::find_if over the wrapper's layout by Position_.    *)
(* The result is dereferenced without a comparison with end().             *)
(***************************************************************************)
Found(pos) == {n \in DOMAIN newhll : newhll[n].pos = pos}

FirstFound(pos) == CHOOSE n \in Found(pos) : \A m \in Found(pos) : n <= m

ForwardOperand(pos) ==
    [op |-> "arg", i |-> newhll[FirstFound(pos)].first + FirstParam]

\* GetGlobalStruct: StoreStructFieldPrepare links the function pointers and
\* StoreStructFieldAsGlobal builds the initializer.  A leaf without a
\* constant (or ConstantInt::get on a pointer type) is undefined behaviour.
GlobalStructDefined(t, from) ==
    Leaves[t][from] \subseteq {"scalar", "null_fun", "registered_fun"}

\* GetScalarArgument: Int is truncated to the IR type, Float converted.
ScalarOperand(m, ir) ==
    [op |-> "const", val |-> IF m.kind = "Ptr" THEN m.val ELSE Trunc[ir][m.val]]

\* A struct passed by value: GetConstantFromRaw on its only slot.
RawOperand(m, ir) ==
    IF ir \in OddIR THEN NullValue
                    ELSE [op |-> "raw", from |-> m.from, val |-> m.val]

\* The operand GetInlineArgs pushes for the mapping m of layout entry a.
Operand(m, a) ==
    CASE m.kind = "Forward" -> ForwardOperand(a.pos)
      [] m.kind \in {"Int", "Float", "Ptr"} -> ScalarOperand(m, a.types[1])
      [] m.kind = "Struct" /\ a.byptr ->
           [op |-> "global", from |-> m.from, val |-> m.val]
      [] m.kind = "Struct" /\ ~a.byptr -> RawOperand(m, a.types[1])
      [] m.kind = "Module" -> [op |-> "fun", val |-> m.val]

\* Reading a class from the bytes of an argument of type from reads past
\* them, or meets a leaf without a constant.  A slot GetConstantFromRaw has no
\* case for is not read at all.
StructUndefined(t, from, ir) ==
    IF ir = PtrTy THEN \/ Size[from] < Extent[t]
                       \/ ~GlobalStructDefined(t, from)
                  ELSE ir \notin OddIR /\ Size[from] < SlotSize[ir]

\* The step that computes an operand has undefined behaviour.
OperandUndefined(m, a, t) ==
    \/ m.kind = "Forward" /\ Found(a.pos) = {}
    \/ m.kind = "Struct" /\ StructUndefined(t, m.from, a.types[1])

InlineArg ==
    /\ At("inline") /\ k <= Len(ctx)
    /\ IF OperandUndefined(ctx[k], hll[k], call.params[k])
       THEN End("undefined") /\ UNCHANGED <<operands, k>>
       ELSE /\ operands' = Append(operands, Operand(ctx[k], hll[k]))
            /\ k' = k + 1
            /\ UNCHANGED outcome
    /\ Stay /\ UNCHANGED <<pc, hll, nnew, newhll, visited, paramIdx, attrs>>

\* A composed function is the operand of a parameter that is no function: a
\* bool, or a class or a pointer to one that could be made from a function.
IllTyped(t, m) == m.kind = "Module" /\ t \notin FunTypes

\* IRBuilder::CreateCall dereferences every operand, and builds an ill-formed
\* call (an assertion of debug builds of LLVM) when a type does not match.
CreateCall ==
    /\ At("inline") /\ k > Len(ctx)
    /\ IF \/ \E i \in DOMAIN operands : operands[i] = NullValue
          \/ \E i \in DOMAIN ctx : IllTyped(call.params[i], ctx[i])
       THEN End("undefined") /\ UNCHANGED <<pc, k, attrs>>
       ELSE /\ Goto("attrs") /\ attrs' = [i \in 0 .. paramIdx - 1 |-> NoAttrs]
            /\ UNCHANGED outcome
    /\ Stay /\ UNCHANGED <<hll, nnew, newhll, visited, paramIdx, operands>>

\* Defect: the attributes of the parameter with the same number.
RemapAttributeInOrder ==
    /\ At("attrs") /\ k <= Len(newhll)
    /\ attrs' = [attrs EXCEPT ![newhll[k].first] = hll[k].first]
    /\ k' = k + 1
    /\ Stay
    /\ UNCHANGED <<pc, outcome, hll, nnew, newhll, visited, paramIdx, operands>>

\* RemapAttributes: the attributes of the original parameter, slot by slot.
RemapAttribute ==
    /\ At("attrs") /\ k <= Len(newhll)
    /\ LET new == newhll[k]
           org == hll[new.pos + 1]
       IN attrs' = [attrs EXCEPT ![new.first] = org.first]
    /\ k' = k + 1
    /\ Stay
    /\ UNCHANGED <<pc, outcome, hll, nnew, newhll, visited, paramIdx, operands>>

\* runOnModule: F is made private and the wrapper takes its name.
FinishWrapper ==
    /\ At("attrs") /\ k > Len(newhll)
    /\ End("compiled")
    /\ Stay /\ UNCHANGED <<pc, k, inlineVars>>

Init ==
    /\ BindInit
    /\ hll = <<>> /\ nnew = 0 /\ newhll = <<>> /\ visited = {}
    /\ paramIdx = 0 /\ operands = <<>> /\ attrs = <<>>

\* The C++ compiler's half of the call.
Bind == BindNext /\ UNCHANGED inlineVars

\* The pass's half.
Inline ==
    \/ BuildLayout \/ AbortLayout \/ CountNewArgs \/ ResizeNewLayout
    \/ KeepForwarded \/ StartNumbering \/ NumberArg \/ StartInlining
    \/ InlineArg \/ CreateCall \/ RemapAttribute \/ FinishWrapper

\* The call has ended and nothing more happens.
Ended == outcome # "running" /\ UNCHANGED vars

Next == Bind \/ Inline \/ Ended

Spec == Init /\ [][Next]_vars

\* One thread runs the call; nothing in it waits.
FairSpec == Spec /\ WF_vars(Bind \/ Inline)
---------------------------------------------------------------------------
(* Properties.                                                             *)

\* Every piece of the state of a call has its type: in particular the layout
\* of the wrapper keeps the size GetNewLayout gave it, and attributes are set
\* only on parameters the wrapper has.
TypeOK ==
    /\ call \in CallRecords
    /\ pc \in {"scan", "map", "params", "layout", "count", "keep", "number",
               "inline", "attrs"}
    /\ outcome \in {"running", "rejected", "undefined", "aborted", "compiled"}
    /\ k \in Nat \ {0}
    /\ clean \in Seq(Args)
    /\ nph \in Nat
    /\ sig \in Seq(Types \cup {Void})
    /\ seen \subseteq 1 .. nph
    /\ ctx \in Seq(Mappings)
    /\ options \in [OptionNames -> Vals]
    /\ hll \in Seq(HighLevelArg)
    /\ nnew \in Nat
    /\ newhll \in Seq(HighLevelArg \cup {Fresh})
    /\ visited \subseteq Nat
    /\ paramIdx \in Nat
    /\ operands \in Seq(Operands \cup {NullValue})
    /\ pc = "attrs" => attrs \in [0 .. paramIdx - 1 -> Nat \cup {NoAttrs}]

\* The argument positions of a call that are bound to its parameters.
Positions(c) == 1 .. Len(c.params)

IsPh(c, i) == c.args[i].kind = "ph"

Placeholders(c) == {c.args[i].n : i \in {j \in Positions(c) : IsPh(c, j)}}

\* std::bind's rule for a call: every parameter has an argument it accepts,
\* what follows is options, and the placeholders are _1 .. _N without a gap.
WellBound(c) ==
    /\ Len(c.params) <= Len(c.args)
    /\ \A i \in Positions(c) : Accepts(c.params[i], c.args[i])
    /\ \A i \in DOMAIN c.args : i > Len(c.params) => c.args[i].kind = "opt"
    /\ \A n \in Placeholders(c) : 1 .. n \subseteq Placeholders(c)

Repeats(c) ==
    \E i, j \in Positions(c) :
        i # j /\ IsPh(c, i) /\ IsPh(c, j) /\ c.args[i].n = c.args[j].n

\* The type whose bytes stand for a fixed class argument.
Source(a) == IF a.kind = "opt" THEN "option" ELSE a.ty

\* A fixed argument for which the pass can build no operand.
NoOperand(c, i) ==
    LET p == c.params[i]
        a == c.args[i]
    IN \/ /\ Kind[p] = "class" /\ a.kind \in {"val", "opt"}
          /\ c.fty[i] \in OddIR \/ StructUndefined(p, Source(a), c.fty[i])
       \/ a.kind = "fw" /\ p \notin FunTypes

\* The calls the pass can handle: nothing is returned through memory, every
\* parameter takes one slot, no placeholder is repeated, and every fixed
\* argument has an operand.
Supported(c) ==
    /\ ~c.sret /\ c.fty # <<>>
    /\ Len(c.fty) = Len(c.params)
    /\ ~Repeats(c)
    /\ \A i \in Positions(c) : ~NoOperand(c, i)

\* Every parameter takes exactly one LLVM slot, and nothing is returned
\* through memory: the lowering the pass was written for.
OneSlot(c) ==
    /\ ~c.sret
    /\ Len(c.fty) = Len(c.params)
    /\ \A i \in Positions(c) : Lower[c.params[i]] = <<c.fty[i]>>

\* No option stands in the place of an argument.
OptionsLast(c) == \A i \in Positions(c) : c.args[i].kind # "opt"

\* The Context keeps every value of the type: nothing is lost on the way
\* through int64_t or double.
Lossless(t) ==
    LET held == IF Kind[t] = "int" THEN Int64 ELSE Double
    IN \A s \in Types, v \in Vals :
         Trunc[Lower[t][1]][Conv[held][t][Conv[t][s][v]]]
           = Trunc[Lower[t][1]][Conv[t][s][v]]

\* A fixed argument keeps its meaning: a class argument has the parameter's
\* own type and is passed by address exactly when its slot is a pointer.
Preserved(p, a) ==
    a.kind = "val" =>
        /\ Kind[p] = "class" => /\ a.ty = p
                                /\ p \in InMemory <=> Lower[p][1] = PtrTy
        /\ Scalar(p) => Lossless(p)

\* What std::bind would pass for the i-th parameter of the call.
Promised(c, i) ==
    LET p == c.params[i]
        a == c.args[i]
    IN CASE a.kind = "ph" -> [op |-> "arg", i |-> a.n - 1]
         [] a.kind = "fw" -> [op |-> "fun", val |-> a.val]
         [] a.kind = "val" /\ Scalar(p) ->
              [op |-> "const", val |-> Trunc[Lower[p][1]][Conv[p][a.ty][a.val]]]
         [] a.kind = "val" /\ Kind[p] = "ptr" ->
              [op |-> "const", val |-> Conv[p][a.ty][a.val]]
         [] a.kind = "val" /\ Kind[p] = "class" ->
              [op |-> IF p \in InMemory THEN "global" ELSE "raw",
               from |-> p, val |-> a.val]

\* A program compiles exactly the well-formed binds: the template metaprogram
\* (meta.h, param.h, jit.h) looks at the arguments one at a time, in two
\* passes of which the first stops early, and still rejects all others and
\* only those.  And the pass generates code for exactly the calls among them
\* it supports: a mistake of one loop is never made good, nor a good call
\* spoilt, by another.
OutcomeExact ==
    outcome # "running" =>
        /\ outcome = "rejected" <=> ~WellBound(call)
        /\ outcome = "compiled" <=> WellBound(call) /\ Supported(call)

\* The C++ signature computed by meta.h at compile time and the LLVM type of
\* the wrapper built by the pass at run time agree: FunctionWrapper calls
\* the generated code through a pointer of the former type.
WrapperABI ==
    outcome = "compiled" /\ OneSlot(call) /\ OptionsLast(call) =>
        /\ Len(newhll) = Len(sig)
        /\ \A n \in DOMAIN sig :
             sig[n] \in Types /\ newhll[n].types = Lower[sig[n]]
               /\ newhll[n].first = n - 1

\* The wrapper calls the original function with what the caller of easy::jit
\* wrote: placeholder _n is the wrapper's n-th argument, a scalar is its C++
\* conversion to the parameter type, a class is its own bytes.
CallFaithful ==
    outcome = "compiled" /\ OneSlot(call) =>
        /\ Len(operands) = Len(call.params)
        /\ \A i \in Positions(call) :
             Preserved(call.params[i], call.args[i]) /\ call.args[i].kind # "opt"
               => operands[i] = Promised(call, i)

\* Each argument the wrapper forwards carries the attributes (byval,
\* zeroext, ...) of the parameter it is forwarded to, and no other.
AttributesFollow ==
    outcome = "compiled" /\ OneSlot(call) =>
        \A i \in DOMAIN operands :
            operands[i].op = "arg" => attrs[operands[i].i] = i - 1

\* Every call of easy::jit ends: the loops of the metaprogram and the pass
\* make progress on every argument list.
CallEnds == <>(outcome # "running")

\* A call of the test suite is compiled: checked for the calls of
\* tests/simple/struct_arg.cpp and tests/simple/struct_return.cpp, which bind
\* and return Point<int>, Point<long> and Point<long double>.
TestedCallCompiles == outcome \in {"running", "compiled"}

\* A call the C++ type system accepts does not make the pass misbehave.
AcceptedIsDefined == outcome # "undefined"
===========================================================================
