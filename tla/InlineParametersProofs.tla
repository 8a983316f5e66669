----------------------- MODULE InlineParametersProofs -----------------------
(***************************************************************************)
(* Proofs about Bind and InlineParameters, for every set of C++ types,     *)
(* every lowering and every set of calls.                                  *)
(*                                                                         *)
(* Each loop of the metaprogram and of the pass has a part of the          *)
(* inductive invariant that says what it has done for the elements it has  *)
(* passed; once the loop has ended that part holds for all elements and    *)
(* stays.                                                                  *)
(***************************************************************************)
EXTENDS InlineParameters, FiniteSetTheorems, TLAPS

NParams == Len(call.params)
NArgs == Len(call.args)

\* The phases from the one given on.
FromLayout == {"layout", "count", "keep", "number", "inline", "attrs"}
FromCount == {"count", "keep", "number", "inline", "attrs"}
FromKeep == {"keep", "number", "inline", "attrs"}
FromNumber == {"number", "inline", "attrs"}
FromInline == {"inline", "attrs"}

\* How many elements the loop of a phase has passed, of n in total.
Passed(phase, n) == IF pc = phase THEN k - 1 ELSE n

Scanned == Passed("scan", NArgs)

\* Argument i is the placeholder _n.
PhAt(c, i, n) == c.args[i].kind = "ph" /\ c.args[i].n = n

\* Argument i of the Context forwards the parameter number n (from 0).
Forwards(i, n) == ctx[i].kind = "Forward" /\ ctx[i].idx = n

RestOptions(c) == \A i \in DOMAIN c.args : i > Len(c.params) => c.args[i].kind = "opt"

\* The scan keeps every placeholder and finds the largest; options do not
\* count as arguments.
ScanInv ==
    /\ Scanned \in 0 .. NArgs
    /\ \A i \in 1 .. Scanned : call.args[i].kind = "ph" =>
         call.args[i].n <= nph /\ \E j \in DOMAIN clean : clean[j] = call.args[i]
    /\ \A j \in DOMAIN clean : \E i \in 1 .. Scanned : clean[j] = call.args[i]
    /\ nph # 0 => \E i \in 1 .. Scanned : PhAt(call, i, nph)
    /\ Len(clean) <= Scanned
    /\ RestOptions(call) => Len(clean) <= NParams
    /\ WellBound(call) /\ OptionsLast(call) =>
         /\ Len(clean) = IF Scanned <= NParams THEN Scanned ELSE NParams
         /\ \A j \in DOMAIN clean : clean[j] = call.args[j]

\* The placeholders seen are arguments, and the mapping stops when all of
\* 1 .. nph have been seen.
MapInv ==
    /\ pc = "scan" => seen = {} /\ sig = <<>>
    /\ pc = "map" =>
         /\ k \in 1 .. Len(clean) + 1 /\ nph # 0 /\ seen # 1 .. nph
         /\ \A j \in 1 .. k - 1 : clean[j].kind = "ph" => clean[j].n \in seen
    /\ \A n \in seen : \E j \in DOMAIN clean : clean[j].kind = "ph" /\ clean[j].n = n
    /\ pc \notin {"scan", "map"} => seen = 1 .. nph
    /\ pc # "scan" => sig \in [1 .. nph -> Types \cup {Void}]
    /\ pc # "scan" /\ WellBound(call) /\ OptionsLast(call) =>
         \A n \in seen : \E i \in Positions(call) : PhAt(call, i, n) /\ sig[n] = call.params[i]

\* The Context holds one mapping per parameter passed; once it is ready the
\* call is known to be well formed.
ContextInv ==
    /\ pc \in {"scan", "map"} => ctx = <<>>
    /\ pc = "params" =>
         /\ k \in 1 .. NArgs + 1 /\ (k > 1 => NParams <= NArgs)
         /\ Len(ctx) = IF k <= NParams THEN k - 1 ELSE NParams
         /\ \A i \in NParams + 1 .. k - 1 : call.args[i].kind = "opt"
    /\ \A i \in DOMAIN ctx :
         /\ i <= NParams
         /\ ctx[i] = Mapping(call.params[i], call.args[i])
         /\ Accepts(call.params[i], call.args[i])
    /\ pc \in FromLayout => WellBound(call) /\ Len(ctx) = NParams

\* HighLevelLayout: one entry per LLVM parameter.
LayoutInv ==
    /\ pc \in FromCount =>
         /\ ~call.sret /\ call.fty # <<>>
         /\ Len(hll) = Len(call.fty)
         /\ \A i \in DOMAIN hll :
              hll[i] = [pos |-> i - 1, first |-> i - 1, types |-> <<call.fty[i]>>,
                        byptr |-> call.fty[i] = PtrTy]
    /\ pc \in FromKeep => Len(call.fty) = NParams

\* NNewArgs is one more than the largest forwarded index.
CountInv ==
    /\ pc \notin FromCount => nnew = 0
    /\ pc = "count" => k \in 1 .. NParams + 1
    /\ pc \in FromCount =>
         /\ \A i \in 1 .. Passed("count", NParams) : ctx[i].kind = "Forward" => ctx[i].idx < nnew
         /\ nnew # 0 => \E i \in 1 .. NParams : Forwards(i, nnew - 1)

\* Each forwarded index has the layout of a parameter forwarded from it.
KeepInv ==
    /\ pc \notin FromKeep => visited = {}
    /\ pc \in FromKeep => Len(newhll) = nnew /\ visited \subseteq 0 .. nnew - 1
    /\ pc = "keep" => k \in 1 .. NParams + 1
    /\ pc \in FromKeep =>
         /\ \A i \in 1 .. Passed("keep", NParams) : ctx[i].kind = "Forward" => ctx[i].idx \in visited
         /\ \A n \in visited : \E i \in 1 .. NParams :
              /\ Forwards(i, n)
              /\ newhll[n + 1].pos = hll[i].pos /\ newhll[n + 1].types = hll[i].types
              /\ newhll[n + 1].first \in Nat
    /\ pc \in FromNumber => visited = 0 .. nnew - 1

\* The wrapper's parameters are numbered in their new order.
NumberInv ==
    /\ pc = "number" => k \in 1 .. nnew + 1
    /\ pc \notin FromNumber => paramIdx = 0
    /\ pc \in FromNumber =>
         /\ paramIdx = Passed("number", nnew)
         /\ \A n \in 1 .. Passed("number", nnew) : newhll[n].first = n - 1

\* The operand for the mapping m of a parameter that has a slot of type ir.
IsOperand(x, m, ir) ==
    /\ m.kind = "Forward" => x = [op |-> "arg", i |-> m.idx]
    /\ m.kind \in {"Int", "Float", "Ptr"} => x = ScalarOperand(m, ir)
    /\ m.kind = "Struct" =>
         x = IF ir = PtrTy THEN [op |-> "global", from |-> m.from, val |-> m.val]
                           ELSE RawOperand(m, ir)
    /\ m.kind = "Module" => x = [op |-> "fun", val |-> m.val]

\* The operands pushed are those of their mappings: a forwarded parameter is
\* the one its index was kept for, and class constants could be built.
OperandInv ==
    /\ pc = "inline" => k \in 1 .. NParams + 1
    /\ pc \in FromInline =>
         /\ Len(operands) = Passed("inline", NParams)
         /\ \A i \in DOMAIN operands :
              /\ IsOperand(operands[i], ctx[i], call.fty[i])
              /\ ctx[i].kind = "Forward" => newhll[ctx[i].idx + 1].pos = i - 1
              /\ ctx[i].kind = "Struct" =>
                   ~StructUndefined(call.params[i], ctx[i].from, call.fty[i])
    /\ pc = "attrs" =>
         /\ \A i \in DOMAIN operands : operands[i] # NullValue
         /\ \A i \in DOMAIN ctx : ~IllTyped(call.params[i], ctx[i])

\* The attributes of a wrapper parameter are those of its original.
AttrsInv ==
    pc = "attrs" =>
        /\ k \in 1 .. nnew + 1
        /\ \A n \in 1 .. k - 1 : attrs[n - 1] = newhll[n].pos

CompiledInv == outcome = "compiled" => pc = "attrs" /\ k = nnew + 1

\* How a call ends, as a function of the call alone: the pass meets struct
\* returns and empty parameter lists first, then its assertion, and what it
\* has no operand for last.
EndOf(c) ==
    IF ~WellBound(c) THEN "rejected"
    ELSE IF c.sret \/ c.fty = <<>> THEN "undefined"
    ELSE IF Len(c.fty) # Len(c.params) THEN "aborted"
    ELSE IF Repeats(c) \/ \E i \in Positions(c) : NoOperand(c, i)
         THEN "undefined" ELSE "compiled"

OutcomeInv == outcome # "running" => outcome = EndOf(call)

IndInv ==
    /\ TypeOK /\ ScanInv /\ MapInv /\ ContextInv /\ LayoutInv /\ CountInv
    /\ KeepInv /\ NumberInv /\ OperandInv /\ AttrsInv
    /\ CompiledInv /\ OutcomeInv

---------------------------------------------------------------------------
(* The operators of the model.                                             *)

\* A call is a record of sequences.
LEMMA CallFacts ==
    ASSUME TypeOK
    PROVE  /\ call.sret \in BOOLEAN
           /\ call.params \in Seq(Types) /\ NParams \in Nat /\ DOMAIN call.params = 1 .. NParams
           /\ call.args \in Seq(Args) /\ NArgs \in Nat /\ DOMAIN call.args = 1 .. NArgs
           /\ call.fty \in Seq(DOMAIN Trunc) /\ Len(call.fty) \in Nat
           /\ DOMAIN call.fty = 1 .. Len(call.fty)
  BY DEF TypeOK, CallRecords, NParams, NArgs

\* The fields an argument has, by its kind.
LEMMA ArgFacts ==
    ASSUME NEW a \in Args
    PROVE  /\ a.kind \in {"ph", "val", "fw", "opt"}
           /\ a.kind = "ph" => a.n \in Nat \ {0}
           /\ a.kind \in {"val", "fw"} => a.ty \in Types
           /\ a.kind \in {"val", "fw", "opt"} => a.val \in Vals
           /\ a.kind = "opt" => a.opt \in OptionNames
  BY DEF Args

\* set_param stores a placeholder as a forwarded index, a class as a
\* struct, a function wrapper as a module, and anything else as a scalar.
LEMMA MappingFacts ==
    ASSUME NEW p \in Types, NEW a \in Args, Accepts(p, a)
    PROVE  /\ Mapping(p, a) \in Mappings
           /\ a.kind = "ph" => Mapping(p, a) = [kind |-> "Forward", idx |-> a.n - 1]
           /\ a.kind # "ph" => Mapping(p, a).kind # "Forward"
           /\ a.kind = "fw" => Mapping(p, a) = [kind |-> "Module", val |-> a.val]
           /\ a.kind \in {"val", "opt"} /\ Kind[p] = "class" =>
                Mapping(p, a) = [kind |-> "Struct",
                                 from |-> IF a.kind = "opt" THEN "option" ELSE a.ty,
                                 val |-> a.val]
           /\ a.kind = "val" /\ Kind[p] = "int" =>
                Mapping(p, a) = [kind |-> "Int", val |-> StoredScalar(p, a.ty, a.val)]
           /\ a.kind = "val" /\ Kind[p] = "float" =>
                Mapping(p, a) = [kind |-> "Float", val |-> StoredScalar(p, a.ty, a.val)]
           /\ a.kind = "val" /\ Kind[p] = "ptr" =>
                Mapping(p, a) = [kind |-> "Ptr", val |-> Conv[p][a.ty][a.val]]
           /\ Mapping(p, a).kind = "Struct" => a.kind \in {"val", "opt"} /\ Kind[p] = "class"
           /\ Mapping(p, a).kind = "Module" => a.kind = "fw"
<1>1. /\ a.kind \in {"ph", "val", "fw", "opt"}
      /\ a.kind = "opt" => Kind[p] = "class"
      /\ a.kind = "val" => Kind[p] \in {"int", "float", "ptr", "class"}
  BY ArgFacts DEF Accepts, CopyInitialized
<1>2. Kind[p] \in Kinds
  BY TypesAssumption
<1>3. CASE a.kind = "ph"
  <2>1. Mapping(p, a) = [kind |-> "Forward", idx |-> a.n - 1]
    BY <1>3 DEF Mapping
  <2>2. a.n - 1 \in Nat
    BY <1>3, ArgFacts
  <2>. QED
    BY <1>3, <2>1, <2>2 DEF Mappings
<1>4. CASE a.kind = "fw"
  <2>1. Mapping(p, a) = [kind |-> "Module", val |-> a.val]
    BY <1>4 DEF Mapping
  <2>. QED
    BY <1>4, <2>1, ArgFacts DEF Mappings
<1>5. CASE a.kind \in {"val", "opt"} /\ Kind[p] = "class"
  <2>1. Mapping(p, a) = [kind |-> "Struct",
                         from |-> IF a.kind = "opt" THEN "option" ELSE a.ty, val |-> a.val]
    BY <1>5 DEF Mapping
  <2>2. (IF a.kind = "opt" THEN "option" ELSE a.ty) \in Types \cup {"option"} /\ a.val \in Vals
    BY <1>5, ArgFacts
  <2>. QED
    BY <1>5, <2>1, <2>2 DEF Mappings
<1>6. CASE a.kind = "val" /\ Kind[p] \in {"int", "float"}
  <2>1. Mapping(p, a) = [kind |-> IF Kind[p] = "int" THEN "Int" ELSE "Float",
                         val |-> StoredScalar(p, a.ty, a.val)]
    BY <1>6 DEF Mapping
  <2>2. StoredScalar(p, a.ty, a.val) \in Vals
    BY <1>6, ArgFacts, TypesAssumption DEF StoredScalar
  <2>. QED
    BY <1>6, <2>1, <2>2 DEF Mappings
<1>7. CASE a.kind = "val" /\ Kind[p] = "ptr"
  <2>1. Mapping(p, a) = [kind |-> "Ptr", val |-> Conv[p][a.ty][a.val]]
    BY <1>7 DEF Mapping
  <2>2. Conv[p][a.ty][a.val] \in Vals
    BY <1>7, ArgFacts, TypesAssumption
  <2>. QED
    BY <1>7, <2>1, <2>2 DEF Mappings
<1>. QED
  BY <1>1, <1>2, <1>3, <1>4, <1>5, <1>6, <1>7 DEF Kinds

\* A struct keeps the type its bytes were copied from.
LEMMA StructSource ==
    ASSUME NEW p \in Types, NEW a \in Args, Accepts(p, a),
           a.kind \in {"val", "opt"}, Kind[p] = "class"
    PROVE  Mapping(p, a).from = Source(a)
<1>1. Mapping(p, a) = [kind |-> "Struct",
                       from |-> IF a.kind = "opt" THEN "option" ELSE a.ty, val |-> a.val]
  BY MappingFacts
<1>. QED
  BY <1>1 DEF Source

\* A set of numbers between 1 and n with n elements is 1 .. n.
LEMMA FullRange ==
    ASSUME NEW n \in Nat, NEW S \in SUBSET (1 .. n)
    PROVE  Cardinality(S) = n <=> S = 1 .. n
<1>1. IsFiniteSet(1 .. n) /\ Cardinality(1 .. n) = n
  BY FS_Interval
<1>. QED
  BY <1>1, FS_Subset

\* A sequence without elements is the empty sequence.
LEMMA EmptySeq ==
    ASSUME NEW S, NEW s \in Seq(S)
    PROVE  Len(s) = 0 <=> s = <<>>
  OBVIOUS

---------------------------------------------------------------------------
\* A call starts with nothing scanned.
LEMMA InitInd == Init => IndInv
<1>. SUFFICES ASSUME Init PROVE IndInv
  OBVIOUS
<1>1. call \in CallRecords
  BY CallsAssumption DEF Init, BindInit
<1>2. TypeOK
  BY <1>1, TypesAssumption DEF Init, BindInit, TypeOK
<1>3. /\ pc = "scan" /\ k = 1 /\ outcome = "running" /\ Scanned = 0
      /\ clean = <<>> /\ nph = 0 /\ ctx = <<>>
  BY DEF Init, BindInit, Scanned, Passed
<1>4. ScanInv
  BY <1>2, <1>3, CallFacts DEF ScanInv
<1>5. MapInv /\ ContextInv
  BY <1>3 DEF Init, BindInit, MapInv, ContextInv, FromLayout
<1>6. LayoutInv /\ CountInv /\ KeepInv /\ NumberInv /\ OperandInv /\ AttrsInv
  BY <1>3 DEF Init, LayoutInv, CountInv, KeepInv, NumberInv, OperandInv, AttrsInv,
     FromCount, FromKeep, FromNumber, FromInline
<1>. QED
  BY <1>2, <1>3, <1>4, <1>5, <1>6 DEF IndInv, CompiledInv, OutcomeInv

---------------------------------------------------------------------------
(* The metaprogram.                                                        *)

\* Before the pass runs, its part of the invariant is about initial values.
LEMMA PassUntouched ==
    ASSUME IndInv, UNCHANGED <<call, inlineVars>>, pc \notin FromCount, pc' \notin FromCount
    PROVE  /\ LayoutInv' /\ CountInv' /\ KeepInv' /\ NumberInv' /\ OperandInv' /\ AttrsInv'
<1>1. /\ pc' \notin FromKeep /\ pc' \notin FromNumber /\ pc' \notin FromInline
      /\ pc \notin FromKeep /\ pc \notin FromNumber
      /\ pc' \notin {"count", "keep", "number", "inline", "attrs"}
  BY DEF FromCount, FromKeep, FromNumber, FromInline
<1>. QED
  BY <1>1 DEF IndInv, inlineVars, LayoutInv, CountInv, KeepInv, NumberInv, OperandInv, AttrsInv

\* ScanArg looks at one argument.
LEMMA ScanArgInd ==
    ASSUME IndInv, ScanArg, UNCHANGED inlineVars
    PROVE  IndInv'
<1>. DEFINE a == call.args[k]
<1>1. /\ pc = "scan" /\ outcome = "running" /\ k <= NArgs /\ k' = k + 1
      /\ clean' = IF a.kind = "opt" THEN clean ELSE Append(clean, a)
      /\ nph' = IF a.kind = "ph" THEN MaxOf(a.n, nph) ELSE nph
      /\ UNCHANGED <<call, pc, outcome, sig, seen, ctx, options>>
  BY DEF ScanArg, At, NArgs
<1>2. TypeOK /\ ScanInv /\ MapInv /\ ContextInv
  BY DEF IndInv
<1>3. k \in 1 .. NArgs /\ Scanned = k - 1 /\ Scanned' = k
  <2>1. k \in Nat \ {0}
    BY <1>2 DEF TypeOK
  <2>2. NArgs \in Nat
    BY <1>2, CallFacts
  <2>3. Scanned = k - 1 /\ Scanned' = k' - 1
    BY <1>1 DEF Scanned, Passed
  <2>. QED
    BY <2>1, <2>2, <2>3, <1>1
<1>4. a \in Args /\ NArgs' = NArgs /\ NParams' = NParams
  BY <1>1, <1>2, <1>3, CallFacts DEF NArgs, NParams
<1>5. /\ clean \in Seq(Args) /\ clean' \in Seq(Args) /\ nph \in Nat /\ nph' \in Nat
      /\ Len(clean) \in Nat /\ nph <= nph'
      /\ a.kind = "ph" => a.n \in Nat /\ a.n <= nph'
      /\ nph' # nph => a.kind = "ph" /\ nph' = a.n
  <2>1. clean \in Seq(Args) /\ nph \in Nat
    BY <1>2 DEF TypeOK
  <2>2. clean' \in Seq(Args)
    BY <2>1, <1>1, <1>4
  <2>3. a.kind = "ph" => a.n \in Nat
    BY <1>4, ArgFacts
  <2>4. /\ nph' \in Nat /\ nph <= nph'
        /\ a.kind = "ph" => a.n \in Nat /\ a.n <= nph'
        /\ nph' # nph => a.kind = "ph" /\ nph' = a.n
    BY <2>1, <2>3, <1>1 DEF MaxOf
  <2>. QED
    BY <2>1, <2>2, <2>4
<1>6. TypeOK'
  BY <1>1, <1>2, <1>3, <1>5, SMTT(60) DEF TypeOK, inlineVars
<1>7. /\ a.kind = "opt" => clean' = clean
      /\ a.kind # "opt" => /\ Len(clean') = Len(clean) + 1 /\ clean'[Len(clean) + 1] = a
                           /\ \A j \in 1 .. Len(clean) : clean'[j] = clean[j]
  BY <1>1, <1>4, <1>5
<1>8. ScanInv'
  <2>1. Scanned' \in 0 .. NArgs'
    BY <1>3, <1>4
  <2>2. ASSUME NEW i \in 1 .. k, call.args[i].kind = "ph"
        PROVE  call.args[i].n <= nph' /\ \E j \in DOMAIN clean' : clean'[j] = call.args[i]
    <3>1. CASE i = k
      BY <3>1, <2>2, <1>5, <1>7
    <3>2. CASE i # k
      <4>1. i \in 1 .. Scanned
        BY <3>2, <1>3
      <4>2. PICK j \in DOMAIN clean : clean[j] = call.args[i]
        BY <4>1, <2>2, <1>2 DEF ScanInv
      <4>3. j \in DOMAIN clean' /\ clean'[j] = clean[j]
        BY <4>2, <1>5, <1>7
      <4>4. call.args[i].n <= nph /\ call.args[i].n \in Nat
        BY <4>1, <2>2, <1>2, <1>3, CallFacts, ArgFacts DEF ScanInv
      <4>. QED
        BY <4>2, <4>3, <4>4, <1>5
    <3>. QED
      BY <3>1, <3>2
  <2>3. ASSUME NEW j \in DOMAIN clean' PROVE \E i \in 1 .. k : clean'[j] = call.args[i]
    <3>1. CASE j \in DOMAIN clean
      <4>1. PICK i \in 1 .. Scanned : clean[j] = call.args[i]
        BY <3>1, <1>2 DEF ScanInv
      <4>2. i \in 1 .. k
        BY <1>3
      <4>3. clean'[j] = clean[j]
        BY <3>1, <1>5, <1>7
      <4>. QED
        BY <4>1, <4>2, <4>3
    <3>2. CASE j \notin DOMAIN clean
      <4>1. j = Len(clean) + 1 /\ clean'[j] = a
        BY <3>2, <1>5, <1>7
      <4>. QED
        BY <4>1, <1>3
    <3>. QED
      BY <3>1, <3>2
  <2>4. nph' # 0 => \E i \in 1 .. k : PhAt(call, i, nph')
    <3>1. CASE nph' = nph
      BY <3>1, <1>2, <1>3 DEF ScanInv
    <3>2. CASE nph' # nph
      <4>1. PhAt(call, k, nph')
        BY <3>2, <1>5 DEF PhAt
      <4>. QED
        BY <4>1, <1>3
    <3>. QED
      BY <3>1, <3>2
  <2>5. Len(clean') <= k
    BY <1>2, <1>3, <1>5, <1>7 DEF ScanInv
  <2>6. RestOptions(call) => Len(clean') <= NParams
    <3>1. RestOptions(call) => (k > NParams => a.kind = "opt")
      BY <1>2, <1>3, CallFacts DEF RestOptions, NParams
    <3>. QED
      BY <3>1, <2>5, <1>2, <1>3, <1>5, <1>7, CallFacts DEF ScanInv
  <2>7. WellBound(call) /\ OptionsLast(call) =>
          /\ Len(clean') = IF k <= NParams THEN k ELSE NParams
          /\ \A j \in DOMAIN clean' : clean'[j] = call.args[j]
    <3>. SUFFICES ASSUME WellBound(call), OptionsLast(call)
                  PROVE  /\ Len(clean') = IF k <= NParams THEN k ELSE NParams
                         /\ \A j \in DOMAIN clean' : clean'[j] = call.args[j]
      OBVIOUS
    <3>1. /\ Len(clean) = IF k - 1 <= NParams THEN k - 1 ELSE NParams
          /\ \A j \in DOMAIN clean : clean[j] = call.args[j]
      BY <1>2, <1>3 DEF ScanInv
    <3>2. a.kind = "opt" <=> k > NParams
      BY <1>2, <1>3, CallFacts DEF WellBound, OptionsLast, Positions, NParams
    <3>3. NParams \in Nat /\ k \in Nat /\ k >= 1
      BY <1>2, <1>3, CallFacts
    <3>4. CASE k > NParams
      <4>1. clean' = clean /\ Len(clean) = NParams
        BY <3>1, <3>2, <3>3, <3>4, <1>7
      <4>. QED
        BY <4>1, <3>1, <3>3, <3>4
    <3>5. CASE k <= NParams
      <4>1. /\ Len(clean) = k - 1 /\ Len(clean') = k /\ clean'[k] = a
            /\ \A j \in 1 .. k - 1 : clean'[j] = clean[j]
        BY <3>1, <3>2, <3>3, <3>5, <1>5, <1>7
      <4>2. ASSUME NEW j \in 1 .. k PROVE clean'[j] = call.args[j]
        <5>1. CASE j = k
          BY <4>1, <5>1
        <5>2. CASE j # k
          <6>1. j \in 1 .. k - 1 /\ j \in DOMAIN clean
            BY <4>1, <5>2, <3>3, <1>5
          <6>. QED
            BY <4>1, <6>1, <3>1
        <5>. QED
          BY <5>1, <5>2
      <4>3. DOMAIN clean' = 1 .. k
        BY <4>1, <1>5
      <4>. QED
        BY <4>1, <4>2, <4>3, <3>5
    <3>. QED
      BY <3>3, <3>4, <3>5
  <2>. QED
    <3>1. call' = call
      BY <1>1
    <3>. QED
      BY <2>1, <2>2, <2>3, <2>4, <2>5, <2>6, <2>7, <3>1, <1>3, <1>4 DEF ScanInv
<1>9. MapInv' /\ ContextInv'
  BY <1>1, <1>2 DEF MapInv, ContextInv, FromLayout
<1>10. LayoutInv' /\ CountInv' /\ KeepInv' /\ NumberInv' /\ OperandInv' /\ AttrsInv'
  BY <1>1, PassUntouched DEF FromCount
<1>. QED
  BY <1>1, <1>6, <1>8, <1>9, <1>10 DEF IndInv, CompiledInv, OutcomeInv

\* After the scan its results stay.
LEMMA ScanUntouched ==
    ASSUME ScanInv, UNCHANGED <<call, clean, nph>>, Scanned' = Scanned
    PROVE  ScanInv'
<1>1. NArgs' = NArgs /\ NParams' = NParams
  BY DEF NArgs, NParams
<1>. QED
  BY <1>1 DEF ScanInv

\* A well-formed call has no placeholder after its parameters' arguments,
\* and its placeholders are 1 .. nph.
LEMMA PlaceholdersOfWellBound ==
    ASSUME IndInv, pc # "scan", WellBound(call)
    PROVE  /\ NParams <= NArgs /\ Len(clean) <= NParams
           /\ \A n \in 1 .. nph : \E i \in Positions(call) : PhAt(call, i, n)
<1>1. TypeOK /\ ScanInv /\ Scanned = NArgs
  BY DEF IndInv, Scanned, Passed
<1>2. NParams <= NArgs /\ RestOptions(call)
  BY DEF WellBound, RestOptions, NParams, NArgs
<1>3. Len(clean) <= NParams
  BY <1>1, <1>2 DEF ScanInv
<1>4. ASSUME NEW n \in 1 .. nph PROVE \E i \in Positions(call) : PhAt(call, i, n)
  <2>1. PICK i \in 1 .. NArgs : PhAt(call, i, nph)
    BY <1>1 DEF ScanInv, TypeOK
  <2>2. i \in Positions(call)
    BY <2>1, <1>1, <1>2, CallFacts DEF RestOptions, PhAt, Positions, NParams
  <2>3. nph \in Placeholders(call)
    BY <2>1, <2>2 DEF Placeholders, PhAt, IsPh
  <2>4. n \in Placeholders(call)
    BY <2>3 DEF WellBound
  <2>. QED
    BY <2>4 DEF Placeholders, PhAt, IsPh
<1>. QED
  BY <1>2, <1>3, <1>4

\* The mapping starts with no placeholder seen.
LEMMA StartMapInd ==
    ASSUME IndInv, StartMap, UNCHANGED inlineVars
    PROVE  IndInv'
<1>1. /\ pc = "scan" /\ outcome = "running" /\ k > NArgs /\ k' = 1
      /\ pc' = IF nph = 0 THEN "params" ELSE "map"
      /\ sig' = [n \in 1 .. nph |-> Void]
      /\ UNCHANGED <<call, outcome, clean, nph, seen, ctx, options>>
  BY DEF StartMap, At, Goto, NArgs
<1>2. TypeOK /\ ScanInv /\ MapInv /\ ContextInv
  BY DEF IndInv
<1>3. Scanned' = Scanned
  <2>1. /\ Scanned = k - 1 /\ Scanned' = NArgs /\ NArgs \in Nat /\ k \in Nat
        /\ Scanned \in 0 .. NArgs
    BY <1>1, <1>2, CallFacts DEF ScanInv, TypeOK, Scanned, Passed, NArgs
  <2>. QED
    BY <2>1, <1>1
<1>4. ScanInv'
  BY <1>1, <1>2, <1>3, ScanUntouched
<1>5. seen = {} /\ ctx = <<>> /\ nph \in Nat
  BY <1>1, <1>2 DEF MapInv, ContextInv, TypeOK
<1>6. sig' \in Seq(Types \cup {Void})
  BY <1>1, <1>5
<1>7. TypeOK'
  BY <1>1, <1>2, <1>6 DEF TypeOK, inlineVars
<1>8. MapInv'
  <2>1. (nph = 0 => seen = 1 .. nph) /\ (nph # 0 => seen # 1 .. nph)
    <3>1. CASE nph = 0
      <4>1. 1 .. nph = {}
        BY <3>1
      <4>. QED
        BY <4>1, <3>1, <1>5
    <3>2. CASE nph # 0
      <4>1. 1 \in 1 .. nph
        BY <3>2, <1>5
      <4>. QED
        BY <4>1, <3>2, <1>5
    <3>. QED
      BY <3>1, <3>2
  <2>2. seen' = {} /\ nph' = nph /\ pc' \in {"map", "params"} /\ k' = 1 /\ (pc' = "map" <=> nph # 0)
    BY <1>1, <1>5
  <2>3. Len(clean') \in Nat
    BY <1>1, <1>2 DEF TypeOK
  <2>. QED
    BY <2>1, <2>2, <2>3, <1>1, <1>5 DEF MapInv
<1>9. ContextInv'
  <2>1. NArgs' = NArgs /\ NParams' = NParams /\ NArgs \in Nat /\ NParams \in Nat
    BY <1>1, <1>2, CallFacts DEF NArgs, NParams
  <2>. QED
    BY <2>1, <1>1, <1>5 DEF ContextInv, FromLayout
<1>10. LayoutInv' /\ CountInv' /\ KeepInv' /\ NumberInv' /\ OperandInv' /\ AttrsInv'
  BY <1>1, PassUntouched DEF FromCount
<1>. QED
  BY <1>1, <1>4, <1>7, <1>8, <1>9, <1>10 DEF IndInv, CompiledInv, OutcomeInv

\* MapPlaceholder gives the type of a new placeholder's parameter to the
\* signature, and stops when no placeholder is missing.
LEMMA MapPlaceholderInd ==
    ASSUME IndInv, MapPlaceholder, UNCHANGED inlineVars
    PROVE  IndInv'
<1>. DEFINE a == clean[k]
            parse == a.kind = "ph" /\ a.n \notin seen
<1>1. /\ pc = "map" /\ outcome = "running" /\ k <= Len(clean)
      /\ NParams >= Len(clean) - k + 1
      /\ sig' = IF parse THEN [sig EXCEPT ![a.n] = ParamAtIdx] ELSE sig
      /\ seen' = IF parse THEN seen \cup {a.n} ELSE seen
      /\ IF Cardinality(seen') = nph THEN pc' = "params" /\ k' = 1
                                     ELSE pc' = pc /\ k' = k + 1
      /\ UNCHANGED <<call, outcome, clean, nph, ctx, options>>
  BY DEF MapPlaceholder, At, Goto, NParams
<1>2. TypeOK /\ ScanInv /\ MapInv /\ ContextInv
  BY DEF IndInv
<1>3. /\ k \in 1 .. Len(clean) /\ Len(clean) \in Nat /\ DOMAIN clean = 1 .. Len(clean)
      /\ Scanned = NArgs /\ Scanned' = NArgs
  <2>1. clean \in Seq(Args) /\ k \in Nat \ {0} /\ k <= Len(clean)
    BY <1>1, <1>2 DEF TypeOK
  <2>2. pc' \in {"map", "params"} /\ call' = call
    BY <1>1
  <2>3. Scanned = NArgs /\ Scanned' = NArgs
    BY <2>2, <1>1 DEF Scanned, Passed, NArgs
  <2>. QED
    BY <2>1, <2>3
<1>4. a.kind = "ph" => a.n \in 1 .. nph
  <2>1. PICK i \in 1 .. NArgs : a = call.args[i]
    BY <1>2, <1>3 DEF ScanInv
  <2>2. call.args[i] \in Args /\ nph \in Nat
    BY <1>2, CallFacts DEF TypeOK
  <2>3. call.args[i].kind = "ph" => call.args[i].n <= nph
    BY <1>2, <1>3 DEF ScanInv
  <2>. QED
    BY <2>1, <2>2, <2>3, ArgFacts
<1>5. seen' \subseteq 1 .. nph /\ seen \subseteq seen'
  BY <1>1, <1>2, <1>4 DEF TypeOK
<1>6. ParamAtIdx \in Types
  <2>1. NParams - (Len(clean) - k + 1) + 1 \in 1 .. NParams
    BY <1>1, <1>2, <1>3, CallFacts
  <2>. QED
    BY <2>1, <1>2, CallFacts DEF ParamAtIdx, NParams
<1>7. sig' \in [1 .. nph -> Types \cup {Void}]
  BY <1>1, <1>2, <1>4, <1>6 DEF MapInv
<1>8. TypeOK'
  <2>1. sig' \in Seq(Types \cup {Void})
    BY <1>7, <1>2 DEF TypeOK
  <2>2. pc' \in {"map", "params"} /\ k' \in Nat \ {0}
    BY <1>1, <1>3
  <2>. QED
    BY <2>1, <2>2, <1>1, <1>2, <1>5 DEF TypeOK, inlineVars
<1>9. ScanInv'
  BY <1>1, <1>2, <1>3, ScanUntouched
<1>10. MapInv'
  <2>1. Cardinality(seen') = nph <=> seen' = 1 .. nph
    BY <1>5, <1>2, FullRange DEF TypeOK
  <2>2. pc' = "map" =>
          /\ k' \in 1 .. Len(clean) + 1 /\ nph # 0 /\ seen' # 1 .. nph
          /\ \A j \in 1 .. k' - 1 : clean[j].kind = "ph" => clean[j].n \in seen'
    <3>. SUFFICES ASSUME pc' = "map"
                  PROVE  /\ k' \in 1 .. Len(clean) + 1 /\ nph # 0 /\ seen' # 1 .. nph
                         /\ \A j \in 1 .. k' - 1 : clean[j].kind = "ph" => clean[j].n \in seen'
      OBVIOUS
    <3>1. k' = k + 1 /\ seen' # 1 .. nph
      BY <1>1, <2>1
    <3>2. ASSUME NEW j \in 1 .. k, clean[j].kind = "ph" PROVE clean[j].n \in seen'
      <4>1. CASE j = k
        BY <4>1, <3>2, <1>1
      <4>2. CASE j # k
        <5>1. j \in 1 .. k - 1
          BY <4>2, <1>3
        <5>. QED
          BY <5>1, <3>2, <1>1, <1>2, <1>5 DEF MapInv
      <4>. QED
        BY <4>1, <4>2
    <3>. QED
      BY <3>1, <3>2, <1>1, <1>2, <1>3 DEF MapInv
  <2>3. ASSUME NEW n \in seen'
        PROVE  \E j \in DOMAIN clean : clean[j].kind = "ph" /\ clean[j].n = n
    BY <1>1, <1>2, <1>3 DEF MapInv
  <2>4. pc' \notin {"scan", "map"} => seen' = 1 .. nph
    BY <1>1, <2>1
  <2>5. ASSUME WellBound(call), OptionsLast(call), NEW n \in seen'
        PROVE  \E i \in Positions(call) : PhAt(call, i, n) /\ sig'[n] = call.params[i]
    <3>1. CASE n \in seen
      <4>1. sig'[n] = sig[n]
        BY <3>1, <1>1, <1>2, <1>4 DEF MapInv, TypeOK
      <4>. QED
        BY <3>1, <4>1, <2>5, <1>1, <1>2 DEF MapInv
    <3>2. CASE n \notin seen
      <4>1. n = a.n /\ parse /\ sig'[n] = ParamAtIdx
        BY <3>2, <1>1, <1>2, <1>4 DEF MapInv
      <4>2. NParams <= NArgs
        BY <2>5, <1>1, PlaceholdersOfWellBound
      <4>3. Len(clean) = NParams /\ a = call.args[k]
        BY <4>2, <2>5, <1>2, <1>3, CallFacts DEF ScanInv
      <4>4. ParamAtIdx = call.params[k] /\ k \in Positions(call)
        BY <4>3, <1>2, <1>3, CallFacts DEF ParamAtIdx, NParams, Positions
      <4>. QED
        BY <4>1, <4>3, <4>4 DEF PhAt
    <3>. QED
      BY <3>1, <3>2
  <2>6. call' = call /\ clean' = clean /\ nph' = nph /\ pc' # "scan"
    BY <1>1
  <2>. QED
    BY <2>2, <2>3, <2>4, <2>5, <2>6, <1>7 DEF MapInv
<1>11. ContextInv'
  <2>1. NArgs' = NArgs /\ NParams' = NParams /\ NArgs \in Nat /\ NParams \in Nat
    BY <1>1, <1>2, CallFacts DEF NArgs, NParams
  <2>2. ctx = <<>>
    BY <1>1, <1>2 DEF ContextInv
  <2>3. pc' \in {"map", "params"} /\ (pc' = "params" => k' = 1)
    BY <1>1
  <2>. QED
    BY <2>1, <2>2, <2>3, <1>1 DEF ContextInv, FromLayout
<1>12. LayoutInv' /\ CountInv' /\ KeepInv' /\ NumberInv' /\ OperandInv' /\ AttrsInv'
  BY <1>1, PassUntouched DEF FromCount
<1>. QED
  BY <1>1, <1>8, <1>9, <1>10, <1>11, <1>12 DEF IndInv, CompiledInv, OutcomeInv

\* The end of a call leaves everything but the outcome alone.
LEMMA EndKeeps ==
    ASSUME IndInv, UNCHANGED <<call, pc, k, clean, nph, sig, seen, ctx, options, inlineVars>>,
           outcome' \in {"rejected", "undefined", "aborted", "compiled"},
           outcome' = "compiled" => pc = "attrs" /\ k = nnew + 1,
           outcome' = EndOf(call)
    PROVE  IndInv'
<1>1. TypeOK'
  BY DEF IndInv, TypeOK, inlineVars
<1>2. ScanInv' /\ MapInv' /\ ContextInv'
  <2>1. Scanned' = Scanned /\ NArgs' = NArgs /\ NParams' = NParams
    BY DEF Scanned, Passed, NArgs, NParams
  <2>. QED
    BY <2>1 DEF IndInv, ScanInv, MapInv, ContextInv
<1>3. LayoutInv' /\ CountInv' /\ KeepInv'
  BY DEF IndInv, inlineVars, LayoutInv, CountInv, KeepInv, Passed, Forwards, NParams
<1>4. NumberInv' /\ OperandInv' /\ AttrsInv'
  BY DEF IndInv, inlineVars, NumberInv, OperandInv, AttrsInv, Passed, NParams
<1>5. CompiledInv' /\ OutcomeInv'
  BY DEF CompiledInv, OutcomeInv, inlineVars
<1>. QED
  BY <1>1, <1>2, <1>3, <1>4, <1>5 DEF IndInv

\* The mapping fails only for a call that is not well formed: an argument
\* too many, or a gap in the placeholders.
LEMMA RejectMapInd ==
    ASSUME IndInv, RejectMap, UNCHANGED inlineVars
    PROVE  IndInv'
<1>1. /\ pc = "map" /\ outcome' = "rejected"
      /\ k > Len(clean) \/ NParams < Len(clean) - k + 1
      /\ UNCHANGED <<call, pc, k, clean, nph, sig, seen, ctx, options>>
  BY DEF RejectMap, At, End, NParams
<1>2. TypeOK /\ ScanInv /\ MapInv /\ Scanned = NArgs
  BY <1>1 DEF IndInv, Scanned, Passed
<1>3. ASSUME WellBound(call) PROVE FALSE
  <2>1. /\ NParams <= NArgs /\ Len(clean) <= NParams
        /\ \A n \in 1 .. nph : \E i \in Positions(call) : PhAt(call, i, n)
    BY <1>1, <1>3, PlaceholdersOfWellBound
  <2>2. k > Len(clean)
    BY <1>1, <1>2, <2>1, CallFacts DEF TypeOK
  <2>3. ASSUME NEW n \in 1 .. nph PROVE n \in seen
    <3>1. PICK i \in Positions(call) : PhAt(call, i, n)
      BY <2>1
    <3>2. i \in 1 .. NArgs
      BY <2>1, <1>2, CallFacts DEF Positions, NParams
    <3>3. PICK j \in DOMAIN clean : clean[j] = call.args[i]
      BY <3>1, <3>2, <1>2 DEF ScanInv, PhAt
    <3>4. j \in 1 .. k - 1
      BY <2>2, <1>2 DEF TypeOK
    <3>. QED
      BY <3>1, <3>3, <3>4, <1>1, <1>2 DEF MapInv, PhAt
  <2>. QED
    BY <2>3, <1>1, <1>2 DEF MapInv, TypeOK
<1>4. EndOf(call) = "rejected"
  BY <1>3 DEF EndOf
<1>. QED
  BY <1>1, <1>4, EndKeeps

\* While the Context is built the results of the mapping stay.
LEMMA SignatureUntouched ==
    ASSUME IndInv, UNCHANGED <<call, clean, nph, sig, seen>>,
           pc \notin {"scan", "map"}, pc' \notin {"scan", "map"}
    PROVE  ScanInv' /\ MapInv'
<1>1. Scanned' = Scanned
  BY DEF Scanned, Passed, NArgs
<1>2. ScanInv'
  BY <1>1, ScanUntouched DEF IndInv
<1>. QED
  BY <1>2 DEF IndInv, MapInv

\* SetParam appends the mapping of the next parameter.
LEMMA SetParamInd ==
    ASSUME IndInv, SetParam, UNCHANGED inlineVars
    PROVE  IndInv'
<1>. DEFINE m == Mapping(call.params[k], call.args[k])
<1>1. /\ pc = "params" /\ outcome = "running" /\ k <= NParams /\ NParams <= NArgs
      /\ Accepts(call.params[k], call.args[k])
      /\ ctx' = Append(ctx, m) /\ k' = k + 1
      /\ UNCHANGED <<call, pc, outcome, clean, nph, sig, seen, options>>
  BY DEF SetParam, At, NParams, NArgs
<1>2. TypeOK /\ ContextInv
  BY DEF IndInv
<1>3. k \in 1 .. NParams /\ Len(ctx) = k - 1 /\ NParams \in Nat /\ NArgs \in Nat
  BY <1>1, <1>2, CallFacts DEF TypeOK, ContextInv
<1>4. m \in Mappings
  <2>1. call.params[k] \in Types /\ call.args[k] \in Args
    BY <1>1, <1>2, <1>3, CallFacts
  <2>. QED
    BY <1>1, <2>1, MappingFacts, Zenon
<1>5. ctx \in Seq(Mappings) /\ ctx' \in Seq(Mappings)
  BY <1>1, <1>2, <1>4 DEF TypeOK
<1>6. /\ Len(ctx') = k /\ ctx'[k] = m
      /\ \A i \in 1 .. k - 1 : ctx'[i] = ctx[i]
  BY <1>1, <1>3, <1>4, <1>5
<1>7. TypeOK'
  BY <1>1, <1>2, <1>5, SMTT(60) DEF TypeOK, inlineVars
<1>8. ContextInv'
  <2>1. NArgs' = NArgs /\ NParams' = NParams
    BY <1>1 DEF NArgs, NParams
  <2>2. ASSUME NEW i \in DOMAIN ctx'
        PROVE  /\ i <= NParams
               /\ ctx'[i] = Mapping(call.params[i], call.args[i])
               /\ Accepts(call.params[i], call.args[i])
    <3>1. CASE i = k
      BY <3>1, <1>1, <1>6
    <3>2. CASE i # k
      <4>1. i \in DOMAIN ctx /\ i \in 1 .. k - 1
        BY <3>2, <1>3, <1>5, <1>6
      <4>. QED
        BY <4>1, <1>2, <1>6 DEF ContextInv
    <3>. QED
      BY <3>1, <3>2
  <2>3. /\ k + 1 \in 1 .. NArgs + 1
        /\ Len(ctx') = IF k + 1 <= NParams THEN k ELSE NParams
        /\ \A i \in NParams + 1 .. k : FALSE
    BY <1>1, <1>3, <1>6
  <2>4. call' = call /\ pc' = "params" /\ k' = k + 1
    BY <1>1
  <2>5. pc' \notin FromLayout /\ pc' \notin {"scan", "map"}
    BY <2>4 DEF FromLayout
  <2>. QED
    BY <2>1, <2>2, <2>3, <2>4, <2>5, <1>1, <1>3 DEF ContextInv
<1>9. ScanInv' /\ MapInv'
  BY <1>1, SignatureUntouched
<1>10. LayoutInv' /\ CountInv' /\ KeepInv' /\ NumberInv' /\ OperandInv' /\ AttrsInv'
  BY <1>1, PassUntouched DEF FromCount
<1>. QED
  BY <1>1, <1>7, <1>8, <1>9, <1>10 DEF IndInv, CompiledInv, OutcomeInv

\* SetOption passes one option after the parameters.
LEMMA SetOptionInd ==
    ASSUME IndInv, SetOption, UNCHANGED inlineVars
    PROVE  IndInv'
<1>1. /\ pc = "params" /\ outcome = "running" /\ k > NParams /\ k <= NArgs
      /\ call.args[k].kind = "opt" /\ k' = k + 1
      /\ options' = [options EXCEPT ![call.args[k].opt] = call.args[k].val]
      /\ UNCHANGED <<call, pc, outcome, clean, nph, sig, seen, ctx>>
  BY DEF SetOption, At, NParams, NArgs
<1>2. TypeOK /\ ContextInv
  BY DEF IndInv
<1>3. k \in 1 .. NArgs /\ NParams \in Nat /\ NArgs \in Nat
  BY <1>1, <1>2, CallFacts DEF TypeOK
<1>4. options' \in [OptionNames -> Vals]
  <2>1. call.args[k] \in Args
    BY <1>2, <1>3, CallFacts
  <2>. QED
    BY <2>1, <1>1, <1>2, ArgFacts DEF TypeOK
<1>5. TypeOK'
  BY <1>1, <1>2, <1>4 DEF TypeOK, inlineVars
<1>6. ContextInv'
  <2>1. NArgs' = NArgs /\ NParams' = NParams /\ call' = call /\ ctx' = ctx
    BY <1>1 DEF NArgs, NParams
  <2>2. Len(ctx) = NParams
    BY <1>1, <1>2, <1>3 DEF ContextInv
  <2>3. ASSUME NEW i \in NParams + 1 .. k PROVE call.args[i].kind = "opt"
    <3>1. i = k \/ i \in NParams + 1 .. k - 1
      BY <1>3
    <3>. QED
      BY <3>1, <1>1, <1>2 DEF ContextInv
  <2>4. k + 1 \in 1 .. NArgs + 1 /\ ~(k + 1 <= NParams) /\ NParams <= NArgs
    BY <1>1, <1>3
  <2>5. pc' = "params" /\ pc' \notin FromLayout /\ pc' \notin {"scan", "map"} /\ k' = k + 1
    BY <1>1 DEF FromLayout
  <2>6. \A i \in NParams + 1 .. k' - 1 : call.args[i].kind = "opt"
    BY <2>3, <2>5, <1>3
  <2>. QED
    BY <2>1, <2>2, <2>4, <2>5, <2>6, <1>2 DEF ContextInv
<1>7. ScanInv' /\ MapInv'
  BY <1>1, SignatureUntouched
<1>8. LayoutInv' /\ CountInv' /\ KeepInv' /\ NumberInv' /\ OperandInv' /\ AttrsInv'
  BY <1>1, PassUntouched DEF FromCount
<1>. QED
  BY <1>1, <1>5, <1>6, <1>7, <1>8 DEF IndInv, CompiledInv, OutcomeInv

\* When the Context is ready the call is well formed: every parameter was
\* accepted, the rest are options, and the placeholders seen have no gap.
LEMMA ContextReadyInd ==
    ASSUME IndInv, ContextReady, UNCHANGED inlineVars
    PROVE  IndInv'
<1>1. /\ pc = "params" /\ outcome = "running" /\ k > NParams /\ k > NArgs
      /\ pc' = "layout" /\ k' = 1
      /\ UNCHANGED <<call, outcome, clean, nph, sig, seen, ctx, options>>
  BY DEF ContextReady, At, Goto, NParams, NArgs
<1>2. TypeOK /\ ScanInv /\ MapInv /\ ContextInv /\ Scanned = NArgs
  BY <1>1 DEF IndInv, Scanned, Passed
<1>3. /\ NParams \in Nat /\ NArgs \in Nat /\ k = NArgs + 1
      /\ NParams <= NArgs /\ Len(ctx) = NParams
      /\ ctx \in Seq(Mappings) /\ DOMAIN ctx = 1 .. NParams
  BY <1>1, <1>2, CallFacts DEF ContextInv, TypeOK
<1>4. \A i \in 1 .. NParams : Accepts(call.params[i], call.args[i])
  BY <1>2, <1>3 DEF ContextInv
<1>5. \A i \in 1 .. NArgs : i > NParams => call.args[i].kind = "opt"
  <2>1. ASSUME NEW i \in 1 .. NArgs, i > NParams PROVE i \in NParams + 1 .. k - 1
    BY <2>1, <1>3
  <2>. QED
    BY <2>1, <1>1, <1>2 DEF ContextInv
<1>6. \A n \in 1 .. nph : n \in Placeholders(call)
  <2>. SUFFICES ASSUME NEW n \in 1 .. nph PROVE n \in Placeholders(call)
    OBVIOUS
  <2>1. n \in seen
    BY <1>1, <1>2 DEF MapInv
  <2>2. PICK j \in DOMAIN clean : clean[j].kind = "ph" /\ clean[j].n = n
    BY <2>1, <1>2 DEF MapInv
  <2>3. PICK i \in 1 .. NArgs : clean[j] = call.args[i]
    BY <2>2, <1>2 DEF ScanInv
  <2>4. i \in Positions(call)
    BY <2>2, <2>3, <1>3, <1>5 DEF Positions, NParams
  <2>. QED
    BY <2>2, <2>3, <2>4 DEF Placeholders, IsPh
<1>7. \A n \in Placeholders(call) : 1 .. n \subseteq 1 .. nph
  <2>. SUFFICES ASSUME NEW i \in 1 .. NParams, call.args[i].kind = "ph"
                PROVE  1 .. call.args[i].n \subseteq 1 .. nph
    BY DEF Placeholders, Positions, IsPh, NParams
  <2>1. i \in 1 .. NArgs
    BY <1>3
  <2>2. call.args[i].n <= nph /\ nph \in Nat /\ call.args[i] \in Args
    BY <2>1, <1>2, CallFacts DEF ScanInv, TypeOK
  <2>. QED
    BY <2>2, ArgFacts
<1>8. WellBound(call)
  BY <1>2, <1>3, <1>4, <1>5, <1>6, <1>7, CallFacts DEF WellBound, Positions, NParams, NArgs
<1>9. TypeOK'
  BY <1>1, <1>2 DEF TypeOK, inlineVars
<1>10. ContextInv'
  <2>1. NParams' = NParams /\ call' = call /\ ctx' = ctx /\ pc' = "layout"
    BY <1>1 DEF NParams
  <2>. QED
    BY <2>1, <1>2, <1>3, <1>8 DEF ContextInv
<1>11. ScanInv' /\ MapInv'
  BY <1>1, SignatureUntouched
<1>12. LayoutInv' /\ CountInv' /\ KeepInv' /\ NumberInv' /\ OperandInv' /\ AttrsInv'
  BY <1>1, PassUntouched DEF FromCount
<1>. QED
  BY <1>1, <1>9, <1>10, <1>11, <1>12 DEF IndInv, CompiledInv, OutcomeInv

\* An argument is refused only in a call that is not well formed.
LEMMA RejectParamsInd ==
    ASSUME IndInv, RejectParams, UNCHANGED inlineVars
    PROVE  IndInv'
<1>1. /\ pc = "params" /\ outcome' = "rejected"
      /\ \/ NParams > NArgs
         \/ k <= NParams /\ NParams <= NArgs /\ ~Accepts(call.params[k], call.args[k])
         \/ k > NParams /\ k <= NArgs /\ call.args[k].kind # "opt"
      /\ UNCHANGED <<call, pc, k, clean, nph, sig, seen, ctx, options>>
  BY DEF RejectParams, At, End, NParams, NArgs
<1>2. TypeOK
  BY DEF IndInv
<1>3. k \in Nat \ {0} /\ NParams \in Nat /\ NArgs \in Nat
  BY <1>2, CallFacts DEF TypeOK
<1>4. ~WellBound(call)
  BY <1>1, <1>2, <1>3, CallFacts DEF WellBound, Positions, NParams, NArgs
<1>5. EndOf(call) = "rejected"
  BY <1>4 DEF EndOf
<1>. QED
  BY <1>1, <1>5, EndKeeps

---------------------------------------------------------------------------
(* The pass.                                                               *)

\* The pass leaves the results of the metaprogram alone.
LEMMA ContextUntouched ==
    ASSUME IndInv, Stay, pc \in FromLayout, pc' \in FromLayout
    PROVE  ScanInv' /\ MapInv' /\ ContextInv'
<1>1. pc \notin {"scan", "map", "params"} /\ pc' \notin {"scan", "map", "params"}
  BY DEF FromLayout
<1>2. UNCHANGED <<call, clean, nph, sig, seen, ctx>>
  BY DEF Stay
<1>3. ScanInv' /\ MapInv'
  BY <1>1, <1>2, SignatureUntouched
<1>4. NParams' = NParams
  BY <1>2 DEF NParams
<1>. QED
  BY <1>1, <1>2, <1>3, <1>4 DEF IndInv, ContextInv

\* What the pass works on: a mapping per parameter, a forwarded index being
\* a placeholder's number less one.
LEMMA ContextFacts ==
    ASSUME IndInv, pc \in FromLayout
    PROVE  /\ WellBound(call) /\ NParams <= NArgs /\ NParams \in Nat /\ NArgs \in Nat
           /\ ctx \in Seq(Mappings) /\ Len(ctx) = NParams /\ DOMAIN ctx = 1 .. NParams
           /\ \A i \in 1 .. NParams :
                /\ call.params[i] \in Types /\ call.args[i] \in Args
                /\ ctx[i] = Mapping(call.params[i], call.args[i])
                /\ Accepts(call.params[i], call.args[i])
                /\ ctx[i].kind = "Forward" <=> call.args[i].kind = "ph"
                /\ ctx[i].kind = "Forward" => ctx[i].idx = call.args[i].n - 1 /\ ctx[i].idx \in Nat
<1>1. TypeOK /\ ContextInv
  BY DEF IndInv
<1>2. WellBound(call) /\ Len(ctx) = NParams
  BY <1>1 DEF ContextInv
<1>3. /\ NParams <= NArgs /\ NParams \in Nat /\ NArgs \in Nat
      /\ ctx \in Seq(Mappings) /\ DOMAIN ctx = 1 .. NParams
  BY <1>1, <1>2, CallFacts DEF WellBound, NParams, NArgs, TypeOK
<1>4. ASSUME NEW i \in 1 .. NParams
      PROVE  /\ call.params[i] \in Types /\ call.args[i] \in Args
             /\ ctx[i] = Mapping(call.params[i], call.args[i])
             /\ Accepts(call.params[i], call.args[i])
             /\ ctx[i].kind = "Forward" <=> call.args[i].kind = "ph"
             /\ ctx[i].kind = "Forward" => ctx[i].idx = call.args[i].n - 1 /\ ctx[i].idx \in Nat
  <2>1. call.params[i] \in Types /\ call.args[i] \in Args
    BY <1>1, <1>3, CallFacts
  <2>2. ctx[i] = Mapping(call.params[i], call.args[i]) /\ Accepts(call.params[i], call.args[i])
    BY <1>1, <1>3 DEF ContextInv
  <2>3. call.args[i].kind = "ph" => call.args[i].n - 1 \in Nat
    BY <2>1, ArgFacts
  <2>. QED
    BY <2>1, <2>2, <2>3, MappingFacts
<1>. QED
  BY <1>2, <1>3, <1>4

\* BuildLayout makes one entry per LLVM parameter, or reads past the end.
LEMMA BuildLayoutInd ==
    ASSUME IndInv, BuildLayout
    PROVE  IndInv'
<1>1. /\ pc = "layout" /\ outcome = "running" /\ Stay
      /\ UNCHANGED <<nnew, newhll, visited, paramIdx, operands, attrs>>
  BY DEF BuildLayout, At
<1>2. TypeOK /\ WellBound(call) /\ pc \in FromLayout /\ pc \notin FromCount
  BY <1>1 DEF IndInv, ContextInv, FromLayout, FromCount
<1>3. call.sret \in BOOLEAN /\ Len(call.fty) \in Nat /\ call.fty \in Seq(DOMAIN Trunc)
  BY <1>2, CallFacts
<1>4. ReadsPastEnd <=> call.sret \/ call.fty = <<>>
  <2>1. Len(call.fty) = 0 <=> call.fty = <<>>
    BY <1>3, EmptySeq
  <2>2. FirstParam + Len(call.fty) > Len(call.fty) <=> call.sret
    <3>1. CASE call.sret
      <4>1. FirstParam = 1
        BY <3>1 DEF FirstParam
      <4>. QED
        BY <3>1, <4>1, <1>3
    <3>2. CASE ~call.sret
      <4>1. FirstParam = 0
        BY <3>2 DEF FirstParam
      <4>. QED
        BY <3>2, <4>1, <1>3
    <3>. QED
      BY <3>1, <3>2
  <2>. QED
    BY <2>1, <2>2 DEF ReadsPastEnd
<1>5. CASE ReadsPastEnd
  <2>1. outcome' = "undefined" /\ UNCHANGED <<pc, k, hll>>
    BY <1>5 DEF BuildLayout, End
  <2>2. EndOf(call) = "undefined"
    BY <1>2, <1>4, <1>5 DEF EndOf
  <2>. QED
    BY <1>1, <2>1, <2>2, EndKeeps DEF Stay, inlineVars
<1>6. CASE ~ReadsPastEnd
  <2>1. ~call.sret /\ call.fty # <<>> /\ FirstParam = 0
    BY <1>4, <1>6 DEF FirstParam
  <2>2. hll' = [i \in 1 .. Len(call.fty) |->
                  [pos |-> i - 1, first |-> i - 1, types |-> <<call.fty[i]>>,
                   byptr |-> call.fty[i] = PtrTy]]
    <3>1. hll' = [i \in 1 .. Len(call.fty) |->
                    [pos |-> i - 1, first |-> FirstParam + i - 1,
                     types |-> <<call.fty[FirstParam + i]>>,
                     byptr |-> call.fty[FirstParam + i] = PtrTy]]
      BY <1>6 DEF BuildLayout
    <3>. QED
      BY <3>1, <2>1, <1>3
  <2>3. pc' = "count" /\ k' = 1 /\ outcome' = outcome
    BY <1>6 DEF BuildLayout, Goto
  <2>4. hll' \in Seq(HighLevelArg) /\ Len(hll') = Len(call.fty)
    <3>1. ASSUME NEW i \in 1 .. Len(call.fty)
          PROVE  [pos |-> i - 1, first |-> i - 1, types |-> <<call.fty[i]>>,
                  byptr |-> call.fty[i] = PtrTy] \in HighLevelArg
      BY <1>3 DEF HighLevelArg
    <3>. QED
      BY <2>2, <3>1, <1>3
  <2>5. TypeOK'
    BY <1>1, <1>2, <2>3, <2>4 DEF TypeOK, Stay
  <2>6. call' = call /\ pc' = "count" /\ NParams' = NParams /\ NParams \in Nat
    BY <1>1, <1>2, <2>3, CallFacts DEF Stay, NParams
  <2>7. LayoutInv'
    BY <2>1, <2>2, <2>4, <2>6, <1>3 DEF LayoutInv, FromKeep
  <2>8. ScanInv' /\ MapInv' /\ ContextInv'
    BY <1>1, <1>2, <2>6, ContextUntouched DEF FromLayout
  <2>9. nnew = 0 /\ visited = {} /\ paramIdx = 0
    BY <1>2, <1>1 DEF IndInv, CountInv, KeepInv, NumberInv, FromKeep, FromNumber
  <2>10. CountInv'
    BY <1>1, <2>3, <2>6, <2>9 DEF CountInv, Passed, FromCount
  <2>11. KeepInv' /\ NumberInv' /\ OperandInv' /\ AttrsInv'
    BY <1>1, <2>3, <2>9 DEF KeepInv, NumberInv, OperandInv, AttrsInv, FromKeep, FromNumber,
       FromInline
  <2>. QED
    BY <1>1, <2>3, <2>5, <2>7, <2>8, <2>10, <2>11 DEF IndInv, CompiledInv, OutcomeInv
<1>. QED
  BY <1>5, <1>6

\* The assertion of GetNewLayout fails exactly when some parameter does not
\* take one slot.
LEMMA AbortLayoutInd ==
    ASSUME IndInv, AbortLayout
    PROVE  IndInv'
<1>1. /\ pc = "count" /\ Len(ctx) # Len(hll) /\ outcome' = "aborted"
      /\ Stay /\ UNCHANGED <<pc, k, inlineVars>>
  BY DEF AbortLayout, At, LayoutAssertion, End
<1>2. /\ WellBound(call) /\ Len(ctx) = Len(call.params)
      /\ ~call.sret /\ call.fty # <<>> /\ Len(hll) = Len(call.fty)
  BY <1>1 DEF IndInv, ContextInv, LayoutInv, FromLayout, FromCount, NParams
<1>3. EndOf(call) = "aborted"
  BY <1>1, <1>2 DEF EndOf
<1>. QED
  BY <1>1, <1>3, EndKeeps DEF Stay

\* What the later phases of the pass work on.
LEMMA LayoutFacts ==
    ASSUME IndInv, pc \in FromCount, LayoutAssertion \/ pc \in FromKeep
    PROVE  /\ ~call.sret /\ FirstParam = 0 /\ call.fty # <<>> /\ Len(call.fty) = NParams
           /\ Len(hll) = NParams /\ hll \in Seq(HighLevelArg) /\ DOMAIN hll = 1 .. NParams
           /\ \A i \in 1 .. NParams :
                /\ call.fty[i] \in DOMAIN Trunc
                /\ hll[i] = [pos |-> i - 1, first |-> i - 1, types |-> <<call.fty[i]>>,
                             byptr |-> call.fty[i] = PtrTy]
<1>1. TypeOK /\ LayoutInv /\ ContextInv
  BY DEF IndInv
<1>2. Len(ctx) = NParams /\ Len(hll) = Len(call.fty) /\ Len(call.fty) = NParams
  BY <1>1 DEF LayoutInv, ContextInv, LayoutAssertion, FromLayout, FromCount
<1>3. NParams \in Nat /\ hll \in Seq(HighLevelArg) /\ DOMAIN hll = 1 .. NParams
  BY <1>1, <1>2, CallFacts DEF TypeOK
<1>4. ~call.sret /\ FirstParam = 0 /\ call.fty # <<>>
  BY <1>1 DEF LayoutInv, FirstParam
<1>5. \A i \in 1 .. NParams : call.fty[i] \in DOMAIN Trunc
  BY <1>1, <1>2, CallFacts
<1>6. \A i \in 1 .. NParams :
        hll[i] = [pos |-> i - 1, first |-> i - 1, types |-> <<call.fty[i]>>,
                  byptr |-> call.fty[i] = PtrTy]
  BY <1>1, <1>3 DEF LayoutInv
<1>. QED
  BY <1>2, <1>3, <1>4, <1>5, <1>6

\* CountNewArgs takes the maximum over the forwarded indices.
LEMMA CountNewArgsInd ==
    ASSUME IndInv, CountNewArgs
    PROVE  IndInv'
<1>1. /\ pc = "count" /\ outcome = "running" /\ LayoutAssertion /\ k <= Len(ctx) /\ Stay
      /\ nnew' = IF ctx[k].kind = "Forward" THEN MaxOf(nnew, ctx[k].idx + 1) ELSE nnew
      /\ k' = k + 1
      /\ UNCHANGED <<pc, outcome, hll, newhll, visited, paramIdx, operands, attrs>>
  BY DEF CountNewArgs, At
<1>2. pc \in FromLayout /\ pc \in FromCount /\ pc \notin FromKeep /\ pc \notin FromNumber
        /\ pc \notin FromInline
  BY <1>1 DEF FromLayout, FromCount, FromKeep, FromNumber, FromInline
<1>3. /\ NParams \in Nat /\ Len(ctx) = NParams
      /\ \A i \in 1 .. NParams : ctx[i].kind = "Forward" => ctx[i].idx \in Nat
  BY <1>2, ContextFacts
<1>4. TypeOK /\ CountInv /\ LayoutInv /\ KeepInv /\ NumberInv
  BY DEF IndInv
<1>5. k \in 1 .. NParams /\ nnew \in Nat /\ k \in Nat
  BY <1>1, <1>3, <1>4 DEF TypeOK
<1>6. /\ nnew' \in Nat /\ nnew <= nnew'
      /\ ctx[k].kind = "Forward" => ctx[k].idx < nnew'
      /\ nnew' # nnew => Forwards(k, nnew' - 1)
  BY <1>1, <1>3, <1>5 DEF MaxOf, Forwards
<1>7. TypeOK'
  BY <1>1, <1>4, <1>5, <1>6 DEF TypeOK, Stay
<1>8. call' = call /\ ctx' = ctx /\ NParams' = NParams /\ pc' = pc /\ k' = k + 1 /\ hll' = hll
  BY <1>1 DEF Stay, NParams
<1>9. CountInv'
  <2>1. ASSUME NEW i \in 1 .. k, ctx[i].kind = "Forward" PROVE ctx[i].idx < nnew'
    <3>1. CASE i = k
      BY <3>1, <2>1, <1>6
    <3>2. CASE i # k
      <4>1. i \in 1 .. k - 1 /\ i \in 1 .. NParams
        BY <3>2, <1>3, <1>5
      <4>2. ctx[i].idx < nnew /\ ctx[i].idx \in Nat
        BY <4>1, <2>1, <1>1, <1>2, <1>3, <1>4 DEF CountInv, Passed
      <4>. QED
        BY <4>2, <1>5, <1>6
    <3>. QED
      BY <3>1, <3>2
  <2>2. nnew' # 0 => \E i \in 1 .. NParams : ctx[i].kind = "Forward" /\ ctx[i].idx = nnew' - 1
    BY <1>2, <1>4, <1>5, <1>6 DEF CountInv, Forwards
  <2>3. Passed("count", NParams)' = k
    BY <1>1, <1>5, <1>8 DEF Passed
  <2>4. k' \in 1 .. NParams + 1 /\ pc' \in FromCount
    BY <1>2, <1>3, <1>5, <1>8
  <2>. QED
    BY <2>1, <2>2, <2>3, <2>4, <1>8 DEF CountInv, Forwards
<1>10. LayoutInv'
  BY <1>4, <1>8 DEF LayoutInv
<1>11. KeepInv' /\ NumberInv' /\ OperandInv' /\ AttrsInv'
  BY <1>1, <1>2, <1>4, <1>8 DEF KeepInv, NumberInv, OperandInv, AttrsInv
<1>12. ScanInv' /\ MapInv' /\ ContextInv'
  BY <1>1, <1>2, ContextUntouched
<1>. QED
  BY <1>1, <1>7, <1>9, <1>10, <1>11, <1>12 DEF IndInv, CompiledInv, OutcomeInv

\* ResizeNewLayout makes room for the indices counted.
LEMMA ResizeNewLayoutInd ==
    ASSUME IndInv, ResizeNewLayout
    PROVE  IndInv'
<1>1. /\ pc = "count" /\ outcome = "running" /\ LayoutAssertion /\ k > Len(ctx) /\ Stay
      /\ newhll' = [i \in 1 .. nnew |-> Fresh] /\ pc' = "keep" /\ k' = 1
      /\ UNCHANGED <<outcome, hll, nnew, visited, paramIdx, operands, attrs>>
  BY DEF ResizeNewLayout, At, Goto
<1>2. pc \in FromLayout /\ pc \in FromCount /\ pc \notin FromKeep /\ pc \notin FromNumber
  BY <1>1 DEF FromLayout, FromCount, FromKeep, FromNumber
<1>3. pc' \in FromLayout /\ pc' \in FromCount /\ pc' \in FromKeep /\ pc' \notin FromNumber
        /\ pc' \notin FromInline
  BY <1>1 DEF FromLayout, FromCount, FromKeep, FromNumber, FromInline
<1>4. NParams \in Nat /\ Len(ctx) = NParams
  BY <1>2, ContextFacts
<1>5. TypeOK /\ CountInv /\ LayoutInv /\ KeepInv /\ NumberInv
  BY DEF IndInv
<1>6. newhll' \in Seq(HighLevelArg \cup {Fresh}) /\ Len(newhll') = nnew /\ nnew \in Nat
  BY <1>1, <1>5 DEF TypeOK
<1>7. TypeOK'
  BY <1>1, <1>5, <1>6 DEF TypeOK, Stay
<1>8. /\ call' = call /\ ctx' = ctx /\ NParams' = NParams /\ hll' = hll /\ nnew' = nnew
      /\ visited' = visited /\ visited = {} /\ paramIdx' = paramIdx
  BY <1>1, <1>2, <1>5 DEF Stay, NParams, KeepInv
<1>9. LayoutInv'
  <2>1. Len(call.fty) = NParams
    BY <1>1, <1>2, LayoutFacts
  <2>. QED
    BY <2>1, <1>2, <1>5, <1>8 DEF LayoutInv
<1>10. CountInv'
  <2>1. k = NParams + 1
    BY <1>1, <1>4, <1>5 DEF CountInv, TypeOK
  <2>2. Passed("count", NParams) = NParams /\ Passed("count", NParams)' = NParams
    BY <2>1, <1>1, <1>4, <1>8 DEF Passed
  <2>. QED
    BY <2>2, <1>1, <1>2, <1>3, <1>5, <1>8 DEF CountInv, Forwards
<1>11. KeepInv'
  <2>1. Passed("keep", NParams)' = 0
    BY <1>1, <1>8 DEF Passed
  <2>2. k' \in 1 .. NParams + 1
    BY <1>1, <1>4
  <2>. QED
    BY <2>1, <2>2, <1>3, <1>6, <1>8 DEF KeepInv
<1>12. NumberInv' /\ OperandInv' /\ AttrsInv'
  BY <1>1, <1>2, <1>3, <1>5, <1>8 DEF NumberInv, OperandInv, AttrsInv
<1>13. ScanInv' /\ MapInv' /\ ContextInv'
  BY <1>1, <1>2, <1>3, ContextUntouched
<1>. QED
  BY <1>1, <1>7, <1>9, <1>10, <1>11, <1>12, <1>13 DEF IndInv, CompiledInv, OutcomeInv

\* KeepForwarded copies the layout of the first parameter forwarded from an
\* index.
LEMMA KeepForwardedInd ==
    ASSUME IndInv, KeepForwarded
    PROVE  IndInv'
<1>. DEFINE n == ctx[k].idx
            keeps == ctx[k].kind = "Forward" /\ n \notin visited
<1>1. /\ pc = "keep" /\ outcome = "running" /\ k <= Len(hll) /\ Stay /\ k' = k + 1
      /\ visited' = IF keeps THEN visited \cup {n} ELSE visited
      /\ newhll' = IF keeps THEN [newhll EXCEPT ![n + 1] = hll[k]] ELSE newhll
      /\ UNCHANGED <<pc, outcome, hll, nnew, paramIdx, operands, attrs>>
  BY DEF KeepForwarded, At
<1>2. pc \in FromLayout /\ pc \in FromCount /\ pc \in FromKeep /\ pc \notin FromNumber
        /\ pc \notin FromInline
  BY <1>1 DEF FromLayout, FromCount, FromKeep, FromNumber, FromInline
<1>3. /\ NParams \in Nat
      /\ \A i \in 1 .. NParams : ctx[i].kind = "Forward" => ctx[i].idx \in Nat
  BY <1>2, ContextFacts
<1>4. /\ Len(hll) = NParams /\ hll \in Seq(HighLevelArg)
  BY <1>2, LayoutFacts
<1>5. TypeOK /\ CountInv /\ LayoutInv /\ KeepInv /\ NumberInv
  BY DEF IndInv
<1>6. /\ k \in 1 .. NParams /\ k \in Nat /\ nnew \in Nat /\ hll[k] \in HighLevelArg
      /\ Len(newhll) = nnew /\ visited \subseteq 0 .. nnew - 1
      /\ newhll \in Seq(HighLevelArg \cup {Fresh}) /\ DOMAIN newhll = 1 .. nnew
  BY <1>1, <1>2, <1>3, <1>4, <1>5 DEF TypeOK, KeepInv
<1>7. ctx[k].kind = "Forward" => n \in Nat /\ n < nnew /\ n \in 0 .. nnew - 1 /\ n + 1 \in 1 .. nnew
  <2>1. Passed("count", NParams) = NParams
    BY <1>1 DEF Passed
  <2>. QED
    BY <2>1, <1>2, <1>3, <1>5, <1>6 DEF CountInv
<1>8. /\ newhll' \in Seq(HighLevelArg \cup {Fresh}) /\ Len(newhll') = nnew
      /\ visited' \subseteq 0 .. nnew - 1
  <2>1. CASE keeps
    <3>1. newhll' = [newhll EXCEPT ![n + 1] = hll[k]] /\ visited' = visited \cup {n}
      BY <1>1, <2>1
    <3>2. n \in 0 .. nnew - 1 /\ n + 1 \in 1 .. nnew
      BY <1>7, <2>1
    <3>3. visited' \subseteq 0 .. nnew - 1
      BY <3>1, <3>2, <1>6
    <3>4. newhll' \in Seq(HighLevelArg \cup {Fresh}) /\ Len(newhll') = nnew
      BY <3>1, <3>2, <1>6
    <3>. QED
      BY <3>3, <3>4
  <2>2. CASE ~keeps
    BY <1>1, <1>6, <2>2
  <2>. QED
    BY <2>1, <2>2
<1>9. TypeOK'
  <2>1. visited' \subseteq Nat
    BY <1>8, <1>6
  <2>. QED
    BY <2>1, <1>1, <1>5, <1>6, <1>8 DEF TypeOK, Stay
<1>10. /\ call' = call /\ ctx' = ctx /\ NParams' = NParams /\ hll' = hll /\ nnew' = nnew
       /\ pc' = pc /\ k' = k + 1 /\ paramIdx' = paramIdx
  BY <1>1 DEF Stay, NParams
<1>11. KeepInv'
  <2>1. ASSUME NEW i \in 1 .. k, ctx[i].kind = "Forward" PROVE ctx[i].idx \in visited'
    <3>1. CASE i = k
      BY <3>1, <2>1, <1>1
    <3>2. CASE i # k
      <4>1. i \in 1 .. k - 1
        BY <3>2, <1>6
      <4>2. Passed("keep", NParams) = k - 1
        BY <1>1 DEF Passed
      <4>3. ctx[i].idx \in visited
        BY <4>1, <4>2, <2>1, <1>2, <1>5 DEF KeepInv
      <4>. QED
        BY <4>3, <1>1
    <3>. QED
      BY <3>1, <3>2
  <2>2. ASSUME NEW m \in visited'
        PROVE  \E i \in 1 .. NParams :
                 /\ ctx[i].kind = "Forward" /\ ctx[i].idx = m
                 /\ newhll'[m + 1].pos = hll[i].pos /\ newhll'[m + 1].types = hll[i].types
                 /\ newhll'[m + 1].first \in Nat
    <3>1. CASE m \in visited
      <4>1. PICK i \in 1 .. NParams :
              /\ ctx[i].kind = "Forward" /\ ctx[i].idx = m
              /\ newhll[m + 1].pos = hll[i].pos /\ newhll[m + 1].types = hll[i].types
              /\ newhll[m + 1].first \in Nat
        BY <3>1, <1>2, <1>5 DEF KeepInv, Forwards
      <4>2. keeps => n + 1 # m + 1
        BY <3>1, <1>6, <1>7
      <4>3. newhll'[m + 1] = newhll[m + 1]
        BY <4>2, <3>1, <1>1, <1>6
      <4>. QED
        BY <4>1, <4>3
    <3>2. CASE m \notin visited
      <4>1. keeps /\ m = n /\ newhll' = [newhll EXCEPT ![n + 1] = hll[k]]
        BY <3>2, <1>1
      <4>2. newhll'[m + 1] = hll[k]
        BY <4>1, <1>6, <1>7
      <4>3. hll[k].first \in Nat
        BY <1>6 DEF HighLevelArg
      <4>. QED
        BY <4>1, <4>2, <4>3, <1>6
    <3>. QED
      BY <3>1, <3>2
  <2>3. Passed("keep", NParams)' = k
    BY <1>1, <1>6, <1>10 DEF Passed
  <2>4. k' \in 1 .. NParams + 1
    BY <1>3, <1>6, <1>10
  <2>. QED
    BY <2>1, <2>2, <2>3, <2>4, <1>2, <1>8, <1>10 DEF KeepInv, Forwards
<1>12. LayoutInv' /\ CountInv'
  <2>1. Passed("count", NParams)' = Passed("count", NParams)
    BY <1>1, <1>10 DEF Passed
  <2>. QED
    BY <2>1, <1>1, <1>5, <1>10 DEF LayoutInv, CountInv, Forwards
<1>13. NumberInv' /\ OperandInv' /\ AttrsInv'
  BY <1>1, <1>2, <1>5, <1>10 DEF NumberInv, OperandInv, AttrsInv
<1>14. ScanInv' /\ MapInv' /\ ContextInv'
  BY <1>1, <1>2, ContextUntouched
<1>. QED
  BY <1>1, <1>9, <1>11, <1>12, <1>13, <1>14 DEF IndInv, CompiledInv, OutcomeInv

\* When every parameter has been kept every index of the wrapper has a
\* layout: a well-formed call has no gap in its placeholders.
LEMMA StartNumberingInd ==
    ASSUME IndInv, StartNumbering
    PROVE  IndInv'
<1>1. /\ pc = "keep" /\ outcome = "running" /\ k > Len(hll) /\ Stay /\ pc' = "number" /\ k' = 1
      /\ UNCHANGED <<outcome, inlineVars>>
  BY DEF StartNumbering, At, Goto
<1>2. pc \in FromLayout /\ pc \in FromCount /\ pc \in FromKeep /\ pc \notin FromNumber
  BY <1>1 DEF FromLayout, FromCount, FromKeep, FromNumber
<1>3. pc' \in FromLayout /\ pc' \in FromCount /\ pc' \in FromKeep /\ pc' \in FromNumber
        /\ pc' \notin FromInline
  BY <1>1 DEF FromLayout, FromCount, FromKeep, FromNumber, FromInline
<1>4. /\ NParams \in Nat /\ WellBound(call) /\ NParams = Len(hll)
      /\ \A i \in 1 .. NParams :
           /\ call.args[i] \in Args
           /\ ctx[i].kind = "Forward" <=> call.args[i].kind = "ph"
           /\ ctx[i].kind = "Forward" => ctx[i].idx = call.args[i].n - 1 /\ ctx[i].idx \in Nat
  BY <1>2, ContextFacts, LayoutFacts
<1>5. TypeOK /\ CountInv /\ LayoutInv /\ KeepInv /\ NumberInv
  BY DEF IndInv
<1>6. /\ nnew \in Nat /\ visited \subseteq 0 .. nnew - 1 /\ k = NParams + 1
  BY <1>1, <1>2, <1>4, <1>5 DEF TypeOK, KeepInv
<1>7. ASSUME NEW m \in 0 .. nnew - 1 PROVE m \in visited
  <2>1. nnew # 0
    BY <1>6
  <2>2. PICK i \in 1 .. NParams : ctx[i].kind = "Forward" /\ ctx[i].idx = nnew - 1
    BY <2>1, <1>2, <1>5 DEF CountInv, Forwards
  <2>3. call.args[i].kind = "ph" /\ call.args[i].n = nnew
    <3>1. call.args[i] \in Args /\ call.args[i].kind = "ph" /\ nnew - 1 = call.args[i].n - 1
      BY <2>2, <1>4
    <3>2. call.args[i].n \in Nat
      BY <3>1, ArgFacts
    <3>. QED
      BY <3>1, <3>2, <1>6
  <2>4. nnew \in Placeholders(call)
    BY <2>3 DEF Placeholders, Positions, IsPh, NParams
  <2>5. m + 1 \in Placeholders(call)
    BY <2>4, <1>4, <1>6 DEF WellBound
  <2>6. PICK j \in 1 .. NParams : call.args[j].kind = "ph" /\ call.args[j].n = m + 1
    BY <2>5 DEF Placeholders, Positions, IsPh, NParams
  <2>7. ctx[j].kind = "Forward" /\ ctx[j].idx = m
    BY <2>6, <1>4, <1>6
  <2>8. Passed("keep", NParams) = NParams
    BY <1>1, <1>4, <1>6 DEF Passed
  <2>. QED
    BY <2>7, <2>8, <1>2, <1>5 DEF KeepInv
<1>8. visited = 0 .. nnew - 1
  BY <1>6, <1>7
<1>9. TypeOK'
  BY <1>1, <1>5 DEF TypeOK, Stay, inlineVars
<1>10. /\ call' = call /\ ctx' = ctx /\ NParams' = NParams /\ hll' = hll /\ nnew' = nnew
       /\ newhll' = newhll /\ visited' = visited /\ paramIdx' = paramIdx
  BY <1>1 DEF Stay, NParams, inlineVars
<1>11. KeepInv'
  <2>1. Passed("keep", NParams) = NParams /\ Passed("keep", NParams)' = NParams
    BY <1>1, <1>4, <1>6, <1>10 DEF Passed
  <2>. QED
    BY <2>1, <1>1, <1>2, <1>3, <1>5, <1>8, <1>10 DEF KeepInv, Forwards
<1>12. LayoutInv' /\ CountInv'
  <2>1. Passed("count", NParams)' = Passed("count", NParams)
    BY <1>1, <1>10 DEF Passed
  <2>. QED
    BY <2>1, <1>1, <1>2, <1>3, <1>5, <1>10 DEF LayoutInv, CountInv, Forwards
<1>13. NumberInv'
  <2>1. Passed("number", nnew)' = 0
    BY <1>1 DEF Passed
  <2>. QED
    BY <2>1, <1>1, <1>2, <1>5, <1>6, <1>10 DEF NumberInv
<1>14. OperandInv' /\ AttrsInv'
  BY <1>1, <1>3 DEF OperandInv, AttrsInv
<1>15. ScanInv' /\ MapInv' /\ ContextInv'
  BY <1>1, <1>2, <1>3, ContextUntouched
<1>. QED
  BY <1>1, <1>9, <1>11, <1>12, <1>13, <1>14, <1>15 DEF IndInv, CompiledInv, OutcomeInv

\* Once all forwarded indices have a layout, the n-th parameter of the
\* wrapper is a parameter that _n is forwarded to.
LEMMA WrapperFacts ==
    ASSUME IndInv, pc \in FromNumber
    PROVE  /\ nnew \in Nat /\ Len(newhll) = nnew /\ DOMAIN newhll = 1 .. nnew
           /\ newhll \in Seq(HighLevelArg \cup {Fresh})
           /\ visited = 0 .. nnew - 1
           /\ \A i \in 1 .. NParams : ctx[i].kind = "Forward" => ctx[i].idx + 1 \in 1 .. nnew
           /\ \A n \in 1 .. nnew : \E i \in 1 .. NParams :
                /\ ctx[i].kind = "Forward" /\ ctx[i].idx = n - 1
                /\ newhll[n].pos = i - 1 /\ newhll[n].types = <<call.fty[i]>>
                /\ newhll[n].first \in Nat
<1>1. pc \in FromLayout /\ pc \in FromCount /\ pc \in FromKeep
  BY DEF FromLayout, FromCount, FromKeep, FromNumber
<1>2. TypeOK /\ CountInv /\ KeepInv
  BY DEF IndInv
<1>3. /\ nnew \in Nat /\ Len(newhll) = nnew /\ DOMAIN newhll = 1 .. nnew
      /\ newhll \in Seq(HighLevelArg \cup {Fresh})
      /\ visited = 0 .. nnew - 1
  BY <1>1, <1>2 DEF TypeOK, KeepInv
<1>4. ASSUME NEW i \in 1 .. NParams, ctx[i].kind = "Forward" PROVE ctx[i].idx + 1 \in 1 .. nnew
  <2>1. Passed("count", NParams) = NParams
    BY DEF Passed, FromNumber
  <2>2. ctx[i].idx < nnew /\ ctx[i].idx \in Nat
    BY <2>1, <1>1, <1>2, <1>4, ContextFacts DEF CountInv
  <2>. QED
    BY <2>2, <1>3
<1>5. ASSUME NEW n \in 1 .. nnew
      PROVE  \E i \in 1 .. NParams :
                /\ ctx[i].kind = "Forward" /\ ctx[i].idx = n - 1
                /\ newhll[n].pos = i - 1 /\ newhll[n].types = <<call.fty[i]>>
                /\ newhll[n].first \in Nat
  <2>1. n - 1 \in visited /\ (n - 1) + 1 = n
    BY <1>3
  <2>2. PICK i \in 1 .. NParams :
          /\ ctx[i].kind = "Forward" /\ ctx[i].idx = n - 1
          /\ newhll[n].pos = hll[i].pos /\ newhll[n].types = hll[i].types
          /\ newhll[n].first \in Nat
    BY <2>1, <1>1, <1>2 DEF KeepInv, Forwards
  <2>3. hll[i].pos = i - 1 /\ hll[i].types = <<call.fty[i]>>
    BY <1>1, LayoutFacts
  <2>. QED
    BY <2>2, <2>3
<1>. QED
  BY <1>3, <1>4, <1>5

\* After the layout is numbered the parts of the invariant about the phases
\* before stay as they are.
LEMMA LayoutUntouched ==
    ASSUME IndInv, Stay, UNCHANGED <<hll, nnew, newhll, visited>>,
           pc \in FromNumber, pc' \in FromNumber
    PROVE  /\ ScanInv' /\ MapInv' /\ ContextInv' /\ LayoutInv' /\ CountInv' /\ KeepInv'
           /\ call' = call /\ ctx' = ctx /\ NParams' = NParams
<1>1. /\ pc \in FromLayout /\ pc \in FromCount /\ pc \in FromKeep /\ pc \notin {"count", "keep"}
      /\ pc' \in FromLayout /\ pc' \in FromCount /\ pc' \in FromKeep /\ pc' \notin {"count", "keep"}
  BY DEF FromLayout, FromCount, FromKeep, FromNumber
<1>2. ScanInv' /\ MapInv' /\ ContextInv'
  BY <1>1, ContextUntouched
<1>3. call' = call /\ ctx' = ctx /\ NParams' = NParams
  BY DEF Stay, NParams
<1>4. /\ Passed("count", NParams) = NParams /\ Passed("count", NParams)' = NParams
      /\ Passed("keep", NParams) = NParams /\ Passed("keep", NParams)' = NParams
  BY <1>1, <1>3 DEF Passed
<1>5. LayoutInv' /\ CountInv'
  BY <1>1, <1>3, <1>4 DEF IndInv, LayoutInv, CountInv, Forwards
<1>6. KeepInv'
  BY <1>1, <1>3, <1>4 DEF IndInv, KeepInv, Forwards
<1>. QED
  BY <1>2, <1>3, <1>5, <1>6

\* NumberArg gives the next parameter of the wrapper its number.
LEMMA NumberArgInd ==
    ASSUME IndInv, NumberArg
    PROVE  IndInv'
<1>1. /\ pc = "number" /\ outcome = "running" /\ k <= Len(newhll) /\ Stay /\ k' = k + 1
      /\ newhll' = [newhll EXCEPT ![k].first = paramIdx]
      /\ paramIdx' = paramIdx + Len(newhll[k].types)
      /\ UNCHANGED <<pc, outcome, hll, nnew, visited, operands, attrs>>
  BY DEF NumberArg, At
<1>2. /\ pc \in FromLayout /\ pc \in FromCount /\ pc \in FromKeep /\ pc \in FromNumber
      /\ pc \notin FromInline
  BY <1>1 DEF FromLayout, FromCount, FromKeep, FromNumber, FromInline
<1>3. TypeOK /\ LayoutInv /\ CountInv /\ KeepInv /\ NumberInv
  BY DEF IndInv
<1>4. /\ nnew \in Nat /\ Len(newhll) = nnew /\ DOMAIN newhll = 1 .. nnew
      /\ newhll \in Seq(HighLevelArg \cup {Fresh}) /\ k \in 1 .. nnew /\ k \in Nat
  BY <1>1, <1>2, <1>3, WrapperFacts DEF TypeOK
<1>5. paramIdx = k - 1 /\ paramIdx \in Nat /\ newhll[k].first \in Nat
        /\ Len(newhll[k].types) = 1
  <2>1. paramIdx = k - 1 /\ paramIdx \in Nat
    BY <1>1, <1>2, <1>3, <1>4 DEF NumberInv, Passed, TypeOK
  <2>2. PICK i \in 1 .. NParams : newhll[k].types = <<call.fty[i]>> /\ newhll[k].first \in Nat
    BY <1>2, <1>4, WrapperFacts
  <2>. QED
    BY <2>1, <2>2
<1>6. newhll[k] \in HighLevelArg
  <2>1. newhll[k] # Fresh
    BY <1>5 DEF Fresh
  <2>. QED
    BY <2>1, <1>4
<1>7. /\ newhll' \in Seq(HighLevelArg \cup {Fresh}) /\ Len(newhll') = nnew
      /\ newhll'[k] = [newhll[k] EXCEPT !.first = paramIdx]
      /\ \A n \in 1 .. nnew : n # k => newhll'[n] = newhll[n]
  <2>1. [newhll[k] EXCEPT !.first = paramIdx] \in HighLevelArg
    BY <1>5, <1>6 DEF HighLevelArg
  <2>. QED
    BY <2>1, <1>1, <1>4
<1>8. /\ newhll'[k].pos = newhll[k].pos /\ newhll'[k].types = newhll[k].types
      /\ newhll'[k].first = k - 1
  BY <1>5, <1>6, <1>7 DEF HighLevelArg
<1>9. TypeOK'
  <2>1. k' \in Nat \ {0} /\ paramIdx' \in Nat
    BY <1>1, <1>4, <1>5
  <2>2. newhll' \in Seq(HighLevelArg \cup {Fresh})
    BY <1>7
  <2>. QED
    BY <2>1, <2>2, <1>1, <1>3 DEF TypeOK, Stay
<1>10. /\ call' = call /\ ctx' = ctx /\ NParams' = NParams /\ hll' = hll /\ nnew' = nnew
       /\ pc' = pc /\ k' = k + 1 /\ paramIdx' = k /\ visited' = visited
  BY <1>1, <1>4, <1>5 DEF Stay, NParams
<1>11. KeepInv'
  <2>1. ASSUME NEW m \in visited
        PROVE  \E i \in 1 .. NParams :
                 /\ ctx[i].kind = "Forward" /\ ctx[i].idx = m
                 /\ newhll'[m + 1].pos = hll[i].pos /\ newhll'[m + 1].types = hll[i].types
                 /\ newhll'[m + 1].first \in Nat
    <3>1. PICK i \in 1 .. NParams :
            /\ ctx[i].kind = "Forward" /\ ctx[i].idx = m
            /\ newhll[m + 1].pos = hll[i].pos /\ newhll[m + 1].types = hll[i].types
            /\ newhll[m + 1].first \in Nat
      BY <1>2, <1>3 DEF KeepInv, Forwards
    <3>2. m + 1 \in 1 .. nnew
      BY <1>2, <1>4, WrapperFacts
    <3>3. CASE m + 1 = k
      BY <3>1, <3>3, <1>5, <1>8
    <3>4. CASE m + 1 # k
      BY <3>1, <3>2, <3>4, <1>7
    <3>. QED
      BY <3>3, <3>4
  <2>2. Passed("keep", NParams)' = Passed("keep", NParams) /\ pc # "keep"
    BY <1>1, <1>10 DEF Passed
  <2>3. pc \in FromKeep => \A i \in 1 .. Passed("keep", NParams) :
          ctx[i].kind = "Forward" => ctx[i].idx \in visited
    BY <1>3 DEF KeepInv
  <2>. QED
    BY <2>1, <2>2, <2>3, <1>2, <1>3, <1>7, <1>10 DEF KeepInv, Forwards
<1>12. NumberInv'
  <2>1. Passed("number", nnew)' = k /\ Passed("number", nnew) = k - 1
    BY <1>1, <1>4, <1>10 DEF Passed
  <2>2. ASSUME NEW n \in 1 .. k PROVE newhll'[n].first = n - 1
    <3>1. CASE n = k
      BY <3>1, <1>8
    <3>2. CASE n # k
      <4>1. n \in 1 .. k - 1 /\ n \in 1 .. nnew
        BY <3>2, <1>4
      <4>. QED
        BY <4>1, <3>2, <2>1, <1>2, <1>3, <1>7 DEF NumberInv
    <3>. QED
      BY <3>1, <3>2
  <2>3. k' \in 1 .. nnew + 1
    BY <1>4, <1>10
  <2>. QED
    BY <2>1, <2>2, <2>3, <1>2, <1>10 DEF NumberInv
<1>13. LayoutInv' /\ CountInv'
  <2>1. Passed("count", NParams)' = Passed("count", NParams)
    BY <1>1, <1>10 DEF Passed
  <2>. QED
    BY <2>1, <1>1, <1>3, <1>10 DEF LayoutInv, CountInv, Forwards
<1>14. OperandInv' /\ AttrsInv'
  BY <1>1, <1>2, <1>10 DEF OperandInv, AttrsInv
<1>15. ScanInv' /\ MapInv' /\ ContextInv'
  BY <1>1, <1>2, ContextUntouched
<1>. QED
  BY <1>1, <1>9, <1>11, <1>12, <1>13, <1>14, <1>15 DEF IndInv, CompiledInv, OutcomeInv

\* The wrapper has its type; no operand has been pushed.
LEMMA StartInliningInd ==
    ASSUME IndInv, StartInlining
    PROVE  IndInv'
<1>1. /\ pc = "number" /\ outcome = "running" /\ k > Len(newhll) /\ Stay
      /\ operands' = (IF call.sret THEN <<[op |-> "arg", i |-> 0]>> ELSE <<>>)
      /\ pc' = "inline" /\ k' = 1
      /\ UNCHANGED <<outcome, hll, nnew, newhll, visited, paramIdx, attrs>>
  BY DEF StartInlining, At, Goto
<1>2. /\ pc \in FromNumber /\ pc \in FromKeep /\ pc \in FromCount /\ pc \in FromLayout
      /\ pc' \in FromNumber
  BY <1>1 DEF FromNumber, FromKeep, FromCount, FromLayout
<1>3. TypeOK /\ NumberInv
  BY DEF IndInv
<1>4. operands' = <<>>
  BY <1>1, <1>2, LayoutFacts
<1>5. nnew \in Nat /\ k = nnew + 1 /\ NParams \in Nat
  BY <1>1, <1>2, <1>3, WrapperFacts, CallFacts DEF NumberInv, TypeOK
<1>6. TypeOK'
  BY <1>1, <1>3, <1>4 DEF TypeOK, Stay
<1>7. /\ ScanInv' /\ MapInv' /\ ContextInv' /\ LayoutInv' /\ CountInv' /\ KeepInv'
      /\ call' = call /\ ctx' = ctx /\ NParams' = NParams
  BY <1>1, <1>2, LayoutUntouched
<1>8. NumberInv'
  <2>1. Passed("number", nnew) = nnew /\ Passed("number", nnew)' = nnew
    BY <1>1, <1>5 DEF Passed
  <2>. QED
    BY <2>1, <1>1, <1>2, <1>3 DEF NumberInv
<1>9. OperandInv'
  <2>1. Passed("inline", NParams)' = 0 /\ k' \in 1 .. NParams + 1 /\ Len(operands') = 0
    BY <1>1, <1>4, <1>5 DEF Passed
  <2>2. DOMAIN operands' = {}
    BY <1>4
  <2>. QED
    BY <2>1, <2>2, <1>1, <1>7 DEF OperandInv
<1>10. AttrsInv'
  BY <1>1 DEF AttrsInv
<1>. QED
  BY <1>1, <1>6, <1>7, <1>8, <1>9, <1>10 DEF IndInv, CompiledInv, OutcomeInv

\* The operand of a mapping is an operand or, for a type GetConstantFromRaw
\* has no case for, null.
LEMMA OperandTyped ==
    ASSUME NEW m \in Mappings, NEW ir \in DOMAIN Trunc, NEW x, IsOperand(x, m, ir)
    PROVE  /\ x \in Operands \cup {NullValue}
           /\ x = NullValue => m.kind = "Struct" /\ ir # PtrTy /\ ir \in OddIR
<1>1. m.kind \in {"Forward", "Int", "Float", "Ptr", "Module", "Struct"}
  BY DEF Mappings
<1>2. CASE m.kind = "Forward"
  <2>1. m.idx \in Nat /\ x = [op |-> "arg", i |-> m.idx]
    BY <1>2 DEF Mappings, IsOperand
  <2>. QED
    BY <2>1 DEF Operands, NullValue
<1>3. CASE m.kind \in {"Int", "Float", "Ptr"}
  <2>1. m.val \in Vals /\ Trunc[ir][m.val] \in Vals
    BY <1>3, LoweringAssumption DEF Mappings
  <2>2. x = [op |-> "const", val |-> IF m.kind = "Ptr" THEN m.val ELSE Trunc[ir][m.val]]
    BY <1>3 DEF IsOperand, ScalarOperand
  <2>. QED
    BY <2>1, <2>2 DEF Operands, NullValue
<1>4. CASE m.kind = "Module"
  <2>1. m.val \in Vals /\ x = [op |-> "fun", val |-> m.val]
    BY <1>4 DEF Mappings, IsOperand
  <2>. QED
    BY <2>1 DEF Operands, NullValue
<1>5. CASE m.kind = "Struct"
  <2>1. m.val \in Vals /\ m.from \in Sources
    BY <1>5 DEF Mappings, Sources
  <2>2. CASE ir = PtrTy
    <3>1. x = [op |-> "global", from |-> m.from, val |-> m.val]
      BY <1>5, <2>2 DEF IsOperand
    <3>. QED
      BY <2>1, <3>1 DEF Operands, NullValue
  <2>3. CASE ir # PtrTy /\ ir \in OddIR
    BY <1>5, <2>3 DEF IsOperand, RawOperand
  <2>4. CASE ir # PtrTy /\ ir \notin OddIR
    <3>1. x = [op |-> "raw", from |-> m.from, val |-> m.val]
      BY <1>5, <2>4 DEF IsOperand, RawOperand
    <3>. QED
      BY <2>1, <3>1 DEF Operands, NullValue
  <2>. QED
    BY <2>2, <2>3, <2>4
<1>. QED
  BY <1>1, <1>2, <1>3, <1>4, <1>5

\* The layout entry find_if returns for parameter i: the one kept for its
\* placeholder, if parameter i is the one that was kept, and none otherwise.
LEMMA FoundFacts ==
    ASSUME IndInv, pc \in FromInline, NEW i \in 1 .. NParams, ctx[i].kind = "Forward"
    PROVE  /\ Found(i - 1) = {} => Repeats(call)
           /\ Found(i - 1) # {} =>
                /\ newhll[ctx[i].idx + 1].pos = i - 1
                /\ ForwardOperand(i - 1) = [op |-> "arg", i |-> ctx[i].idx]
<1>. DEFINE n == ctx[i].idx + 1
<1>1. pc \in FromNumber /\ pc \in FromKeep /\ pc \in FromCount /\ pc \in FromLayout /\ pc # "number"
  BY DEF FromNumber, FromKeep, FromCount, FromLayout, FromInline
<1>2. nnew \in Nat /\ DOMAIN newhll = 1 .. nnew /\ n \in 1 .. nnew /\ NParams \in Nat
  BY <1>1, WrapperFacts, ContextFacts
<1>3. ctx[i].idx \in Nat /\ newhll[n].first = ctx[i].idx
  <2>1. ctx[i].idx \in Nat
    BY <1>1, ContextFacts
  <2>2. Passed("number", nnew) = nnew
    BY <1>1 DEF Passed
  <2>. QED
    BY <2>1, <2>2, <1>1, <1>2 DEF IndInv, NumberInv
<1>4. ASSUME NEW m \in Found(i - 1) PROVE m = n
  <2>1. m \in 1 .. nnew /\ newhll[m].pos = i - 1
    BY <1>2, <1>4 DEF Found
  <2>2. PICK j \in 1 .. NParams : ctx[j].idx = m - 1 /\ newhll[m].pos = j - 1
    BY <2>1, <1>1, WrapperFacts
  <2>3. i = j
    BY <2>1, <2>2
  <2>. QED
    BY <2>1, <2>2, <2>3
<1>5. ASSUME Found(i - 1) = {} PROVE Repeats(call)
  <2>1. PICK j \in 1 .. NParams :
          ctx[j].kind = "Forward" /\ ctx[j].idx = n - 1 /\ newhll[n].pos = j - 1
    BY <1>1, <1>2, WrapperFacts
  <2>2. j # i
    BY <2>1, <1>2, <1>5 DEF Found
  <2>3. /\ call.args[i] \in Args /\ call.args[j] \in Args
        /\ call.args[i].kind = "ph" /\ call.args[j].kind = "ph"
        /\ ctx[i].idx = call.args[i].n - 1 /\ ctx[j].idx = call.args[j].n - 1
    BY <2>1, <1>1, ContextFacts
  <2>4. call.args[i].n \in Nat /\ call.args[j].n \in Nat
    BY <2>3, ArgFacts
  <2>5. call.args[i].n = call.args[j].n
    BY <2>1, <2>3, <2>4, <1>3
  <2>. QED
    BY <2>2, <2>3, <2>5 DEF Repeats, Positions, IsPh, NParams
<1>6. ASSUME Found(i - 1) # {}
      PROVE  newhll[n].pos = i - 1 /\ ForwardOperand(i - 1) = [op |-> "arg", i |-> ctx[i].idx]
  <2>1. Found(i - 1) = {n}
    BY <1>4, <1>6
  <2>2. newhll[n].pos = i - 1
    BY <2>1 DEF Found
  <2>3. FirstFound(i - 1) = n
    BY <2>1, <1>2 DEF FirstFound
  <2>4. FirstParam = 0
    BY <1>1, LayoutFacts
  <2>. QED
    BY <2>2, <2>3, <2>4, <1>3 DEF ForwardOperand
<1>. QED
  BY <1>5, <1>6

\* InlineArg pushes the operand of the next mapping; it has no operand to
\* push for a placeholder that is repeated or a class constant that cannot
\* be built.
LEMMA InlineArgInd ==
    ASSUME IndInv, InlineArg
    PROVE  IndInv'
<1>. DEFINE m == ctx[k]
            ir == call.fty[k]
            x == Operand(m, hll[k])
<1>1. /\ pc = "inline" /\ outcome = "running" /\ k <= Len(ctx) /\ Stay
      /\ UNCHANGED <<pc, hll, nnew, newhll, visited, paramIdx, attrs>>
  BY DEF InlineArg, At
<1>2. /\ pc \in FromInline /\ pc \in FromNumber /\ pc \in FromKeep /\ pc \in FromCount
      /\ pc \in FromLayout
  BY <1>1 DEF FromInline, FromNumber, FromKeep, FromCount, FromLayout
<1>3. TypeOK /\ OperandInv /\ NumberInv
  BY DEF IndInv
<1>4. /\ NParams \in Nat /\ Len(ctx) = NParams /\ k \in 1 .. NParams /\ k \in Nat
      /\ WellBound(call) /\ m \in Mappings
      /\ m = Mapping(call.params[k], call.args[k]) /\ Accepts(call.params[k], call.args[k])
      /\ call.params[k] \in Types /\ call.args[k] \in Args
  <2>1. NParams \in Nat /\ Len(ctx) = NParams /\ WellBound(call) /\ ctx \in Seq(Mappings)
    BY <1>2, ContextFacts
  <2>2. k \in 1 .. NParams /\ k \in Nat
    BY <2>1, <1>1, <1>3 DEF TypeOK
  <2>3. m \in Mappings
    BY <2>1, <2>2
  <2>. QED
    BY <2>1, <2>2, <2>3, <1>2, ContextFacts
<1>5. /\ ~call.sret /\ call.fty # <<>> /\ Len(call.fty) = NParams
      /\ ir \in DOMAIN Trunc
      /\ hll[k] = [pos |-> k - 1, first |-> k - 1, types |-> <<ir>>, byptr |-> ir = PtrTy]
  BY <1>2, <1>4, LayoutFacts
<1>6. hll[k].pos = k - 1 /\ hll[k].types[1] = ir /\ (hll[k].byptr <=> ir = PtrTy)
  <2>1. hll[k].pos = k - 1 /\ hll[k].types = <<ir>>
    BY <1>5
  <2>2. hll[k].byptr = (ir = PtrTy)
    BY <1>5
  <2>3. hll[k].types[1] = ir
    BY <2>1
  <2>. QED
    BY <2>1, <2>2, <2>3, Zenon
<1>7. CASE OperandUndefined(m, hll[k], call.params[k])
  <2>1. outcome' = "undefined" /\ UNCHANGED <<operands, k>>
    BY <1>7 DEF InlineArg, End
  <2>2. Repeats(call) \/ \E i \in Positions(call) : NoOperand(call, i)
    <3>1. CASE m.kind = "Forward" /\ Found(k - 1) = {}
      BY <3>1, <1>2, <1>4, FoundFacts
    <3>2. CASE m.kind = "Struct" /\ StructUndefined(call.params[k], m.from, ir)
      <4>1. call.args[k].kind \in {"val", "opt"} /\ Kind[call.params[k]] = "class"
        BY <3>2, <1>4, MappingFacts
      <4>2. m.from = Source(call.args[k])
        BY <4>1, <1>4, StructSource
      <4>3. NoOperand(call, k)
        BY <3>2, <4>1, <4>2 DEF NoOperand
      <4>. QED
        BY <4>3, <1>4 DEF Positions, NParams
    <3>. QED
      BY <3>1, <3>2, <1>6, <1>7 DEF OperandUndefined
  <2>3. EndOf(call) = "undefined"
    BY <2>2, <1>4, <1>5 DEF EndOf, NParams
  <2>. QED
    BY <2>1, <2>3, <1>1, EndKeeps DEF Stay, inlineVars
<1>8. CASE ~OperandUndefined(m, hll[k], call.params[k])
  <2>1. operands' = Append(operands, x) /\ k' = k + 1 /\ outcome' = outcome
    BY <1>8 DEF InlineArg
  <2>2. /\ m.kind = "Forward" => Found(k - 1) # {}
        /\ m.kind = "Struct" => ~StructUndefined(call.params[k], m.from, ir)
    BY <1>6, <1>8 DEF OperandUndefined
  <2>3. m.kind = "Forward" => /\ newhll[m.idx + 1].pos = k - 1
                              /\ ForwardOperand(k - 1) = [op |-> "arg", i |-> m.idx]
    BY <2>2, <1>2, <1>4, FoundFacts
  <2>4. IsOperand(x, m, ir)
    <3>1. CASE m.kind = "Forward"
      <4>1. x = ForwardOperand(k - 1)
        BY <3>1, <1>6 DEF Operand
      <4>. QED
        BY <3>1, <4>1, <2>3 DEF IsOperand
    <3>2. CASE m.kind \in {"Int", "Float", "Ptr"}
      <4>1. x = ScalarOperand(m, ir)
        BY <3>2, <1>6 DEF Operand
      <4>. QED
        BY <3>2, <4>1 DEF IsOperand
    <3>3. CASE m.kind = "Struct"
      <4>1. CASE ir = PtrTy
        <5>1. x = [op |-> "global", from |-> m.from, val |-> m.val]
          BY <3>3, <4>1, <1>6 DEF Operand
        <5>. QED
          BY <3>3, <4>1, <5>1 DEF IsOperand
      <4>2. CASE ir # PtrTy
        <5>1. x = RawOperand(m, ir)
          BY <3>3, <4>2, <1>6 DEF Operand
        <5>. QED
          BY <3>3, <4>2, <5>1 DEF IsOperand
      <4>. QED
        BY <4>1, <4>2
    <3>4. CASE m.kind = "Module"
      <4>1. x = [op |-> "fun", val |-> m.val]
        BY <3>4 DEF Operand
      <4>. QED
        BY <3>4, <4>1 DEF IsOperand
    <3>5. m.kind \in {"Forward", "Int", "Float", "Ptr", "Module", "Struct"}
      BY <1>4 DEF Mappings
    <3>. QED
      BY <3>1, <3>2, <3>3, <3>4, <3>5
  <2>5. x \in Operands \cup {NullValue}
    BY <2>4, <1>4, <1>5, OperandTyped
  <2>6. operands \in Seq(Operands \cup {NullValue}) /\ Len(operands) = k - 1
    BY <1>1, <1>2, <1>3 DEF TypeOK, OperandInv, Passed
  <2>. HIDE DEF x
  <2>7. /\ operands' \in Seq(Operands \cup {NullValue}) /\ Len(operands') = k
        /\ operands'[k] = x /\ \A i \in 1 .. k - 1 : operands'[i] = operands[i]
    BY <2>1, <2>5, <2>6, <1>4
  <2>8. TypeOK'
    BY <2>1, <2>7, <1>1, <1>3, <1>4 DEF TypeOK, Stay
  <2>9. /\ ScanInv' /\ MapInv' /\ ContextInv' /\ LayoutInv' /\ CountInv' /\ KeepInv'
        /\ call' = call /\ ctx' = ctx /\ NParams' = NParams /\ newhll' = newhll /\ pc' = "inline"
    BY <1>1, <1>2, LayoutUntouched
  <2>10. NumberInv'
    BY <1>1, <1>3 DEF NumberInv, Passed
  <2>11. OperandInv'
    <3>1. ASSUME NEW i \in 1 .. k
          PROVE  /\ IsOperand(operands'[i], ctx[i], call.fty[i])
                 /\ ctx[i].kind = "Forward" => newhll[ctx[i].idx + 1].pos = i - 1
                 /\ ctx[i].kind = "Struct" =>
                      ~StructUndefined(call.params[i], ctx[i].from, call.fty[i])
      <4>1. CASE i = k
        BY <4>1, <2>2, <2>3, <2>4, <2>7
      <4>2. CASE i # k
        <5>1. i \in 1 .. k - 1 /\ i \in DOMAIN operands
          BY <4>2, <2>6, <1>4
        <5>2. operands'[i] = operands[i]
          BY <5>1, <2>7
        <5>. QED
          BY <5>1, <5>2, <1>2, <1>3 DEF OperandInv
      <4>. QED
        BY <4>1, <4>2
    <3>2. Passed("inline", NParams)' = k /\ DOMAIN operands' = 1 .. k /\ k' \in 1 .. NParams + 1
      BY <2>1, <2>7, <2>9, <1>4 DEF Passed
    <3>. QED
      BY <3>1, <3>2, <2>7, <2>9 DEF OperandInv
  <2>12. AttrsInv'
    BY <2>9 DEF AttrsInv
  <2>. QED
    BY <2>1, <2>8, <2>9, <2>10, <2>11, <2>12, <1>1 DEF IndInv, CompiledInv, OutcomeInv
<1>. QED
  BY <1>7, <1>8

\* CreateCall meets a null operand exactly when a class constant could not
\* be read, and an ill-typed one exactly when a function was composed with a
\* parameter that is none.
LEMMA CreateCallInd ==
    ASSUME IndInv, CreateCall
    PROVE  IndInv'
<1>1. /\ pc = "inline" /\ outcome = "running" /\ k > Len(ctx) /\ Stay
      /\ UNCHANGED <<hll, nnew, newhll, visited, paramIdx, operands>>
  BY DEF CreateCall, At
<1>2. /\ pc \in FromInline /\ pc \in FromNumber /\ pc \in FromKeep /\ pc \in FromCount
      /\ pc \in FromLayout
  BY <1>1 DEF FromInline, FromNumber, FromKeep, FromCount, FromLayout
<1>3. TypeOK /\ OperandInv /\ NumberInv
  BY DEF IndInv
<1>4. /\ NParams \in Nat /\ Len(ctx) = NParams /\ k = NParams + 1
      /\ DOMAIN operands = 1 .. NParams /\ Len(operands) = NParams
  <2>1. NParams \in Nat /\ Len(ctx) = NParams
    BY <1>2, ContextFacts
  <2>2. k = NParams + 1
    BY <2>1, <1>1, <1>3 DEF OperandInv, TypeOK
  <2>3. Len(operands) = NParams
    BY <2>1, <2>2, <1>1, <1>2, <1>3 DEF OperandInv, Passed
  <2>. QED
    BY <2>1, <2>2, <2>3, <1>3 DEF TypeOK
<1>5. CASE \E i \in DOMAIN operands : operands[i] = NullValue
  <2>1. outcome' = "undefined" /\ UNCHANGED <<pc, k, attrs>>
    BY <1>5 DEF CreateCall, End
  <2>2. PICK i \in 1 .. NParams : operands[i] = NullValue
    BY <1>4, <1>5
  <2>3. /\ ctx[i] \in Mappings /\ ctx[i] = Mapping(call.params[i], call.args[i])
        /\ Accepts(call.params[i], call.args[i])
        /\ call.params[i] \in Types /\ call.args[i] \in Args /\ WellBound(call)
    BY <1>2, ContextFacts
  <2>4. call.fty[i] \in DOMAIN Trunc /\ ~call.sret /\ call.fty # <<>> /\ Len(call.fty) = NParams
    BY <1>2, LayoutFacts
  <2>5. IsOperand(operands[i], ctx[i], call.fty[i])
    BY <1>2, <1>3, <1>4 DEF OperandInv
  <2>6. ctx[i].kind = "Struct" /\ call.fty[i] # PtrTy /\ call.fty[i] \in OddIR
    BY <2>2, <2>3, <2>4, <2>5, OperandTyped
  <2>7. call.args[i].kind \in {"val", "opt"} /\ Kind[call.params[i]] = "class"
    BY <2>3, <2>6, MappingFacts
  <2>8. NoOperand(call, i) /\ i \in Positions(call)
    BY <2>6, <2>7 DEF NoOperand, Positions, NParams
  <2>9. EndOf(call) = "undefined"
    BY <2>3, <2>4, <2>8 DEF EndOf, NParams
  <2>. QED
    BY <2>1, <2>9, <1>1, EndKeeps DEF Stay, inlineVars
<1>6. CASE \E i \in DOMAIN ctx : IllTyped(call.params[i], ctx[i])
  <2>1. outcome' = "undefined" /\ UNCHANGED <<pc, k, attrs>>
    BY <1>6 DEF CreateCall, End
  <2>2. PICK i \in DOMAIN ctx : IllTyped(call.params[i], ctx[i])
    BY <1>6
  <2>3. i \in 1 .. NParams
    BY <1>3, <1>4 DEF TypeOK
  <2>4. /\ ctx[i] = Mapping(call.params[i], call.args[i])
        /\ Accepts(call.params[i], call.args[i])
        /\ call.params[i] \in Types /\ call.args[i] \in Args /\ WellBound(call)
    BY <2>3, <1>2, ContextFacts
  <2>5. ~call.sret /\ call.fty # <<>> /\ Len(call.fty) = NParams
    BY <2>3, <1>2, LayoutFacts
  <2>6. call.args[i].kind = "fw" /\ call.params[i] \notin FunTypes
    BY <2>2, <2>4, MappingFacts DEF IllTyped
  <2>7. NoOperand(call, i) /\ i \in Positions(call)
    BY <2>3, <2>6 DEF NoOperand, Positions, NParams
  <2>8. EndOf(call) = "undefined"
    BY <2>4, <2>5, <2>7 DEF EndOf, NParams
  <2>. QED
    BY <2>1, <2>8, <1>1, EndKeeps DEF Stay, inlineVars
<1>7. CASE /\ ~\E i \in DOMAIN operands : operands[i] = NullValue
           /\ ~\E i \in DOMAIN ctx : IllTyped(call.params[i], ctx[i])
  <2>1. /\ pc' = "attrs" /\ k' = 1 /\ outcome' = outcome
        /\ attrs' = [i \in 0 .. paramIdx - 1 |-> NoAttrs]
    BY <1>7 DEF CreateCall, Goto
  <2>2. pc' \in FromInline /\ pc' \in FromNumber
    BY <2>1 DEF FromInline, FromNumber
  <2>3. TypeOK'
    <3>1. attrs' \in [0 .. paramIdx' - 1 -> Nat \cup {NoAttrs}]
      BY <1>1, <2>1
    <3>. QED
      BY <3>1, <2>1, <1>1, <1>3 DEF TypeOK, Stay
  <2>4. /\ ScanInv' /\ MapInv' /\ ContextInv' /\ LayoutInv' /\ CountInv' /\ KeepInv'
        /\ call' = call /\ ctx' = ctx /\ NParams' = NParams
    BY <1>1, <1>2, <2>2, LayoutUntouched
  <2>5. NumberInv'
    BY <2>1, <2>2, <1>1, <1>2, <1>3 DEF NumberInv, Passed
  <2>6. OperandInv'
    <3>1. Passed("inline", NParams)' = NParams
      BY <2>1, <2>4 DEF Passed
    <3>. QED
      BY <3>1, <2>1, <2>2, <2>4, <1>1, <1>2, <1>3, <1>4, <1>7 DEF OperandInv
  <2>7. AttrsInv'
    <3>1. nnew \in Nat
      BY <1>3 DEF TypeOK
    <3>. QED
      BY <3>1, <2>1, <1>1 DEF AttrsInv
  <2>. QED
    BY <2>1, <2>3, <2>4, <2>5, <2>6, <2>7, <1>1 DEF IndInv, CompiledInv, OutcomeInv
<1>. QED
  BY <1>5, <1>6, <1>7

\* What the attribute loop works on.
LEMMA AttrsFacts ==
    ASSUME IndInv, pc = "attrs"
    PROVE  /\ nnew \in Nat /\ paramIdx = nnew /\ Len(newhll) = nnew /\ NParams \in Nat
           /\ k \in 1 .. nnew + 1
           /\ attrs \in [0 .. nnew - 1 -> Nat \cup {NoAttrs}]
           /\ DOMAIN operands = 1 .. NParams /\ Len(operands) = NParams
           /\ \A n \in 1 .. nnew :
                newhll[n].first = n - 1 /\ newhll[n].pos + 1 \in 1 .. NParams
<1>1. /\ pc \in FromInline /\ pc \in FromNumber /\ pc \in FromLayout
  BY DEF FromInline, FromNumber, FromLayout
<1>2. TypeOK /\ OperandInv /\ NumberInv /\ AttrsInv
  BY DEF IndInv
<1>3. nnew \in Nat /\ Len(newhll) = nnew /\ NParams \in Nat
  BY <1>1, WrapperFacts, ContextFacts
<1>4. Passed("number", nnew) = nnew /\ Passed("inline", NParams) = NParams
  BY DEF Passed
<1>5. paramIdx = nnew /\ \A n \in 1 .. nnew : newhll[n].first = n - 1
  BY <1>1, <1>2, <1>4 DEF NumberInv
<1>6. Len(operands) = NParams /\ DOMAIN operands = 1 .. NParams
  BY <1>1, <1>2, <1>4 DEF OperandInv, TypeOK
<1>7. ASSUME NEW n \in 1 .. nnew PROVE newhll[n].pos + 1 \in 1 .. NParams
  <2>1. PICK i \in 1 .. NParams : newhll[n].pos = i - 1
    BY <1>1, WrapperFacts
  <2>. QED
    BY <2>1, <1>3
<1>. QED
  BY <1>2, <1>3, <1>5, <1>6, <1>7 DEF TypeOK, AttrsInv

\* RemapAttribute copies the attributes of one original parameter.
LEMMA RemapAttributeInd ==
    ASSUME IndInv, RemapAttribute
    PROVE  IndInv'
<1>1. /\ pc = "attrs" /\ outcome = "running" /\ k <= Len(newhll) /\ Stay /\ k' = k + 1
      /\ attrs' = [attrs EXCEPT ![newhll[k].first] = hll[newhll[k].pos + 1].first]
      /\ UNCHANGED <<pc, outcome, hll, nnew, newhll, visited, paramIdx, operands>>
  BY DEF RemapAttribute, At
<1>2. /\ pc \in FromInline /\ pc \in FromNumber /\ pc \in FromKeep /\ pc \in FromCount
      /\ pc \in FromLayout
  BY <1>1 DEF FromInline, FromNumber, FromKeep, FromCount, FromLayout
<1>3. TypeOK /\ OperandInv /\ NumberInv /\ AttrsInv
  BY DEF IndInv
<1>4. /\ nnew \in Nat /\ paramIdx = nnew /\ Len(newhll) = nnew /\ k \in 1 .. nnew
      /\ attrs \in [0 .. nnew - 1 -> Nat \cup {NoAttrs}] /\ NParams \in Nat
      /\ newhll[k].first = k - 1 /\ newhll[k].pos + 1 \in 1 .. NParams
  <2>1. k \in 1 .. nnew
    BY <1>1, AttrsFacts
  <2>. QED
    BY <2>1, <1>1, AttrsFacts
<1>5. hll[newhll[k].pos + 1].first = newhll[k].pos /\ newhll[k].pos \in Nat
  <2>1. PICK i \in 1 .. NParams : newhll[k].pos = i - 1
    BY <1>2, <1>4, WrapperFacts
  <2>2. newhll[k].pos + 1 = i /\ newhll[k].pos \in Nat
    BY <2>1, <1>4
  <2>3. hll[i].first = i - 1
    BY <1>2, LayoutFacts
  <2>. QED
    BY <2>1, <2>2, <2>3
<1>6. attrs' = [attrs EXCEPT ![k - 1] = newhll[k].pos]
  BY <1>1, <1>4, <1>5
<1>7. /\ attrs' \in [0 .. nnew - 1 -> Nat \cup {NoAttrs}]
      /\ attrs'[k - 1] = newhll[k].pos
      /\ \A n \in 0 .. nnew - 1 : n # k - 1 => attrs'[n] = attrs[n]
  BY <1>4, <1>5, <1>6
<1>8. TypeOK'
  <2>1. k' \in Nat \ {0} /\ paramIdx' = nnew
    BY <1>1, <1>4
  <2>. QED
    BY <2>1, <1>1, <1>3, <1>7 DEF TypeOK, Stay
<1>9. /\ ScanInv' /\ MapInv' /\ ContextInv' /\ LayoutInv' /\ CountInv' /\ KeepInv'
      /\ call' = call /\ ctx' = ctx /\ NParams' = NParams
  BY <1>1, <1>2, LayoutUntouched
<1>10. NumberInv' /\ OperandInv'
  BY <1>1, <1>2, <1>3, <1>9 DEF NumberInv, OperandInv, Passed
<1>11. AttrsInv'
  <2>1. ASSUME NEW n \in 1 .. k PROVE attrs'[n - 1] = newhll[n].pos
    <3>1. CASE n = k
      BY <3>1, <1>7
    <3>2. CASE n # k
      <4>1. n \in 1 .. k - 1 /\ n - 1 \in 0 .. nnew - 1 /\ n - 1 # k - 1
        BY <3>2, <1>4
      <4>. QED
        BY <4>1, <1>1, <1>3, <1>7 DEF AttrsInv
    <3>. QED
      BY <3>1, <3>2
  <2>2. k' \in 1 .. nnew + 1 /\ k' - 1 = k
    BY <1>1, <1>4
  <2>. QED
    BY <2>1, <2>2, <1>1 DEF AttrsInv
<1>. QED
  BY <1>1, <1>8, <1>9, <1>10, <1>11 DEF IndInv, CompiledInv, OutcomeInv

\* Two parameters with the same placeholder cannot both be the one kept.
LEMMA NoRepeats ==
    ASSUME IndInv, pc = "attrs"
    PROVE  ~Repeats(call)
<1>. SUFFICES ASSUME NEW i \in 1 .. NParams, NEW j \in 1 .. NParams, i # j,
                     call.args[i].kind = "ph", call.args[j].kind = "ph",
                     call.args[i].n = call.args[j].n
              PROVE  FALSE
  BY DEF Repeats, Positions, IsPh, NParams
<1>1. pc \in FromInline /\ pc \in FromLayout
  BY DEF FromInline, FromLayout
<1>2. /\ ctx[i].kind = "Forward" /\ ctx[j].kind = "Forward" /\ ctx[i].idx = ctx[j].idx
  BY <1>1, ContextFacts
<1>3. DOMAIN operands = 1 .. NParams /\ NParams \in Nat
  BY AttrsFacts
<1>4. newhll[ctx[i].idx + 1].pos = i - 1 /\ newhll[ctx[j].idx + 1].pos = j - 1
  BY <1>1, <1>2, <1>3 DEF IndInv, OperandInv
<1>. QED
  BY <1>2, <1>3, <1>4

\* The pass finishes only for calls with an operand for every argument.
LEMMA FinishWrapperInd ==
    ASSUME IndInv, FinishWrapper
    PROVE  IndInv'
<1>1. /\ pc = "attrs" /\ outcome = "running" /\ k > Len(newhll) /\ Stay
      /\ outcome' = "compiled" /\ UNCHANGED <<pc, k, inlineVars>>
  BY DEF FinishWrapper, At, End
<1>2. pc \in FromInline /\ pc \in FromKeep /\ pc \in FromCount /\ pc \in FromLayout
  BY <1>1 DEF FromInline, FromKeep, FromCount, FromLayout
<1>3. k = nnew + 1 /\ DOMAIN operands = 1 .. NParams
  BY <1>1, AttrsFacts
<1>4. /\ WellBound(call) /\ ~call.sret /\ call.fty # <<>> /\ Len(call.fty) = Len(call.params)
  BY <1>2, ContextFacts, LayoutFacts DEF NParams
<1>5. ASSUME NEW i \in Positions(call), NoOperand(call, i) PROVE FALSE
  <2>1. i \in 1 .. NParams
    BY DEF Positions, NParams
  <2>2. /\ call.params[i] \in Types /\ call.args[i] \in Args
        /\ ctx[i] = Mapping(call.params[i], call.args[i])
        /\ Accepts(call.params[i], call.args[i])
        /\ i \in DOMAIN ctx
    BY <2>1, <1>2, ContextFacts
  <2>3. CASE call.args[i].kind = "fw" /\ call.params[i] \notin FunTypes
    <3>1. ctx[i].kind = "Module"
      BY <2>2, <2>3, MappingFacts
    <3>2. ~IllTyped(call.params[i], ctx[i])
      BY <2>2, <1>1 DEF IndInv, OperandInv
    <3>. QED
      BY <2>3, <3>1, <3>2 DEF IllTyped
  <2>4. CASE /\ Kind[call.params[i]] = "class" /\ call.args[i].kind \in {"val", "opt"}
             /\ \/ call.fty[i] \in OddIR
                \/ StructUndefined(call.params[i], Source(call.args[i]), call.fty[i])
    <3>1. ctx[i].kind = "Struct"
      BY <2>2, <2>4, MappingFacts
    <3>2. ctx[i].from = Source(call.args[i])
      BY <2>2, <2>4, StructSource
    <3>3. /\ IsOperand(operands[i], ctx[i], call.fty[i])
          /\ ~StructUndefined(call.params[i], ctx[i].from, call.fty[i])
          /\ operands[i] # NullValue
      BY <2>1, <3>1, <1>1, <1>2, <1>3 DEF IndInv, OperandInv
    <3>4. call.fty[i] \in OddIR /\ call.fty[i] # PtrTy
      BY <2>4, <3>2, <3>3, LoweringAssumption
    <3>. QED
      BY <3>1, <3>3, <3>4 DEF IsOperand, RawOperand
  <2>. QED
    BY <1>5, <2>3, <2>4 DEF NoOperand
<1>6. EndOf(call) = "compiled"
  BY <1>1, <1>4, <1>5, NoRepeats DEF EndOf
<1>. QED
  BY <1>1, <1>3, <1>6, EndKeeps DEF Stay

---------------------------------------------------------------------------
\* Every step keeps the invariant.
LEMMA NextInd == IndInv /\ [Next]_vars => IndInv'
<1>. SUFFICES ASSUME IndInv, [Next]_vars PROVE IndInv'
  OBVIOUS
<1>1. CASE Bind
  <2>1. BindNext /\ UNCHANGED inlineVars
    BY <1>1 DEF Bind
  <2>. QED
    BY <2>1, ScanArgInd, StartMapInd, MapPlaceholderInd, RejectMapInd, SetParamInd, SetOptionInd,
       ContextReadyInd, RejectParamsInd DEF BindNext
<1>2. CASE Inline
  BY <1>2, BuildLayoutInd, AbortLayoutInd, CountNewArgsInd, ResizeNewLayoutInd, KeepForwardedInd,
     StartNumberingInd, NumberArgInd, StartInliningInd, InlineArgInd, CreateCallInd,
     RemapAttributeInd, FinishWrapperInd DEF Inline
<1>3. CASE UNCHANGED vars
  <2>1. UNCHANGED <<call, pc, outcome, k, clean, nph, sig, seen, ctx, options>>
          /\ UNCHANGED <<hll, nnew, newhll, visited, paramIdx, operands, attrs>>
    BY <1>3 DEF vars, bindVars, inlineVars
  <2>2. TypeOK'
    BY <2>1 DEF IndInv, TypeOK
  <2>3. ScanInv' /\ MapInv' /\ ContextInv'
    <3>1. Scanned' = Scanned /\ NArgs' = NArgs /\ NParams' = NParams
      BY <2>1 DEF Scanned, Passed, NArgs, NParams
    <3>. QED
      BY <2>1, <3>1 DEF IndInv, ScanInv, MapInv, ContextInv
  <2>4. LayoutInv' /\ CountInv' /\ KeepInv'
    BY <2>1 DEF IndInv, LayoutInv, CountInv, KeepInv, Passed, Forwards, NParams
  <2>5. NumberInv' /\ OperandInv' /\ AttrsInv' /\ CompiledInv' /\ OutcomeInv'
    BY <2>1 DEF IndInv, NumberInv, OperandInv, AttrsInv, Passed, NParams, CompiledInv,
       OutcomeInv
  <2>. QED
    BY <2>2, <2>3, <2>4, <2>5 DEF IndInv
<1>. QED
  BY <1>1, <1>2, <1>3 DEF Next, Ended

\* The invariant holds in every state of a call.
THEOREM Invariance == Spec => []IndInv
  BY InitInd, NextInd, PTL DEF Spec

\* Every piece of the state of a call has its type: the layout of the
\* wrapper, its operands and its attributes are indexed only where they
\* exist (Bind and InlineParameters, all actions).
THEOREM TypeCorrect == Spec => []TypeOK
<1>1. IndInv => TypeOK
  BY DEF IndInv
<1>. QED
  BY <1>1, Invariance, PTL

\* However many arguments a call has, the program that contains it compiles
\* if and only if the bind is well formed (meta.h, param.h, jit.h), and the
\* pass then generates code if and only if it supports the call
\* (InlineParameters.cpp, InlineParametersHelper.cpp).
THEOREM OutcomeCorrect == Spec => []OutcomeExact
<1>1. IndInv => OutcomeExact
  <2>. SUFFICES ASSUME IndInv, outcome # "running"
                PROVE  /\ outcome = "rejected" <=> ~WellBound(call)
                       /\ outcome = "compiled" <=> WellBound(call) /\ Supported(call)
    BY DEF OutcomeExact
  <2>1. outcome = EndOf(call)
    BY DEF IndInv, OutcomeInv
  <2>2. CASE ~WellBound(call)
    BY <2>1, <2>2 DEF EndOf
  <2>3. CASE WellBound(call) /\ Supported(call)
    BY <2>1, <2>3 DEF EndOf, Supported
  <2>4. CASE WellBound(call) /\ ~Supported(call)
    BY <2>1, <2>4 DEF EndOf, Supported
  <2>. QED
    BY <2>2, <2>3, <2>4
<1>. QED
  BY <1>1, Invariance, PTL

\* What is known of a call that was compiled.
LEMMA CompiledFacts ==
    ASSUME IndInv, outcome = "compiled"
    PROVE  /\ pc = "attrs" /\ k = nnew + 1 /\ pc \in FromInline /\ pc \in FromNumber
           /\ pc \in FromKeep /\ pc \in FromCount /\ pc \in FromLayout
           /\ ~Repeats(call) /\ DOMAIN operands = 1 .. NParams /\ Len(operands) = NParams
           /\ NParams \in Nat /\ nnew \in Nat
           /\ \A i \in 1 .. NParams :
                /\ IsOperand(operands[i], ctx[i], call.fty[i]) /\ operands[i] # NullValue
                /\ ctx[i].kind = "Forward" => newhll[ctx[i].idx + 1].pos = i - 1
<1>1. pc = "attrs" /\ k = nnew + 1
  BY DEF IndInv, CompiledInv
<1>2. /\ pc \in FromInline /\ pc \in FromNumber /\ pc \in FromKeep /\ pc \in FromCount
      /\ pc \in FromLayout
  BY <1>1 DEF FromInline, FromNumber, FromKeep, FromCount, FromLayout
<1>3. /\ DOMAIN operands = 1 .. NParams /\ Len(operands) = NParams
      /\ NParams \in Nat /\ nnew \in Nat
  BY <1>1, AttrsFacts
<1>4. \A i \in 1 .. NParams :
        /\ IsOperand(operands[i], ctx[i], call.fty[i]) /\ operands[i] # NullValue
        /\ ctx[i].kind = "Forward" => newhll[ctx[i].idx + 1].pos = i - 1
  BY <1>1, <1>2, <1>3 DEF IndInv, OperandInv
<1>. QED
  BY <1>1, <1>2, <1>3, <1>4, NoRepeats

\* The metaprogram and the pass compute the same signature.
LEMMA SameSignature == IndInv => WrapperABI
<1>. SUFFICES ASSUME IndInv, outcome = "compiled", OneSlot(call), OptionsLast(call)
              PROVE  /\ Len(newhll) = Len(sig)
                     /\ \A n \in DOMAIN sig :
                          sig[n] \in Types /\ newhll[n].types = Lower[sig[n]]
                            /\ newhll[n].first = n - 1
  BY DEF WrapperABI
<1>1. /\ pc = "attrs" /\ pc \in FromNumber /\ pc \in FromLayout /\ ~Repeats(call)
  BY CompiledFacts
<1>2. /\ seen = 1 .. nph /\ nph \in Nat /\ sig \in Seq(Types \cup {Void}) /\ DOMAIN sig = 1 .. nph
      /\ Scanned = NArgs
  BY <1>1 DEF IndInv, MapInv, TypeOK, Scanned, Passed
<1>3. /\ NParams \in Nat /\ NArgs \in Nat /\ NParams <= NArgs /\ WellBound(call)
      /\ \A i \in 1 .. NParams :
           /\ call.params[i] \in Types /\ call.args[i] \in Args
           /\ ctx[i].kind = "Forward" <=> call.args[i].kind = "ph"
           /\ ctx[i].kind = "Forward" => ctx[i].idx = call.args[i].n - 1 /\ ctx[i].idx \in Nat
  BY <1>1, ContextFacts
<1>4. /\ nnew \in Nat /\ Len(newhll) = nnew
      /\ \A n \in 1 .. nnew : newhll[n].first = n - 1
  BY <1>1, AttrsFacts
<1>5. ASSUME NEW n \in 1 .. nph
      PROVE  /\ n \in 1 .. nnew
             /\ \E i \in 1 .. NParams : PhAt(call, i, n) /\ sig[n] = call.params[i]
  <2>1. PICK i \in 1 .. NParams : PhAt(call, i, n) /\ sig[n] = call.params[i]
    BY <1>1, <1>2, <1>3 DEF IndInv, MapInv, Positions, NParams
  <2>2. ctx[i].kind = "Forward" /\ ctx[i].idx = n - 1
    BY <2>1, <1>3 DEF PhAt
  <2>3. n \in 1 .. nnew
    <3>1. ctx[i].idx + 1 \in 1 .. nnew
      BY <2>2, <1>1, WrapperFacts
    <3>. QED
      BY <3>1, <2>2, <1>2
  <2>. QED
    BY <2>1, <2>3
<1>6. ASSUME NEW n \in 1 .. nnew PROVE n \in 1 .. nph
  <2>1. PICK i \in 1 .. NParams : ctx[i].kind = "Forward" /\ ctx[i].idx = n - 1
    BY <1>1, WrapperFacts
  <2>2. call.args[i].kind = "ph" /\ call.args[i] \in Args /\ ctx[i].idx = call.args[i].n - 1
    BY <2>1, <1>3
  <2>3. call.args[i].n \in Nat
    BY <2>2, ArgFacts
  <2>4. i \in 1 .. Scanned
    BY <1>2, <1>3
  <2>5. call.args[i].n <= nph
    BY <2>2, <2>4 DEF IndInv, ScanInv
  <2>. QED
    BY <2>1, <2>2, <2>3, <2>5, <1>2, <1>4
<1>7. nnew = nph
  <2>1. nph \in 1 .. nph => nph \in 1 .. nnew
    BY <1>5
  <2>2. nnew \in 1 .. nnew => nnew \in 1 .. nph
    BY <1>6
  <2>. QED
    BY <2>1, <2>2, <1>2, <1>4
<1>8. ASSUME NEW n \in 1 .. nph PROVE sig[n] \in Types /\ newhll[n].types = Lower[sig[n]]
  <2>1. PICK i \in 1 .. NParams : PhAt(call, i, n) /\ sig[n] = call.params[i]
    BY <1>5
  <2>2. PICK j \in 1 .. NParams :
          ctx[j].kind = "Forward" /\ ctx[j].idx = n - 1 /\ newhll[n].types = <<call.fty[j]>>
    BY <1>1, <1>7, WrapperFacts
  <2>3. call.args[j].kind = "ph" /\ call.args[j].n = n
    <3>1. /\ call.args[j].kind = "ph" /\ call.args[j] \in Args
          /\ n - 1 = call.args[j].n - 1
      BY <2>2, <1>3
    <3>2. call.args[j].n \in Nat
      BY <3>1, ArgFacts
    <3>. QED
      BY <3>1, <3>2
  <2>4. i = j
    BY <2>1, <2>3, <1>1 DEF Repeats, Positions, IsPh, NParams, PhAt
  <2>5. Lower[call.params[i]] = <<call.fty[i]>>
    BY DEF OneSlot, Positions, NParams
  <2>. QED
    BY <2>1, <2>2, <2>4, <2>5, <1>3
<1>9. Len(sig) = nph
  BY <1>2
<1>. QED
  BY <1>2, <1>4, <1>7, <1>8, <1>9

\* The type FunctionWrapper calls the generated code through and the type of
\* the wrapper the pass generates agree, for every call (meta.h and
\* InlineParameters.cpp).
THEOREM WrapperABICorrect == Spec => []WrapperABI
  BY SameSignature, Invariance, PTL

\* The operand of every parameter is what std::bind would pass.
LEMMA OperandsPromised == IndInv => CallFaithful
<1>. SUFFICES ASSUME IndInv, outcome = "compiled", OneSlot(call)
              PROVE  /\ Len(operands) = Len(call.params)
                     /\ \A i \in Positions(call) :
                          Preserved(call.params[i], call.args[i]) /\ call.args[i].kind # "opt"
                            => operands[i] = Promised(call, i)
  BY DEF CallFaithful
<1>1. Len(operands) = Len(call.params)
  BY CompiledFacts DEF NParams
<1>2. ASSUME NEW i \in 1 .. NParams, Preserved(call.params[i], call.args[i]),
             call.args[i].kind # "opt"
      PROVE  operands[i] = Promised(call, i)
  <2>. DEFINE p == call.params[i]
              a == call.args[i]
              m == ctx[i]
  <2>1. /\ p \in Types /\ a \in Args /\ m = Mapping(p, a) /\ Accepts(p, a)
    BY CompiledFacts, ContextFacts
  <2>2. IsOperand(operands[i], m, call.fty[i]) /\ operands[i] # NullValue
    BY CompiledFacts
  <2>3. Lower[p] = <<call.fty[i]>> /\ Lower[p][1] = call.fty[i]
    <3>1. Lower[p] = <<call.fty[i]>>
      BY DEF OneSlot, Positions, NParams
    <3>. QED
      BY <3>1
  <2>4. /\ a.kind \in {"ph", "val", "fw"}
        /\ a.kind = "val" => Kind[p] \in {"int", "float", "ptr", "class"}
    BY <2>1, <1>2, ArgFacts DEF Accepts, CopyInitialized
  <2>5. CASE a.kind = "ph"
    <3>1. m = [kind |-> "Forward", idx |-> a.n - 1]
      BY <2>1, <2>5, MappingFacts
    <3>2. operands[i] = [op |-> "arg", i |-> a.n - 1]
      BY <3>1, <2>2 DEF IsOperand
    <3>3. Promised(call, i) = [op |-> "arg", i |-> a.n - 1]
      BY <2>5 DEF Promised
    <3>. QED
      BY <3>2, <3>3
  <2>6. CASE a.kind = "fw"
    <3>1. m = [kind |-> "Module", val |-> a.val]
      BY <2>1, <2>6, MappingFacts
    <3>2. operands[i] = [op |-> "fun", val |-> a.val]
      BY <3>1, <2>2 DEF IsOperand
    <3>3. Promised(call, i) = [op |-> "fun", val |-> a.val]
      BY <2>6 DEF Promised
    <3>. QED
      BY <3>2, <3>3
  <2>7. CASE a.kind = "val" /\ Scalar(p)
    <3>. DEFINE held == IF Kind[p] = "int" THEN Int64 ELSE Double
                v == Conv[held][p][Conv[p][a.ty][a.val]]
    <3>1. m.kind \in {"Int", "Float"} /\ m.val = v
      <4>1. StoredScalar(p, a.ty, a.val) = v
        BY DEF StoredScalar
      <4>2. Mapping(p, a) = [kind |-> "Int", val |-> StoredScalar(p, a.ty, a.val)]
              \/ Mapping(p, a) = [kind |-> "Float", val |-> StoredScalar(p, a.ty, a.val)]
        BY <2>1, <2>7, MappingFacts DEF Scalar
      <4>3. ctx[i].kind \in {"Int", "Float"} /\ ctx[i].val = StoredScalar(p, a.ty, a.val)
        BY <4>2, <2>1
      <4>. QED
        BY <4>1, <4>3
    <3>2. operands[i] = [op |-> "const", val |-> Trunc[call.fty[i]][v]]
      <4>1. operands[i] = ScalarOperand(m, call.fty[i])
        BY <3>1, <2>2 DEF IsOperand
      <4>. QED
        BY <3>1, <4>1 DEF ScalarOperand
    <3>3. Promised(call, i) = [op |-> "const", val |-> Trunc[Lower[p][1]][Conv[p][a.ty][a.val]]]
      <4>1. Kind[p] \in {"int", "float"}
        BY <2>7 DEF Scalar
      <4>2. Kind[p] # "ptr" /\ Kind[p] # "class"
        BY <4>1
      <4>. QED
        BY <2>7, <4>2 DEF Promised
    <3>4. Trunc[Lower[p][1]][v] = Trunc[Lower[p][1]][Conv[p][a.ty][a.val]]
      <4>1. Lossless(p) /\ a.ty \in Types /\ a.val \in Vals
        BY <1>2, <2>1, <2>7, ArgFacts DEF Preserved
      <4>. QED
        BY <4>1 DEF Lossless
    <3>. QED
      BY <3>2, <3>3, <3>4, <2>3
  <2>8. CASE a.kind = "val" /\ Kind[p] = "ptr"
    <3>1. m = [kind |-> "Ptr", val |-> Conv[p][a.ty][a.val]]
      BY <2>1, <2>8, MappingFacts
    <3>. DEFINE w == Conv[p][a.ty][a.val]
    <3>2. operands[i] = [op |-> "const", val |-> w]
      <4>. HIDE DEF w
      <4>1. m.kind = "Ptr" /\ m.val = w
        BY <3>1 DEF w
      <4>2. operands[i] = ScalarOperand(m, call.fty[i])
        BY <4>1, <2>2 DEF IsOperand
      <4>. QED
        BY <4>1, <4>2 DEF ScalarOperand
    <3>3. Promised(call, i) = [op |-> "const", val |-> Conv[p][a.ty][a.val]]
      BY <2>8 DEF Promised, Scalar
    <3>. QED
      BY <3>2, <3>3
  <2>9. CASE a.kind = "val" /\ Kind[p] = "class"
    <3>1. a.ty = p /\ (p \in InMemory <=> call.fty[i] = PtrTy)
      BY <1>2, <2>3, <2>9 DEF Preserved
    <3>2. m = [kind |-> "Struct", from |-> p, val |-> a.val]
      <4>1. m = [kind |-> "Struct", from |-> IF a.kind = "opt" THEN "option" ELSE a.ty,
                 val |-> a.val]
        BY <2>1, <2>9, MappingFacts
      <4>. QED
        BY <4>1, <3>1, <2>9
    <3>3. operands[i] = [op |-> IF p \in InMemory THEN "global" ELSE "raw",
                         from |-> p, val |-> a.val]
      <4>1. CASE call.fty[i] = PtrTy
        BY <4>1, <3>1, <3>2, <2>2 DEF IsOperand
      <4>2. CASE call.fty[i] # PtrTy
        <5>1. operands[i] = RawOperand(m, call.fty[i])
          BY <4>2, <3>2, <2>2 DEF IsOperand
        <5>2. operands[i] = [op |-> "raw", from |-> p, val |-> a.val]
          BY <5>1, <3>2, <2>2 DEF RawOperand
        <5>. QED
          BY <4>2, <5>2, <3>1
      <4>. QED
        BY <4>1, <4>2
    <3>4. Promised(call, i) = [op |-> IF p \in InMemory THEN "global" ELSE "raw",
                               from |-> p, val |-> a.val]
      BY <2>9 DEF Promised, Scalar
    <3>. QED
      BY <3>3, <3>4
  <2>. QED
    BY <2>4, <2>5, <2>6, <2>7, <2>8, <2>9 DEF Scalar
<1>. QED
  BY <1>1, <1>2 DEF Positions, NParams

\* The wrapper calls the original function with the arguments std::bind
\* would give it, for every call (param.h and GetInlineArgs).
THEOREM CallFaithfulCorrect == Spec => []CallFaithful
  BY OperandsPromised, Invariance, PTL

\* The attributes of a forwarded parameter are its original's.
LEMMA AttributesKept == IndInv => AttributesFollow
<1>. SUFFICES ASSUME IndInv, outcome = "compiled",
                     NEW i \in DOMAIN operands, operands[i].op = "arg"
              PROVE  attrs[operands[i].i] = i - 1
  BY DEF AttributesFollow
<1>1. /\ pc = "attrs" /\ k = nnew + 1 /\ pc \in FromNumber /\ pc \in FromLayout
      /\ i \in 1 .. NParams
      /\ IsOperand(operands[i], ctx[i], call.fty[i])
      /\ ctx[i].kind = "Forward" => newhll[ctx[i].idx + 1].pos = i - 1
  BY CompiledFacts
<1>2. ctx[i] \in Mappings
  BY <1>1, ContextFacts
<1>3. ctx[i].kind = "Forward"
  BY <1>1, <1>2 DEF IsOperand, Mappings, ScalarOperand, RawOperand, NullValue
<1>4. operands[i].i = ctx[i].idx /\ ctx[i].idx \in Nat
  BY <1>1, <1>2, <1>3, ContextFacts DEF IsOperand
<1>5. ctx[i].idx + 1 \in 1 .. nnew /\ nnew \in Nat
  BY <1>1, <1>3, WrapperFacts
<1>6. attrs[(ctx[i].idx + 1) - 1] = newhll[ctx[i].idx + 1].pos
  BY <1>1, <1>5 DEF IndInv, AttrsInv
<1>. QED
  BY <1>1, <1>3, <1>4, <1>6

\* Each forwarded argument carries the attributes of the parameter it is
\* forwarded to, for every call (RemapAttributes).
THEOREM AttributesCorrect == Spec => []AttributesFollow
  BY AttributesKept, Invariance, PTL
===========================================================================
