----------------------- MODULE MCInlineParameters -----------------------
(***************************************************************************)
(* Instances of InlineParameters for TLC: C++ types with the x86-64        *)
(* lowering clang gives them, scaled-down integer and floating types, and  *)
(* the sets of calls of each run.                                          *)
(***************************************************************************)
EXTENDS InlineParameters, SequencesExt

\* A 4-bit int64_t (-8..7), its unsigned sibling (0..15), 2-bit chars; a
\* floating type of grain g represents the multiples of g.
MCVals == -8 .. 15
MCInt64 == "long"
MCDouble == "double"
MCDefaults == [opt_level |-> 2, dump_ir |-> 0]

Ints == {"bool", "schar", "uchar", "long", "ulong"}
Floats == {"float", "double", "long_double"}

\* fptr and gptr point to functions of different types, bptr to the second
\* base class of what dptr points to, vptr is void*; iref and fref are
\* references to a long and to a function of fptr's type.
Pointers == {"fptr", "gptr", "vptr", "bptr", "dptr"}

\* Fun is a class made from a function of fptr's type (std::function).
Classes == {"Big", "BigPtr", "BigFun", "BigLD", "Small", "Pair", "Empty",
            "Box", "Odd", "Fun"}

MCKind ==
    [t \in Ints |-> "int"] @@ [t \in Floats |-> "float"]
      @@ [t \in Pointers |-> "ptr"] @@ [t \in {"iref", "fref"} |-> "ref"]
      @@ [t \in Classes |-> "class"] @@ [t \in {"enum"} |-> "other"]
MCTypes == DOMAIN MCKind

\* The implicit conversions of C++ between these types.
MCConverts == [t \in MCTypes |->
    CASE t = "bool" -> Ints \cup Floats \cup Pointers \cup {"enum", "iref", "fref"}
      [] t \in (Ints \cup Floats) \ {"bool"} -> Ints \cup Floats \cup {"enum", "iref"}
      [] t = "fptr" -> {"fptr", "fref"}
      [] t = "vptr" -> {"vptr", "bptr", "dptr"}
      [] t = "bptr" -> {"bptr", "dptr"}
      [] OTHER -> {t}]

MCFunTypes == {"fptr", "gptr", "fref"}
MCComposes == [t \in MCTypes |->
    CASE t = "bool" -> {"fptr", "gptr"}
      [] t = "gptr" -> {"gptr"}
      [] t \in {"fptr", "fref", "Fun"} -> {"fptr"}
      [] OTHER -> {}]

Signed(v, m) == ((v + m \div 2) % m) - m \div 2
Grain(v, g) == v - (v % g)

MCConv == [t \in MCTypes |-> [s \in MCTypes |-> [v \in MCVals |->
    CASE t = "bptr" /\ s = "dptr" -> Signed(v + 1, 16)
      [] t = "bool" -> IF v = 0 THEN 0 ELSE 1
      [] t = "schar" -> Signed(v, 4)
      [] t = "uchar" -> v % 4
      [] t = "long" -> Signed(v, 16)
      [] t = "ulong" -> v % 16
      [] t = "float" -> Grain(v, 4)
      [] t = "double" -> Grain(v, 2)
      [] OTHER -> v]]]

MCTrunc == [ir \in {"i1", "i8", "i24", "i64", "float", "double", "fp80", "ptr"} |->
    [v \in MCVals |->
      CASE ir = "i1" -> v % 2
        [] ir = "i8" -> v % 4
        [] ir = "i64" -> v % 16
        [] ir = "float" -> Grain(v, 4)
        [] ir = "double" -> Grain(v, 2)
        [] OTHER -> v]]

MCLower == [t \in MCTypes |->
    CASE t = "bool" -> <<"i1">>
      [] t \in {"schar", "uchar"} -> <<"i8">>
      [] t \in {"long", "ulong", "Small", "enum"} -> <<"i64">>
      [] t = "float" -> <<"float">>
      [] t = "double" -> <<"double">>
      [] t = "long_double" -> <<"fp80">>
      [] t \in Pointers \cup {"iref", "fref", "Big", "BigPtr", "BigFun", "BigLD",
                             "Box", "Fun"} -> <<"ptr">>
      [] t = "Pair" -> <<"i64", "i64">>
      [] t = "Empty" -> <<>>
      [] t = "Odd" -> <<"i24">>]

\* The leaf fields of what the slot of a class points to.  Function pointers
\* read from the bytes of another object are not registered ones.
MCInMemory == {"Big", "BigPtr", "BigFun", "BigLD", "Fun"}
MCLeaves == [t \in MCTypes |-> [s \in MCTypes \cup {"option"} |->
    CASE t = "BigPtr" -> {"scalar", "data_ptr"}
      [] t \in {"BigFun", "Fun"} -> {"scalar", "unregistered_fun"}
      [] t = "BigLD" -> {"odd"}
      [] t = "Big" -> IF s = "Big" THEN {"scalar", "null_fun", "registered_fun"}
                                   ELSE {"scalar", "unregistered_fun"}
      [] OTHER -> {"scalar"}]]

\* Sizes in bytes.  Box holds a pointer to a 4-byte integer.
MCSize == [s \in MCTypes \cup {"option"} |->
    CASE s \in {"bool", "schar", "uchar", "Empty", "fref"} -> 1
      [] s = "Odd" -> 3
      [] s \in {"float", "enum"} -> 4
      [] s \in {"long_double", "Pair"} -> 16
      [] s \in {"Big", "BigPtr", "BigFun"} -> 24
      [] s \in {"BigLD", "Fun"} -> 32
      [] OTHER -> 8]
MCExtent == [t \in MCTypes |-> IF t = "Box" THEN 4 ELSE MCSize[t]]
MCSlotSize == [ir \in DOMAIN MCTrunc |->
    CASE ir = "i8" -> 1 [] ir = "float" -> 4 [] OTHER -> 8]
MCOddIR == {"i1", "i24", "fp80"}

\* Every scalar type but long double survives its trip through the Context.
ASSUME ScalarsLossless ==
    \A t \in MCTypes \ {"long_double"} : Scalar(t) => Lossless(t)
ASSUME LongDoubleIsNot == ~Lossless("long_double")

Ph(n) == [kind |-> "ph", n |-> n]
Val(t, v) == [kind |-> "val", ty |-> t, val |-> v]
Fw(t) == [kind |-> "fw", ty |-> t, val |-> 3]
Opt(v) == [kind |-> "opt", opt |-> "opt_level", val |-> v]
Dump(v) == [kind |-> "opt", opt |-> "dump_ir", val |-> v]

CallOf(sret, params, args) ==
    [sret |-> sret, params |-> params, args |-> args,
     fty |-> (IF sret THEN <<"ptr">> ELSE <<>>)
               \o FlattenSeq([i \in DOMAIN params |-> MCLower[params[i]]])]

\* One parameter of any type, bound to anything.
OneParam ==
    {CallOf(s, <<t>>, <<a>> \o rest) :
        s \in BOOLEAN, t \in MCTypes,
        a \in {Ph(1), Ph(2), Fw("fptr"), Fw("gptr"), Opt(1)}
               \cup {Val(u, v) : u \in Ints \cup Floats, v \in {-7, 2, 15}}
               \cup {Val(u, 2) : u \in MCTypes \ (Ints \cup Floats)},
        rest \in {<<>>, <<Opt(2)>>}}

\* Two parameters: every lowering next to every other.
TwoParams ==
    {CallOf(FALSE, <<t, u>>, args \o rest) :
        t, u \in {"bool", "long", "Big", "Small", "Pair", "Empty"},
        args \in [1 .. 2 -> {Ph(1), Ph(2), Ph(3), Val("Big", 2), Val("long", 2), Opt(1)}],
        rest \in {<<>>, <<Opt(2)>>, <<Val("long", 3)>>}}

\* Three parameters: every order and every repetition of the placeholders.
ThreeParams ==
    {CallOf(s, <<t, u, "schar">>, args \o rest) :
        s \in BOOLEAN, t, u \in {"bool", "Small"},
        args \in [1 .. 3 -> {Ph(1), Ph(2), Ph(3), Ph(4), Val("long", 3)}],
        rest \in {<<>>, <<Opt(1), Dump(3), Opt(2)>>}}

\* Missing arguments, and no parameters at all.
Degenerate ==
    {CallOf(FALSE, <<"bool", "long">>, <<Ph(1)>>),
     CallOf(FALSE, <<"Big">>, <<>>),
     CallOf(FALSE, <<>>, <<>>), CallOf(FALSE, <<>>, <<Opt(1)>>),
     CallOf(TRUE, <<>>, <<>>), CallOf(FALSE, <<>>, <<Ph(1)>>),
     CallOf(FALSE, <<"Empty">>, <<Ph(1)>>)}

\* tests/meta/new_func_traits.cpp:22: foo(int, bool, float, int) bound to
\* (_1, bool, float, _1).
RepeatCalls ==
    {CallOf(FALSE, <<"schar", "bool", "float", "schar">>,
            <<a, Val("bool", 1), Val("float", 4), b>>) : a, b \in {Ph(1), Ph(2)}}

\* tests/simple/struct_arg.cpp:27-75: whopie(Point<T>, T) with none, one or
\* both of its parameters fixed, for T = int, long and long double: a Point<T>
\* in one slot, in two, in memory.
StructArg(pt, t) ==
    {CallOf(FALSE, <<pt, t>>, args) :
        args \in {<<Ph(2), Ph(1)>>, <<Ph(1), Val(t, 1)>>,
                  <<Val(pt, 2), Ph(1)>>, <<Val(pt, 2), Val(t, 1)>>}}

\* tests/simple/struct_return.cpp:24-26: build(T, T), which returns a Point<T>:
\* a Point<long double> through memory, the others in registers.
StructReturn(sret, t) == CallOf(sret, <<t, t>>, <<Ph(1), Val(t, 1)>>)

TestCalls ==
    StructArg("Small", "long") \cup StructArg("Pair", "long")
      \cup StructArg("BigLD", "long_double")
      \cup {StructReturn(FALSE, "long"), StructReturn(TRUE, "long_double")}

MCCalls == OneParam \cup TwoParams \cup ThreeParams \cup Degenerate \cup TestCalls

\* The calls of the two tests that C++ accepts and the pass does not support.
ASSUME UnsupportedTests ==
    {c \in TestCalls : WellBound(c) /\ ~Supported(c)}
      = StructArg("Pair", "long") \cup {StructReturn(TRUE, "long_double")}
          \cup {c \in StructArg("BigLD", "long_double") : ~IsPh(c, 1)}
===========================================================================
