----------------------------- MODULE MCLinking -----------------------------
(***************************************************************************)
(* Programs of two translation units for TLC.                              *)
(***************************************************************************)
EXTENDS Linking, TLC

\* An object: its unit, name, what it uses, and the sets it belongs to.
Obj(unit, name, uses, calls, takes, sets) ==
    [unit |-> unit, name |-> name, uses |-> uses, calls |-> calls, takes |-> takes,
     sets |-> sets]

Fun(unit, name, calls, takes, sets) == Obj(unit, name, Range(calls), calls, takes, sets)
Var(unit, name, uses, sets) == Obj(unit, name, uses, <<>>, 0, sets \cup {"vars"})
Reads(f, vs) == [f EXCEPT !.uses = @ \cup vs]

Program(objs, bytes, dumps, most) ==
    [f \in {"unit", "name", "uses", "calls", "takes"} |-> [o \in DOMAIN objs |-> objs[o][f]]]
      @@ [f \in {"vars", "constant", "local", "optnone", "stub", "jit", "asked", "passed"} |->
            {o \in DOMAIN objs : f \in objs[o].sets}]
      @@ [bytes |-> bytes, dumps |-> dumps, most |-> most]

Plain == {"none"}
Raw == {"none", "b"}
Target == {"jit", "asked"}

\* f calls itself and g of the other unit, which may call f back; a static
\* function h in each unit.
Recursion(calls, back) ==
    Program(<<Reads(Fun(1, "f", calls, 1, Target \cup {"stub"}), {3}),
              Fun(1, "h", <<>>, 0, {"local", "jit", "stub", "passed"}),
              Var(1, "v", {}, {"local"}),
              Fun(2, "g", <<5>> \o back, 0, {"jit", "passed"}),
              Fun(2, "h", <<>>, 0, {"local", "jit", "stub"})>>, Raw, {FALSE}, 2)

\* apply is bound to functions and to specialised functions, itself
\* included; each unit has local variables.
Composition(named, used, name) ==
    Program(<<Reads(Fun(1, "apply", <<>>, 1, Target \cup {"stub"}), {2} \cup named),
              Var(1, "str", {}, {"local"}),
              Reads(Fun(2, "inc", <<>>, 0, Target \cup {"passed", "stub"}), used),
              Var(2, name, {}, {"local"})>>, Raw, BOOLEAN, 3)

\* Two static functions of the same name, with a variable each.
Twins(v, w) ==
    Program(<<Reads(Fun(1, "add", <<>>, 0, Target \cup {"local"}), {2}), Var(1, v, {}, {"local"}),
              Reads(Fun(2, "add", <<>>, 0, Target \cup {"local"}), {4}), Var(2, w, {}, {"local"})>>,
            Plain, {FALSE}, 3)

\* Two recursive static functions of the same name, one with a stub.
RecursiveTwins ==
    Program(<<Fun(1, "add", <<1>>, 0, Target \cup {"local", "stub"}),
              Fun(2, "add", <<2>>, 0, Target \cup {"local"})>>, Raw, {FALSE}, 2)

\* f calls itself and g, which calls f back; apply is bound to what becomes
\* of a specialised f.
Callback ==
    Program(<<Fun(1, "f", <<1, 2>>, 0, Target), Fun(2, "g", <<1>>, 0, {"jit"}),
              Fun(2, "apply", <<>>, 1, Target)>>, Plain, {FALSE}, 2)

\* Two tables that hold two static functions of the same name.
Tables ==
    Program(<<Fun(1, "f", <<>>, 2, Target),
              Fun(1, "h", <<>>, 0, {"local"}), Var(1, "t", {2}, {"jit", "passed", "constant"}),
              Fun(2, "h", <<>>, 0, {"local"}), Var(2, "s", {4}, {"jit", "passed", "constant"})>>,
            Plain, {FALSE}, 1)

\* A table of functions is passed, and also read by the function; what is
\* exported may be constant or not, and functions optnone or not.
Table(constant, opt) ==
    Program(<<Reads(Fun(1, "f", <<2>>, 2, Target), {3}),
              Fun(1, "h", <<>>, 0, {"local", "jit"} \cup opt),
              Var(1, "t", {2}, {"local", "jit", "passed"} \cup constant),
              Fun(2, "g", <<5>>, 0, {"jit", "passed"}),
              Fun(2, "h", <<>>, 0, {"local"} \cup opt)>>, Plain, BOOLEAN, 2)

MCPrograms ==
    {Recursion(calls, back) : calls \in {<<4, 2>>, <<1, 4>>, <<1, 2, 1>>}, back \in {<<>>, <<1>>}}
      \cup {Composition({}, used, name) : used \in {{}, {4}}, name \in {"str", "buf"}}
      \cup {Composition({3}, {}, "buf"), RecursiveTwins, Callback, Tables}
      \cup {Twins("var", w) : w \in {"var", "other"}}
      \cup {Table(c, opt) : c \in {{}, {"constant"}}, opt \in {{}, {"optnone"}}}

\* inc of unit 2 prints a string literal, and so does apply of unit 1.
Literals == {Composition({}, {4}, "str")}
===========================================================================
