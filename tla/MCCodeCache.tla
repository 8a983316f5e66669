---------------------------- MODULE MCCodeCache ----------------------------
(***************************************************************************)
(* Instances of CodeCache for TLC.  The scalars include the values of      *)
(* double for which == is not identity: 0.0 == -0.0, and NaN != NaN.       *)
(***************************************************************************)
EXTENDS CodeCache, TLC

CONSTANTS a1, a2, a3

FloatScalars == {"0.0", "-0.0", "NaN"}
FloatEq == {"0.0", "-0.0"} \X {"0.0", "-0.0"}

IntScalars == {"1", "2"}
IntEq == {<<v, v>> : v \in IntScalars}

FunctionAddrs == {a1, a2, a3}

\* Addresses are interchangeable: no action singles one out.
Symmetry == Permutations(FunctionAddrs)
===========================================================================
