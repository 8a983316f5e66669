--------------------------- MODULE MCReservedRegs ---------------------------
(***************************************************************************)
(* Instances of ReservedRegs for TLC.                                      *)
(***************************************************************************)
EXTENDS ReservedRegs

\* Nothing, one register, two, and a name that is no register.
MCRequests == {{}, {1}, {1, 2}, {2, 3}}
===========================================================================
