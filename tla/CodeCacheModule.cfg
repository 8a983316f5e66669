SPECIFICATION Spec
CONSTANTS
  Funs = {"f"}
  Scalars <- IntScalars
  Eq <- IntEq
  Throws = {}
  Addrs <- FunctionAddrs
  a1 = a1
  a2 = a2
  a3 = a3
  DropReferenced = TRUE
  MaxCompiles = 4
SYMMETRY Symmetry
CHECK_DEADLOCK FALSE
INVARIANTS
  ServedCode

