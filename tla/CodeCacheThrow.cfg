SPECIFICATION Spec
CONSTANTS
  Funs = {"f"}
  Scalars <- IntScalars
  Eq <- IntEq
  Throws = {"f"}
  Addrs <- FunctionAddrs
  a1 = a1
  a2 = a2
  a3 = a3
  DropReferenced = FALSE
  MaxCompiles = 4
SYMMETRY Symmetry
CHECK_DEADLOCK FALSE
INVARIANTS
  HasMeansGenerated

