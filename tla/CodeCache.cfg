SPECIFICATION Spec
CONSTANTS
  Funs = {"f"}
  Scalars <- FloatScalars
  Eq <- FloatEq
  Throws = {"f"}
  Addrs <- FunctionAddrs
  a1 = a1
  a2 = a2
  a3 = a3
  DropReferenced = FALSE
  MaxCompiles = 3
SYMMETRY Symmetry
CHECK_DEADLOCK FALSE
INVARIANTS
  TypeOK
  ServedCode
  CompileOnce
PROPERTIES
  EntriesStable
  Memoizes
