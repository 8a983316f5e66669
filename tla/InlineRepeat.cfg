SPECIFICATION Spec
CONSTANTS
  Types <- MCTypes
  Kind <- MCKind
  Converts <- MCConverts
  Composes <- MCComposes
  Vals <- MCVals
  Conv <- MCConv
  Int64 <- MCInt64
  Double <- MCDouble
  DefaultOptions <- MCDefaults
  Lower <- MCLower
  FunTypes <- MCFunTypes
  InMemory <- MCInMemory
  Leaves <- MCLeaves
  Extent <- MCExtent
  Size <- MCSize
  SlotSize <- MCSlotSize
  Trunc <- MCTrunc
  OddIR <- MCOddIR
  Calls <- RepeatCalls
INVARIANTS
  AcceptedIsDefined
