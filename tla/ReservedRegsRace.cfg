SPECIFICATION Spec
CONSTANTS
  Threads = {"t1", "t2"}
  NumRegs = 2
  Requests <- MCRequests
  FirstAlone = FALSE
  MaxCalls = 2
CHECK_DEADLOCK FALSE
INVARIANTS
  ReservedExact
