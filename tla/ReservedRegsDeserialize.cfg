SPECIFICATION Spec
CONSTANTS
  Threads = {"t1"}
  NumRegs = 2
  Requests <- MCRequests
  FirstAlone = TRUE
  MaxCalls = 2
CHECK_DEADLOCK FALSE
INVARIANTS
  NoCrash
