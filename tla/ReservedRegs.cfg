SPECIFICATION FairSpec
CONSTANTS
  Threads = {"t1", "t2"}
  NumRegs = 2
  Requests <- MCRequests
  FirstAlone = TRUE
  MaxCalls = 2
CHECK_DEADLOCK FALSE
INVARIANTS
  TypeOK
  ReservedExact
  CrashOnlyInDeserialize
PROPERTIES
  HookOnce
  CallsEnd
