SPECIFICATION Spec
CONSTANT Programs <- MCPrograms
CHECK_DEADLOCK FALSE
INVARIANTS
  TypeOK
  NeverMisbound
  TargetKept
  EntryExact
  StubsExact
  RoundTrip
  AllBound
  MeaningKept
