SPECIFICATION Spec
CONSTANT Programs <- Literals
CHECK_DEADLOCK FALSE
INVARIANTS
  RefsFaithful
