SPECIFICATION Spec
INVARIANTS
  TimeoutEndsTree
CHECK_DEADLOCK FALSE
