SPECIFICATION Spec
CONSTANTS
  Runs = {"r", "f"}
  Procs = {"p", "q"}
CONSTRAINTS
  OneAtATime
  ParentFirst
INVARIANTS
  TypeOK
  ManifestIsTruthful
  HooksInOrder
PROPERTIES
  StopPausesUnlessResumed
CHECK_DEADLOCK FALSE
