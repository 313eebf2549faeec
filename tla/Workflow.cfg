SPECIFICATION FairSpec
CONSTANTS
  Nodes <- MCNodes
  Position <- MCPosition
  Starts <- MCStarts
  MaxTurns = 3
  MaxIterations = 2
  Faults = {"crash", "worktree", "model", "raise"}
INVARIANTS
  TypeOK
  ValidationIsExact
  GatesComeFirst
  NoSuccessAfterFailedTest
PROPERTIES
  WorkflowComesToRest
CHECK_DEADLOCK FALSE
