SPECIFICATION FairSpec
CONSTANTS
  Configs <- MCConfigs
  MaxTurns = 5
  MaxCalls = 4
  MaxBatch = 2
  MaxIterations = 2
  MaxRepairs = 1
  MaxDeaths = 1
  Faults = {"crash", "worktree", "model"}
INVARIANTS
  TypeOK
  WithinBudget
  SuccessIsVerified
  ActsOnlyWhenApproved
PROPERTIES
  ImplementsSession
  FailureIsFinal
  RunComesToRest
CHECK_DEADLOCK FALSE
