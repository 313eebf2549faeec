SPECIFICATION Spec
CONSTANTS
  Configs <- MCConfigs
  MaxTurns = 5
  MaxCalls = 4
  MaxBatch = 2
  MaxIterations = 2
  MaxRepairs = 1
  MaxDeaths = 1
  Faults = {"crash"}
INVARIANTS
  EveryChangeIsVerified
CHECK_DEADLOCK FALSE
