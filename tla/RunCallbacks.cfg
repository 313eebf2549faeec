SPECIFICATION Spec
CONSTANTS
  None = None
  r1 = r1
  w1 = w1
  w2 = w2
  q1 = q1
  q2 = q2
  Mode = "full"
  Runs = {r1}
  Workers = {w1, w2}
  Requests = {q1, q2}
  Permission <- MCPermission
  NetworkClone = {}
  Gated = {}
  CapabilityOps = {}
  Faults = {}
  MaxJobs = 2
  MaxApprovals = 1
INVARIANTS
  ProjectedOnce
CHECK_DEADLOCK FALSE
