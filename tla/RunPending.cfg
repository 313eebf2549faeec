SPECIFICATION FairSpec
CONSTANTS
  None = None
  r1 = r1
  w1 = w1
  w2 = w2
  q1 = q1
  q2 = q2
  Mode = "full"
  Runs = {r1}
  Workers = {w1}
  Requests = {q1}
  Permission <- MCPermission
  NetworkClone = {}
  Gated = {}
  CapabilityOps = {}
  Faults = {"callback_lost"}
  MaxJobs = 1
  MaxApprovals = 1
PROPERTIES
  PendingIsRedelivered
CHECK_DEADLOCK FALSE
