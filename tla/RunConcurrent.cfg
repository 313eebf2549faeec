SPECIFICATION Spec
CONSTANTS
  None = None
  r1 = r1
  w1 = w1
  w2 = w2
  q1 = q1
  q2 = q2
  Mode = "edit"
  Runs = {r1}
  Workers = {w1, w2}
  Requests = {q1, q2}
  Permission <- MCPermission
  NetworkClone = {r1}
  Gated = {}
  CapabilityOps = {}
  Faults = {"api_crash", "callback_lost"}
  MaxJobs = 2
  MaxApprovals = 1
SYMMETRY ProcessSymmetry
INVARIANTS
  TypeOK
  AckImpliesApplied
  AppliedHasEvidence
PROPERTIES
  ImplementsJobDelivery
CHECK_DEADLOCK FALSE
