SPECIFICATION FairSpec
CONSTANTS
  None = None
  r1 = r1
  w1 = w1
  w2 = w2
  q1 = q1
  q2 = q2
  Mode = "full"
  Runs = {r1}
  Workers = {w1}
  Requests = {q1}
  Permission <- MCPermission
  NetworkClone = {}
  Gated = {}
  CapabilityOps = {"sub_agent"}
  Faults = {"api_crash", "call_error", "worker_crash", "callback_lost", "enqueue_error", "job_expired"}
  MaxJobs = 2
  MaxApprovals = 3
INVARIANTS
  QueuedHasJob
  InterruptReachesWorker
  CapabilityWasApproved
  ProjectedOnce
  WriteSuccessIsVerified
PROPERTIES
  EveryJobIsDelivered
CHECK_DEADLOCK FALSE
