\* Liveness, so no symmetry.  Both budgets have a failure to spare.
CONSTANTS
  Slots = {s1}
  Comments = {c1}
  None = None
  MaxDMAttempts = 2
  MaxDeliveryAttempts = 2
  MaxJobs = 2
  MaxFaults = 1
  SlowSend = FALSE
  Origins = {c1}
  MaxEvents = 2
  BatchSize = 1
  RequeueMayFail = FALSE
  Payloads <- MCPayloads
SPECIFICATION PFairSpec
PROPERTIES
  CommentReachesOutcome
  JobsFinish
CHECK_DEADLOCK FALSE
