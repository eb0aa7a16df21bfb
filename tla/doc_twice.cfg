CONSTANTS
  Slots = {s1}
  Comments = {c1}
  None = None
  MaxDMAttempts = 2
  MaxDeliveryAttempts = 2
  MaxJobs = 2
  MaxFaults = 1
  SlowSend = FALSE
  Origins = {c1, None}
SPECIFICATION Spec
INVARIANTS
  NobodyDMedTwice
CHECK_DEADLOCK FALSE
