CONSTANTS
  Slots = {s1}
  Comments = {c1}
  None = None
  MaxDMAttempts = 1
  MaxDeliveryAttempts = 1
  MaxJobs = 1
  MaxFaults = 1
  SlowSend = FALSE
  Origins = {c1}
  MaxEvents = 2
  BatchSize = 1
  RequeueMayFail = FALSE
  Payloads <- MCPayloads
SPECIFICATION PSpec
PROPERTIES
  DeletedCommentIsNotSent
CHECK_DEADLOCK FALSE
