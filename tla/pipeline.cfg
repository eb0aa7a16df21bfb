\* Two events of one comment, which may match two rules.
CONSTANTS
  Slots = {s1, s2}
  Comments = {c1}
  None = None
  MaxDMAttempts = 1
  MaxDeliveryAttempts = 1
  MaxJobs = 2
  MaxFaults = 1
  SlowSend = FALSE
  Origins = {c1}
  MaxEvents = 2
  BatchSize = 1
  RequeueMayFail = TRUE
  Payloads <- MCPayloads
SPECIFICATION PSpec
INVARIANTS
  EveryDMWasAskedFor
  ProcessedIsCommitted
PROPERTIES
  ImplementsQueue
  NoFirstClaimAfterDeletion
SYMMETRY Symmetry
CHECK_DEADLOCK FALSE
