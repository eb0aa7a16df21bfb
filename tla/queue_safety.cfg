\* Two jobs of two slots at once, one comment.
CONSTANTS
  Slots = {s1, s2}
  Comments = {c1}
  None = None
  MaxDMAttempts = 2
  MaxDeliveryAttempts = 2
  MaxJobs = 2
  MaxFaults = 1
  SlowSend = FALSE
  Origins = {c1}
SPECIFICATION Spec
INVARIANTS
  TypeOK
  OneLiveDMPerJob
  CycleCountsFailures
  SentIsDelivered
  WorkerOwnsClaim
PROPERTIES
  ImplementsBoard
  FinalStatusStays
SYMMETRY Symmetry
CHECK_DEADLOCK FALSE
