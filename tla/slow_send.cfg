\* Two jobs that compete for a slot, sends that may outlast the sweep.
CONSTANTS
  Slots = {s1}
  Comments = {c1}
  None = None
  MaxDMAttempts = 2
  MaxDeliveryAttempts = 2
  MaxJobs = 2
  MaxFaults = 1
  SlowSend = TRUE
  Origins = {c1, None}
SPECIFICATION BSpec
SYMMETRY CommentSymmetry
INVARIANTS
  AttemptsBounded
  RequestsAreCounted
  OneLiveDMPerJob
  PollsAreCurrent
  SecondDMNeedsDeletedComment
PROPERTIES
  ImplementsIntake
CHECK_DEADLOCK FALSE
