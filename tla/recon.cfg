\* More rows than a batch holds, one DM short of filling it with unknown ones.
\* Liveness, so no symmetry.
CONSTANTS
  Slots = {s1}
  Comments = {c1}
  None = None
  MaxDMAttempts = 1
  MaxDeliveryAttempts = 2
  MaxJobs = 3
  BatchSize = 2
  MaxLost = 1
  MaxFaults = 1
SPECIFICATION FairSpec
INVARIANTS
  TypeOK
  WaitIsBounded
PROPERTIES
  EveryRowIsPolled
  OutcomeReachesRow
CHECK_DEADLOCK FALSE
