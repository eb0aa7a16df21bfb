\* Liveness, so no symmetry.
CONSTANTS
  Slots = {s1}
  Comments = {c1}
  None = None
  MaxDMAttempts = 1
  MaxDeliveryAttempts = 1
  MaxEvents = 2
  MaxRows = 2
  MaxFaults = 2
  BatchSize = 1
  RequeueMayFail = FALSE
  Payloads <- MCPayloads
  Threads = {t1, t2}
  MaxExtra = 1
  CountDuplicates = TRUE
SPECIFICATION WFairSpec
INVARIANTS
  AckedIsStored
  ReceivedIsHonest
  DeliveriesAccounted
PROPERTIES
  DecidedOnce
  EveryEventIsDecided
CHECK_DEADLOCK FALSE
