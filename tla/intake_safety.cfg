CONSTANTS
  Slots = {s1, s2}
  Comments = {c1, c2}
  None = None
  MaxDMAttempts = 1
  MaxDeliveryAttempts = 1
  MaxEvents = 3
  MaxRows = 4
  MaxFaults = 1
  BatchSize = 2
  RequeueMayFail = TRUE
  Payloads <- MCPayloads
SPECIFICATION Spec
SYMMETRY Symmetry
INVARIANTS
  TypeOK
  ProcessedMeansJob
  DeletionCatchesAll
  AccountingNeverShort
PROPERTIES
  ImplementsIntake
CHECK_DEADLOCK FALSE
