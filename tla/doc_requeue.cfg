CONSTANTS
  Slots = {s1, s2}
  Comments = {c1}
  None = None
  MaxDMAttempts = 1
  MaxDeliveryAttempts = 1
  MaxEvents = 2
  MaxRows = 4
  MaxFaults = 1
  BatchSize = 2
  RequeueMayFail = TRUE
  Payloads <- MCPayloads
SPECIFICATION FairSpec
PROPERTIES
  EventsAreDecided
CHECK_DEADLOCK FALSE
