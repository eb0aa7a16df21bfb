CONSTANTS
  MaxCalls = 2
  Window = 3
  Safety = 0
  MaxLatency = 1
  MaxTime = 7
  MaxGrants = 4
  MaxFaults = 2
  None = None
SPECIFICATION Spec
INVARIANTS
  TypeOK
  WindowRespected
  WakeFindsSlot
  RefusalNeedsDelay
PROPERTIES
  PauseIsEnough
CHECK_DEADLOCK FALSE
