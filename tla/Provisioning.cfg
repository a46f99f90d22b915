SPECIFICATION Spec
CONSTANTS
  r1 = r1  r2 = r2
  None = None
  Request = {r1, r2}
  MaxRuns = 2
  MaxFaults = 1
INVARIANTS
  TypeOK
  LiveSoulReserved
  ResultExclusive
  LineageKept
  RolledBackComplete
  KeyMintedOnce
PROPERTIES
  EffectsHoldReservation
  WorkflowReturns
CHECK_DEADLOCK FALSE
