SPECIFICATION Spec
CONSTANTS
  r1 = r1
  r2 = r2
  Relay = {r1, r2}
  Event <- ThreeEvents
  Path <- EnqueuePath
  Eligible <- ThreeEvents
  Quorum = 1
  MaxAttempts = 2
  MaxPublishes = 1
  MaxCrashes = 1
  MaxRelayChanges = 0
  MaxRetries = 0
  MaxFaults = 0
SYMMETRY Symmetry
INVARIANTS
  MarkerHonest
  MarkerBacked
  NoResend
  
PROPERTIES
  AnnouncedIsDurable
CHECK_DEADLOCK FALSE
