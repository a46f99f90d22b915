SPECIFICATION Spec
CONSTANTS
  r1 = r1
  r2 = r2
  Relay = {r1}
  Event <- TwoEvents
  Path <- InlinePath
  Eligible <- TwoEvents
  Quorum = 1
  MaxAttempts = 2
  MaxPublishes = 1
  MaxCrashes = 1
  MaxRelayChanges = 0
  MaxRetries = 0
  MaxFaults = 0
SYMMETRY Symmetry
INVARIANTS
  NeverSilentlyDropped
PROPERTIES
  QueuedIsDurable
CHECK_DEADLOCK FALSE
