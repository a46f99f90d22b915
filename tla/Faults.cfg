SPECIFICATION Spec
CONSTANTS
  r1 = r1
  r2 = r2
  Relay = {r1, r2}
  Event <- OneEvent
  Path <- InlinePath
  Eligible <- OneEvent
  Quorum <- AllRelays
  MaxAttempts = 2
  MaxPublishes = 2
  MaxCrashes = 0
  MaxRelayChanges = 1
  MaxRetries = 0
  MaxFaults = 1
SYMMETRY Symmetry
INVARIANTS
  TypeOK
PROPERTIES
  DurableProgress
  ImplementsContract
CHECK_DEADLOCK FALSE
