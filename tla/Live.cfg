SPECIFICATION FairSpec
CONSTANTS
  r1 = r1
  r2 = r2
  Relay = {r1}
  Event <- OneEvent
  Path <- InlinePath
  Eligible <- OneEvent
  Quorum = 1
  MaxAttempts = 2
  MaxPublishes = 2
  MaxCrashes = 1
  MaxRelayChanges = 1
  MaxRetries = 1
  MaxFaults = 0
PROPERTIES
  PendingSettles
  CallsReturn
CHECK_DEADLOCK FALSE
