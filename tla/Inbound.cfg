SPECIFICATION Spec
CONSTANTS
  k1 = k1  k2 = k2  e1 = e1  e2 = e2  e3 = e3
  Relay = {k1}
  Event = {e1, e2, e3}
  Regular = {e1, e2}
  Own = {}
  Offset <- LateOnTimeFuture
  Overlap = 2
  Lookback = 2
  Retention = 2
  Skew = 1
  MaxAge = 1
  Expiring = {e3}
  Lifetime = 0
  Historical = {e1}
  BackdateOverlap = 0
  PageLimit = 2
  Budget = 1
  Capacity = 0
  Lag = 1
  MaxClock = 7
  MaxFaults = 1
INVARIANTS
  NoGap
  HandledOnce
  LoomProofSound
PROPERTIES
  EventuallyHeld
CHECK_DEADLOCK FALSE
