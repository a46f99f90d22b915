SPECIFICATION Spec
CONSTANTS
  k1 = k1  k2 = k2  e1 = e1  e2 = e2  e3 = e3
  Relay = {k1}
  Event = {e2}
  Regular = {e2}
  Own = {}
  Offset <- LateOnTimeFuture
  Overlap = 1
  Lookback = 2
  Retention = 3
  Skew = 1
  MaxAge = 8
  Expiring = {}
  Lifetime = 0
  Historical = {}
  BackdateOverlap = 0
  PageLimit = 2
  Budget = 1
  Capacity = 0
  Lag = 0
  MaxClock = 8
  MaxFaults = 1
INVARIANTS
  HandlersRunOnce
CHECK_DEADLOCK FALSE
