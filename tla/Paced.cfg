SPECIFICATION Spec
CONSTANTS
  p1 = p1  p2 = p2  r1 = r1  r2 = r2  r3 = r3  e1 = e1  e2 = e2
  Relay = {r1}
  Event = {e1, e2}
  Signed = {e1, e2}
  Publication = {p1, p2}
  Operation = {o1, o2}
  Opaque = {}
  PurposeForEvent <- StatePurposes
  Token = 1
  Aggregate <- SumOfTight
  Lane <- TightLanes
  Wire <- TightWire
  BreakerMin = 1
  BreakerMax = 2
  MaxActive = 2
  MaxIdentities = 1
  MaxQueued = 1
  MaxEvents = 2
  MaxOpaque = 1
  DuplicateLimit = 1
  MaxLimits = 1
SYMMETRY PacedSymmetry
INVARIANTS
  NoConcurrentCopy
  OneOutstanding
PROPERTIES
  BackoffKept
CHECK_DEADLOCK FALSE
