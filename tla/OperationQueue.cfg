SPECIFICATION FairSpec
CONSTANTS
  p1 = p1  p2 = p2  r1 = r1  r2 = r2  r3 = r3  e1 = e1  e2 = e2
  Relay = {r1}
  Event = {}
  Signed = {}
  Publication = {}
  Operation = {o1, o2, o3, o4}
  Opaque = {}
  PurposeForEvent <- StatePurposes
  Token = 1
  Aggregate <- SumOfTight
  Lane <- TightLanes
  Wire <- TightWire
  BreakerMin = 1
  BreakerMax = 2
  MaxActive = 2
  MaxIdentities = 1
  MaxQueued = 2
  MaxEvents = 1
  MaxOpaque = 1
  DuplicateLimit = 1
  MaxLimits = 0
INVARIANTS
  SlotOwned
PROPERTIES
  QueuedServed
CHECK_DEADLOCK FALSE
