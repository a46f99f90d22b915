SPECIFICATION Spec
CONSTANTS
  p1 = p1  p2 = p2  r1 = r1  r2 = r2  r3 = r3  e1 = e1  e2 = e2
  Relay = {r1, r2, r3}
  Event = {e1}
  Signed = {e1}
  Publication = {p1, p2}
  Operation = {}
  Opaque = {c1}
  PurposeForEvent <- StatePurposes
  Token = 2
  Aggregate <- SumOfSlow
  Lane <- SlowLanes
  Wire <- SlowWire
  BreakerMin = 1
  BreakerMax = 2
  MaxActive = 2
  MaxIdentities = 2
  MaxQueued = 1
  MaxEvents = 1
  MaxOpaque = 1
  DuplicateLimit = 1
  MaxLimits = 0
SYMMETRY Symmetry
INVARIANTS
  TypeOK
  NothingLeaked
  HeldIdentitiesKnown
  WireBudget
  LanesReserved
CHECK_DEADLOCK FALSE
