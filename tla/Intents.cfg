SPECIFICATION Spec
CONSTANTS
  relay = relay  mcp = mcp  r1 = r1  r2 = r2  a1 = a1  b1 = b1  b2 = b2
  None = None
  Caller = {relay, mcp}
  Path <- RelayAndMCP
  Request = {r1, r2}
  Actor = {a1}
  ActorOf <- OneActor
  Body = {b1, b2}
INVARIANTS
  AcceptedIsApplied
  SuccessIsPublished
SYMMETRY RequestSymmetry
