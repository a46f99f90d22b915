SPECIFICATION Spec
CONSTANTS
  r1 = r1
  r2 = r2
  Relay = {r1, r2}
  Event <- OneEvent
  Path <- BeforeCommitPath
  Eligible <- OneEvent
  Quorum = 1
  MaxAttempts = 2
  MaxPublishes = 2
  MaxCrashes = 1
  MaxRelayChanges = 1
  MaxRetries = 1
  MaxFaults = 1
SYMMETRY Symmetry
INVARIANTS
  AcceptancesHeard
  SuccessIsProven
  ProofSound
  PublishedHasQuorum
CHECK_DEADLOCK FALSE
