SPECIFICATION Spec
CONSTANTS
  r1 = r1
  r2 = r2
  r3 = r3
  Last = 2
  Requests = {r1, r2}
  Compensable = {1, 2}
  Blockers = {1}
  Retryable = {2}
  MaxRetries = 1
  MaxFaults = 1
  MaxCrashes = 1
SYMMETRY RequestSymmetry
CHECK_DEADLOCK FALSE
INVARIANTS
  TypeOK
  NoBlindReplay
  HostChangesAreJournalled
  SucceededIsMet
  BuildsOnSucceeded
  OrderUnlessBlocked
  WaitersAreServed
