SPECIFICATION FairSpec
CONSTANTS
  p1 = p1
  p2 = p2
  p3 = p3
  NoFile = NoFile
  Pids = {p1, p2, p3}
  Managed = {p2, p3}
  MaxLives <- MCMaxLives
  MaxCrashes = 2
CHECK_DEADLOCK FALSE
INVARIANTS
  ExclusiveUnlessRaced
PROPERTIES
  FailsClosed
  StaleLockDoesNotBlock
