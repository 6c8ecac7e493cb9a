SPECIFICATION Spec
CONSTANTS
  p1 = p1
  p2 = p2
  p3 = p3
  NoFile = NoFile
  Pids = {p1, p2, p3}
  Managed = {}
  MaxLives <- MCMaxLives
  MaxCrashes = 1
INVARIANT OneHolder
CHECK_DEADLOCK FALSE
