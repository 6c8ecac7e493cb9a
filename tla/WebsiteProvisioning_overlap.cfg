SPECIFICATION Spec
CONSTANTS
  r1 = r1
  r2 = r2
  r3 = r3
  Last = 2
  Requests = {r1, r2, r3}
  Compensable = {1}
  Blockers = {}
  Retryable = {2}
  MaxRetries = 1
  MaxFaults = 0
  MaxCrashes = 0
INVARIANT AppliesDoNotOverlap
CHECK_DEADLOCK FALSE
