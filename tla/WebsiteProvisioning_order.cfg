SPECIFICATION Spec
CONSTANTS
  r1 = r1
  r2 = r2
  r3 = r3
  Last = 2
  Requests = {r1}
  Compensable = {1, 2}
  Blockers = {2}
  Retryable = {}
  MaxRetries = 0
  MaxFaults = 0
  MaxCrashes = 0
INVARIANT CompensatedInOrder
CHECK_DEADLOCK FALSE
