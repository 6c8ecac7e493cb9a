\* Two overlapping requests, any two disturbances.
SPECIFICATION FairSpec
CONSTANTS
  r1 = r1
  r2 = r2
  Runners = {r1, r2}
  Plan <- MCPlan
  Disturbances = {"crash", "fault", "refused", "unanswered", "unread", "overlap", "resume", "taken"}
  MaxDisturbed = 2
CHECK_DEADLOCK FALSE
INVARIANTS
  TypeOK
  DependentsGoFirst
  SucceededIsMet
  CrashNeverStrands
PROPERTIES
  RemovalFinishes
