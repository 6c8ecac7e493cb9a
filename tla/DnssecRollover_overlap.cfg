\* Two overlapping requests, any one disturbance.
SPECIFICATION FairSpec
CONSTANTS
  r1 = r1
  r2 = r2
  Runners = {r1, r2}
  KeyTtl = 1
  DsTtl = 1
  Disturbances = {"crash", "fault", "edit", "lost", "readd", "unseen"}
  MaxDisturbed = 1
CHECK_DEADLOCK FALSE
INVARIANTS
  TypeOK
  DelegationSurvives
PROPERTIES
  IntentIsDurable
  ActivatedWhenServed
  RolloverFinishes
