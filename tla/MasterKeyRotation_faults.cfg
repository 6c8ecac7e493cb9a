\* Any of the three files may be absent; one change through the API, any three disturbances.
SPECIFICATION FairSpec
CONSTANTS
  MaxEdits = 1
  Disturbances = {"crash", "fault", "damage", "straggler"}
  MaxDisturbed = 3
CHECK_DEADLOCK FALSE
INVARIANTS
  TypeOK
  NoSecretIsLost
PROPERTIES
  RollbackRestores
  AppliedKeepsEdits
  ServiceReturns
