\* Two operations and a configuration change, no crash and no failed write.
SPECIFICATION Spec
CONSTANTS
  c1 = c1
  c2 = c2
  Clients = {c1, c2}
  Exec = exec
  Nobody = nobody
  MaxOps = 2
  Retention = 2
  Disturbances = {"update"}
  MaxDisturbed = 1
CHECK_DEADLOCK FALSE
INVARIANTS
  RunsRecordedConfiguration
