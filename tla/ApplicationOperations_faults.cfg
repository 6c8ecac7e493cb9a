\* Three operations, two requests beside the executor, any one disturbance.
SPECIFICATION Spec
CONSTANTS
  c1 = c1
  c2 = c2
  Clients = {c1, c2}
  Exec = exec
  Nobody = nobody
  MaxOps = 3
  Retention = 2
  Disturbances = {"update", "variable", "fault", "crash", "undo"}
  MaxDisturbed = 1
SYMMETRY ClientSymmetry
CHECK_DEADLOCK FALSE
INVARIANTS
  TypeOK
  RegistryMatchesHost
  AppliedEnvironmentIsReal
  LockIsAccountedFor
  AnsweredIsRecoverable
