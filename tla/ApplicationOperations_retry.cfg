\* One request together with the executor, no crash and no failed write.
SPECIFICATION FairSpec
CONSTANTS
  c1 = c1
  c2 = c2
  Clients = {c1, c2}
  Exec = exec
  Nobody = nobody
  MaxOps = 1
  Retention = 2
  Disturbances = {"update"}
  MaxDisturbed = 1
CHECK_DEADLOCK FALSE
PROPERTIES
  StoredResultsAreReconciled
