SPECIFICATION FairSpec
CONSTANTS
  activate = activate
  again = again
  compose = compose
  inspect = inspect
  domain = domain
  project = project
  server = server
  key = key
  NoJob = NoJob
  NoKey = NoKey
  Jobs = {activate, again, compose, inspect}
  Resources = {domain, project, server}
  Keys = {key}
  ResourceOf <- MCResourceOf
  KeyOf <- MCKeyOf
  Inspections = {inspect}
  ComposeJobs = {compose}
  StateProven = {again}
  Refusable = {activate}
  Unsupported = {again}
  MaxFaults = 1
  MaxCrashes = 2
  AllowCancel = TRUE
CHECK_DEADLOCK FALSE
INVARIANTS
  TypeOK
  AtMostOnce
  SuccessIsReal
  NoDuplicateJob
  JournalFitsStore
  MemoryIsDurable
PROPERTIES
  SidecarReleasedOnlySettled
  ImplementsLifecycle
  ResultsAreReconciled
  QueuedJobFinishes
