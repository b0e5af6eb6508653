\* A claim whose SELECT is stale under read committed.
SPECIFICATION Spec
CONSTANTS
  ju = ju
  jn = jn
  None = None
  Job = {ju, jn}
  UniqueJob = {ju}
  Handled = {ju, jn}
  PolicyOf <- Policies
  QueueOf <- OneQueue
  QueueList <- DefaultQueue
  Delays = {0}
  Connections = {"database"}
  Worker = {w1, w2}
  Dispatcher = {d1}
  Admin = {}
  RowId = {r1}
  FailedId = {f1}
  MaxJobs = 2
  Isolation = "read_committed"
  Faults = FALSE
  LeaseExpiry = FALSE
INVARIANTS
  AttemptBudget
