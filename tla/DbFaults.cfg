\* Read committed claims with crashes, an expiring lease, a job without a handler, an unknown connection and an operator.
SPECIFICATION Spec
CONSTANTS
  ju = ju
  jn = jn
  None = None
  Job = {ju, jn}
  UniqueJob = {ju}
  Handled = {ju}
  PolicyOf <- Policies
  QueueOf <- OneQueue
  QueueList <- DefaultQueue
  Delays = {0}
  Connections = {"database", "unregistered"}
  Worker = {w1, w2}
  Dispatcher = {d1}
  Admin = {a1}
  RowId = {r1, r2}
  FailedId = {f1, f2}
  MaxJobs = 1
  Isolation = "read_committed"
  Faults = TRUE
  LeaseExpiry = TRUE
SYMMETRY Symmetric
INVARIANTS
  ClaimExclusive
  OneVerdict
  NothingLost
PROPERTIES
  ImplementsContract
