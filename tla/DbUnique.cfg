\* Serializable claims with crashes and store errors: attempt accounting, backoff and uniqueness.
SPECIFICATION Spec
CONSTANTS
  ju = ju
  jn = jn
  None = None
  Job = {ju, jn}
  UniqueJob = {ju}
  Handled = {ju, jn}
  PolicyOf <- PatientPolicies
  QueueOf <- OneQueue
  QueueList <- DefaultQueue
  Delays = {0, 1}
  Connections = {"database", "unregistered"}
  Worker = {w1, w2}
  Dispatcher = {d1}
  Admin = {}
  RowId = {r1, r2}
  FailedId = {f1, f2}
  MaxJobs = 2
  Isolation = "serializable"
  Faults = TRUE
  LeaseExpiry = FALSE
SYMMETRY Symmetric
INVARIANTS
  AttemptsAuthoritative
  BackoffHonoured
  UniqueInFlight
