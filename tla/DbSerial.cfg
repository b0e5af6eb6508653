\* Two workers, two queues, serializable claims, no faults.
SPECIFICATION FairSpec
CONSTANTS
  ju = ju
  jn = jn
  None = None
  Job = {ju, jn}
  UniqueJob = {ju}
  Handled = {ju, jn}
  PolicyOf <- Policies
  QueueOf <- Queues
  QueueList <- BothQueues
  Delays = {0, 1}
  Connections = {"database"}
  Worker = {w1, w2}
  Dispatcher = {d1}
  Admin = {}
  RowId = {r1, r2}
  FailedId = {f1, f2}
  MaxJobs = 2
  Isolation = "serializable"
  Faults = FALSE
  LeaseExpiry = FALSE
INVARIANTS
  AttemptBudget
  NoWedgedLease
  DrainedAfterFullCycle
PROPERTIES
  EveryJobSettles
