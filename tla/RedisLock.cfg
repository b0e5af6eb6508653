\* Two workers race for two redis jobs, and nothing fails; two clients whose
\* guards are released, dropped or lost, and flushes of the store.
SPECIFICATION BothSpec
CONSTANTS
  ja = ja
  jb = jb
  None = None
  Job = {ja, jb}
  PolicyOf <- Policies
  Delays = {0}
  Worker = {w1, w2}
  TicksPerSecond = 2
  Faults = FALSE
  Client = {c1, c2}
  Token = {t1, t2, t3, t4}
  Ttl = 2
  MaxTasks = 1
  Wait = 1
  LockFaults = TRUE
  NoToken = NoToken
INVARIANTS
  PendingIndexed
  MutualExclusion
PROPERTIES
  ImplementsContract
  EveryJobSettles
  OnlyOwnerDeletes
  BlockReturns
  LeaseEnds
