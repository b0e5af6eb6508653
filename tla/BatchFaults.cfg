\* Workers die in a call, the dispatch stops half way, one job runs in another process.
SPECIFICATION Spec
CONSTANTS
  Member = {j1, j2, j3}
  Remote = {j3}
  UniqueMember = {j3}
  MaxAppendRetries = 2
  MaxRetries = 0
  PartialDispatch = TRUE
  Faults = TRUE
  None = None
SYMMETRY Symmetric
\* A batch whose calls are over has nothing left to do.
CHECK_DEADLOCK FALSE
INVARIANTS
  PendingExact
  FinishedMeansComplete
PROPERTIES
  ImplementsContract
