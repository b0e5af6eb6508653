\* Failed jobs are retried and report again.
SPECIFICATION FairSpec
CONSTANTS
  Member = {j1, j2}
  Remote = {}
  UniqueMember = {}
  MaxAppendRetries = 8
  MaxRetries = 1
  PartialDispatch = FALSE
  Faults = FALSE
  None = None

\* A batch whose calls are over has nothing left to do.
CHECK_DEADLOCK FALSE
INVARIANTS
  FailedIdsExact
  CallbacksOnce
PROPERTIES
  BatchCompletes
