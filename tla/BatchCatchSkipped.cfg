\* Two workers of one process record the outcomes of a batch.
SPECIFICATION Spec
CONSTANTS
  Member = {j1, j2}
  Remote = {}
  UniqueMember = {}
  MaxAppendRetries = 8
  MaxRetries = 0
  PartialDispatch = FALSE
  Faults = FALSE
  None = None

\* A batch whose calls are over has nothing left to do.
CHECK_DEADLOCK FALSE
INVARIANTS
  CatchNotSkipped
