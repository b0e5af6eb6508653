\* Workers and dispatchers die between any two commands.
SPECIFICATION Spec
CONSTANTS
  ja = ja
  jb = jb
  None = None
  Job = {ja, jb}
  PolicyOf <- Policies
  Delays = {0, 3}
  Worker = {w1, w2}
  TicksPerSecond = 2
  Faults = TRUE
SYMMETRY Symmetric
INVARIANTS
  OneCopy
  PolicyHonoured
