SPECIFICATION Spec
CONSTANTS
  a = a
  b = b
  c = c
  j1 = j1
  j2 = j2
  j3 = j3
  Queue = {a, b}
  Job = {j1, j2}
  MaxSignals = 2
  MaxPending = 2
  FutureWaits = TRUE
SYMMETRY Symmetry
INVARIANTS ReachedMeansDone WaitTellsTruth FlushIsBarrier
PROPERTIES ImplementsTimelines
CHECK_DEADLOCK FALSE
