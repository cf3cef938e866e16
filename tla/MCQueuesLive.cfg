SPECIFICATION FairSpec
CONSTANTS
  a = a
  b = b
  c = c
  j1 = j1
  j2 = j2
  j3 = j3
  Queue = {a, b, c}
  Job = {}
  MaxSignals = 1
  MaxPending = 2
  FutureWaits = FALSE
INVARIANT NeverStuck
PROPERTIES CallsReturn
