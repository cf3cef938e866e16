SPECIFICATION StatesSpec
CONSTANTS
  None = None
  b1 = b1
  b2 = b2
  b3 = b3
  b4 = b4
  a1 = a1
  a2 = a2
  Buffer = {b1, b2, b3, b4}
  Allocator = {a1, a2}
  MaxSignals = 6
SYMMETRY Symmetry
INVARIANTS BarriersContinue SubmittedBuffersAlive ReadbacksKeepBuffers
CHECK_DEADLOCK FALSE
