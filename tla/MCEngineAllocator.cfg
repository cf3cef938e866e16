SPECIFICATION StatesSpec
CONSTANTS
  None = None
  b1 = b1
  b2 = b2
  b3 = b3
  b4 = b4
  a1 = a1
  a2 = a2
  Buffer = {b1, b2, b3}
  Allocator = {a1, a2}
  MaxSignals = 5
PROPERTY AllocatorResetIdle
CHECK_DEADLOCK FALSE
