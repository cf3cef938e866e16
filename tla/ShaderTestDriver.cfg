SPECIFICATION DriverFairSpec
CONSTANTS
  None = None
  Buffer = {b1, b2, b3, b4, b5, b6, b7, b8, b9, b10, b11, b12, b13, b14}
  Allocator = {a1, a2, a3, a4, a5}
  MaxSignals = 37
  MaxRuns = 4
INVARIANT BuffersReturned
PROPERTIES RunsResetIdleAllocators RunsReadCopies RunsEnd
CHECK_DEADLOCK FALSE
