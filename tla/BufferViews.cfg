SPECIFICATION ViewsSpec
CONSTANTS
  InitialSize = 2
  MaxUAVs = 2
  MaxCBVs = 2
  MaxViews = 8
  MaxSignals = 8
  NoHeap = NoHeap
INVARIANTS HeapsOutliveWork WorkSeesItsViews
CHECK_DEADLOCK FALSE
