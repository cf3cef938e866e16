SPECIFICATION DispatchFairSpec
CONSTANTS
  Thread = {t1, t2}
  MaxSections = 4
  NumRows = 3
  StringRoom = 3
  None = None
  Arguments <- MCArguments
  Capacity <- MCCapacity
  MaxScant = 0
  MaxAsserts = 2
  MaxWork = 4
  MaxEntries = 3
INVARIANTS LeavesInOrder RecordsApart ReportsNamePlaces PrintsArguments
PROPERTY TestEnds
CHECK_DEADLOCK FALSE
