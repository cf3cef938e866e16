SPECIFICATION DispatchSpec
CONSTANTS
  Thread = {t1}
  MaxSections = 0
  NumRows = 4
  StringRoom = 4
  None = None
  Arguments <- MCFloat2
  Capacity <- MCCapacity
  MaxAsserts = 2
  MaxScant = 1
  MaxWork = 2
  MaxEntries = 4
INVARIANT PrintsOnlyArguments
CHECK_DEADLOCK FALSE
