SPECIFICATION Spec
CONSTANTS
  r1 = r1
  r2 = r2
  r3 = r3
  Resource = {r1, r2, r3}
  VersionCount = 4
  MaxStaleness = 2
  MaxSlots = 2
  MaxSignals = 5
SYMMETRY Symmetry
INVARIANTS OnePlacePerSlot OnlyOwnersHandleValid InFlightResourcesAlive
PROPERTIES GrowsOnlyWhenBusy ImplementsLedger
CHECK_DEADLOCK FALSE
