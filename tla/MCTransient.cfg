SPECIFICATION SmallSpec
CONSTANTS
  r1 = r1
  r2 = r2
  r3 = r3
  h1 = h1
  h2 = h2
  h3 = h3
  Resource = {r1, r2, r3}
  Holder = {h1, h2, h3}
  Nothing = Nothing
  MaxSignals = 5
  Item <- FencedResource
  Vacant = Vacant
  Moved = Moved
  Refused = Refused
  MaxCells = 7
  Width = 1024
  NumDescriptors = 8
  Increment = 2
  CPUStart = 3
  GPUStart = 0
  RingSize = 5
  None = None
  Stored = {"u", "v"}
  SlotLimit = 4
  VersionLimit = 3
SYMMETRY Symmetry
INVARIANTS
  DescriptorsApart
  HandlesNameTheirValue
PROPERTIES
  ImplementsFifo
  LentAlone
CHECK_DEADLOCK FALSE
