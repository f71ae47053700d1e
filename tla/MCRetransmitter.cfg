SPECIFICATION Spec
CONSTANTS
  Intervals = {1, 2, 3}
  MaxPackets = 3
  MaxPasses = 5
INVARIANTS TypeOK IdsAscending CountBelowSec
PROPERTIES ScanUndisturbed KeepsPromise
CHECK_DEADLOCK FALSE
