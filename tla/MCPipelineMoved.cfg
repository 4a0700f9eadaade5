SPECIFICATION Spec
CONSTANTS
  l1 = l1
  l2 = l2
  Lines = {l1}
  EmptyClearFrames = 2
  MaxSessionId = 2
  MaxCaptures = 3
  MaxMoves = 1
  Faults <- NoFaults
PROPERTIES ShownIsOfThisRegion
