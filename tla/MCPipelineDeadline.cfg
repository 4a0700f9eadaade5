SPECIFICATION Spec
CONSTANTS
  l1 = l1
  l2 = l2
  Lines = {l1, l2}
  EmptyClearFrames = 2
  MaxSessionId = 2
  MaxCaptures = 4
  MaxMoves = 0
  Faults <- Deadline
INVARIANTS SkipMeansShown
