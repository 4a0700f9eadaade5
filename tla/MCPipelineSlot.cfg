SPECIFICATION Spec
CONSTANTS
  l1 = l1
  l2 = l2
  Lines = {l1}
  EmptyClearFrames = 1
  MaxSessionId = 3
  MaxCaptures = 2
  MaxMoves = 1
  Faults <- AnyFault
INVARIANTS TypeOK NoTranslationOutrun StoppedStaysBlank
PROPERTIES SlotReleased ClaimedThenMovedIsDropped DiscardOnlyWhenUnwanted
