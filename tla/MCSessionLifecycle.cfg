\* Three concurrent commands over two sessions, a starved spawn included.
CONSTANTS
  c1 = c1
  c2 = c2
  c3 = c3
  Commands = {c1, c2, c3}
  NoCommand = NoCommand
  MaxStarts = 2
  SpawnMayStarve = TRUE
SPECIFICATION Spec
SYMMETRY CommandSymmetry
INVARIANTS
  TypeOK
  SessionsApart
  CaptureHasOwner
  EveryLoopStoppable
  OverlayStaysShown
PROPERTIES
  CaptureClosedByOwner
  ImplementsSession
