\* A spawned task is polled within a second; its captures may hang.
CONSTANTS
  c1 = c1
  c2 = c2
  Commands = {c1, c2}
  NoCommand = NoCommand
  MaxStarts = 2
  SpawnMayStarve = FALSE
SPECIFICATION HungSpec
INVARIANTS
  StopLeavesStopped
PROPERTIES
  StoppingEnds
