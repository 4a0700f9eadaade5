SPECIFICATION DeskSpec
CONSTANTS
  MaxUrl = 2
  Models = {m1, m2}
  Instruct = {m1}
  Thinking = {m1}
  Score <- Scores
  Regions = {r1, r2}
  MaxMessages = 3
  MaxLosses = 1
  MaxBackoff = 1
  MaxEdits = 3
  MaxFailures = 1
  MaxDrawn = 2
  Boxes = {b1, b2}
  MaxOpens = 2
  MaxDraws = 2
  Tags = {t1, t2}
  MaxCalls = 3
  MaxEnds = 1
  Inputs = {i1, i2}
  Kept = 2
  MaxAnswers = 3
  MaxEngines = 2
  PoolSize = 2
  MaxChanges = 3
  MaxErrors = 2
  MaxLoops = 2
INVARIANTS DeskTypeOK WindowsAgree EnginesAnswer
PROPERTIES SettlesAgain
CHECK_DEADLOCK FALSE
