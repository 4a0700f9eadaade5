SPECIFICATION ShellSpec
CONSTANTS
  MaxLines = 3
  MaxResets = 1
  MaxHistory = 2
  KeptLines = 1
  MaxAttempts = 2
  MaxRecent = 2
  Saver = {s1, s2}
  MaxSaves = 3
  MaxLaunches = 3
  MaxLocks = 2
  MaxDamages = 1
  MaxPages = 3
  MaxShows = 3
  MaxConns = 3
  MaxQueue = 2
  Text = {"t1", "t2", "n1", "n2"}
  Similar <- Similars
  Template <- Templates
  MinCue = 1
  Static = 3
  MaxGap = 2
  Hold = 2
  MinObs = 2
  Retire = 4
  Intervals = {1, 3}
  MaxAge = 8
  MaxRechecks = 2
  MaxAsked = 4
  Areas = {1, 2}
  MaxStarts = 2
  MaxMoves = 1
  MaxOpenings = 3
  MaxPrepares = 3
INVARIANTS ShellTypeOK SettingsStayUntilUnfound PagesAgree
PROPERTIES TierOnlyFalls BandsAdmit WorkEnds
CHECK_DEADLOCK FALSE
