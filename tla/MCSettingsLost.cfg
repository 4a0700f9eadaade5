SPECIFICATION SettingsSpec
CONSTANTS
  Saver = {s1}
  MaxSaves = 1
  MaxLaunches = 2
  MaxLocks = 1
  MaxDamages = 1
INVARIANT SettingsSurvive
CHECK_DEADLOCK FALSE
