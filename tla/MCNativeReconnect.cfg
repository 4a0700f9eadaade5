SPECIFICATION NativeSpec
CONSTANTS
  Regions = {r1, r2}
  MaxMessages = 2
  MaxLosses = 1
  MaxBackoff = 2
INVARIANT KeepsReconnecting
CHECK_DEADLOCK FALSE
