SPECIFICATION StoreSpec
CONSTANTS
  Core = {c1, c2}
  Reclaimer = {r1}
  MaxTroubles = 0
  MaxReclaims = 1
  UnlinkRaces = TRUE
INVARIANT NoRepairUnderAnEngine
CHECK_DEADLOCK FALSE
