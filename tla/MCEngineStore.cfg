SPECIFICATION StoreFairSpec
CONSTANTS
  Core = {c1, c2}
  Reclaimer = {r1}
  MaxTroubles = 2
  MaxReclaims = 1
  UnlinkRaces = FALSE
INVARIANTS StoreTypeOK NoRepairUnderAnEngine InstallOkMeansInstalled
PROPERTIES ImplementsContract VerifiedCopyKept RequestsEnd
CHECK_DEADLOCK FALSE
