SPECIFICATION ClientSpec
CONSTANTS
  client = client
  Client = {client}
  Flight = flight
  Pid = {1, 2}
  StartsOnCpu = FALSE
  MaxCalls = 2
  MaxTroubles = 1
  MaxStops = 1
INVARIANTS ClientTypeOK ShutdownReaches InstallingIsNotReady InterruptedCheckLocksCpu
  ChangedConfigApplies
PROPERTIES CallsEnd FailureHeals
CHECK_DEADLOCK FALSE
