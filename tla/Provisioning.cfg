SPECIFICATION ProvFairSpec
CONSTANTS
  Pids = {1, 2}
  RecordMayFail = FALSE
  LookupMayFail = FALSE
  SlowLookups = FALSE
  Foreigners = {"port", "wda"}
  StoreMayFail = TRUE
  MaxCrashes = 1
INVARIANTS
  ProvTypeOK
  ProcessesAreKept
PROPERTIES
  LifecycleCompletes
CHECK_DEADLOCK FALSE
