SPECIFICATION ProvSpec
CONSTANTS
  Pids = {1, 2}
  RecordMayFail = FALSE
  LookupMayFail = FALSE
  SlowLookups = FALSE
  Foreigners = {}
  StoreMayFail = FALSE
  MaxCrashes = 0
PROPERTY StoppedStaysStopped
CHECK_DEADLOCK FALSE
