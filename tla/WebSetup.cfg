SPECIFICATION SetupSpec
CONSTANTS
  MaxJobs = 2
  Buffer = 1
  MaxCalls = 1
  MaxBreaks = 1
  MaxTimers = 2
  Libraries = {shelf, crate}
  MaxAsks = 2
INVARIANTS
  RunningIsExplained
  EndIsUnderWay
  ScanButtonIsExplained
  ScanCardHasLibraries
CHECK_DEADLOCK FALSE
