CONSTANTS
  Jobs = {j1, j2}
  Callers = {c1, Watcher}
  Watcher = Watcher
  NoJob = NoJob
  NoRequest = NoRequest
  f1 = f1
  f2 = f2
  f3 = f3
  music = music
  books = books
  Folders <- mcTwoFolders
  Libraries <- mcLibraries
  LibraryOf <- mcTwoLibraryOf
  Requests <- mcRequests
  OtherRequests <- mcFullScan
  ExternalScan = FALSE
  ScanErrors = FALSE
  RowErrors = FALSE
  MaxCrashes = 0
  MaxChanges = 2
  MaxRequests = 1
  MaxRebuilds = 1
SPECIFICATION WatchSpec
INVARIANTS OwedWorkHasATimer NoChangeForgotten
PROPERTIES ChangesAreScanned RemovalsAreReconciled
CHECK_DEADLOCK FALSE
