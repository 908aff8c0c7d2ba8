CONSTANTS
  Jobs = {j1, j2}
  Callers = {c1, Watcher}
  Watcher = Watcher
  NoJob = NoJob
  NoRequest = NoRequest
  f1 = f1
  f2 = f2
  f3 = f3
  music = music
  books = books
  Folders <- mcFolders
  Libraries <- mcLibraries
  LibraryOf <- mcLibraryOf
  Requests <- mcRequests
  OtherRequests <- mcKeepScan
  ExternalScan = FALSE
  ScanErrors = FALSE
  RowErrors = FALSE
  MaxCrashes = 0
  MaxChanges = 1
  MaxRequests = 1
  MaxRebuilds = 0
SPECIFICATION WatchSpec
PROPERTY OwedWorkIsScanned
CHECK_DEADLOCK FALSE
