CONSTANTS
  Jobs = {j1, j2}
  Callers = {c1, c2}
  NoJob = NoJob
  NoRequest = NoRequest
  f1 = f1
  f2 = f2
  music = music
  books = books
  Folders <- mcFolders
  Libraries <- mcLibraries
  LibraryOf <- mcLibraryOf
  Requests <- mcRequests
  ExternalScan = FALSE
  ScanErrors = FALSE
  RowErrors = TRUE
  MaxCrashes = 1
SPECIFICATION FairSpec
INVARIANTS OneScanAtATime OrphanMarkSparesOwners ActiveRowRuns
PROPERTIES TerminalIsFinal ClaimIsReleased RowsSettle
