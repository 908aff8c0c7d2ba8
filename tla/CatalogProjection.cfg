SPECIFICATION FairSpec
CONSTANTS
  Actors = {h1, h2, s}
  Scanners = {s}
  Admins = {h2}
  Entities = {album, mix}
  Playlists = {mix}
  Scanned = {album}
  Clients = {phone}
  Buffer = 1
  CommitsFail = TRUE
  MaxVersion = 2
  MaxWrites = 3
  MaxCalls = 1
  None = None
INVARIANTS QuietIsCurrent QuietClientsAreCurrent
PROPERTIES NotifiedIsProjected ProjectionNeverRegresses CommitsReachClients
CHECK_DEADLOCK FALSE
