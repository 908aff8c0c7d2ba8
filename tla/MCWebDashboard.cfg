SPECIFICATION DashboardSpec
CONSTANTS
  Sessions <- MCSessions
  MusicModes = {"playlists", "favorites"}
  MaxPages = 2
  Queries = {"abba", "bach"}
  MaxLoads = 2
  MaxChains = 2
  Songs = {"song"}
  Albums = {"album"}
  MaxRevision = 2
  MaxCalls = 1
  MaxPosts = 2
  Titles <- MCTitles
  MaxAsking = 1
  Finds <- MCFinds
  Wanted <- MCWanted
  Played <- MCPlayed
INVARIANTS
  NothingWaitsInVain
  MusicListIsWhole
  SearchShowsItsQuery
  ImportIsFollowed
  NewestResultsStay
  NothingIsAskedForTwice
PROPERTIES
  ReportIsHeard
  CompletedAtTheEnd
CHECK_DEADLOCK FALSE
