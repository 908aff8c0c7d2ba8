SPECIFICATION Spec
CONSTANTS
  song = song
  episode = episode
  bulletin = bulletin
  music = music
  podcast = podcast
  news = news
  Items = {song, bulletin}
  Sources = {music, podcast, news}
  SourceOf <- mcSourceOf
  Bags = {song}
  Episodes = {}
  Skippers = {k1}
  NoSkip = NoSkip
  Stops = TRUE
  Crashes = TRUE
  MaxPlays = 2
  MaxMissed = 1
INVARIANTS LogMatchesFate PositionIsKept
CHECK_DEADLOCK FALSE
