SPECIFICATION Spec
CONSTANTS
  song = song
  episode = episode
  bulletin = bulletin
  music = music
  podcast = podcast
  news = news
  Items = {bulletin}
  Sources = {music, podcast, news}
  SourceOf <- mcSourceOf
  Bags = {}
  Episodes = {}
  Skippers = {k1}
  NoSkip = NoSkip
  Stops = FALSE
  Crashes = FALSE
  MaxPlays = 2
  MaxMissed = 0
INVARIANT SkipForgetsWhatItCuts
CHECK_DEADLOCK FALSE
