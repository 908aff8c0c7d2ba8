SPECIFICATION FairSpec
CONSTANTS
  Streamers = {s1}
  Listeners = {l1, l2}
  Loops = {p1, p2, p3}
  NoStreamer = NoStreamer
  NoLoop = NoLoop
  PromptUnwind = TRUE
  LoopsPanic = FALSE
  Shuts = TRUE
  MaxUpdates = 1
  MaxCallbacks = 2
INVARIANTS RegisteredHasOneLoop RegisteredIsStarted
PROPERTIES AttachedGetsALoop AbandonedLoopStops
CHECK_DEADLOCK FALSE
