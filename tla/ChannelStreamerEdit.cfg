SPECIFICATION Spec
CONSTANTS
  Streamers = {s1, s2}
  Listeners = {l1, l2}
  Loops = {p1, p2, p3}
  NoStreamer = NoStreamer
  NoLoop = NoLoop
  PromptUnwind = TRUE
  LoopsPanic = FALSE
  Shuts = FALSE
  MaxUpdates = 1
  MaxCallbacks = 1
INVARIANT AttachedMeansStarted
CHECK_DEADLOCK FALSE
