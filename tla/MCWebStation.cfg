SPECIFICATION FairSpec
CONSTANTS
  Channels = {"A", "B"}
  Scenes <- MCScenes
  MaxLoads = 2
  MaxSaves = 1
INVARIANTS
  PollingGoesOn
  PlanGoesToItsChannel
PROPERTIES
  PageCatchesUp
  ImplementsViews
CHECK_DEADLOCK FALSE
