CONSTANTS
  Workers = {w1, w2, w3}
  Requests = {page, stream}
  Streams = {stream}
CHECK_DEADLOCK FALSE
SPECIFICATION FairSpec
INVARIANTS DrainedMeansNoWorker
PROPERTIES NoAddDuringWait StopsAfterSignal
