SPECIFICATION FairSpec
CONSTANTS
  w1 = w1  w2 = w2  Nil = Nil
  Workers = {w1, w2}
CHECK_DEADLOCK FALSE
INVARIANTS TypeOK OneWorker ForwardedStopLeavesNoWorker RunningHasPidFile
PROPERTIES StopEnds WorkerIsRestarted
