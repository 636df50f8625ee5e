CONSTANTS
  w1 = w1
  w2 = w2
  v1 = v1
  v2 = v2
  c1 = c1
  c2 = c2
  start = start
  decision = decision
  complete = complete
  Workers <- OneWorker
  Visits <- OneVisit
  Commands <- TwoCommands
  Events <- ShortSession
  Started = start
  ApiEvents <- StartOnly
  Terminal <- Completion
  Replay = Replay
  None = None
  StorageMayFail = TRUE
  MaxQueue = 1
SPECIFICATION FairSpec
CHECK_DEADLOCK FALSE
INVARIANT NoLostWakeup
PROPERTY PendingIsClaimed
PROPERTY WorkerComesFree
