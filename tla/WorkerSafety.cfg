CONSTANTS
  w1 = w1
  w2 = w2
  v1 = v1
  v2 = v2
  c1 = c1
  c2 = c2
  start = start
  decision = decision
  complete = complete
  Workers <- TwoWorkers
  Visits <- TwoVisits
  Commands <- TwoCommands
  Events <- TinySession
  Started = start
  ApiEvents <- StartOnly
  Terminal <- Completion
  Replay = Replay
  None = None
  StorageMayFail = TRUE
  MaxQueue = 1
SYMMETRY Symmetry
SPECIFICATION Spec
INVARIANT ExecutesOwnClaim
 
PROPERTY ClaimedOnce
CHECK_DEADLOCK FALSE
