\* The run of an agent ends.
CONSTANTS
  MaxIterations = 2
  MaxToolSteps = 2
  Tools <- OneTool
  CallIds <- TwoIds
  Batches <- SomeBatches
  Runs <- SomeRuns
  Skills <- OneSkill
  NoId = NoId
  None = None
SPECIFICATION Spec
CHECK_DEADLOCK FALSE
INVARIANT WellFormedConversation
INVARIANT LastWordApproves
PROPERTY RunEnds
