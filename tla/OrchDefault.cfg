CONSTANTS
  Steps <- DefaultWorkflow
  RetryOff <- NoRetryOff
  Processes = {p1}
  Repository <- OnlyWithRepo
  PrepareMayFail = FALSE
  PublishOutcomes <- PublishChanged
  AgentMayThrow = TRUE
  Feedback <- AllFeedback
  MaxStarts = 1
  MaxRejections = 4
  MaxFeedback = 2
SPECIFICATION FairSpec
INVARIANT OneStepAtATime
INVARIANT CompletedIsPublished
 
PROPERTY PublishOnlyReviewed
 
CHECK_DEADLOCK FALSE
