CONSTANTS
  NoEvent = NoEvent
  r1 = r1
  r2 = r2
  r3 = r3
  y1 = y1
  s1 = s1
  s2 = s2
  PullRequests <- TwoPullRequests
  Messages <- Payloads
  Requests <- ThreeRequests
  Syncs <- OneSync
  Secured <- OnlyGitHub
  Checks <- ListedChecks
  Comments <- ListedComments
  MaxOpen = 1
  MaxDeliveries = 2
  MaxSeen = 1
  MaxFaults = 1
SPECIFICATION Spec
SYMMETRY RequestsAlike
INVARIANT EmittedOnce
INVARIANT NothingDropped
CHECK_DEADLOCK FALSE
