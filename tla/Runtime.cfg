CONSTANTS
  p1 = p1
  p2 = p2
  c1 = c1
  c2 = c2
  s1 = s1
  Callers <- TwoProcesses
  Commands <- TwoCommands
  SessionItems <- OneSession
  Items <- AllItems
  First = c1
  Successor <- InOrder
  Session = s1
  Restarted <- OneRestarted
  Environments <- SmallEnvironments
  MaxStarts = 2
  None = None
SPECIFICATION FairSpec
INVARIANT ExecutedOnce
INVARIANT NothingLost
INVARIANT ReleasedIsQuiet
INVARIANT HeardUnlessStopping
INVARIANT EveryRoleServed
PROPERTY KeepsContract
PROPERTY CommandsEnd
PROPERTY ShutdownEnds
CHECK_DEADLOCK FALSE
