CONSTANTS
  l1 = l1
  l2 = l2
  s1 = s1
  s2 = s2
  o1 = o1
  None = None
  Local <- TwoLocal
  Sessions <- TwoSessions
  Old <- OneOld
  Cap = 2
  Mixes <- SmallMixes
SYMMETRY Symmetric
SPECIFICATION PageSpec
CHECK_DEADLOCK FALSE
INVARIANTS
  ConversationsHoldTogether
  StreamsMatchSessions
  
  StatusIsTheLastWord
