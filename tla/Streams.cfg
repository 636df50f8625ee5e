CONSTANTS
  s1 = s1
  s2 = s2
  s3 = s3
  e1 = e1
  Handlers <- ThreeStreams
  Events <- OneEvent
SPECIFICATION Spec
CHECK_DEADLOCK FALSE
INVARIANTS
  NothingMissed
  NeverDoubled
PROPERTY EventsArrive
