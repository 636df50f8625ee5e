CONSTANTS
  None = None
  Repos = {acme}
  ann = ann
  People = {ann, bob}
  Registered <- OneUser
  Blank = blank
  Threads = {}
  DefaultKey = default
  Slots = {r1, r2}
  Mixes <- SmallMixes
SYMMETRY Symmetry
SPECIFICATION Spec
INVARIANTS
  RecordsSurvive
  
  OneSessionPerMessage
  ThreadKeepsWorkspace
CHECK_DEADLOCK FALSE
