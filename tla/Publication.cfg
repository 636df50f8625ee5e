CONSTANTS
  edit = edit
  file = file
  folder = folder
  human = human
  NoBranch = NoBranch
  Edits <- OneEdit
  Files <- OneFile
  Folders <- OneFolder
  HumanWorks <- OneHuman
  MaxPublications = 3
  MaxPreparations = 2
  MaxFaults = 2
SPECIFICATION Spec
INVARIANT PublishedIsDelivered
PROPERTY KeepsContract
CHECK_DEADLOCK FALSE
