SPECIFICATION FairSpec
CONSTANTS
  N = 2
  Width = 8
  WorkListBehind = TRUE
  NULL = NULL
  MaxCollections = 2
  MaxEntries = 4
CHECK_DEADLOCK FALSE
INVARIANTS GcInv FirstMarkIsComplete
PROPERTIES MarkingEnds
