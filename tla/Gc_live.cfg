SPECIFICATION Spec
CONSTANTS
  N = 2
  Width = 8
  WorkListBehind = FALSE
  NULL = NULL
  MaxCollections = 2
  MaxEntries = 4
CHECK_DEADLOCK FALSE
INVARIANTS LiveIsKept
