SPECIFICATION Spec
CONSTANTS
  Programs <- Fitting
  Limit = 40
  HashOf <- Hash
INVARIANTS
  SameEvents
  BlocksAreComplete
CHECK_DEADLOCK FALSE
