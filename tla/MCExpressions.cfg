SPECIFICATION Spec
CONSTANTS
  Rich = {"1", "x", "g"}
INVARIANT SameMeaning
CHECK_DEADLOCK FALSE
