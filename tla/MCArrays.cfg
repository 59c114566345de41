SPECIFICATION Spec
CONSTANTS
  A = A
  B = B
  Vals <- TwoVals
  Undef = Undef
  Zero = Zero
  Hole = Hole
  Garbage = Garbage
  Spare = 1
  Slack = 1
  Word = 256
  Indices <- SomeIndices
  Starts <- NearStarts
  Counts = {0, 1}
  Args <- ArgLists
  MaxLen = 3
  LoopLen = 2
  MaxDepth = 1
CHECK_DEADLOCK FALSE
INVARIANTS ArrayInv
PROPERTIES OnlyPositionsOrItselfFail LoopsSeeWhatIsThere ImplementsSequence
