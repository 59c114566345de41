SPECIFICATION Spec
CONSTANTS
  Chars <- TwoLetters
  Literals <- OneLiteral
  Positions <- SmallNumbers
  MaxStrings = 3
  AnyBase = FALSE
  Outside = "b"
INVARIANTS StringInv AnswersAgree IterationReadsText
PROPERTIES TextsAreKept
CHECK_DEADLOCK FALSE
