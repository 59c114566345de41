SPECIFICATION Spec
CONSTANTS
  Buffers <- ThreeBuffers
  Views <- TwoViews
  Byte <- Bits
  Sizes <- OneOrTwo
  Word = 16
  MaxBlock = 4
  Values <- Stored
  Counts <- SomeCounts
  Offsets <- SomeOffsets
  Indices <- SomeIndices
VIEW State
CONSTRAINT Small
CHECK_DEADLOCK FALSE
INVARIANTS WindowsInside
PROPERTIES ImplementsBytes
