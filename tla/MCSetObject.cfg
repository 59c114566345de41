SPECIFICATION Spec
CONSTANTS
  Keys <- WithSymbol
  Iterators = {i1}
  MaxEntries = 3
  MaxDepth = 2
CHECK_DEADLOCK FALSE
INVARIANTS SetInv
PROPERTIES IterForward ForEachReachesAll ImplementsES6Set
