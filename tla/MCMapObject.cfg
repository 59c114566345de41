SPECIFICATION Spec
CONSTANTS
  Keys <- WithSymbol
  Vals <- OneVal
  Iterators = {i1}
  MaxEntries = 3
  MaxLists = 2
  MaxDepth = 1
CHECK_DEADLOCK FALSE
INVARIANTS TypeOK UniqueKeys
PROPERTIES IterForward ForEachReachesAll ImplementsOrderedMap
