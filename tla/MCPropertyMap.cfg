SPECIFICATION Spec
CONSTANTS
  n1 = n1
  n2 = n2
  n3 = n3
  n4 = n4
  NULL = NULL
  Names <- FourNames
  Descs <- TwoDescs
  Nodes <- Addresses
  Hash <- HashOf
  Primes <- SmallPrimes
SYMMETRY Interchangeable
CHECK_DEADLOCK FALSE
INVARIANTS WellLinked LoadBounded
PROPERTIES WalkReadsAll ImplementsTable
