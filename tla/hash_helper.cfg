SPECIFICATION Spec
CONSTANTS
  kSame1 = kSame1
  kSame2 = kSame2
  kSame3 = kSame3
  kSame4 = kSame4
  kOdd1 = kOdd1
  kOdd2 = kOdd2
  kFar1 = kFar1
  kFar2 = kFar2
  NULL = NULL
  Keys <- MCKeys
  Values = {v1}
  HashOf <- MCHashOf
  InitialBuckets = 1
  Thresh = 2
  MaxBuckets = 8
  MaxElements = 6
SYMMETRY MCSymmetry
INVARIANTS
  Consistent
  ChainsBounded
PROPERTIES
  ActsOnTable
CHECK_DEADLOCK FALSE
