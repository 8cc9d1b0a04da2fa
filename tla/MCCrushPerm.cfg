CONSTANTS
  t1 = t1
  t2 = t2
  Thread <- TwoThreads
  X <- MCX
  MaxSize <- MCSize
SPECIFICATION PermSpec
INVARIANTS
  TypeOK
  ReturnsPermutation
  PermIsDefinedForX
PROPERTY
  CallsReturn
