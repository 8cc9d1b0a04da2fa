CONSTANTS
  a = a
  b = b
  MIN <- MCMin
  MAX <- MCMax
  Key <- MCKey
  Value <- MCValue
  InitVal = a
SPECIFICATION TreeSpec
INVARIANTS
  TreeTypeOK
  Canonical
  SearchFindsRun
  TreeAgreesWithList
  DescentEndsAtPair

  
