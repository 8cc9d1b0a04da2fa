CONSTANTS
  Kinds <- MCKinds
  Rebuilt <- MCRebuilt
  Lists <- MCLists
  MaxCopies = 3
  MaxHash = 4
  NNCopies <- MCNNCopies
  CutFactor = 2
  ShareCopies = 1
  StretchHalves <- MCStretchHalves
  Primes <- MCPrimes
  Offset = 3
  None = None
SPECIFICATION FairSpec
    
PROPERTIES CallsEnd
