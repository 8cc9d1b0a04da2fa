CONSTANTS
  d1 = d1
  d2 = d2
  DiskList <- MCDiskList
  Borders <- MCBorders
  MaxThreads <- MCThreads
SPECIFICATION Spec
INVARIANTS
  TypeOK
  AccessesAreExclusive
  LocksOutliveThreads
  IInv
PROPERTIES
  ImplementsShareBuild
  SetDisksReturns
