CONSTANTS
  VSPACE_MAX <- MCSpace
  MaxDisks <- MCDisks
  MaxCapacity <- MCCapacity
SPECIFICATION Spec
INVARIANTS
  TypeOK
  TableMatchesTree
  
  FreeSpaceMeetsDemand
  FreeSpaceIsOld
PROPERTIES
  MovesOnlyToNewDisks
  SetDisksReturns
CHECK_DEADLOCK FALSE
