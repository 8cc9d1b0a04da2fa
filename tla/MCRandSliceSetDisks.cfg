CONSTANTS
  VSPACE_MAX <- MCSpace
  MaxDisks <- MCDisks
  MaxCapacity <- MCCapacity
SPECIFICATION Spec
INVARIANT
  DisksAreTheOnesSet
CHECK_DEADLOCK FALSE
