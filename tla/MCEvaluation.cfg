CONSTANTS
  Lists <- MCLists
  MaxThreads = 3
  MaxExtents = 3
  Blocks = 3
  IdModulus = 3
SPECIFICATION FairSpec
INVARIANTS ResultsAreOfAllExtents MovesCoverChanges
PROPERTIES ComesToResults
