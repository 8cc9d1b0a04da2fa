CONSTANTS
  Kinds <- DeepKinds
  Rebuilt <- DeepKinds
  Lists <- RuleLists
  MaxCopies = 3
  MaxHash = 1
  None = None
  MaxWeights = 4
  FullWeight = 4096
  MaxPermuted = 3
SPECIFICATION Spec
INVARIANT
  ReturnsDisks
