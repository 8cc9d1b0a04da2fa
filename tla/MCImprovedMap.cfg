CONSTANT W <- MCW
SPECIFICATION RingSpec
INVARIANTS
  LookupIsRingPredecessor
  NoStepBelowBegin
  RingInv
PROPERTY
  ConstructionCompletes
