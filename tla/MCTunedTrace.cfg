SPECIFICATION Spec
CONSTANTS
  Ranks <- TwoRanks
  Tuned = TRUE
  Storing = TRUE
  Limit <- Ample
  TunedProcs <- TwoProcs
  Candidates <- Circle
  Items <- CircleCalls
  MaxItems = 1
INVARIANT TraceTruth
