SPECIFICATION FairSpec
CONSTANTS
  Ranks <- TwoRanks
  Tuned = TRUE
  Storing = FALSE
  Limit <- Ample
  TunedProcs <- TwoProcs
  Candidates <- Circle
  Items <- CircleCalls
  MaxItems = 2
PROPERTY Transparent
