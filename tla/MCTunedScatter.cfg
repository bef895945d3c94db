SPECIFICATION Spec
CONSTANTS
  Ranks <- TwoRanks
  Tuned = TRUE
  Storing = FALSE
  Limit <- Ample
  TunedProcs <- TwoProcs
  Candidates <- AllAlgs
  Items <- LooseScatter
  MaxItems = 1
INVARIANT NoMismatch
