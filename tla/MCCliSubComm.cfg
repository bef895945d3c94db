SPECIFICATION Spec
CONSTANTS
  Ranks <- TwoRanks
  Tuned = FALSE
  Storing = FALSE
  Limit <- Tight
  TunedProcs <- TwoProcs
  Candidates <- AllAlgs
  Items <- SubCommItems
  MaxItems = 3
INVARIANT NoMismatch
