SPECIFICATION Spec
CONSTANTS
  Ranks <- TwoRanks
  Tuned = FALSE
  Storing = TRUE
  Limit <- Tight
  TunedProcs <- TwoProcs
  Candidates <- AllAlgs
  Items <- CliItems
  MaxItems = 3
INVARIANTS NoOrphans TraceTruth FallsBackOnlyOverLimit HeldUpByMembers
PROPERTY LeavesAfterAllEntered
