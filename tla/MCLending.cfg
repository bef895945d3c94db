SPECIFICATION LendingSpec
CONSTANTS
  Ranks <- TwoRanks
  Tuned = TRUE
  Storing = FALSE
  Limit <- Odd
  TunedProcs <- TwoProcs
  Candidates <- AllAlgs
  Items <- OneCall
  MaxItems = 1
INVARIANTS TypeOK Exclusive NestingBounded NoMismatch OwnBytes
PROPERTIES GetsOn LawfulUse
