CONSTANTS
  MaxP = 4
  MaxN = 7
  MaxChunked = 17
  ScanCommutes = TRUE
  Calls <- MCCalls
SPECIFICATION Spec
INVARIANTS TypeOK Equivalent InBounds UserDataOnly
CHECK_DEADLOCK FALSE
