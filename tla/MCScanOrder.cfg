CONSTANTS
  MaxP = 4
  MaxN = 7
  MaxChunked = 17
  ScanCommutes = FALSE
  Calls <- MCScans
SPECIFICATION Spec
INVARIANTS Equivalent
CHECK_DEADLOCK FALSE
