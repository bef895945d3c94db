SPECIFICATION Spec
CONSTANTS
  Directories <- WithRejected
  Garbage <- MCGarbage
  Width <- MCWidth
  Queries <- SmallQueries
  MaxFills = 2
INVARIANTS LookupsTrue
