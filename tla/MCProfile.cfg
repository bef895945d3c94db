SPECIFICATION Spec
CONSTANTS
  Directories <- CleanDirs
  Garbage <- MCGarbage
  Width <- MCWidth
  Queries <- SmallQueries
  MaxFills = 2
INVARIANTS TypeOK PassesAgree LookupsTrue
