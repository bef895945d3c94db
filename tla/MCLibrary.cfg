CONSTANTS
  LEN_KEYVALUE_LIST_BATCH = 2
  INITIAL_MAP_SIZE = 100
  ht_hash <- MCHash
  Worlds <- MCWorlds
  Files <- MCFiles
  atol <- MCatol
  ULONG_MAX = 1073741823
  Letters = {"x"}
SPECIFICATION Spec
INVARIANTS TypeOK DictionariesSound LastArgumentCounts EnvironmentHeard ChainsKept
PROPERTIES ArgumentsDecide FileDecides Traces
CHECK_DEADLOCK FALSE
