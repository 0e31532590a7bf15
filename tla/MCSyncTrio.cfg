SPECIFICATION Spec
CONSTANTS
  Nodes = {"A", "B", "C"}
  Miners = {"A", "B", "C"}
  Blocks <- TrioBlocks
  Genesis = "g"
  NoBlock = "none"
  Parent <- TrioParent
  Finder <- TrioFinder
  Refused <- NoneRefused
  Files <- TrioFiles
  Ready = {"A"}
  CHUNK_SIZE = 2
  MAX_RETRIES = 1
  Steady = {"A", "B", "C"}
  MaxCrashes = 0
INVARIANTS
  CatchUp
CHECK_DEADLOCK FALSE
