SPECIFICATION Spec
CONSTANTS
  Nodes = {"A"}
  Miners = {"A"}
  Blocks <- LoneBlocks
  Genesis = "g"
  NoBlock = "none"
  Parent <- LoneParent
  Finder <- LoneFinder
  Refused <- NoneRefused
  Files <- NoFiles
  Ready = {}
  CHUNK_SIZE = 2
  MAX_RETRIES = 3
  Steady = {}
  MaxCrashes = 1
INVARIANTS
  Restorable
CHECK_DEADLOCK FALSE
