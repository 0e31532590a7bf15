SPECIFICATION FairSpec
CONSTANTS
  Nodes = {"A", "B"}
  Miners = {"A", "B"}
  Blocks <- McBlocks
  Genesis = "g"
  NoBlock = "none"
  Parent <- McParent
  Finder <- McFinder
  Refused <- McRefused
  Files <- McFiles
  Ready = {"A"}
  CHUNK_SIZE = 3
  MAX_RETRIES = 1
  Steady = {"A"}
  MaxCrashes = 1
INVARIANTS
  TypeOK
  MinersConnected
  CatchUp
PROPERTIES
  Silence
  StartsMining
CHECK_DEADLOCK FALSE
