SPECIFICATION FairSpec
CONSTANTS
  Txs <- McTxs
  Coin <- McCoin
  Fee <- McFee
  Size <- McSize
  Fifty = 4
  HalveAfter = 3
  EmptyBlock = 1
  CoinbaseSize = 2
  MaxBlock = 5
  Backends = {"cpu", "cuda", "metal"}
  LastNonce = 7
  Threads <- McThreads
  PollEvery = 2
  Batch = 4
  SolutionSets <- McSolutionSets
  MaxHeight = 3
  MaxFailures = 1
INVARIANTS
  TypeOK
  SolutionIsValid
  ExhaustionIsHonest
  OwnBlockValid
  InterruptSeen
PROPERTIES
  Mines
CHECK_DEADLOCK FALSE
