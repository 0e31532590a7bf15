SPECIFICATION FairSpec
CHECK_DEADLOCK FALSE
CONSTANTS
  Txs <- McTxs
  Coinbases <- McCoinbases
  Ins <- McIns
  Outs <- McOuts
  Signed <- McTxs
  LockHeight <- NoLock
  RelativeLock <- NoLock
  Maturity = 1
  PeriodBlocks = 3
  PeriodSecs = 2
  Blocks <- ForkBlocks
  Genesis = "G"
  Parent <- ForkParent
  TxsOf <- ForkTxs
  Stamp <- ForkStamp
  Bits <- ForkBits
  Honest <- ForkHonest
  Sound <- ForkSound
  InitialSubsidy = 4
  HalvingBlocks = 3
  MtpWindow = 3
  MaxFuture = 5
  MaxOrphans = 2
  OrphanExpiry = 0
  FeeWindow = 3
  IsMiner = FALSE
  MaxTime = 1
  MaxRestarts = 0
INVARIANTS
  TypeOK
  ChainIndexed
  UtxoExact
  PoolIsUnmined
  OrphansWait
  OrphansBounded
  FileMatchesChain
  FeeHistoryOnChain
  HeaviestIsActive
  NoInflation
PROPERTIES
  RollbackSucceeds
  NoBlockForgotten
  OnlyMoreWork
  CallsReturn
