SPECIFICATION Spec
CONSTANTS
  Txs <- McTxs
  Coinbases <- McCoinbases
  Ins <- McIns
  Outs <- McOuts
  Signed <- McTxs
  LockHeight <- NoLock
  RelativeLock <- NoLock
  Maturity = 1
  PeriodBlocks = 3
  PeriodSecs = 2
  Blocks <- LineBlocks
  Genesis = "G"
  Parent <- LineParent
  TxsOf <- LineTxs
  Stamp <- LineStamp
  Bits <- LineBits
  Honest <- LineSound
  Sound <- LineSound
  InitialSubsidy = 4
  HalvingBlocks = 3
  MtpWindow = 3
  MaxFuture = 5
  MaxOrphans = 2
  OrphanExpiry = 0
  FeeWindow = 3
  IsMiner = TRUE
  MaxTime = 0
  MaxRestarts = 2
INVARIANTS
  UtxoExact
  FileIsChain
