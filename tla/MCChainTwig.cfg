SPECIFICATION Spec
CONSTANTS
  Txs <- McTxs
  Coinbases <- McCoinbases
  Ins <- McIns
  Outs <- McOuts
  Signed <- McTxs
  LockHeight <- NoLock
  RelativeLock <- NoLock
  Maturity = 1
  PeriodBlocks = 3
  PeriodSecs = 2
  Blocks <- TwigBlocks
  Genesis = "G"
  Parent <- TwigParent
  TxsOf <- TwigTxs
  Stamp <- TwigStamp
  Bits <- TwigBits
  Honest <- TwigSound
  Sound <- TwigSound
  InitialSubsidy = 4
  HalvingBlocks = 3
  MtpWindow = 3
  MaxFuture = 5
  MaxOrphans = 2
  OrphanExpiry = 0
  FeeWindow = 3
  IsMiner = FALSE
  MaxTime = 0
  MaxRestarts = 0
INVARIANT HeaviestIsActive
