SPECIFICATION Spec
CONSTANTS
  Txs <- McTxs
  Coinbases <- McCoinbases
  Ins <- McIns
  Outs <- McOuts
  Signed <- RivalTxs
  LockHeight <- NoLock
  RelativeLock <- NoLock
  Maturity = 1
  Coins <- McCoins
  BaseHeight = 3
  Size <- McSize
  Rbf <- McRbf
  Dust = 2
  MaxAncestors = 2
  MaxDescendants = 2
  MaxPool = 4
  MaxBlock = 7
  EmptyBlock = 1
  RelayFee = 1000
  Bodies <- RivalBodies
  MaxBlocks = 3
  MaxReorgs = 2
INVARIANTS
  NoCoinsMade
