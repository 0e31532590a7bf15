SPECIFICATION FairSpec
CONSTANTS
  Txs <- McTxs
  Coinbases <- McCoinbases
  Ins <- McIns
  Outs <- McOuts
  Signed <- McTxs
  LockHeight <- NoLock
  RelativeLock <- NoLock
  Maturity = 1
  Coins <- McCoins
  BaseHeight = 3
  Size <- McSize
  Rbf <- McRbf
  Dust = 2
  MaxAncestors = 2
  MaxDescendants = 2
  MaxPool = 4
  MaxBlock = 5
  EmptyBlock = 1
  RelayFee = 1000
  Bodies <- McBodies
  MaxBlocks = 4
  MaxReorgs = 2
INVARIANTS
  TypeOK
  BytesExact
  NoDoubleSpendPending
  FamiliesBounded
  TemplateConnects
PROPERTIES
  NoChildLeftBehind
  ReplacementPays
  LoopsEnd
