SPECIFICATION FairSpec
CONSTANTS
  Peers = {"p", "q"}
  BaseCoins <- McBaseCoins
  Amounts = {6}
  FeeEst = 1
  CostOfChange = 1
  LOOKAHEAD = 2
  MAX_AWAIT = 0
  Scripts <- McScripts
  MaxTxs = 2
  MaxFaults = 1
INVARIANTS
  TypeOK
  StatusHonest
  CoinsVisible
  SelectionOptimal
PROPERTIES
  CommandsEnd
CHECK_DEADLOCK FALSE
