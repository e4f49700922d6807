SPECIFICATION MallSpec
CONSTANTS
  a1 = a1
  a2 = a2
  Addr = {a1, a2}
  Currency = {}
  Amounts = {0, 3, 4095}
  QuotedRates = {}
  W = 4096
  Precision = 64
  Unfit = {0, 2048, 4095}
  TotalSupply = 12
  DailyLimit = 6
  StepUnit = 1
  Window = 1
  GenWallet <- MCGenWallet
  GenKes <- MCGenKes
  GenCirculating = 2
  MaxHeight = 1
  MaxSeq = 3
  MaxVolume = 100
  MaxBank = 0
  GenPoints <- MCGenPoints
  GenOpen = TRUE
  MaxAwards = 2
INVARIANTS
  PointsBackMints
PROPERTIES
  IssueIsPaidFor
  LedgerSpec
CHECK_DEADLOCK FALSE
