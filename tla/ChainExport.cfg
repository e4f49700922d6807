SPECIFICATION ExportSpec
CONSTANTS
  a1 = a1
  a2 = a2
  a3 = a3
  Addr = {a1, a2, a3}
  MaxRestarts = 2
  Currency = {}
  Amounts = {3}
  QuotedRates = {}
  W = 4096
  Precision = 64
  Unfit = {0, 2048, 4095}
  TotalSupply = 6
  DailyLimit = 6
  StepUnit = 1
  Window = 1
  GenWallet <- MCGenWallet
  GenKes <- MCGenKes
  GenCirculating = 2
  MaxHeight = 1
  MaxSeq = 2
  MaxVolume = 100
  MaxBank = 0
  GenPoints <- MCGenPoints
  GenOpen = TRUE
  MaxAwards = 1
INVARIANTS
  CoinsCounted
PROPERTIES
  RestartIsIdempotent
CHECK_DEADLOCK FALSE
