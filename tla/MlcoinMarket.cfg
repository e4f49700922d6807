SPECIFICATION Spec
CONSTANTS
  a1 = a1
  a2 = a2
  Addr = {a1, a2}
  Currency = {}
  Amounts = {1, 7, 60}
  QuotedRates = {}
  W = 4096
  Precision = 64
  Unfit = {0, 2048, 4095}
  TotalSupply = 20
  DailyLimit = 7
  StepUnit = 1
  Window = 1
  GenWallet <- MCGenWallet
  GenKes <- MCGenKes
  GenCirculating = 2
  MaxHeight = 1
  MaxSeq = 8
  MaxVolume = 100
  MaxBank = 0
INVARIANTS
  SupplyCap
  PricesOrdered
  CirculatingCoversVolumes
  WalletsMatchLog
  KesMatchesTrades
PROPERTIES
  ImplementsMaker
CHECK_DEADLOCK FALSE
