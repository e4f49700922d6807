SPECIFICATION Spec
CONSTANTS
  a1 = a1
  a2 = a2
  Addr = {a1, a2}
  Currency = {"USD"}
  Amounts = {1, 4, 60}
  QuotedRates = {0, 3, 20, 120}
  W = 128
  Precision = 64
  Unfit = {0, 64, 127}
  TotalSupply = 20
  DailyLimit = 7
  StepUnit = 1
  Window = 1
  GenWallet <- MCGenWallet
  GenKes <- MCSmallKes
  GenCirculating = 2
  MaxHeight = 3
  MaxSeq = 4
  MaxVolume = 65
  MaxBank = 1
INVARIANTS
  TypeOK
  VolumesMatchTrades
  LogNumbersDense
PROPERTIES
  RatesFollowDemand
CHECK_DEADLOCK FALSE
