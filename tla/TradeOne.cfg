SPECIFICATION TradeSpec
CONSTANTS
  i1 = i1
  i2 = i2
  Invocations <- MCOne
  Oversize = {}
  Codes <- MCCodes
  Receipts = {}
  Attempts = 3
  Requests <- OneRequests
  SolPaired = TRUE
  Virtual = 0
  CurveFeeBps = 100
  AmmFeeBps = 500
  FeeLamports = 1
  AtaRent = 2
  RentExempt = 1
  CurveAtStart <- MCCurve
  PoolAtMigration <- MCPool
  WalletAtStart <- MCWallet
  OtherAmount = 10
  MaxOthers = 2
INVARIANTS
  TradeTypeOK
  RoutedByTheCurve
  ToleranceHonoured
  FailedReadNeverSends
PROPERTIES
  TradeImplementsTxReport
  CommandEnds
CHECK_DEADLOCK FALSE
