SPECIFICATION TradeSpec
CONSTANTS
  i1 = i1
  i2 = i2
  Invocations <- MCPair
  Oversize = {}
  Codes <- MCCodes
  Receipts = {}
  Attempts = 2
  Requests <- PairRequests
  SolPaired = FALSE
  Virtual = 0
  CurveFeeBps = 100
  AmmFeeBps = 500
  FeeLamports = 1
  AtaRent = 2
  RentExempt = 1
  CurveAtStart <- MCCurve
  PoolAtMigration <- MCPool
  WalletAtStart <- MCWallet
  OtherAmount = 10
  MaxOthers = 0
INVARIANTS
  RawFieldsAddUp
CHECK_DEADLOCK FALSE
