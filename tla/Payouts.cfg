SPECIFICATION PayoutsSpec
CONSTANTS
  i1 = i1
  i2 = i2
  Invocations <- MCInvocations
  Oversize = {}
  Codes = {}
  Receipts = {}
  Attempts = 3
  Asks <- MCAsks
  PumpAtStart = 2
  AmmAtStart = 0
  CurveAtStart = "live"
  AccumulatorAtStart = TRUE
  MaxOthers = 1
INVARIANTS
  RecoversWhatItReports
  NoFeesMeansNone
  FailsOnlyIfBeaten
PROPERTIES
  PayoutsImplementTxReport
CHECK_DEADLOCK FALSE
