SPECIFICATION ReadSpec
CONSTANTS
  a = a
  b = b
  c = c
  d = d
  e = e
  other = other
  somebody = somebody
  Nobody = Nobody
  NoValue = NoValue
  Garbage = Garbage
  Base0 = 23
  Quote0 = 17
  FeeRates <- MCFeeRates
  Amounts <- MCAmounts
  Slippages <- MCSlippages
  MaxPaid = 10
  Coins <- MCCoins
  Lengths <- MCLengths
  ExtendedLength = 151
  KnownQuotes <- MCKnownQuotes
  Virtual = 5
  MaxTorn = 2
  Rows <- MCRows
  PumpCoins <- MCPumpCoins
  Page = 3
  MaxOffset = 2
  Limits = {2, 4, 5}
  Batch = 2
  BoardsAtStart <- MCBoards
  CurveOf <- MCCurveOf
  QuoteOf <- MCQuoteOf
  UnknownQuotes = {"token", "nomint"}
  BadQuotes = {"nomint"}
  MaxMoves = 2
INVARIANTS
  NoFreeLunch
  QuotesAreTight
  FloorsBracketQuotes
  PricesAreReal
  InfoDescribesTheCoin
  BoardWellRead
  RowsKeepTheirCurve
CHECK_DEADLOCK FALSE
