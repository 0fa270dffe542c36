SPECIFICATION WalletSpec
CONSTANTS
  full = full
  empty1 = empty1
  empty2 = empty2
  Invocations <- Sends
  Oversize <- MCOversize
  Codes = {}
  Receipts = {}
  Attempts = 3
  Requests <- MCRequests
  Accounts <- MCAccounts
  ProgramOf <- MCProgramOf
  BatchSize = 1
  Rent = 5
  RentExempt = 3
  SolAtStart = 12
  RecipientAtStart = {0, 4}
  TokensAtStart <- MCTokensAtStart
  OtherAmount = 9
  MaxOthers = 1
INVARIANTS
  DrainLeavesNothing
CHECK_DEADLOCK FALSE
