SPECIFICATION FollowUpSpec
CONSTANTS
  fits = fits
  big = big
  Invocations <- MCInvocations
  Oversize <- MCOversize
  Codes <- MCCodes
  Receipts <- MCReceipts
  Attempts = 3
INVARIANT ConfirmedMeansSucceeded
CHECK_DEADLOCK FALSE
