SPECIFICATION FollowUpSpec
CONSTANTS
  fits = fits
  big = big
  Invocations <- MCInvocations
  Oversize <- MCOversize
  Codes <- MCCodes
  Receipts <- MCReceipts
  Attempts = 3
INVARIANTS
  TypeOK
  ExactReceipt
  PostsAtMostOnce
  TrueStatus
PROPERTIES
  ImplementsTxReport
  SignatureSurvives
  SendEnds
CHECK_DEADLOCK FALSE
