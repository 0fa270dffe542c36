SPECIFICATION LaunchSpec
CONSTANTS
  i1 = i1
  Invocations <- MCInvocations
  Oversize = {}
  Codes = {1, 2}
  Receipts = {}
  Attempts = 3
  Asks <- MCAsks
  Programs <- MCPrograms
  HeldAtStart = 8
  MaxChanges = 2
INVARIANTS
  RefusesBeforeUploading
  OpeningBuyAsEstimated
PROPERTIES
  LaunchImplementsTxReport
CHECK_DEADLOCK FALSE
