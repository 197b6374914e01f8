CONSTANTS
  Refunds = {r1}
  Workers = {w1, w2}
  MaxAttempts = 5
  NoRefund = NoRefund
  NoWorker = NoWorker
SPECIFICATION FairSpec
INVARIANTS RowsConsistent RefundedOnEvidence
PROPERTIES RefundIsFinal OvertakenWorkersWriteNothing RefundResolves
CHECK_DEADLOCK FALSE
