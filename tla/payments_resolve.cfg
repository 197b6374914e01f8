CONSTANTS
  Payments = {p1}
  OrderIds = {o1}
  Workers = {w1, w2}
  NoPayment = NoPayment
  NoOrder = NoOrder
  NoWorker = NoWorker
SPECIFICATION FairSpec
PROPERTIES DueAttemptsResolve
CHECK_DEADLOCK FALSE
