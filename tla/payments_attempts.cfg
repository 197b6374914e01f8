CONSTANTS
  Payments = {p1, p2}
  OrderIds = {o1}
  Workers = {w1, w2}
  NoPayment = NoPayment
  NoOrder = NoOrder
  NoWorker = NoWorker
SYMMETRY Symmetry
SPECIFICATION Spec
INVARIANTS RowsConsistent CapturesSettleOneWay OnePayableSession
PROPERTIES StaleWorkersOnlyBringMoney KeepsMoneyPromise
CHECK_DEADLOCK FALSE
