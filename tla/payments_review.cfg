CONSTANTS
  Payments = {p1}
  OrderIds = {o1}
  Workers = {w1}
  NoPayment = NoPayment
  NoOrder = NoOrder
  NoWorker = NoWorker
SPECIFICATION Spec
PROPERTIES ReviewWaitsForSuperuser
CHECK_DEADLOCK FALSE
