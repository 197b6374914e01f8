CONSTANTS
  Deliveries = {d1}
  Workers = {w1, w2}
  MaxAttempts = 5
  MaxRearms = 2
  NoDelivery = NoDelivery
  NoWorker = NoWorker
SPECIFICATION FairSpec
INVARIANTS NoAutomaticDuplicate LifecycleConsistent
PROPERTIES ReviewWaitsForHuman DeliveryResolves
CHECK_DEADLOCK FALSE
