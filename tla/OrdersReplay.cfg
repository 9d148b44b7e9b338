SPECIFICATION Spec
CONSTANTS
  o1 = o1
  o2 = o2
  b1 = b1
  b2 = b2
  Orders = {o1, o2}
  Brokers = {b1, b2}
  BrokerOf <- SameBroker
  ClientOrderId <- RepeatedId
  CloseOrders = {}
  Lots <- MCLots
  CommissionPerLot = 4
  FundedBrokers = {b2}
  Workers = {w1, w2}
  MaxStalled = 1
  MaxFaults = 0
  GENESIS = GENESIS
  NoWorker = NoWorker
  NoDelivery = NoDelivery
INVARIANTS ClientOrderFilledOnce
CHECK_DEADLOCK FALSE
