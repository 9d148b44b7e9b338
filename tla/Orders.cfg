SPECIFICATION FairSpec
CONSTANTS
  o1 = o1
  o2 = o2
  b1 = b1
  b2 = b2
  Orders = {o1, o2}
  Brokers = {b1, b2}
  BrokerOf <- SameBroker
  ClientOrderId <- DistinctIds
  CloseOrders = {o2}
  Lots <- MCLots
  CommissionPerLot = 4
  FundedBrokers = {b2}
  Workers = {w1, w2}
  MaxStalled = 1
  MaxFaults = 2
  GENESIS = GENESIS
  NoWorker = NoWorker
  NoDelivery = NoDelivery
INVARIANTS TypeOK ChainLinear TradesPerDelivery CommissionBooked FilledHasTrade
  ToldIsFilled AcceptedIsQueued
PROPERTIES AcceptedSettles IdsGrow ImplementsTradeChain
\* Orders end, and with them the jobs.
CHECK_DEADLOCK FALSE
