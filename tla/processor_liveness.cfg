CONSTANTS
  OrderIds = {o1, o2, o3}
  Prices = {1, 2}
  ValidPrices = {1, 2}
  MaxInt = 100
  Null = Null
  NewOrders <- NoNewOrders
  Clients = {c1, c2}
  Submissions <- LiveSubmissions
  MaxPending = 2
  MaxCancels = 1

SPECIFICATION FairProcessorSpec

PROPERTIES
  RequestsServed
  WorkerEnds

CHECK_DEADLOCK FALSE
