CONSTANTS
  OrderIds = {o1, o2, o3, o4}
  Prices = {1, 2}
  ValidPrices = {1, 2}
  MaxInt = 100
  Null = Null
  NewOrders <- NoNewOrders
  Clients = {c1}
  Submissions <- StopSubmissions
  MaxPending = 2
  MaxCancels = 0

SPECIFICATION ProcessorSpec
SYMMETRY Symmetry

INVARIANT NoMissedTrigger

CHECK_DEADLOCK FALSE
