CONSTANTS
  OrderIds = {o1, o2, o3, o4, o5}
  Prices = {1, 2, 3}
  ValidPrices = {1, 2}
  MaxInt = 100
  Null = Null
  NewOrders <- NoNewOrders
  Clients = {c1}
  Submissions <- OffTickSubmissions
  MaxPending = 2
  MaxCancels = 0

SPECIFICATION ProcessorSpec
SYMMETRY Symmetry

INVARIANT LimitHasPrice

CHECK_DEADLOCK FALSE
