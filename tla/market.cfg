CONSTANTS
  OrderIds = {o1, o2, o3}
  Prices = {1, 2, 3}
  ValidPrices = {1, 2}
  MaxInt = 100
  Null = Null
  NewOrders <- MCNewOrders

SPECIFICATION MarketSpec
SYMMETRY Symmetry

INVARIANTS
  TypeOK
  NoEmptyLevel
  NodesLive
  IteratorsValid
  Uncrossed
  Accounting
  StatusAgrees
  EventsAccount

PROPERTIES
  PriceTimePriority
  FinalStatesAreFinal
  NoFalseKill
  ImplementsBook

CHECK_DEADLOCK FALSE
