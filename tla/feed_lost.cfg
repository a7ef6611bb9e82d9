SPECIFICATION FairExchangeSpec
CONSTANTS
  Publishers = {aapl, goog}
  Owner = main
  MaxBatches = 1
  MaxListeners = 1
  Empty = empty
  MaxOrders = 1
PROPERTY SubscribersGetEvents
CHECK_DEADLOCK FALSE
