SPECIFICATION FairExchangeSpec
CONSTANTS
  Publishers = {aapl, goog}
  Owner = main
  MaxBatches = 2
  MaxListeners = 2
  Empty = empty
  MaxOrders = 2
INVARIANTS
  InOrderOnce
  OneFeed
  PublisherOutlivesWorkers
  QuietShutdownIsSafe
PROPERTIES
  Delivered
  ShutdownCompletes
CHECK_DEADLOCK FALSE
