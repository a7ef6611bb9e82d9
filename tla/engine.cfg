SPECIFICATION MCSpec
CONSTANTS
  Symbols = {aapl, goog}
  Clients = {c1, c2}
  Processors = {m1, m2}
  MarketIds = {i1}
  CounterSize = 2
  MaxRequests = 3
  Null = null
  Threads = {t1, t2, t3}
  MaxWant = 2
  MaxEnqueued = 3
  MaxCalls = 2
INVARIANTS
  EngineTypeOK
  UniqueIds
  OnlyRacesCrash
  NoOrphans
  WakeUpsMatch
  PermitsBacked
PROPERTIES
  CallsReturn
  DequeuesReturn
CHECK_DEADLOCK FALSE
