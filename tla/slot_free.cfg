SPECIFICATION SlotsSpec
CONSTANTS
  Ids <- Threads
  hash_thread_id <- SameSlot
  InitialSize = 4
  MaxStarted = 17
  invalid_thread_id = empty
  invalid_thread_id2 = reusable
INVARIANT SlotFree
CHECK_DEADLOCK FALSE
