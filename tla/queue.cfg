SPECIFICATION MCSpec
CONSTANTS
  Consumers = {t1, t2}
  Blocks = {b1, b2}
  BlockSize = 2
  IndexMod = 8
  IndexSize = 2
  MaxEntries = 4
  MaxOvercommit = 1
  None = none
  Users = {t1, t2, t3}
  initialBlockPoolSize = 2
  SHOULD_BE_ON_FREELIST = 8
  Ids = {t1, t2}
  hash_thread_id <- SameSlot
  InitialSize = 1
  MaxStarted = 3
  invalid_thread_id = empty
  invalid_thread_id2 = reusable
SYMMETRY Symmetry
INVARIANTS
  FoundBlock
  BlocksKept
  InOnePlace
  OneThreadEach
PROPERTIES
  ImplementsFifo
  KeepsProducer
CHECK_DEADLOCK FALSE
