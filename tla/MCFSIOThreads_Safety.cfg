\* Small queues, a careless application, every failure: the memory and
\* ownership invariants hold all the same.
CONSTANTS
  t1 = t1
  t2 = t2
  b1 = b1
  b2 = b2
  p1 = p1
  p2 = p2
  p3 = p3
  STOP = STOP
  Nil = Nil
  NCores = 2
  App <- Threads
  Block <- OneBlock
  Ptr <- Addresses
  Malloc <- AnyAddress
  QueueCap = 1
  AppQueueCap = 1
  MaxNest = 1
  MaxLives = 2
  QuietEnd = FALSE
  EagerIO = FALSE
  AllocFails = TRUE
  Fragile <- OneBlock
  Careless <- OneBlock
  Drainer = Nil
SYMMETRY SameAddresses
SPECIFICATION Spec
INVARIANTS TypeOK NoUseAfterFree SingleOwner BlockOwnership LockDiscipline ReplyIsMine
PROPERTY ImplementsService
\* OSFatal stops the console, and a lost STOP leaves the main thread waiting.
CHECK_DEADLOCK FALSE
