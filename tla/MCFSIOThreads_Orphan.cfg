\* A thread that calls while the application ends: its message may be queued
\* behind STOP, and then nobody frees it.
CONSTANTS
  t1 = t1
  t2 = t2
  b1 = b1
  b2 = b2
  p1 = p1
  p2 = p2
  p3 = p3
  STOP = STOP
  Nil = Nil
  NCores = 1
  App <- OneThread
  Block <- OneBlock
  Ptr <- Numbered
  Malloc <- FirstFit
  QueueCap = 3
  AppQueueCap = 1
  MaxNest = 1
  MaxLives = 1
  QuietEnd = FALSE
  EagerIO = TRUE
  AllocFails = FALSE
  Fragile <- NoBlock
  Careless <- NoBlock
  Drainer = Nil
SPECIFICATION FairSpec
PROPERTY OtherThreadFrees
\* The caller of the lost message waits for ever.
CHECK_DEADLOCK FALSE
