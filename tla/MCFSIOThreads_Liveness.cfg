\* An orderly application whose requests fit the queues: nothing waits for
\* ever, and the threads stop.
CONSTANTS
  t1 = t1
  t2 = t2
  b1 = b1
  b2 = b2
  p1 = p1
  p2 = p2
  p3 = p3
  STOP = STOP
  Nil = Nil
  NCores = 2
  App <- OneThread
  Block <- OneBlock
  Ptr <- Numbered
  Malloc <- FirstFit
  QueueCap = 3
  AppQueueCap = 1
  MaxNest = 1
  MaxLives = 2
  QuietEnd = TRUE
  EagerIO = TRUE
  AllocFails = FALSE
  Fragile <- NoBlock
  Careless <- NoBlock
  Drainer = t1
SPECIFICATION FairSpec
PROPERTIES ServiceProgress StopTerminates
