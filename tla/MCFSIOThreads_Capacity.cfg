\* An orderly application whose requests just fit the queues: no queue is ever
\* found full, and nothing is left behind when the threads stop.
CONSTANTS
  t1 = t1
  t2 = t2
  b1 = b1
  b2 = b2
  p1 = p1
  p2 = p2
  p3 = p3
  STOP = STOP
  Nil = Nil
  NCores = 2
  App <- OneThread
  Block <- TwoBlocks
  Ptr <- Numbered
  Malloc <- FirstFit
  QueueCap = 3
  AppQueueCap = 2
  MaxNest = 1
  MaxLives = 1
  QuietEnd = TRUE
  EagerIO = TRUE
  AllocFails = FALSE
  Fragile <- NoBlock
  Careless <- NoBlock
  Drainer = t1
SPECIFICATION Spec
INVARIANTS DrainedAtExit NoQueueFatal NoSpinUnderLock
