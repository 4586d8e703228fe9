CONSTANTS
  m1 = m1
  r1 = r1
  p = p
  a = a
  b = b
  da = da
  h1 = h1
  h2 = h2
  g1 = g1
  Client = Client
  Posix = Posix
  Real = Real
  Fd = Fd
  Nil = Nil
  Layer <- OneEach
  Merging <- OneMerger
  Path <- Paths
  AppPath <- OnePath
  MayExist <- ChainExist
  Covers <- ChainCovers
  Place <- CopyIn
  Mark <- MarkOfA
  Rank <- Depth
  Handle <- TwoHandles
  RealHandle <- NoHandle
SPECIFICATION FairSpec
INVARIANTS TypeOKReentry Descends
PROPERTY WalkEnds
