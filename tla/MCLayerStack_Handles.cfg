CONSTANTS
  m1 = m1
  m2 = m2
  p = p
  h1 = h1
  h2 = h2
  g1 = g1
  Layer <- Mergers
  Merging <- Mergers
  Path <- Paths
  Covers <- CoversAll
  Handle <- TwoHandles
  RealHandle <- OneReal
  Client = Client
  Real = Real
  Nil = Nil
SYMMETRY Same
SPECIFICATION Spec
INVARIANTS TypeOK HeldIsOpen ParentBelow
PROPERTY GoesHome
