CONSTANTS
  a = a
  b = b
  Name <- Names
  MaxOwn = 4
  MaxReal = 2
  Unset = Unset
SYMMETRY Same
SPECIFICATION Spec
INVARIANTS TypeOK HidesDeleted ListsAll TwiceOnlyByFlag ReleasedOnClose
CHECK_DEADLOCK FALSE
