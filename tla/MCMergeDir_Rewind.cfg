CONSTANTS
  a = a
  b = b
  Name <- Names
  MaxOwn = 3
  MaxReal = 2
  Unset = Unset
SYMMETRY Same
SPECIFICATION Spec
INVARIANT ListsAllAgain
CHECK_DEADLOCK FALSE
