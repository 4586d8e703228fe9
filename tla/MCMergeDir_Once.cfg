CONSTANTS
  a = a
  b = b
  Name <- Names
  MaxOwn = 3
  MaxReal = 2
  Unset = Unset
SYMMETRY Same
SPECIFICATION Spec
INVARIANT EachOnce
CHECK_DEADLOCK FALSE
