SPECIFICATION Spec
CONSTANTS
  c1 = c1  c2 = c2
  Conn = {c1, c2}
  MaxMsg = 2
  QCap = 1
SYMMETRY ConnSymmetry
INVARIANTS NothingSkipped EntryReachable
PROPERTY PrintsPrefix
CHECK_DEADLOCK FALSE
