SPECIFICATION Spec
CONSTANTS
  Count = 2
  MaxGen = 2
  MaxLines = 1
  MaxNum = 2
  MaxIn = 5
INVARIANTS NoOrphans StopDrains DumpIsTail
PROPERTIES StopEnds ExitDumps
CHECK_DEADLOCK FALSE
