SPECIFICATION FairSpec
CONSTANTS
  c1 = c1  c2 = c2
  Conn = {c1, c2}
  MaxMsg = 1
  QCap = 1
PROPERTIES SignalEnds EntryRestored SentIsPrinted
CHECK_DEADLOCK FALSE
