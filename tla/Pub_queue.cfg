SPECIFICATION Spec
CONSTANTS
  a1 = a1  a2 = a2  q1 = q1  q2 = q2  t1 = t1  t2 = t2
  Addr = {a1, a2}
  Dest = {q1}
  DestOf <- QueueDestOf
  Thread = {t1, t2}
  NoAddr = NoAddr
  QCap = 2
  MaxMsg = 2
  CounterMod = 4
  DropMessage = TRUE
SYMMETRY ThreadSymmetry
INVARIANTS AtMostOnce CountersSound LeftoverClean OrderOnConnection
CHECK_DEADLOCK FALSE
