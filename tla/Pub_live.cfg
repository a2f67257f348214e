SPECIFICATION CalmSpec
CONSTANTS
  a1 = a1  a2 = a2  q1 = q1  q2 = q2  t1 = t1  t2 = t2
  Addr = {a1, a2}
  Dest = {q1}
  DestOf <- QueueDestOf
  Thread = {t1, t2}
  NoAddr = NoAddr
  QCap = 1
  MaxMsg = 3
  CounterMod = 4
  DropMessage = FALSE
PROPERTY NobodyStuck
CHECK_DEADLOCK FALSE
