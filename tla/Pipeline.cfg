SPECIFICATION Spec
CONSTANTS
  s1 = s1  s2 = s2  c1 = c1  c2 = c2
  Sub = {s1, s2}
  Conn = {c1, c2}
  NoSub = NoSub
  MaxMsg = 2
  QCap = 1
  HeadLen = 2
  BodyLen = 2
  Garbled = Garbled
SYMMETRY PipelineSymmetry
INVARIANT MessagesKept
PROPERTY PrintedAtMostOnce
CHECK_DEADLOCK FALSE
