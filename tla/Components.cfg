CONSTANTS
  Threads = {"t1", "t2", "t3"}
  NoThread = "none"
  Limit = 2
  MaxThrows = 2
  NumBuffers = 3
  MaxHeld = 2
  MaxRefs = 1
  Producers = {"p1", "p2"}
  Consumers = {"c1", "c2"}
  MAX_MSG_SIZE = 3
  MaxMsgs = 2
  Streams = {"x1", "x2"}
  Values = {7}
  Addresses = {1, 2, 3, 4, 5, 6, 7}
  MaxIndex = 2
  MaxCalls = 4
  Files = {"f1", "f2"}
  NoFile = "none"
  MaxPieces = 3
  MaxLength = 2
  Chunk = 2
  MessageSize = 4
  Height = 2
INIT Init
NEXT Next
INVARIANTS
  ConversionsRight  NumbersRight FramesRight LogsShown NamesRight
  UnwindsRight ExceptionsLive DoneOnce ResultArrives ReferencesCounted
  Excludes RegistryRight StoredKept
CHECK_DEADLOCK FALSE
