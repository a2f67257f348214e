SPECIFICATION QuietSpec
CONSTANTS
  s1 = s1  s2 = s2
  Sub = {s1, s2}
  NoSub = NoSub
  TicksPerSec = 2
  Heartbeat = 1
  Expiry = 2
  Late = 1
PROPERTY DeadEntryRemoved
