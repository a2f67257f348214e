SPECIFICATION MCSpec
CONSTANTS
  enq = enq
  EnqList <- OneEnqueue
  Drop = Drop
  NoReport = NoReport
  Torn = Torn
  MaxCount = 2
  QCap = 1
  UIntMod = 8
INVARIANTS CountsConserved FinalReportWritten
CHECK_DEADLOCK FALSE
