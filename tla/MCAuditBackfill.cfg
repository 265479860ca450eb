SPECIFICATION FairSpec
CONSTANTS
  Writers = {w1, w2}
  EventIds = {1, 2, 3, 4}
  MonthLengths <- LongerMonth
  Months <- AllMonths
  Instants <- AllInstants
  MonthOf <- MonthTable
  LastInstant <- Ends
  MilliOf <- MilliTable
  ClockValues = {3}
  Supplied = {0}
  TxnRows = 2
  Faults = {"prev_read", "hash"}
CHECK_DEADLOCK FALSE
INVARIANT ForksOnlyAtCap
PROPERTY WriterFinishes
