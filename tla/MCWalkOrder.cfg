SPECIFICATION Spec
CONSTANTS
  Writers = {w1, w2, w3}
  EventIds = {1, 2, 3}
  MonthLengths <- LongMonths
  Months <- AllMonths
  Instants <- AllInstants
  MonthOf <- MonthTable
  LastInstant <- Ends
  MilliOf <- Millis
  ClockValues = {0, 2, 4}
  Supplied = {}
  TxnRows = 1
  Faults = {}
  Rejected = {3}
SYMMETRY WriterSymmetry
INVARIANT HonestTrailLinked
