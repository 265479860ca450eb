SPECIFICATION Spec
CONSTANTS
  Writers = {w1, w2, w3}
  EventIds = {1, 2, 3}
  MonthLengths <- TwoMonths
  Months <- AllMonths
  Instants <- AllInstants
  MonthOf <- MonthTable
  LastInstant <- Ends
  MilliOf <- Millis
  ClockValues = {0, 2, 4}
  Supplied = {1}
  TxnRows = 1
  Faults = {"abort"}
  Rejected = {3}
SYMMETRY WriterSymmetry
INVARIANTS TypeOK SerializedMonth ChainOrder NoDeadlock AlarmsExplained AlterationDetected
PROPERTIES AppendOnly ImplementsLog
