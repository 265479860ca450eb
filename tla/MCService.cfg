SPECIFICATION FairSpec
CONSTANTS
  CallCount = 3
  Calls <- CallNumbers
  Conns = {k1, k2}
  Clients = {p1}
CHECK_DEADLOCK FALSE
INVARIANTS TypeOK DrainFlushesAudits TimeoutMeansOverload NoAuditStranded
PROPERTIES ShutdownEnds CallsAnswered
