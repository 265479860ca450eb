SPECIFICATION AuditSpec
CONSTANTS
  m1 = m1
  m2 = m2
  Months = {m1, m2}
  Personas = {p1}
  Users = {}
  Holds = {}
  Operators = {o1}
  EventIds = {1, 2, 3}
  MaxRows = 3
  MilliOf <- SharedMillis
  MaxAnchors = 1
  Misnamed = m0
  Forgeries = {p2}
  Rejected = {}
CHECK_DEADLOCK FALSE
INVARIANTS AlarmsHaveCauses DeletionNoticed RewriteNoticed
