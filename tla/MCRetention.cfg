SPECIFICATION FairSpec
CONSTANTS
  Months = {m1, m2}
  Personas = {p1, p2}
  Users = {u1}
  Holds = {h1}
  Operators = {o1, o2}
  EventIds = {1, 2}
  MaxRows = 2
  MilliOf <- OneMilli
CHECK_DEADLOCK FALSE
INVARIANTS HeldRowsSurvive ErasureAccounted
PROPERTY RetirementsEnd
