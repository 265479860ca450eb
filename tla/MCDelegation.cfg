SPECIFICATION Spec
CONSTANTS
  a1 = a1
  a2 = a2
  t1 = t1
  t2 = t2
  t3 = t3
  Calls = {c1, c2}
  Ids = {root, p1, p2}
  Roots = {root}
  RootScope <- FullScope
  RootLimit = 2
  Scopes <- ScopeChoices
  Limits = {0, 2}
  Assignments = {a1, a2}
  Tokens = {t1, t2, t3}
  AssignmentOf <- TokenAssignments
  IssuedAt <- IssueTimes
  TokenAge = 0
  MaxTime = 1
  Faults = {"query", "reply"}
SYMMETRY Symmetry
CHECK_DEADLOCK FALSE
INVARIANTS TypeOK TokenUsedOnce TokensAccounted ScopeWithinLineage DepthIsDistance GrantedAtStart
