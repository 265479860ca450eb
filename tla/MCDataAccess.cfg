SPECIFICATION Spec
CONSTANTS
  Calls = {c1, c2, c3}
  s1 = s1
  s2 = s2
  analyst = analyst
  admin = admin
  Sessions = {s1, s2}
  PersonaOf <- OwnerTable
  ScopeOf <- Scopes
  Requests <- AllRequests
  Policies <- AllPolicies
  Toggled <- Switched
SYMMETRY CallSymmetry
CHECK_DEADLOCK FALSE
INVARIANTS CombinationCaught BlockedForCause AccessAccounted
