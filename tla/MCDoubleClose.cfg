SPECIFICATION Spec
CONSTANTS
  admin = admin
  agent = agent
  Calls = {c1, c2}
  Personas = {admin, agent}
  SessionIds = {s1}
  Managers = {admin}
  AgentUntil = 1
  ValidUntil <- Expiry
  TTL = 1
  MaxTime = 1
  Tools = {"session_close"}
  Faults = {}
SYMMETRY CallSymmetry
CHECK_DEADLOCK FALSE
INVARIANT SecondCloseRejected
