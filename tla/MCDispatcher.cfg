SPECIFICATION Spec
CONSTANTS
  admin = admin
  agent = agent
  Calls = {c1, c2}
  Personas = {admin, agent}
  SessionIds = {s1, s2}
  Managers = {admin}
  AgentUntil = 1
  ValidUntil <- Expiry
  TTL = 1
  MaxTime = 2
  Tools = {"session_start", "session_close", "persona_revoke", "db_write"}
  Faults = {"query", "reply", "audit"}
SYMMETRY CallSymmetry
CHECK_DEADLOCK FALSE
INVARIANTS TypeOK Accounted RejectionsTruthful
