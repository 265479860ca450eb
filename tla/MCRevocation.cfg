SPECIFICATION Spec
CONSTANTS
  admin = admin
  agent = agent
  Calls = {c1, c2, c3}
  Personas = {admin, agent}
  SessionIds = {s1}
  Managers = {admin}
  AgentUntil = 0
  ValidUntil <- Expiry
  TTL = 0
  MaxTime = 1
  Tools = {"session_start", "session_close", "persona_revoke", "db_write"}
  Faults = {}
SYMMETRY CallSymmetry
CHECK_DEADLOCK FALSE
INVARIANTS AuthorityAtStart RevocationClosesSessions TerminatedOnce
