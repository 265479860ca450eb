---------------------------- MODULE MCDataAccess ----------------------------
(***************************************************************************)
(* DataAccess on a small instance: a session of a plain persona and one of *)
(* a persona that a policy exempts; db requests that differ from a good    *)
(* one in one respect each.                                                *)
(***************************************************************************)
EXTENDS DataAccess, TLC

CONSTANTS analyst, admin, s1, s2

OwnerTable == (s1 :> analyst) @@ (s2 :> admin)

Scopes ==
  (analyst :> [permitted_actions |-> {"read"}, permitted_sources |-> {"audit_events", "pg_class"},
               output_destinations |-> {"user_persona_assignments"}])
  @@ (admin :> [permitted_actions |-> {"read", "admin_read", "write"},
                permitted_sources |-> {"personas", "sessions"},
                output_destinations |-> {"user_persona_assignments"}])

Absent    == [form |-> "absent", keys |-> {}]
NotObject == [form |-> "other", keys |-> {}]
Object(K) == [form |-> "object", keys |-> K]

Read(table, limit, filters) ==
  [tool |-> "db_read", table |-> table, limit |-> limit, filters |-> filters]

Write(table, record) == [tool |-> "db_write", table |-> table, record |-> record]

Adopter(S) == [tool |-> "adopter", sources |-> S]

DataRequests ==
  {Read(t, {}, Absent) : t \in {NoTable, "audit_events", "personas", "sessions", "pg_class"}}
  \cup {Read("audit_events", {n}, Absent) : n \in {0, 1001}}
  \cup {Read("audit_events", {1000}, f) : f \in {NotObject, Object({"safe"}), Object({"safe", "unsafe"})}}
  \cup {Write("user_persona_assignments", r) : r \in {Absent, NotObject, Object({}), Object({"safe"}), Object({"unsafe"})}}
  \cup {Write("personas", Object({"safe"}))}

AllRequests == DataRequests \cup {Adopter({}), Adopter({"a"}), Adopter({"b"}), Adopter({"a", "b"})}

Block == [enforcement_action |-> "block", source_set |-> {"a", "b"}, exempt_persona_ids |-> {admin}]
Flag  == [enforcement_action |-> "flag", source_set |-> {"b"}, exempt_persona_ids |-> {}]

AllPolicies == {Block, Flag}
Switched == {Flag}

CallSymmetry == Permutations(Calls)
=============================================================================
