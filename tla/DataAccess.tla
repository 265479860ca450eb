---------------------------- MODULE DataAccess -----------------------------
(***************************************************************************)
(* What a governed call does once its persona and session are accepted     *)
(* (Dispatcher): db_read and db_write under the persona's scope, and an    *)
(* adopter's tool that asks checkCombinationPolicies before it reads its   *)
(* sources and records them with logAuditEvent afterwards.                 *)
(*                                                                         *)
(* A source is a set of names; what a query returns, and its SQL text, are *)
(* left out.                                                               *)
(***************************************************************************)
EXTENDS Integers, FiniteSets

CONSTANTS
  Calls, Sessions,
  PersonaOf,   \* the persona of each session
  ScopeOf,     \* scope_definition of each persona
  Requests,    \* what a call may ask for
  Policies,    \* combination_policies: source_set, enforcement_action, exempt_persona_ids
  Toggled      \* policies the operator may switch off and on

NoRequest == [tool |-> "none"]
NoTable   == "no table"
NoPolicy  == [enforcement_action |-> "none", source_set |-> {}, exempt_persona_ids |-> {}]
ErrorPolicy == [enforcement_action |-> "block", source_set |-> {}, exempt_persona_ids |-> {}]

ASSUME DataAccessAssumption ==
  /\ Toggled \subseteq Policies
  /\ NoPolicy \notin Policies /\ ErrorPolicy \notin Policies
  /\ \A r \in Requests : r.tool \in {"db_read", "db_write", "adopter"}

VARIABLES
  pc, session, request,  \* each call
  sources,               \* its candidate set
  policy,                \* the policy that fired
  active,                \* policies with active = true
  audit,                 \* calls whose audit row holds their sources
  readLog, violations,   \* audit_read_log, scope_violations: by call
  executed,              \* history: calls whose statement or read was run
  dropped,               \* history: calls one of whose log INSERTs failed
  unseen                 \* history: calls of the session, past their check, that this check missed

call == <<session, request>>
logs == <<audit, readLog, violations>>
vars == <<pc, call, sources, policy, active, logs, executed, dropped, unseen>>

Init ==
  /\ pc = [c \in Calls |-> "new"]
  /\ session \in [Calls -> Sessions]
  /\ request = [c \in Calls |-> NoRequest]
  /\ sources = [c \in Calls |-> {}]
  /\ policy = [c \in Calls |-> NoPolicy]
  /\ active = Policies
  /\ audit = {} /\ readLog = {} /\ violations = {}
  /\ executed = {} /\ dropped = {}
  /\ unseen = [c \in Calls |-> {}]

Goto(c, where) == pc' = [pc EXCEPT ![c] = where]

Incoming(c) == IF request[c].tool = "adopter" THEN request[c].sources ELSE {}

-----------------------------------------------------------------------------
(* db_read and db_write: tables and checks. *)

ADMIN_READ_TABLES == {"personas"}

ALLOWED_READ_TABLES ==
  {"audit_events", "scope_violations", "delegation_chain", "revocation_log", "sessions",
   "tool_registry", "user_persona_assignments", "erasure_log", "audit_chain_anchors",
   "retention_holds"}

AUDIT_CLASS_TABLES ==
  {"audit_events", "scope_violations", "revocation_log", "erasure_log", "audit_chain_anchors"}

ALLOWED_WRITE_TABLES == {"user_persona_assignments"}

Scope(c) == ScopeOf[PersonaOf[session[c]]]

\* Mutant: the table is not looked for in permitted_sources.
ReadScopeActionOnly(scope, table) ==
  (IF table \in ADMIN_READ_TABLES THEN "admin_read" ELSE "read") \in scope.permitted_actions

ReadScope(scope, table) ==
  /\ (IF table \in ADMIN_READ_TABLES THEN "admin_read" ELSE "read") \in scope.permitted_actions
  /\ table \in scope.permitted_sources

WriteScope(scope, table) ==
  /\ "write" \in scope.permitted_actions
  /\ table \in scope.output_destinations

isSafeIdentifier(name) == name = "safe"

\* An argument is absent, an object with the keys it has, or not an object at all.
SafeObject(arg) == arg.form = "object" /\ \A key \in arg.keys : isSafeIdentifier(key)

\* A limit that is absent, {}, stands for 100.
limitOf(r) == IF r.limit = {} THEN 100 ELSE CHOOSE n \in r.limit : TRUE

ReadArgsOk(r) == limitOf(r) \in 1 .. 1000 /\ (r.filters.form = "absent" \/ SafeObject(r.filters))

WriteArgsOk(r) == SafeObject(r.record) /\ r.record.keys # {}

\* The checks of a handler up to its first await.
Checked(allowed, inScope, argsOk) ==
  IF ~allowed THEN "refused" ELSE IF ~inScope THEN "violation"
  ELSE IF argsOk THEN "query" ELSE "refused"

db_read(r, scope) ==
  Checked(r.table \in ALLOWED_READ_TABLES \cup ADMIN_READ_TABLES,
          ReadScope(scope, r.table), ReadArgsOk(r))

db_write(r, scope) ==
  Checked(r.table \in ALLOWED_WRITE_TABLES, WriteScope(scope, r.table), WriteArgsOk(r))

\* What the inputSchema of a data tool requires, persona and session apart.
Required(tool) ==
  IF tool = "db_read" THEN {"table"} ELSE IF tool = "db_write" THEN {"table", "record"} ELSE {}

Present(r) ==
  (IF r.table = NoTable THEN {} ELSE {"table"})
  \cup (IF r.tool = "db_write" /\ r.record.form # "absent" THEN {"record"} ELSE {})

\* A protocol error, before the handler.
findMissingRequiredArg(r) == r.tool # "adopter" /\ ~(Required(r.tool) \subseteq Present(r))

\* A call that declares no sources has nothing to check.  (Nor has one without a
\* session; the dispatcher lets none of those reach a tool that asks.)
checkCombinationPolicies(r) == IF r.sources = {} THEN "read" ELSE "sources"

Arrive(c, r) ==
  /\ pc[c] = "new"
  /\ request' = [request EXCEPT ![c] = r]
  /\ Goto(c, IF findMissingRequiredArg(r) THEN "refused"
             ELSE IF r.tool = "db_read" THEN db_read(r, Scope(c))
             ELSE IF r.tool = "db_write" THEN db_write(r, Scope(c))
             ELSE checkCombinationPolicies(r))
  /\ UNCHANGED <<session, sources, policy, active, logs, executed, dropped, unseen>>

LogScopeViolation(c) ==
  /\ pc[c] = "violation"
  /\ Goto(c, "refused")
  /\ \/ violations' = violations \cup {c} /\ UNCHANGED dropped
     \/ dropped' = dropped \cup {c} /\ UNCHANGED violations
  /\ UNCHANGED <<call, sources, policy, active, audit, readLog, executed, unseen>>

AuditClass(c) == request[c].tool = "db_read" /\ request[c].table \in AUDIT_CLASS_TABLES

\* The statement, and whether it succeeds.
Query(c) ==
  /\ pc[c] = "query"
  /\ \/ Goto(c, IF AuditClass(c) THEN "log read" ELSE "answered") /\ executed' = executed \cup {c}
     \/ Goto(c, "refused") /\ UNCHANGED executed
  /\ UNCHANGED <<call, sources, policy, active, logs, dropped, unseen>>

LogAuditRead(c) ==
  /\ pc[c] = "log read"
  /\ Goto(c, "answered")
  /\ \/ readLog' = readLog \cup {c} /\ UNCHANGED dropped
     \/ dropped' = dropped \cup {c} /\ UNCHANGED readLog
  /\ UNCHANGED <<call, sources, policy, active, audit, violations, executed, unseen>>

-----------------------------------------------------------------------------
(* checkCombinationPolicies, and the tool that asks it. *)

OfSession(c, S) == {d \in S : session[d] = session[c]}

\* Mutant: the sources of every session.
RecordedAnywhere(c) == UNION {Incoming(d) : d \in audit}

RecordedSources(c) == UNION {Incoming(d) : d \in OfSession(c, audit)}

\* Mutant: a failed check lets the call through.
FailOpen == NoPolicy

FailClosed == ErrorPolicy

\* What to do under flag or require_human_review is the adopter's; the tool here
\* goes on.
Blocks(p, persona) == p.enforcement_action = "block" /\ persona \notin p.exempt_persona_ids

\* The tool reads its sources unless the policy that fired blocks it.
Obey(c, p) ==
  /\ policy' = [policy EXCEPT ![c] = p]
  /\ Goto(c, IF Blocks(p, PersonaOf[session[c]]) THEN "refused" ELSE "read")

PastCheck(d) == pc[d] \notin {"new", "sources"}

\* Step 1 and 2: the sources recorded for the session, and the incoming ones.
AccumulateSources(c) ==
  /\ pc[c] = "sources"
  /\ \/ /\ sources' = [sources EXCEPT ![c] = RecordedSources(c) \cup Incoming(c)]
        /\ unseen' = [unseen EXCEPT ![c] = {d \in OfSession(c, Calls) \ audit : PastCheck(d)}]
        /\ Goto(c, "policies")
        /\ UNCHANGED policy
     \/ /\ Obey(c, FailClosed)
        /\ UNCHANGED <<sources, unseen>>
  /\ UNCHANGED <<call, active, logs, executed, dropped>>

Matching(c) == {p \in active : p.source_set \subseteq sources[c]}

\* Steps 3 and 4: the first match, in the order the rows come in.
EvaluatePolicies(c) ==
  /\ pc[c] = "policies"
  /\ \/ \E p \in Matching(c) : Obey(c, p)
     \/ Matching(c) = {} /\ Obey(c, NoPolicy)
     \/ Obey(c, FailClosed)
  /\ UNCHANGED <<call, sources, active, logs, executed, dropped, unseen>>

ReadSources(c) ==
  /\ pc[c] = "read"
  /\ Goto(c, "log sources")
  /\ executed' = executed \cup {c}
  /\ UNCHANGED <<call, sources, policy, active, logs, dropped, unseen>>

\* logAuditEvent with sourcesActed.
LogSources(c) ==
  /\ pc[c] = "log sources"
  /\ Goto(c, "answered")
  /\ \/ audit' = audit \cup {c} /\ UNCHANGED dropped
     \/ dropped' = dropped \cup {c} /\ UNCHANGED audit
  /\ UNCHANGED <<call, sources, policy, active, readLog, violations, executed, unseen>>

Toggle(p) ==
  /\ active' = IF p \in active THEN active \ {p} ELSE active \cup {p}
  /\ UNCHANGED <<pc, call, sources, policy, logs, executed, dropped, unseen>>

Next ==
  \/ \E c \in Calls :
       \/ \E r \in Requests : Arrive(c, r)
       \/ LogScopeViolation(c) \/ Query(c) \/ LogAuditRead(c)
       \/ AccumulateSources(c) \/ EvaluatePolicies(c) \/ ReadSources(c) \/ LogSources(c)
  \/ \E p \in Toggled : Toggle(p)

Spec == Init /\ [][Next]_vars

-----------------------------------------------------------------------------
\* A combination that a steadily active policy blocks is never completed in one
\* session, save in three ways: two of the calls overlapped, one past its check
\* and not yet recorded when the other's check looked; a record of sources was
\* dropped; or another policy matched first and let the call pass
\* (_checkCombinationPolicies: check, then act; first match).
CombinationCaught ==
  \A s \in Sessions, p \in Policies \ Toggled :
    LET C == {c \in executed : session[c] = s /\ Incoming(c) # {}} IN
      Blocks(p, PersonaOf[s]) /\ p.source_set # {} /\ p.source_set \subseteq UNION {Incoming(c) : c \in C}
        => \E c \in C : unseen[c] \cap C # {} \/ policy[c] \notin {NoPolicy, p}

\* A call is refused for a combination only if it names a part of it, or its own
\* session has recorded all of it, and the persona is not exempt; or if the check
\* failed.
BlockedForCause ==
  \A c \in Calls : request[c].tool = "adopter" /\ pc[c] = "refused" =>
    \/ policy[c] = ErrorPolicy
    \/ /\ Blocks(policy[c], PersonaOf[session[c]])
       /\ policy[c].source_set \subseteq UNION {Incoming(d) : d \in {c} \cup OfSession(c, audit)}

\* No statement of a data tool runs outside the allowlist and the persona's
\* scope; every answered read of an audit-class table is in audit_read_log and
\* every refusal for scope in scope_violations, a failed INSERT of either apart;
\* and neither holds a call that was not answered, or not refused, that way.
AccessAccounted ==
  \A c \in Calls :
    LET r == request[c]
        allowed == IF r.tool = "db_read" THEN ALLOWED_READ_TABLES \cup ADMIN_READ_TABLES
                   ELSE ALLOWED_WRITE_TABLES
        granted == IF r.tool = "db_read" THEN Scope(c).permitted_sources
                   ELSE Scope(c).output_destinations
    IN  r.tool \in {"db_read", "db_write"} =>
          /\ c \in executed => r.table \in allowed \cap granted
          /\ c \in violations => c \notin executed /\ r.table \in allowed
          /\ pc[c] = "refused" /\ r.table \in allowed \ granted /\ ~findMissingRequiredArg(r) => c \in violations \cup dropped
          /\ c \in readLog => c \in executed /\ AuditClass(c)
          /\ pc[c] = "answered" /\ AuditClass(c) => c \in readLog \cup dropped
=============================================================================
