----------------------------- MODULE Dispatcher -----------------------------
(***************************************************************************)
(* The tools/call dispatcher with the tools that carry the authority of a  *)
(* persona: session_start, session_close, persona_revoke, and db_write for *)
(* the other governed tools.  Calls run concurrently; every await of a     *)
(* query is a step of its own, so a call acts on rows it read earlier.     *)
(*                                                                         *)
(* One clock stands for the database's now() and the server's Date.now().  *)
(***************************************************************************)
EXTENDS Naturals, FiniteSets

CONSTANTS
  Calls,       \* tools/call requests
  Personas,
  SessionIds,  \* the UUIDs session_start can draw
  Managers,    \* personas with manage_personas in permitted_actions
  ValidUntil,  \* personas.valid_until
  TTL,         \* GIF_SESSION_TTL_SECONDS
  MaxTime,     \* bound of the clock
  Tools,       \* tools the instance calls, of AllTools
  Faults       \* failures the instance explores, of AllFaults

AllTools == {"session_start", "session_close", "persona_revoke", "db_write"}

\* A query fails; a query commits and its reply is lost; an audit row is dropped.
AllFaults == {"query", "reply", "audit"}

ASSUME DispatcherAssumption ==
  /\ Managers \subseteq Personas
  /\ ValidUntil \in [Personas -> Nat]
  /\ TTL \in Nat
  /\ MaxTime \in Nat
  /\ Tools \subseteq AllTools
  /\ Faults \subseteq AllFaults

\* A text no uuid column accepts.
BadHandle == "not a uuid"

NoRow == [kind |-> "no row"]

NoReason == "none"

VARIABLES
  status,     \* personas.status
  sessions,   \* gif.sessions: sessions[s] is a row or NoRow
  trail,      \* gif.audit_events
  pc,         \* what each call awaits
  req,        \* its arguments
  entry,      \* the audit row it is about to write, or wrote
  closing,    \* sessions its UPDATE ... WHERE ended_at IS NULL has locked
  now,
  effects,    \* history: calls whose statement committed
  dropped,    \* history: calls whose audit row was dropped
  over        \* history: what was already over when the call arrived

vars == <<status, sessions, trail, pc, req, entry, closing, now, effects, dropped, over>>
rows == <<status, sessions>>
history == <<effects, dropped, over>>

Session(p, t, ended) == [persona |-> p, started_at |-> t, ended |-> ended]

Handles == SessionIds \cup {BadHandle}

\* An argument the tool does not have is fixed.
Requests ==
  {r \in [tool : Tools, persona : Personas, handle : Handles, target : Personas] :
     /\ r.tool = "session_start" => r.handle = BadHandle
     /\ r.tool # "persona_revoke" => r.target = r.persona}

SkipSession == {"session_start", "session_close"}

Governed(c) == req[c].tool \notin SkipSession

\* The table may hold the open sessions of an earlier run of the server.
Init ==
  /\ status = [p \in Personas |-> "active"]
  /\ sessions \in [SessionIds -> {NoRow} \cup {Session(p, 0, FALSE) : p \in Personas}]
  /\ trail = {}
  /\ pc = [c \in Calls |-> "idle"]
  /\ req = [c \in Calls |-> NoRow]
  /\ entry = [c \in Calls |-> NoRow]
  /\ closing = [c \in Calls |-> {}]
  /\ now = 0
  /\ effects = {}
  /\ dropped = {}
  /\ over = [c \in Calls |-> NoRow]

-----------------------------------------------------------------------------
Expired(s) == now > sessions[s].started_at + TTL

\* Nothing but the status.
StatusOnly(p) == status[p] = "active"

PersonaValid(p) == status[p] = "active" /\ ValidUntil[p] >= now

Rows == {s \in SessionIds : sessions[s] # NoRow}

Ended == {s \in Rows : sessions[s].ended}

OverNow ==
  [personas |-> {p \in Personas : status[p] = "revoked" \/ ValidUntil[p] < now}, ended |-> Ended,
   expired |-> {s \in Rows : Expired(s)}, unknown |-> SessionIds \ Rows]

Goto(c, place) == pc' = [pc EXCEPT ![c] = place]

\* An answer that leaves no audit row.
Answer(c) == Goto(c, "done") /\ UNCHANGED entry

Audit(c, event, session, outcome, reason) ==
  /\ entry' = [entry EXCEPT ![c] =
                 [call |-> c, event |-> event, persona |-> req[c].persona,
                  session |-> session, outcome |-> outcome, reason |-> reason]]
  /\ Goto(c, "audit")

Arrive(c) ==
  /\ pc[c] = "idle"
  /\ \E r \in Requests : req' = [req EXCEPT ![c] = r]
  /\ over' = [over EXCEPT ![c] = OverNow]
  /\ Goto(c, "persona")
  /\ UNCHANGED <<rows, trail, entry, closing, now, effects, dropped>>

(***************************************************************************)
(* validatePersona: a refusal, or a failed query, leaves no audit row.     *)
(* Requests are complete: the dispatcher answers a missing argument before *)
(* it touches any state, and without an audit row.                         *)
(***************************************************************************)
AfterPersona(tool) ==
  CASE tool = "session_start" -> "mint"
    [] tool = "session_close" -> "lookup"
    [] OTHER -> "handle"

ValidatePersona(c) ==
  /\ pc[c] = "persona"
  /\ \/ PersonaValid(req[c].persona) /\ Goto(c, AfterPersona(req[c].tool)) /\ UNCHANGED entry
     \/ ~PersonaValid(req[c].persona) /\ Answer(c)
     \/ "query" \in Faults /\ Answer(c)
  /\ UNCHANGED <<rows, trail, req, closing, now, history>>

(***************************************************************************)
(* validateSessionHandle: one SELECT.  Closure takes precedence over       *)
(* expiry; a failed SELECT is answered without an audit row.  Personas are *)
(* compared as they are spelt: an id in another case is another persona.   *)
(***************************************************************************)
\* Mutant: expiry before closure.
VerdictExpiryFirst(p, s) ==
  IF s \notin Rows THEN "SESSION_NOT_FOUND"
  ELSE IF sessions[s].persona # p THEN "SESSION_PERSONA_MISMATCH"
  ELSE IF Expired(s) THEN "SESSION_EXPIRED"
  ELSE IF s \in Ended THEN "SESSION_CLOSED"
  ELSE "accept"

Verdict(p, s) ==
  IF s \notin Rows THEN "SESSION_NOT_FOUND"
  ELSE IF sessions[s].persona # p THEN "SESSION_PERSONA_MISMATCH"
  ELSE IF s \in Ended THEN "SESSION_CLOSED"
  ELSE IF Expired(s) THEN "SESSION_EXPIRED"
  ELSE "accept"

\* The handle as the caller gave it.
LinkAlways(verdict, s) == s

LinkFor(verdict, s) == IF verdict = "SESSION_NOT_FOUND" THEN NoRow ELSE s

Deny(c, verdict) ==
  Audit(c, IF verdict = "SESSION_EXPIRED" THEN "session_expired" ELSE "session_rejected_closed",
        LinkFor(verdict, req[c].handle), "denied", verdict)

ValidateHandle(c) ==
  LET verdict == Verdict(req[c].persona, req[c].handle) IN
    /\ pc[c] = "handle"
    /\ \/ req[c].handle = BadHandle /\ Answer(c)
       \/ "query" \in Faults /\ Answer(c)
       \/ /\ req[c].handle # BadHandle
          /\ verdict # "accept"
          /\ Deny(c, verdict)
       \/ /\ req[c].handle # BadHandle
          /\ verdict = "accept"
          /\ Goto(c, req[c].tool)
          /\ UNCHANGED entry
    /\ UNCHANGED <<rows, trail, req, closing, now, history>>

-----------------------------------------------------------------------------
(***************************************************************************)
(* Execution.  Allowed and Failed put into the finally block what the tool *)
(* returned; Effect records that the statement committed.                  *)
(***************************************************************************)
\* The handler of persona_revoke classifies its event; the rest leave the default.
auditMetadata(tool) == IF tool = "persona_revoke" THEN "persona_revoke" ELSE "tool_call"

EventOf(c) == IF Governed(c) THEN auditMetadata(req[c].tool) ELSE req[c].tool

Finally(c, outcome) == Audit(c, EventOf(c), req[c].handle, outcome, NoReason)

Effect(c) == effects' = effects \cup {c}

NoEffect == UNCHANGED <<rows, effects>>

\* An answer that calls every result a success.
FailedAllowed(c) == Finally(c, "allowed")

Failed(c) == Finally(c, "error")

\* db_write: out of scope, malformed, or a failed INSERT; or the INSERT commits.
Write(c) ==
  /\ pc[c] = "db_write"
  /\ \/ Effect(c) /\ Finally(c, "allowed")
     \/ "reply" \in Faults /\ Effect(c) /\ Failed(c)
     \/ UNCHANGED effects /\ Failed(c)
  /\ UNCHANGED <<rows, trail, req, closing, now, dropped, over>>

(***************************************************************************)
(* persona_revoke: scope, then the target's status, then one transaction   *)
(* on a client of its own.  Its UPDATEs lock the target's row and the      *)
(* sessions they close until COMMIT; what a SELECT sees changes then.      *)
(***************************************************************************)
FetchTarget(c) ==
  LET target == req[c].target IN
    /\ pc[c] = "persona_revoke"
    /\ \/ /\ req[c].persona \in Managers
          /\ status[target] # "revoked"
          /\ Goto(c, "update")
          /\ UNCHANGED entry
       \/ req[c].persona \notin Managers /\ Failed(c)
       \/ status[target] = "revoked" /\ Failed(c)
       \/ "query" \in Faults /\ Failed(c)
    /\ UNCHANGED <<rows, trail, req, closing, now, history>>

InTransaction(c) == pc[c] = "commit"

TargetLocked(c) ==
  \E d \in Calls \ {c} : InTransaction(d) /\ req[d].target = req[c].target

SessionLocked(s) == \E d \in Calls : InTransaction(d) /\ s \in closing[d]

\* Without AND ended_at IS NULL; and with a look at the expiry.
OwnedAny(p) == {s \in Rows : sessions[s].persona = p}

OwnedUnexpired(p) == {s \in Rows \ Ended : sessions[s].persona = p /\ ~Expired(s)}

OwnedOpen(p) == {s \in Rows \ Ended : sessions[s].persona = p}

BeginRevoke(c) ==
  /\ pc[c] = "update"
  /\ \/ /\ ~TargetLocked(c)
        /\ closing' = [closing EXCEPT ![c] = OwnedOpen(req[c].target)]
        /\ Goto(c, "commit")
        /\ UNCHANGED entry
     \/ "query" \in Faults /\ Failed(c) /\ UNCHANGED closing
  /\ UNCHANGED <<rows, trail, req, now, history>>

CommitRevoke(c) ==
  /\ status' = [status EXCEPT ![req[c].target] = "revoked"]
  /\ sessions' = [s \in SessionIds |->
                    IF s \in closing[c] THEN [sessions[s] EXCEPT !.ended = TRUE]
                                        ELSE sessions[s]]
  /\ Effect(c)
  /\ UNCHANGED closing

RollbackRevoke(c) == closing' = [closing EXCEPT ![c] = {}] /\ NoEffect

EndRevoke(c) ==
  /\ InTransaction(c)
  /\ \/ CommitRevoke(c) /\ Finally(c, "allowed")
     \/ "reply" \in Faults /\ CommitRevoke(c) /\ Failed(c)
     \/ "query" \in Faults /\ RollbackRevoke(c) /\ Failed(c)
  /\ UNCHANGED <<trail, req, now, dropped, over>>

\* session_start: the handler throws when createSession does, and no row is written.
createSession(c, s) == sessions' = [sessions EXCEPT ![s] = Session(req[c].persona, now, FALSE)]

Mint(c) ==
  /\ pc[c] = "mint"
  /\ \/ \E s \in SessionIds \ Rows :
          /\ createSession(c, s)
          /\ Effect(c)
          /\ \/ Audit(c, "session_start", s, "allowed", NoReason)
             \/ "reply" \in Faults /\ Answer(c)
     \/ "query" \in Faults /\ NoEffect /\ Answer(c)
  /\ UNCHANGED <<status, trail, req, closing, now, dropped, over>>

(***************************************************************************)
(* session_close: a lookup of its own, which does not look at the expiry,  *)
(* then an UPDATE that names the session and nothing else.                 *)
(***************************************************************************)
CloseVerdict(p, s) ==
  IF s \notin Rows THEN "SESSION_NOT_FOUND"
  ELSE IF sessions[s].persona # p THEN "SESSION_PERSONA_MISMATCH"
  ELSE IF s \in Ended THEN "SESSION_ALREADY_CLOSED"
  ELSE "accept"

Lookup(c) ==
  LET verdict == CloseVerdict(req[c].persona, req[c].handle) IN
    /\ pc[c] = "lookup"
    /\ \/ req[c].handle = BadHandle /\ Answer(c)
       \/ "query" \in Faults /\ Answer(c)
       \/ /\ req[c].handle # BadHandle
          /\ verdict # "accept"
          /\ Deny(c, verdict)
       \/ /\ req[c].handle # BadHandle
          /\ verdict = "accept"
          /\ Goto(c, "close")
          /\ UNCHANGED entry
    /\ UNCHANGED <<rows, trail, req, closing, now, history>>

Close(c) ==
  /\ pc[c] = "close"
  /\ \/ /\ ~SessionLocked(req[c].handle)
        /\ sessions' = [sessions EXCEPT ![req[c].handle].ended = TRUE]
        /\ Effect(c)
        /\ \/ Finally(c, "allowed")
           \/ "reply" \in Faults /\ Answer(c)
     \/ "query" \in Faults /\ UNCHANGED <<sessions, effects>> /\ Answer(c)
  /\ UNCHANGED <<status, trail, req, closing, now, dropped, over>>

-----------------------------------------------------------------------------
\* logAuditEvent never throws: a row it cannot write is dropped.
WriteAudit(c) ==
  /\ pc[c] = "audit"
  /\ \/ trail' = trail \cup {entry[c]} /\ UNCHANGED dropped
     \/ "audit" \in Faults /\ dropped' = dropped \cup {c} /\ UNCHANGED trail
  /\ Goto(c, "done")
  /\ UNCHANGED <<rows, req, entry, closing, now, effects, over>>

Tick ==
  /\ now < MaxTime
  /\ now' = now + 1
  /\ UNCHANGED <<rows, trail, pc, req, entry, closing, history>>

Next ==
  \/ Tick
  \/ \E c \in Calls :
       \/ Arrive(c)
       \/ ValidatePersona(c)
       \/ ValidateHandle(c)
       \/ Write(c)
       \/ FetchTarget(c)
       \/ BeginRevoke(c)
       \/ EndRevoke(c)
       \/ Mint(c)
       \/ Lookup(c)
       \/ Close(c)
       \/ WriteAudit(c)

Spec == Init /\ [][Next]_vars

-----------------------------------------------------------------------------
(***************************************************************************)
(* Properties.                                                             *)
(***************************************************************************)
Places == {"idle", "persona", "handle", "mint", "lookup", "close", "update", "commit",
           "audit", "done", "db_write", "persona_revoke"}

Reasons == {NoReason, "SESSION_NOT_FOUND", "SESSION_PERSONA_MISMATCH", "SESSION_CLOSED",
            "SESSION_ALREADY_CLOSED", "SESSION_EXPIRED"}

IsEntry(e) ==
  /\ e.call \in Calls
  /\ e.persona = req[e.call].persona
  /\ e.session \in Rows \cup {NoRow}
  /\ e.outcome \in {"allowed", "denied", "error"}
  /\ e.reason \in Reasons
  /\ e.reason # NoReason <=> e.outcome = "denied"

(* The type invariant: among it, every audit row that is written, or about *)
(* to be, links to a session row that exists, so that its foreign key      *)
(* never drops it.                                                         *)
TypeOK ==
  /\ status \in [Personas -> {"active", "revoked"}]
  /\ sessions \in [SessionIds -> {NoRow} \cup
       {Session(p, t, e) : p \in Personas, t \in 0 .. MaxTime, e \in BOOLEAN}]
  /\ pc \in [Calls -> Places]
  /\ \A c \in Calls : pc[c] # "idle" => req[c] \in Requests
  /\ \A c \in Calls : entry[c] = NoRow \/ IsEntry(entry[c])
  /\ trail \subseteq {entry[c] : c \in Calls} \ {NoRow}
  /\ closing \in [Calls -> SUBSET SessionIds]
  /\ now \in 0 .. MaxTime

(* Revocation, expiry and closure are immediate for every call that        *)
(* arrives later: whatever runs between its checks and its statement, a    *)
(* call has an effect only under a persona that was valid when it arrived  *)
(* and in a session of that persona that had not been closed (nor, for a   *)
(* governed tool, had expired) by then.                                    *)
AuthorityAtStart ==
  \A c \in effects :
    /\ req[c].persona \notin over[c].personas
    /\ req[c].tool # "session_start" =>
         /\ sessions[req[c].handle].persona = req[c].persona
         /\ req[c].handle \notin over[c].ended
    /\ Governed(c) => req[c].handle \notin over[c].expired
    /\ req[c].tool = "persona_revoke" => req[c].persona \in Managers

(* The trail is the truth about finished calls.  An allowed row is a       *)
(* statement that committed, a denied row one that did not; an effect with *)
(* no row, or with an error row, takes a lost reply (the former only in    *)
(* the session tools, whose handlers return before they audit).            *)
Accounted ==
  \A c \in Calls :
    pc[c] = "done" =>
      \/ /\ entry[c] = NoRow
         /\ c \in effects => "reply" \in Faults /\ ~Governed(c)
      \/ /\ entry[c] \in trail \/ c \in dropped
         /\ entry[c].outcome = "allowed" => c \in effects
         /\ entry[c].outcome = "denied" => c \notin effects
         /\ entry[c].outcome = "error" /\ c \in effects => "reply" \in Faults

(* A denied row gives the real reason: closure is never reported as expiry *)
(* or the other way round, however the clock, a close and a revocation     *)
(* race with the lookup.                                                   *)
TruthOf(r, s) ==
  /\ r.reason = "SESSION_NOT_FOUND" => s \in over[r.call].unknown /\ r.session = NoRow
  /\ r.reason = "SESSION_PERSONA_MISMATCH" => sessions[s].persona # r.persona
  /\ r.reason = "SESSION_EXPIRED" => s \notin over[r.call].ended /\ Expired(s)
  /\ r.reason \in {"SESSION_CLOSED", "SESSION_ALREADY_CLOSED"} =>
       s \in Ended /\ sessions[s].persona = r.persona

RejectionsTruthful ==
  \A r \in trail : r.outcome = "denied" => TruthOf(r, req[r.call].handle)

Revocations == {c \in effects : req[c].tool = "persona_revoke"}

(* A revocation leaves no session of its target open but those minted      *)
(* after its call arrived.                                                 *)
RevocationClosesSessions ==
  \A c \in Revocations : \A s \in SessionIds \ over[c].unknown :
    sessions[s].persona = req[c].target => s \in Ended

(* revocation_log.active_sessions_terminated: a session is counted by one  *)
(* revocation at most, also when two calls revoke one persona at once, and *)
(* never if it was closed before the revocation's call arrived.            *)
TerminatedOnce ==
  \A c \in Revocations :
    /\ closing[c] \cap over[c].ended = {}
    /\ \A d \in Revocations \ {c} : closing[c] \cap closing[d] = {}

(* GIF-020: a second close of an already closed session is rejected.       *)
SecondCloseRejected ==
  \A c, d \in effects :
    (req[c].tool = "session_close" /\ req[d].tool = "session_close"
       /\ req[c].handle = req[d].handle) => c = d

=============================================================================
