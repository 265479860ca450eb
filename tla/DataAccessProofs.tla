-------------------------- MODULE DataAccessProofs --------------------------
(***************************************************************************)
(* The data tools and the combination check, for any number of calls,      *)
(* sessions, requests and policies.                                        *)
(*                                                                         *)
(* CombinationCaught has a race in it, so its strengthening, SeenInv, says *)
(* what is left of mutual knowledge when the checks interleave: among any  *)
(* checked calls of one session there is one, the last to look, that saw   *)
(* the sources of each of the others or has it in its unseen set.          *)
(***************************************************************************)
EXTENDS DataAccess, TLAPS

Places == {"new", "refused", "violation", "query", "log read",
           "sources", "policies", "read", "log sources", "answered"}

Named == UNION {r.sources : r \in {q \in Requests : q.tool = "adopter"}}

Typed ==
  /\ pc \in [Calls -> Places]
  /\ session \in [Calls -> Sessions]
  /\ request \in [Calls -> Requests \cup {NoRequest}]
  /\ \A c \in Calls : request[c] = NoRequest <=> pc[c] = "new"
  /\ sources \in [Calls -> SUBSET Named]
  /\ policy \in [Calls -> Policies \cup {NoPolicy, ErrorPolicy}]
  /\ unseen \in [Calls -> SUBSET Calls]
  /\ Policies \ Toggled \subseteq active /\ active \subseteq Policies
  /\ audit \cup readLog \cup violations \cup executed \cup dropped \subseteq {c \in Calls : pc[c] # "new"}

Data(c) == request[c].tool \in {"db_read", "db_write"}

allowed(c) ==
  IF request[c].tool = "db_read" THEN ALLOWED_READ_TABLES \cup ADMIN_READ_TABLES
  ELSE ALLOWED_WRITE_TABLES

granted(c) ==
  IF request[c].tool = "db_read" THEN Scope(c).permitted_sources ELSE Scope(c).output_destinations

\* Where a db call stands tells which logs have it.
AccessOf(c) ==
  /\ pc[c] \in {"query", "violation", "log read"} => Data(c)
  /\ pc[c] \in {"sources", "policies", "read", "log sources"} => request[c].tool = "adopter"
  /\ Data(c) =>
       /\ c \in executed <=> pc[c] \in {"log read", "answered"}
       /\ pc[c] \in {"query", "log read", "answered"} => request[c].table \in allowed(c) \cap granted(c)
       /\ pc[c] = "violation" => request[c].table \in allowed(c)
       /\ pc[c] = "log read" => AuditClass(c)
       /\ c \in violations => pc[c] = "refused" /\ request[c].table \in allowed(c)
       /\ pc[c] = "refused" /\ request[c].table \in allowed(c) \ granted(c) /\ ~findMissingRequiredArg(request[c])
            => c \in violations \cup dropped
       /\ c \in readLog => pc[c] = "answered" /\ AuditClass(c)
       /\ pc[c] = "answered" /\ AuditClass(c) => c \in readLog \cup dropped

AccessInv == \A c \in Calls : AccessOf(c)

\* What c may know: its own sources, and those its session has recorded.
Known(c) == UNION {Incoming(d) : d \in {c} \cup OfSession(c, audit)}

\* What the check of an adopter's call has concluded, and from what.
CauseOf(c) ==
  /\ pc[c] \in {"new", "sources"} => sources[c] = {}
  /\ sources[c] \subseteq Known(c)
  /\ pc[c] = "policies" => Incoming(c) \subseteq sources[c]
  /\ request[c].tool = "adopter" /\ c \in executed => pc[c] \in {"log sources", "answered"}
  /\ request[c].tool = "adopter" /\ pc[c] = "refused" =>
       \/ policy[c] = ErrorPolicy
       \/ Blocks(policy[c], PersonaOf[session[c]]) /\ policy[c].source_set \subseteq sources[c]
  /\ Incoming(c) # {} /\ pc[c] \in {"read", "log sources", "answered"} =>
       /\ Incoming(c) \subseteq sources[c]
       /\ ~Blocks(policy[c], PersonaOf[session[c]])
       /\ policy[c] = NoPolicy => \A p \in Policies \ Toggled : ~(p.source_set \subseteq sources[c])

CauseInv == \A c \in Calls : CauseOf(c)

\* Calls of a session whose check has looked at what is recorded.
Looked(s) == {c \in Calls : session[c] = s /\ Incoming(c) # {} /\ Incoming(c) \subseteq sources[c]}

SeenInv ==
  \A s \in Sessions : \A D \in SUBSET Looked(s) : D # {} =>
    \E c \in D : \A d \in D : Incoming(d) \subseteq sources[c] \/ d \in unseen[c]

AccessProofInv == Typed /\ AccessInv /\ CauseInv /\ SeenInv

-----------------------------------------------------------------------------
LEMMA IncomingNamed ==
  ASSUME Typed, NEW c \in Calls
  PROVE  /\ Incoming(c) \subseteq Named
         /\ pc[c] = "new" => Incoming(c) = {}
<1>1. request[c] \in Requests \cup {NoRequest} /\ (request[c] = NoRequest <=> pc[c] = "new")
  BY DEF Typed
<1>2. NoRequest.tool = "none"
  BY DEF NoRequest
<1> QED
  BY <1>1, <1>2 DEF Incoming, Named

LEMMA InitEstablishes == Init => AccessProofInv
<1> SUFFICES ASSUME Init PROVE AccessProofInv
  OBVIOUS
<1> USE DEF Init
<1>1. NoRequest.tool = "none"
  BY DEF NoRequest
<1>2. Typed
  BY DataAccessAssumption DEF Typed, Places
<1>3. \A c \in Calls : Incoming(c) = {}
  BY <1>1 DEF Incoming
<1>4. AccessInv
  BY <1>1 DEF AccessInv, AccessOf, Data
<1>5. CauseInv
  BY <1>1, <1>3 DEF CauseInv, CauseOf
<1>6. SeenInv
  BY <1>3 DEF SeenInv, Looked
<1> QED
  BY <1>2, <1>4, <1>5, <1>6 DEF AccessProofInv

\* Where the checks of an arriving call lead.
LEMMA ArriveGoes ==
  ASSUME Typed, NEW c \in Calls, NEW r \in Requests, Arrive(c, r)
  PROVE  \E where \in Places \ {"new"} :
           /\ pc[c] = "new" /\ pc' = [pc EXCEPT ![c] = where]
           /\ request' = [request EXCEPT ![c] = r] /\ request'[c] = r
           /\ UNCHANGED <<session, sources, policy, active, logs, executed, dropped, unseen>>
           /\ findMissingRequiredArg(r) => where = "refused"
           /\ ~findMissingRequiredArg(r) =>
                where = IF r.tool = "db_read" THEN db_read(r, Scope(c))
                        ELSE IF r.tool = "db_write" THEN db_write(r, Scope(c)) ELSE checkCombinationPolicies(r)
<1> DEFINE where == IF findMissingRequiredArg(r) THEN "refused"
                    ELSE IF r.tool = "db_read" THEN db_read(r, Scope(c))
                    ELSE IF r.tool = "db_write" THEN db_write(r, Scope(c)) ELSE checkCombinationPolicies(r)
<1>1. r.tool \in {"db_read", "db_write", "adopter"}
  BY DataAccessAssumption
<1>2. \A a, b, d : Checked(a, b, d) \in Places \ {"new"}
  BY DEF Checked, Places
<1>3. where \in Places \ {"new"}
  BY <1>1, <1>2 DEF db_read, db_write, checkCombinationPolicies, Places
<1> QED
  BY <1>3 DEF Arrive, Goto, Typed

\* The calls already there go on one at a time, and keep what they asked for.
Onward(c) ==
  \/ LogScopeViolation(c) \/ Query(c) \/ LogAuditRead(c)
  \/ AccumulateSources(c) \/ EvaluatePolicies(c) \/ ReadSources(c) \/ LogSources(c)

LEMMA OnwardGoes ==
  ASSUME Typed, NEW c \in Calls, Onward(c)
  PROVE  /\ pc[c] \in Places \ {"new", "refused", "answered"}
         /\ \E where \in Places \ {"new"} : pc' = [pc EXCEPT ![c] = where]
         /\ UNCHANGED <<session, request, active>>
         /\ \A d \in Calls : Incoming(d)' = Incoming(d)
<1>1. /\ pc[c] \in Places \ {"new", "refused", "answered"}
      /\ UNCHANGED <<session, request, active>>
  BY DEF Onward, LogScopeViolation, Query, LogAuditRead, AccumulateSources, EvaluatePolicies,
         ReadSources, LogSources, call, Places
<1>2. \E where \in Places \ {"new"} : pc' = [pc EXCEPT ![c] = where]
  <2>1. CASE LogScopeViolation(c)
    BY <2>1 DEF LogScopeViolation, Goto, Places
  <2>2. CASE Query(c)
    BY <2>2 DEF Query, Goto, Places
  <2>3. CASE LogAuditRead(c)
    BY <2>3 DEF LogAuditRead, Goto, Places
  <2>4. CASE AccumulateSources(c)
    BY <2>4 DEF AccumulateSources, Obey, Goto, Places
  <2>5. CASE EvaluatePolicies(c)
    BY <2>5 DEF EvaluatePolicies, Obey, Goto, Places
  <2>6. CASE ReadSources(c)
    BY <2>6 DEF ReadSources, Goto, Places
  <2>7. CASE LogSources(c)
    BY <2>7 DEF LogSources, Goto, Places
  <2> QED
    BY <2>1, <2>2, <2>3, <2>4, <2>5, <2>6, <2>7 DEF Onward
<1> QED
  BY <1>1, <1>2 DEF Incoming

LEMMA RecordedNamed ==
  ASSUME Typed, NEW c \in Calls
  PROVE  RecordedSources(c) \cup Incoming(c) \subseteq Named
<1>1. \A d \in audit : d \in Calls
  BY DEF Typed
<1>2. \A d \in Calls : Incoming(d) \subseteq Named
  BY IncomingNamed
<1> QED
  BY <1>1, <1>2 DEF RecordedSources, OfSession

LEMMA TypedKept ==
  ASSUME Typed, [Next]_vars
  PROVE  Typed'
<1>1. ASSUME NEW c \in Calls, NEW r \in Requests, Arrive(c, r) PROVE Typed'
  <2>1. PICK where \in Places \ {"new"} :
          /\ pc[c] = "new" /\ pc' = [pc EXCEPT ![c] = where]
          /\ request' = [request EXCEPT ![c] = r]
          /\ UNCHANGED <<session, sources, policy, active, logs, executed, dropped, unseen>>
    BY <1>1, ArriveGoes
  <2>2. r # NoRequest
    BY DataAccessAssumption DEF NoRequest
  <2>3. /\ pc' \in [Calls -> Places] /\ request' \in [Calls -> Requests \cup {NoRequest}]
        /\ \A d \in Calls : request'[d] = NoRequest <=> pc'[d] = "new"
    BY <2>1, <2>2 DEF Typed
  <2>4. \A d \in Calls : pc[d] # "new" => pc'[d] # "new"
    BY <2>1 DEF Typed
  <2> QED
    BY <2>1, <2>3, <2>4 DEF Typed, logs
<1>2. ASSUME NEW c \in Calls, Onward(c) PROVE Typed'
  <2>1. /\ pc[c] \in Places \ {"new"} /\ UNCHANGED <<session, request, active>>
    BY <1>2, OnwardGoes
  <2>2. PICK where \in Places \ {"new"} : pc' = [pc EXCEPT ![c] = where]
    BY <1>2, OnwardGoes
  <2>3. /\ pc' \in [Calls -> Places]
        /\ \A d \in Calls : pc'[d] = "new" <=> pc[d] = "new"
    BY <2>1, <2>2 DEF Typed
  <2>4. /\ audit' \subseteq audit \cup {c} /\ readLog' \subseteq readLog \cup {c}
        /\ violations' \subseteq violations \cup {c} /\ executed' \subseteq executed \cup {c}
        /\ dropped' \subseteq dropped \cup {c}
    BY <1>2 DEF Onward, LogScopeViolation, Query, LogAuditRead, AccumulateSources, EvaluatePolicies,
                ReadSources, LogSources, logs
  <2>5. audit' \cup readLog' \cup violations' \cup executed' \cup dropped' \subseteq {d \in Calls : pc'[d] # "new"}
    BY <2>1, <2>3, <2>4 DEF Typed
  <2>6. sources' \in [Calls -> SUBSET Named]
    <3>1. \/ UNCHANGED sources
          \/ sources' = [sources EXCEPT ![c] = RecordedSources(c) \cup Incoming(c)]
      BY <1>2 DEF Onward, LogScopeViolation, Query, LogAuditRead, AccumulateSources, EvaluatePolicies,
                  ReadSources, LogSources
    <3> QED
      BY <3>1, RecordedNamed DEF Typed
  <2>7. unseen' \in [Calls -> SUBSET Calls]
    <3>1. \/ UNCHANGED unseen
          \/ unseen' = [unseen EXCEPT ![c] = {d \in OfSession(c, Calls) \ audit : PastCheck(d)}]
      BY <1>2 DEF Onward, LogScopeViolation, Query, LogAuditRead, AccumulateSources, EvaluatePolicies,
                  ReadSources, LogSources
    <3> QED
      BY <3>1 DEF Typed, OfSession
  <2>8. policy' \in [Calls -> Policies \cup {NoPolicy, ErrorPolicy}]
    <3>1. \/ UNCHANGED policy
          \/ \E p \in active \cup {NoPolicy, ErrorPolicy} : policy' = [policy EXCEPT ![c] = p]
      BY <1>2 DEF Onward, LogScopeViolation, Query, LogAuditRead, AccumulateSources, EvaluatePolicies,
                  ReadSources, LogSources, Obey, Matching, FailClosed
    <3> QED
      BY <3>1 DEF Typed
  <2> QED
    BY <2>1, <2>3, <2>5, <2>6, <2>7, <2>8 DEF Typed
<1>3. ASSUME NEW p \in Toggled, Toggle(p) PROVE Typed'
  BY <1>3, DataAccessAssumption DEF Typed, Toggle, call, logs
<1>4. CASE UNCHANGED vars
  BY <1>4 DEF Typed, vars, call, logs
<1> QED
  BY <1>1, <1>2, <1>3, <1>4 DEF Next, Onward

-----------------------------------------------------------------------------
(* The logs of db_read and db_write. *)

\* A call's standing is read off its own place and its own entries.
LEMMA OthersAccess ==
  ASSUME NEW d \in Calls, AccessOf(d), pc'[d] = pc[d], request'[d] = request[d], session' = session,
         d \in executed' <=> d \in executed, d \in violations' <=> d \in violations,
         d \in readLog' <=> d \in readLog, d \in dropped' <=> d \in dropped
  PROVE  AccessOf(d)'
<1>1. /\ Data(d)' = Data(d) /\ allowed(d)' = allowed(d) /\ granted(d)' = granted(d)
      /\ AuditClass(d)' = AuditClass(d)
      /\ findMissingRequiredArg(request[d])' = findMissingRequiredArg(request[d])
  BY DEF Data, allowed, granted, AuditClass, Scope, findMissingRequiredArg, Required, Present
<1> QED
  BY <1>1 DEF AccessOf

LEMMA ArriveAccess ==
  ASSUME Typed, NEW c \in Calls, NEW r \in Requests, Arrive(c, r)
  PROVE  AccessOf(c)'
<1>1. PICK where \in Places \ {"new"} :
        /\ pc[c] = "new" /\ pc' = [pc EXCEPT ![c] = where] /\ request'[c] = r
        /\ UNCHANGED <<session, sources, policy, active, logs, executed, dropped, unseen>>
        /\ findMissingRequiredArg(r) => where = "refused"
        /\ ~findMissingRequiredArg(r) =>
             where = IF r.tool = "db_read" THEN db_read(r, Scope(c))
                     ELSE IF r.tool = "db_write" THEN db_write(r, Scope(c)) ELSE checkCombinationPolicies(r)
  BY ArriveGoes
<1>2. pc'[c] = where /\ c \notin executed' \cup violations' \cup readLog' \cup dropped'
  BY <1>1 DEF Typed, logs
<1>3. Scope(c)' = Scope(c)
  BY <1>1 DEF Scope
<1>4. r.tool \in {"db_read", "db_write", "adopter"}
  BY DataAccessAssumption
<1>5. CASE r.tool = "adopter"
  <2>1. ~findMissingRequiredArg(r) /\ where \in {"read", "sources"}
    BY <1>1, <1>5 DEF findMissingRequiredArg, checkCombinationPolicies
  <2> QED
    BY <1>1, <1>2, <1>5, <2>1 DEF AccessOf, Data
<1>6. ASSUME r.tool = "db_read" \/ r.tool = "db_write" PROVE AccessOf(c)'
  <2>1. Data(c)' /\ r.tool # "adopter"
    BY <1>1, <1>6 DEF Data
  <2>2. where \in {"refused", "violation", "query"}
    BY <1>1, <1>6 DEF db_read, db_write, Checked
  <2>3. where \in {"violation", "query"} => request'[c].table \in allowed(c)'
    BY <1>1, <1>6 DEF db_read, db_write, Checked, allowed
  <2>4. where = "query" => request'[c].table \in granted(c)'
    BY <1>1, <1>3, <1>6 DEF db_read, db_write, Checked, ReadScope, WriteScope, granted
  <2>5. where = "refused" /\ ~findMissingRequiredArg(r) => request'[c].table \notin allowed(c)' \ granted(c)'
    BY <1>1, <1>3, <1>6 DEF db_read, db_write, Checked, ReadScope, WriteScope, allowed, granted
  <2>6. findMissingRequiredArg(request[c])' = findMissingRequiredArg(r)
    BY <1>1 DEF findMissingRequiredArg, Required, Present
  <2> QED
    BY <1>1, <1>2, <2>1, <2>2, <2>3, <2>4, <2>5, <2>6 DEF AccessOf
<1> QED
  BY <1>4, <1>5, <1>6

LEMMA OnwardAccess ==
  ASSUME Typed, NEW c \in Calls, AccessOf(c), Onward(c)
  PROVE  AccessOf(c)'
<1>1. UNCHANGED <<session, request>> /\ pc[c] \in Places
  BY OnwardGoes
<1>2. /\ Data(c)' = Data(c) /\ allowed(c)' = allowed(c) /\ granted(c)' = granted(c)
      /\ AuditClass(c)' = AuditClass(c)
      /\ findMissingRequiredArg(request[c])' = findMissingRequiredArg(request[c])
  BY <1>1 DEF Data, allowed, granted, AuditClass, Scope, findMissingRequiredArg, Required, Present
<1>3. Data(c) => request[c].tool # "adopter"
  BY DEF Data
<1>4. CASE LogScopeViolation(c)
  <2>1. /\ pc[c] = "violation" /\ pc'[c] = "refused" /\ UNCHANGED <<executed, readLog>>
        /\ c \in violations' \cup dropped'
    BY <1>4 DEF LogScopeViolation, Goto, Typed
  <2> QED
    BY <1>1, <1>2, <2>1 DEF AccessOf
<1>5. CASE Query(c)
  <2>1. /\ pc[c] = "query" /\ UNCHANGED <<violations, readLog, dropped>>
        /\ \/ pc'[c] = (IF AuditClass(c) THEN "log read" ELSE "answered") /\ c \in executed'
           \/ pc'[c] = "refused" /\ UNCHANGED executed
    BY <1>5 DEF Query, Goto, Typed, logs
  <2> QED
    BY <1>1, <1>2, <2>1 DEF AccessOf
<1>6. CASE LogAuditRead(c)
  <2>1. /\ pc[c] = "log read" /\ pc'[c] = "answered" /\ UNCHANGED <<executed, violations>>
        /\ c \in readLog' \cup dropped'
    BY <1>6 DEF LogAuditRead, Goto, Typed
  <2> QED
    BY <1>1, <1>2, <2>1 DEF AccessOf
<1>7. CASE AccumulateSources(c) \/ EvaluatePolicies(c) \/ ReadSources(c) \/ LogSources(c)
  <2>1. pc[c] \in {"sources", "policies", "read", "log sources"}
    BY <1>7 DEF AccumulateSources, EvaluatePolicies, ReadSources, LogSources
  <2>2. ~Data(c) /\ request[c].tool = "adopter"
    BY <1>3, <2>1 DEF AccessOf
  <2>3. pc'[c] \notin {"query", "violation", "log read"}
    BY <1>7 DEF AccumulateSources, EvaluatePolicies, ReadSources, LogSources, Obey, Goto, Typed
  <2> QED
    BY <1>1, <1>2, <2>2, <2>3 DEF AccessOf
<1> QED
  BY <1>4, <1>5, <1>6, <1>7 DEF Onward

LEMMA AccessKept ==
  ASSUME Typed, AccessInv, [Next]_vars
  PROVE  AccessInv'
<1>1. ASSUME NEW c \in Calls, NEW r \in Requests, Arrive(c, r) PROVE AccessInv'
  <2>1. /\ UNCHANGED <<session, executed, dropped, violations, readLog>>
        /\ \A d \in Calls \ {c} : pc'[d] = pc[d] /\ request'[d] = request[d]
    BY <1>1 DEF Arrive, Goto, logs, Typed
  <2>2. \A d \in Calls \ {c} : AccessOf(d)'
    BY <2>1, OthersAccess DEF AccessInv
  <2> QED
    BY <1>1, <2>2, ArriveAccess DEF AccessInv
<1>2. ASSUME NEW c \in Calls, Onward(c) PROVE AccessInv'
  <2>1. /\ UNCHANGED <<session, request>>
        /\ \A d \in Calls \ {c} : pc'[d] = pc[d]
    BY <1>2, OnwardGoes DEF Typed
  <2>2. \A d \in Calls \ {c} :
          /\ d \in executed' <=> d \in executed
          /\ d \in violations' <=> d \in violations
          /\ d \in readLog' <=> d \in readLog
          /\ d \in dropped' <=> d \in dropped
    BY <1>2 DEF Onward, LogScopeViolation, Query, LogAuditRead, AccumulateSources, EvaluatePolicies,
                ReadSources, LogSources, logs
  <2>3. \A d \in Calls \ {c} : AccessOf(d)'
    BY <2>1, <2>2, OthersAccess DEF AccessInv
  <2> QED
    BY <1>2, <2>3, OnwardAccess DEF AccessInv
<1>3. CASE (\E p \in Toggled : Toggle(p)) \/ UNCHANGED vars
  <2>1. UNCHANGED <<pc, request, session, executed, violations, readLog, dropped>>
    BY <1>3 DEF Toggle, vars, call, logs
  <2> QED
    BY <2>1, OthersAccess DEF AccessInv
<1> QED
  BY <1>1, <1>2, <1>3 DEF Next, Onward

-----------------------------------------------------------------------------
(* The combination check. *)

\* What a call knows only grows.
LEMMA KnownGrows ==
  ASSUME NEW d \in Calls, session' = session, audit \subseteq audit',
         Incoming(d)' = Incoming(d), \A e \in audit : Incoming(e)' = Incoming(e)
  PROVE  Known(d) \subseteq Known(d)'
<1>1. OfSession(d, audit) \subseteq OfSession(d, audit)'
  BY DEF OfSession
<1>2. \A e \in {d} \cup OfSession(d, audit) : Incoming(e)' = Incoming(e)
  BY DEF OfSession
<1> QED
  BY <1>1, <1>2 DEF Known

LEMMA OthersCause ==
  ASSUME NEW d \in Calls, CauseOf(d), pc'[d] = pc[d], request'[d] = request[d], session' = session,
         sources'[d] = sources[d], policy'[d] = policy[d], d \in executed' <=> d \in executed,
         audit \subseteq audit', \A e \in audit : Incoming(e)' = Incoming(e)
  PROVE  CauseOf(d)'
<1>1. Incoming(d)' = Incoming(d)
  BY DEF Incoming
<1>2. Known(d) \subseteq Known(d)'
  BY <1>1, KnownGrows
<1>3. Blocks(policy[d], PersonaOf[session[d]])' = Blocks(policy[d], PersonaOf[session[d]])
  BY DEF Blocks
<1> QED
  BY <1>1, <1>2, <1>3 DEF CauseOf

LEMMA ArriveCause ==
  ASSUME Typed, CauseInv, NEW c \in Calls, NEW r \in Requests, Arrive(c, r)
  PROVE  CauseOf(c)'
<1>1. PICK where \in Places \ {"new"} :
        /\ pc[c] = "new" /\ pc' = [pc EXCEPT ![c] = where] /\ request'[c] = r
        /\ UNCHANGED <<session, sources, policy, active, logs, executed, dropped, unseen>>
        /\ findMissingRequiredArg(r) => where = "refused"
        /\ ~findMissingRequiredArg(r) =>
             where = IF r.tool = "db_read" THEN db_read(r, Scope(c))
                     ELSE IF r.tool = "db_write" THEN db_write(r, Scope(c)) ELSE checkCombinationPolicies(r)
  BY ArriveGoes
<1>2. pc'[c] = where /\ c \notin executed' /\ sources'[c] = {}
  BY <1>1 DEF Typed, CauseInv, CauseOf
<1>3. CASE r.tool = "adopter"
  <2>1. ~findMissingRequiredArg(r) /\ where = checkCombinationPolicies(r) /\ Incoming(c)' = r.sources
    BY <1>1, <1>3 DEF findMissingRequiredArg, Incoming
  <2> QED
    BY <1>2, <2>1 DEF CauseOf, checkCombinationPolicies
<1>4. CASE r.tool # "adopter"
  <2>1. Incoming(c)' = {}
    BY <1>1, <1>4 DEF Incoming
  <2> QED
    BY <1>1, <1>2, <1>4, <2>1 DEF CauseOf
<1> QED
  BY <1>3, <1>4

LEMMA RecordedKnown ==
  ASSUME Typed, NEW c \in Calls
  PROVE  RecordedSources(c) \cup Incoming(c) = Known(c)
BY DEF RecordedSources, Known

LEMMA OnwardCause ==
  ASSUME Typed, NEW c \in Calls, AccessOf(c), CauseOf(c), Onward(c)
  PROVE  CauseOf(c)'
<1>1. /\ UNCHANGED <<session, request, active>>
      /\ \A d \in Calls : Incoming(d)' = Incoming(d)
  BY OnwardGoes
<1>2. audit \subseteq audit' /\ audit \subseteq Calls
  BY DEF Onward, LogScopeViolation, Query, LogAuditRead, AccumulateSources, EvaluatePolicies,
         ReadSources, LogSources, logs, Typed
<1>3. Known(c) \subseteq Known(c)' /\ Incoming(c)' = Incoming(c)
  BY <1>1, <1>2, KnownGrows
<1>4. \A p : Blocks(p, PersonaOf[session[c]])' = Blocks(p, PersonaOf[session[c]])
  BY <1>1 DEF Blocks
<1>5. CASE LogScopeViolation(c) \/ Query(c) \/ LogAuditRead(c)
  <2>1. pc[c] \in {"violation", "query", "log read"}
    BY <1>5 DEF LogScopeViolation, Query, LogAuditRead
  <2>2. request[c].tool # "adopter" /\ Incoming(c) = {}
    BY <2>1 DEF AccessOf, Data, Incoming
  <2>3. pc'[c] \in {"refused", "log read", "answered"} /\ UNCHANGED <<sources, policy>>
    BY <1>5 DEF LogScopeViolation, Query, LogAuditRead, Goto, Typed
  <2> QED
    BY <1>1, <1>3, <2>2, <2>3 DEF CauseOf
<1>6. ASSUME NEW p, Obey(c, p), UNCHANGED <<sources, executed>>,
             pc[c] \in {"sources", "policies"},
             \/ p = ErrorPolicy
             \/ /\ pc[c] = "policies" /\ p # NoPolicy /\ p.source_set \subseteq sources[c]
             \/ /\ pc[c] = "policies" /\ p = NoPolicy
                /\ \A q \in Policies \ Toggled : ~(q.source_set \subseteq sources[c])
      PROVE  CauseOf(c)'
  <2>1. /\ policy'[c] = p
        /\ pc'[c] = IF Blocks(p, PersonaOf[session[c]]) THEN "refused" ELSE "read"
    BY <1>6 DEF Obey, Goto, Typed
  <2>2. Blocks(ErrorPolicy, PersonaOf[session[c]]) /\ ~Blocks(NoPolicy, PersonaOf[session[c]])
    BY DEF Blocks, ErrorPolicy, NoPolicy
  <2>3. ~(request[c].tool = "adopter" /\ c \in executed)
    BY <1>6 DEF CauseOf
  <2>4. CASE Blocks(p, PersonaOf[session[c]])
    <3>1. pc'[c] = "refused" /\ p # NoPolicy
      BY <2>1, <2>2, <2>4
    <3> QED
      BY <1>1, <1>3, <1>4, <1>6, <2>1, <2>3, <2>4, <3>1 DEF CauseOf
  <2>5. CASE ~Blocks(p, PersonaOf[session[c]])
    <3>1. pc'[c] = "read" /\ p # ErrorPolicy
      BY <2>1, <2>2, <2>5
    <3>2. pc[c] = "policies"
      BY <1>6, <3>1
    <3> QED
      BY <1>1, <1>3, <1>4, <1>6, <2>1, <2>3, <2>5, <3>1, <3>2 DEF CauseOf
  <2> QED
    BY <2>4, <2>5
<1>7. CASE AccumulateSources(c)
  <2>1. pc[c] = "sources" /\ UNCHANGED <<executed, audit>>
    BY <1>7 DEF AccumulateSources, logs
  <2>2. CASE /\ sources' = [sources EXCEPT ![c] = RecordedSources(c) \cup Incoming(c)]
             /\ Goto(c, "policies")
    <3>1. sources'[c] = Known(c) /\ pc'[c] = "policies"
      BY <2>2, RecordedKnown DEF Goto, Typed
    <3>2. Incoming(c) \subseteq Known(c)
      BY DEF Known
    <3>3. ~(request[c].tool = "adopter" /\ c \in executed)
      BY <2>1 DEF CauseOf
    <3> QED
      BY <1>1, <1>3, <2>1, <3>1, <3>2, <3>3 DEF CauseOf
  <2>3. CASE Obey(c, FailClosed) /\ UNCHANGED sources
    BY <1>6, <2>1, <2>3 DEF FailClosed
  <2> QED
    BY <1>7, <2>2, <2>3 DEF AccumulateSources
<1>8. CASE EvaluatePolicies(c)
  <2>1. pc[c] = "policies" /\ UNCHANGED <<sources, executed>>
    BY <1>8 DEF EvaluatePolicies
  <2>2. ASSUME NEW p \in Matching(c), Obey(c, p) PROVE CauseOf(c)'
    <3>1. p.source_set \subseteq sources[c] /\ p # NoPolicy
      BY <2>2, DataAccessAssumption DEF Matching, Typed
    <3> QED
      BY <1>6, <2>1, <2>2, <3>1
  <2>3. CASE Matching(c) = {} /\ Obey(c, NoPolicy)
    <3>1. \A q \in Policies \ Toggled : ~(q.source_set \subseteq sources[c])
      BY <2>3 DEF Matching, Typed
    <3> QED
      BY <1>6, <2>1, <2>3, <3>1
  <2>4. CASE Obey(c, FailClosed)
    BY <1>6, <2>1, <2>4 DEF FailClosed
  <2> QED
    BY <1>8, <2>2, <2>3, <2>4 DEF EvaluatePolicies
<1>9. CASE ReadSources(c) \/ LogSources(c)
  <2>1. /\ UNCHANGED <<sources, policy>>
        /\ \/ pc[c] = "read" /\ pc'[c] = "log sources"
           \/ pc[c] = "log sources" /\ pc'[c] = "answered"
    BY <1>9 DEF ReadSources, LogSources, Goto, Typed
  <2> QED
    BY <1>1, <1>3, <1>4, <2>1 DEF CauseOf
<1> QED
  BY <1>5, <1>7, <1>8, <1>9 DEF Onward

LEMMA CauseKept ==
  ASSUME Typed, AccessInv, CauseInv, [Next]_vars
  PROVE  CauseInv'
<1>0. audit \subseteq {d \in Calls : pc[d] # "new"}
  BY DEF Typed
<1>1. ASSUME NEW c \in Calls, NEW r \in Requests, Arrive(c, r) PROVE CauseInv'
  <2>1. /\ UNCHANGED <<session, sources, policy, executed, audit>> /\ pc[c] = "new"
        /\ \A d \in Calls \ {c} : pc'[d] = pc[d] /\ request'[d] = request[d]
    BY <1>1 DEF Arrive, Goto, logs, Typed
  <2>2. \A e \in audit : Incoming(e)' = Incoming(e)
    BY <1>0, <2>1 DEF Incoming
  <2>3. \A d \in Calls \ {c} : CauseOf(d)'
    BY <2>1, <2>2, OthersCause DEF CauseInv
  <2> QED
    BY <1>1, <2>3, ArriveCause DEF CauseInv
<1>2. ASSUME NEW c \in Calls, Onward(c) PROVE CauseInv'
  <2>1. /\ UNCHANGED <<session, request>>
        /\ \A d \in Calls \ {c} : pc'[d] = pc[d]
        /\ \A e \in Calls : Incoming(e)' = Incoming(e)
    BY <1>2, OnwardGoes DEF Typed
  <2>2. /\ audit \subseteq audit'
        /\ \A d \in Calls \ {c} :
             /\ d \in executed' <=> d \in executed
             /\ sources'[d] = sources[d] /\ policy'[d] = policy[d]
    BY <1>2 DEF Onward, LogScopeViolation, Query, LogAuditRead, AccumulateSources, EvaluatePolicies,
                ReadSources, LogSources, Obey, logs, Typed
  <2>3. \A d \in Calls \ {c} : CauseOf(d)'
    BY <1>0, <2>1, <2>2, OthersCause DEF CauseInv
  <2> QED
    BY <1>2, <2>3, OnwardCause DEF CauseInv, AccessInv
<1>3. CASE (\E p \in Toggled : Toggle(p)) \/ UNCHANGED vars
  <2>1. UNCHANGED <<pc, request, session, sources, policy, executed, audit>>
    BY <1>3 DEF Toggle, vars, call, logs
  <2>2. \A e \in Calls : Incoming(e)' = Incoming(e)
    BY <2>1 DEF Incoming
  <2> QED
    BY <1>0, <2>1, <2>2, OthersCause DEF CauseInv
<1> QED
  BY <1>1, <1>2, <1>3 DEF Next, Onward

\* A check that looks now has seen, or will be known to have missed, every call
\* of its session that looked before it.
LEMMA SeenKept ==
  ASSUME Typed, CauseInv, SeenInv, [Next]_vars
  PROVE  SeenInv'
<1>1. ASSUME session' = session,
             \A d \in Calls : sources'[d] = sources[d] /\ unseen'[d] = unseen[d],
             \A d \in Calls : Incoming(d)' = Incoming(d) \/ (sources[d] = {})
      PROVE  SeenInv'
  <2>1. \A s \in Sessions : Looked(s)' \subseteq Looked(s) /\ \A d \in Looked(s)' : Incoming(d)' = Incoming(d)
    BY <1>1 DEF Looked
  <2> SUFFICES ASSUME NEW s \in Sessions, NEW D \in SUBSET Looked(s)', D # {}
               PROVE  \E c \in D : \A d \in D : Incoming(d)' \subseteq sources'[c] \/ d \in unseen'[c]
    BY DEF SeenInv
  <2>2. D \in SUBSET Looked(s) /\ D \subseteq Calls
    BY <2>1 DEF Looked
  <2>3. PICK c \in D : \A d \in D : Incoming(d) \subseteq sources[c] \/ d \in unseen[c]
    BY <2>2 DEF SeenInv
  <2> QED
    BY <1>1, <2>1, <2>2, <2>3
<1>2. ASSUME NEW c \in Calls, NEW r \in Requests, Arrive(c, r) PROVE SeenInv'
  <2>1. /\ UNCHANGED <<session, sources, unseen>> /\ pc[c] = "new"
        /\ \A d \in Calls \ {c} : request'[d] = request[d]
    BY <1>2 DEF Arrive, Typed
  <2>2. sources[c] = {} /\ \A d \in Calls \ {c} : Incoming(d)' = Incoming(d)
    BY <2>1 DEF CauseInv, CauseOf, Incoming
  <2> QED
    BY <1>1, <2>1, <2>2
<1>3. ASSUME NEW c \in Calls, Onward(c), UNCHANGED <<sources, unseen>> PROVE SeenInv'
  BY <1>1, <1>3, OnwardGoes
<1>4. ASSUME NEW c \in Calls, Onward(c), pc[c] = "sources",
             sources' = [sources EXCEPT ![c] = RecordedSources(c) \cup Incoming(c)],
             unseen' = [unseen EXCEPT ![c] = {d \in OfSession(c, Calls) \ audit : PastCheck(d)}]
      PROVE  SeenInv'
  <2>1. session' = session /\ \A d \in Calls : Incoming(d)' = Incoming(d)
    BY <1>4, OnwardGoes
  <2>2. /\ sources'[c] = RecordedSources(c) \cup Incoming(c)
        /\ unseen'[c] = {d \in OfSession(c, Calls) \ audit : PastCheck(d)}
        /\ \A d \in Calls \ {c} : sources'[d] = sources[d] /\ unseen'[d] = unseen[d]
    BY <1>4 DEF Typed
  <2>3. \A s \in Sessions : \A d \in Looked(s)' : d \in Calls /\ session[d] = s /\ (d = c \/ d \in Looked(s))
    BY <2>1, <2>2 DEF Looked
  <2> SUFFICES ASSUME NEW s \in Sessions, NEW D \in SUBSET Looked(s)', D # {}
               PROVE  \E e \in D : \A d \in D : Incoming(d)' \subseteq sources'[e] \/ d \in unseen'[e]
    BY DEF SeenInv
  <2>4. CASE c \notin D
    <3>1. D \in SUBSET Looked(s) /\ D \subseteq Calls \ {c}
      BY <2>3, <2>4
    <3>2. PICK e \in D : \A d \in D : Incoming(d) \subseteq sources[e] \/ d \in unseen[e]
      BY <3>1 DEF SeenInv
    <3> QED
      BY <2>1, <2>2, <3>1, <3>2
  <2>5. CASE c \in D
    <3>1. session[c] = s
      BY <2>3, <2>5
    <3>2. ASSUME NEW d \in D, d # c PROVE Incoming(d) \subseteq sources'[c] \/ d \in unseen'[c]
      <4>1. d \in Calls /\ session[d] = s /\ d \in Looked(s)
        BY <2>3, <3>2
      <4>2. sources[d] # {}
        BY <4>1 DEF Looked
      <4>3. PastCheck(d)
        BY <4>1, <4>2 DEF CauseInv, CauseOf, PastCheck
      <4>4. d \in audit => Incoming(d) \subseteq RecordedSources(c)
        BY <3>1, <4>1 DEF RecordedSources, OfSession
      <4> QED
        BY <2>2, <3>1, <4>1, <4>3, <4>4 DEF OfSession
    <3>3. \A d \in D : Incoming(d)' \subseteq sources'[c] \/ d \in unseen'[c]
      BY <2>1, <2>2, <2>3, <3>2
    <3> QED
      BY <2>5, <3>3
  <2> QED
    BY <2>4, <2>5
<1>5. ASSUME NEW c \in Calls, Onward(c) PROVE SeenInv'
  <2>1. \/ UNCHANGED <<sources, unseen>>
        \/ /\ pc[c] = "sources"
           /\ sources' = [sources EXCEPT ![c] = RecordedSources(c) \cup Incoming(c)]
           /\ unseen' = [unseen EXCEPT ![c] = {d \in OfSession(c, Calls) \ audit : PastCheck(d)}]
    BY <1>5 DEF Onward, LogScopeViolation, Query, LogAuditRead, AccumulateSources, EvaluatePolicies,
                ReadSources, LogSources
  <2> QED
    BY <1>3, <1>4, <1>5, <2>1
<1>6. CASE (\E p \in Toggled : Toggle(p)) \/ UNCHANGED vars
  <2>1. UNCHANGED <<request, session, sources, unseen>>
    BY <1>6 DEF Toggle, vars, call
  <2> QED
    BY <1>1, <2>1 DEF Incoming
<1> QED
  BY <1>2, <1>5, <1>6 DEF Next, Onward

LEMMA AccessInvariant == Spec => []AccessProofInv
<1>1. AccessProofInv /\ [Next]_vars => AccessProofInv'
  BY TypedKept, AccessKept, CauseKept, SeenKept DEF AccessProofInv
<1> QED
  BY <1>1, InitEstablishes, PTL DEF Spec

-----------------------------------------------------------------------------
\* What holds of an adopter's call that has read sources.
LEMMA PassedTheCheck ==
  ASSUME AccessProofInv, NEW c \in Calls, c \in executed, Incoming(c) # {}
  PROVE  /\ Incoming(c) \subseteq sources[c]
         /\ ~Blocks(policy[c], PersonaOf[session[c]])
         /\ policy[c] = NoPolicy => \A p \in Policies \ Toggled : ~(p.source_set \subseteq sources[c])
<1>1. request[c].tool = "adopter"
  BY DEF Incoming
<1>2. CauseOf(c)
  BY DEF AccessProofInv, CauseInv
<1>3. pc[c] \in {"log sources", "answered"}
  BY <1>1, <1>2 DEF CauseOf
<1> QED
  BY <1>2, <1>3 DEF CauseOf

\* A forbidden combination that was completed leaves its explanation behind,
\* however many calls, sources and policies there are: some call of it could not
\* see another, or obeyed another policy.
THEOREM CombinationsCaught == Spec => []CombinationCaught
<1>1. AccessProofInv => CombinationCaught
  <2> SUFFICES ASSUME AccessProofInv, NEW s \in Sessions, NEW p \in Policies \ Toggled
               PROVE  LET C == {c \in executed : session[c] = s /\ Incoming(c) # {}} IN
                        Blocks(p, PersonaOf[s]) /\ p.source_set # {}
                          /\ p.source_set \subseteq UNION {Incoming(c) : c \in C}
                        => \E c \in C : unseen[c] \cap C # {} \/ policy[c] \notin {NoPolicy, p}
    BY DEF CombinationCaught
  <2> DEFINE C == {c \in executed : session[c] = s /\ Incoming(c) # {}}
  <2> SUFFICES ASSUME Blocks(p, PersonaOf[s]), p.source_set # {},
                      p.source_set \subseteq UNION {Incoming(c) : c \in C},
                      \A c \in C : unseen[c] \cap C = {} /\ policy[c] \in {NoPolicy, p}
               PROVE  FALSE
    OBVIOUS
  <2>1. \A c \in C :
          /\ c \in Calls /\ session[c] = s /\ Incoming(c) # {}
          /\ Incoming(c) \subseteq sources[c] /\ ~Blocks(policy[c], PersonaOf[s])
          /\ policy[c] = NoPolicy => ~(p.source_set \subseteq sources[c])
    <3> SUFFICES ASSUME NEW c \in executed, session[c] = s, Incoming(c) # {}
                 PROVE  /\ c \in Calls
                        /\ Incoming(c) \subseteq sources[c] /\ ~Blocks(policy[c], PersonaOf[s])
                        /\ policy[c] = NoPolicy => ~(p.source_set \subseteq sources[c])
      OBVIOUS
    <3>1. c \in Calls
      BY DEF AccessProofInv, Typed
    <3> QED
      BY <3>1, PassedTheCheck
  <2> HIDE DEF C
  <2>2. C # {} /\ C \in SUBSET Looked(s)
    <3>1. PICK x : x \in p.source_set
      OBVIOUS
    <3>2. x \in UNION {Incoming(c) : c \in C}
      BY <3>1
    <3>3. C # {}
      BY <3>2
    <3>4. \A c \in C : c \in Looked(s)
      BY <2>1 DEF Looked
    <3> QED
      BY <3>3, <3>4
  <2>3. PICK c \in C : \A d \in C : Incoming(d) \subseteq sources[c] \/ d \in unseen[c]
    BY <2>2 DEF AccessProofInv, SeenInv
  <2>4. \A d \in C : Incoming(d) \subseteq sources[c]
    BY <2>3
  <2>5. p.source_set \subseteq sources[c]
    BY <2>4
  <2>6. policy[c] = p
    BY <2>1, <2>5
  <2>7. ~Blocks(policy[c], PersonaOf[s])
    BY <2>1
  <2> QED
    BY <2>6, <2>7, Zenon
<1> QED
  BY <1>1, AccessInvariant, PTL

\* A call is refused for a combination only over what it names itself and what
\* its own session has on record.
THEOREM RefusalsHaveCause == Spec => []BlockedForCause
<1>1. AccessProofInv => BlockedForCause
  <2> SUFFICES ASSUME AccessProofInv, NEW c \in Calls, request[c].tool = "adopter", pc[c] = "refused"
               PROVE  \/ policy[c] = ErrorPolicy
                      \/ /\ Blocks(policy[c], PersonaOf[session[c]])
                         /\ policy[c].source_set \subseteq UNION {Incoming(d) : d \in {c} \cup OfSession(c, audit)}
    BY DEF BlockedForCause
  <2>1. \/ policy[c] = ErrorPolicy
        \/ Blocks(policy[c], PersonaOf[session[c]]) /\ policy[c].source_set \subseteq sources[c]
    BY DEF AccessProofInv, CauseInv, CauseOf
  <2>2. sources[c] \subseteq Known(c)
    BY DEF AccessProofInv, CauseInv, CauseOf
  <2> QED
    BY <2>1, <2>2 DEF Known
<1> QED
  BY <1>1, AccessInvariant, PTL

\* What the data tools did and refused to do is on record, for any scopes.
THEOREM AccessIsAccounted == Spec => []AccessAccounted
<1>1. AccessProofInv => AccessAccounted
  <2> SUFFICES ASSUME AccessProofInv, NEW c \in Calls, Data(c)
               PROVE  /\ c \in executed => request[c].table \in allowed(c) \cap granted(c)
                      /\ c \in violations => c \notin executed /\ request[c].table \in allowed(c)
                      /\ pc[c] = "refused" /\ request[c].table \in allowed(c) \ granted(c) /\ ~findMissingRequiredArg(request[c])
                           => c \in violations \cup dropped
                      /\ c \in readLog => c \in executed /\ AuditClass(c)
                      /\ pc[c] = "answered" /\ AuditClass(c) => c \in readLog \cup dropped
    BY DEF AccessAccounted, Data, allowed, granted
  <2> QED
    BY DEF AccessProofInv, AccessInv, AccessOf
<1> QED
  BY <1>1, AccessInvariant, PTL
=============================================================================
