-------------------------- MODULE DispatcherProofs --------------------------
(***************************************************************************)
(* Authority, revocation and the audit trail, for any number of calls,     *)
(* personas, sessions and for every combination of failures.               *)
(*                                                                         *)
(* DispatcherInv strengthens the three properties by what a call knows in  *)
(* the middle of its handler: each check it passed was true of the rows as *)
(* they were when it arrived, because persona rows only get worse, session *)
(* rows only appear and end, and time only advances.  TrailInv adds what a *)
(* call has recorded: the row is true when it is made up, of what the      *)
(* statement did and of why it was denied, and stays true while it waits   *)
(* to be written and ever after, for the same reason.                      *)
(***************************************************************************)
EXTENDS Dispatcher, TLAPS

Row == [persona : Personas, started_at : Nat, ended : BOOLEAN]

Typed ==
  /\ status \in [Personas -> {"active", "revoked"}]
  /\ sessions \in [SessionIds -> Row \cup {NoRow}]
  /\ pc \in [Calls -> Places]
  /\ DOMAIN req = Calls
  /\ \A c \in Calls : pc[c] # "idle" => req[c] \in Requests
  /\ DOMAIN over = Calls
  /\ closing \in [Calls -> SUBSET SessionIds]
  /\ now \in Nat
  /\ effects \subseteq {c \in Calls : pc[c] \in {"audit", "done"}}

\* What was over at the call's arrival is over still.
StillOver(c) ==
  /\ over[c].personas \cap {p \in Personas : PersonaValid(p)} = {}
  /\ over[c].ended \subseteq Ended
  /\ \A s \in over[c].expired : s \in Rows /\ Expired(s)
  /\ SessionIds \ Rows \subseteq over[c].unknown

PersonaAccepted(c) == req[c].persona \notin over[c].personas

OwnHandle(c) ==
  /\ req[c].handle \in Rows
  /\ sessions[req[c].handle].persona = req[c].persona
  /\ req[c].handle \notin over[c].ended

HandleAccepted(c) == OwnHandle(c) /\ req[c].handle \notin over[c].expired

Revoking == {"persona_revoke", "update", "commit"}

\* What a call has established where it is.
Established(c) ==
  /\ pc[c] \notin {"idle", "persona", "audit", "done"} => PersonaAccepted(c)
  /\ pc[c] = "mint" => req[c].tool = "session_start"
  /\ pc[c] \in {"lookup", "close"} => req[c].tool = "session_close"
  /\ pc[c] = "close" => OwnHandle(c)
  /\ pc[c] = "handle" => Governed(c)
  /\ pc[c] = "db_write" => req[c].tool = "db_write"
  /\ pc[c] \in Revoking => req[c].tool = "persona_revoke"
  /\ pc[c] \in Revoking \cup {"db_write"} => HandleAccepted(c)
  /\ pc[c] \in {"update", "commit"} => req[c].persona \in Managers

\* What the statement of a call that had an effect could rely on.
Authorised(c) ==
  /\ PersonaAccepted(c)
  /\ req[c].tool # "session_start" => OwnHandle(c)
  /\ Governed(c) => req[c].handle \notin over[c].expired
  /\ req[c].tool = "persona_revoke" => req[c].persona \in Managers

AuthorityInv ==
  /\ Typed
  /\ \A c \in Calls : pc[c] # "idle" => StillOver(c) /\ Established(c)
  /\ \A c \in effects : Authorised(c)

-----------------------------------------------------------------------------
LEMMA NewSession ==
  ASSUME NEW p \in Personas, NEW t \in Nat
  PROVE  /\ Session(p, t, FALSE) \in Row
         /\ Session(p, t, FALSE).persona = p
         /\ Session(p, t, FALSE).ended = FALSE
BY DEF Session, Row

LEMMA EndedSession ==
  ASSUME NEW r \in Row
  PROVE  /\ [r EXCEPT !.ended = TRUE] \in Row
         /\ [r EXCEPT !.ended = TRUE].ended
         /\ [r EXCEPT !.ended = TRUE].persona = r.persona
         /\ [r EXCEPT !.ended = TRUE].started_at = r.started_at
BY DEF Row

LEMMA NoRowIsNoSession == NoRow \notin Row
<1>1. \A r \in Row : "persona" \in DOMAIN r
  BY DEF Row
<1>2. "persona" \notin DOMAIN NoRow
  BY DEF NoRow
<1> QED
  BY <1>1, <1>2

LEMMA InitAuthority == Init => AuthorityInv
<1> SUFFICES ASSUME Init PROVE AuthorityInv
  OBVIOUS
<1>1. sessions \in [SessionIds -> Row \cup {NoRow}]
  <2>1. {Session(p, 0, FALSE) : p \in Personas} \subseteq Row
    BY NewSession
  <2> QED
    BY <2>1 DEF Init
<1>2. Typed
  BY <1>1 DEF Init, Typed, Places
<1> QED
  BY <1>2 DEF AuthorityInv, Init

(***************************************************************************)
(* What every step does to the rows and the time.                          *)
(***************************************************************************)
RowsKept ==
  /\ status' \in [Personas -> {"active", "revoked"}]
  /\ sessions' \in [SessionIds -> Row \cup {NoRow}]
  /\ now' \in Nat
  /\ now <= now'
  /\ \A p \in Personas : status[p] = "revoked" => status'[p] = "revoked"
  /\ \A s \in Rows :
       /\ s \in Rows'
       /\ sessions'[s].persona = sessions[s].persona
       /\ sessions'[s].started_at = sessions[s].started_at
       /\ sessions[s].ended => sessions'[s].ended

LEMMA SameRows ==
  ASSUME Typed, UNCHANGED <<rows, now>>
  PROVE  RowsKept
BY DEF Typed, rows, RowsKept, Rows

LEMMA StillOverKept ==
  ASSUME Typed, RowsKept, NEW c \in Calls, over'[c] = over[c], StillOver(c)
  PROVE  StillOver(c)'
<1>1. ASSUME NEW p \in Personas, p \in over[c].personas PROVE ~PersonaValid(p)'
  <2>1. ~PersonaValid(p)
    BY <1>1 DEF StillOver
  <2>2. ValidUntil[p] \in Nat
    BY DispatcherAssumption
  <2> QED
    BY <2>1, <2>2 DEF PersonaValid, Typed, RowsKept
<1>2. over[c].ended \subseteq Ended'
  BY DEF StillOver, Ended, Rows, RowsKept
<1>3. ASSUME NEW s \in over[c].expired PROVE s \in Rows' /\ Expired(s)'
  <2>1. s \in Rows /\ Expired(s)
    BY <1>3 DEF StillOver
  <2>2. sessions[s] \in Row
    BY <2>1 DEF Typed, Rows
  <2>3. sessions[s].started_at \in Nat /\ TTL \in Nat
    BY <2>2, DispatcherAssumption DEF Row
  <2> QED
    BY <2>1, <2>3 DEF Expired, Typed, RowsKept
<1>4. SessionIds \ Rows' \subseteq over[c].unknown
  BY DEF StillOver, Rows, RowsKept
<1> QED
  BY <1>1, <1>2, <1>3, <1>4 DEF StillOver

LEMMA OwnHandleKept ==
  ASSUME RowsKept, NEW c \in Calls, req'[c] = req[c], over'[c] = over[c], OwnHandle(c)
  PROVE  OwnHandle(c)'
BY DEF OwnHandle, RowsKept

LEMMA EstablishedKept ==
  ASSUME RowsKept, NEW c \in Calls, Established(c),
         pc'[c] = pc[c], req'[c] = req[c], over'[c] = over[c]
  PROVE  Established(c)'
BY OwnHandleKept DEF Established, PersonaAccepted, HandleAccepted, Governed

LEMMA AuthorisedKept ==
  ASSUME RowsKept, NEW c \in Calls, Authorised(c),
         req'[c] = req[c], over'[c] = over[c]
  PROVE  Authorised(c)'
BY OwnHandleKept DEF Authorised, PersonaAccepted, Governed

(***************************************************************************)
(* A step of one call, which the others do not notice.                     *)
(***************************************************************************)
LEMMA CallStep ==
  ASSUME AuthorityInv, RowsKept, NEW c \in Calls, pc[c] # "idle",
         req' = req, over' = over,
         closing' \in [Calls -> SUBSET SessionIds],
         NEW place \in Places \ {"idle"}, Goto(c, place),
         Established(c)',
         c \in effects' => place \in {"audit", "done"},
         \/ effects' = effects
         \/ effects' = effects \cup {c} /\ Authorised(c)
  PROVE  AuthorityInv'
<1>1. pc' \in [Calls -> Places] /\ pc'[c] = place
  BY DEF AuthorityInv, Typed, Goto
<1>2. \A d \in Calls \ {c} : pc'[d] = pc[d]
  BY DEF AuthorityInv, Typed, Goto
<1>3. effects' \subseteq {d \in Calls : pc'[d] \in {"audit", "done"}}
  BY <1>1, <1>2 DEF AuthorityInv, Typed
<1>4. \A d \in Calls : pc'[d] # "idle" => req'[d] \in Requests
  BY <1>1, <1>2 DEF AuthorityInv, Typed
<1>5. Typed'
  BY <1>1, <1>3, <1>4 DEF AuthorityInv, Typed, RowsKept
<1>6. ASSUME NEW d \in Calls, pc'[d] # "idle" PROVE StillOver(d)' /\ Established(d)'
  <2>1. StillOver(d) /\ Established(d)
    BY <1>2, <1>6 DEF AuthorityInv
  <2>2. StillOver(d)'
    BY <2>1, StillOverKept DEF AuthorityInv
  <2>3. Established(d)'
    BY <2>1, <1>2, EstablishedKept
  <2> QED
    BY <2>2, <2>3
<1>7. ASSUME NEW d \in effects' PROVE Authorised(d)'
  <2>1. d \in Calls /\ Authorised(d)
    BY <1>7 DEF AuthorityInv, Typed
  <2> QED
    BY <2>1, AuthorisedKept
<1> QED
  BY <1>5, <1>6, <1>7 DEF AuthorityInv

-----------------------------------------------------------------------------
(***************************************************************************)
(* The actions.                                                            *)
(***************************************************************************)
LEMMA EmptyHands ==
  ASSUME NEW c \in Calls, pc'[c] \in {"audit", "done"}
  PROVE  Established(c)'
BY DEF Established, Revoking

LEMMA Moved ==
  ASSUME AuthorityInv, NEW c \in Calls, NEW place, Goto(c, place)
  PROVE  pc'[c] = place
BY DEF AuthorityInv, Typed, Goto

\* A call that answers or goes to its audit, with the rows as they were.
LEMMA LastStep ==
  ASSUME AuthorityInv, RowsKept, NEW c \in Calls, pc[c] # "idle",
         req' = req, over' = over, closing' \in [Calls -> SUBSET SessionIds],
         NEW place \in {"audit", "done"}, Goto(c, place),
         \/ effects' = effects
         \/ effects' = effects \cup {c} /\ Authorised(c)
  PROVE  AuthorityInv'
<1>1. Established(c)'
  BY Moved, EmptyHands
<1>2. place \in Places \ {"idle"}
  BY DEF Places
<1> QED
  BY <1>1, <1>2, CallStep

\* A check passed: on to the next step, with the rows as they were.
LEMMA CheckPassed ==
  ASSUME AuthorityInv, UNCHANGED <<rows, closing, now, effects, over, req>>,
         NEW c \in Calls, pc[c] \notin {"idle", "audit", "done"},
         NEW place \in Places \ {"idle"}, Goto(c, place), Established(c)'
  PROVE  AuthorityInv'
<1>1. RowsKept
  BY SameRows DEF AuthorityInv
<1>2. closing' \in [Calls -> SUBSET SessionIds]
  BY DEF AuthorityInv, Typed
<1>3. c \notin effects
  BY DEF AuthorityInv, Typed
<1> QED
  BY <1>1, <1>2, <1>3, CallStep

LEMMA Nothing ==
  ASSUME AuthorityInv, UNCHANGED <<rows, closing, now, effects, over, req>>,
         NEW c \in Calls, pc[c] # "idle",
         NEW place \in {"audit", "done"}, Goto(c, place)
  PROVE  AuthorityInv'
<1>1. RowsKept
  BY SameRows DEF AuthorityInv
<1>2. closing' \in [Calls -> SUBSET SessionIds]
  BY DEF AuthorityInv, Typed
<1> QED
  BY <1>1, <1>2, LastStep

LEMMA TickAuthority == AuthorityInv /\ Tick => AuthorityInv'
<1> SUFFICES ASSUME AuthorityInv, Tick PROVE AuthorityInv'
  OBVIOUS
<1>1. RowsKept
  BY DEF AuthorityInv, Typed, Tick, rows, RowsKept, Rows
<1>2. Typed'
  BY <1>1 DEF AuthorityInv, Typed, Tick, RowsKept, history
<1>3. ASSUME NEW d \in Calls, pc'[d] # "idle" PROVE StillOver(d)' /\ Established(d)'
  <2>1. StillOver(d) /\ Established(d)
    BY <1>3 DEF AuthorityInv, Tick
  <2>2. StillOver(d)'
    BY <1>1, <2>1, StillOverKept DEF AuthorityInv, Tick, history
  <2>3. Established(d)'
    BY <1>1, <2>1, EstablishedKept DEF Tick, history
  <2> QED
    BY <2>2, <2>3
<1>4. ASSUME NEW d \in effects' PROVE Authorised(d)'
  <2>1. d \in Calls /\ Authorised(d)
    BY <1>4 DEF AuthorityInv, Typed, Tick, history
  <2> QED
    BY <1>1, <2>1, AuthorisedKept DEF Tick, history
<1> QED
  BY <1>2, <1>3, <1>4 DEF AuthorityInv

LEMMA ArriveAuthority == ASSUME AuthorityInv, NEW c \in Calls, Arrive(c) PROVE AuthorityInv'
<1>1. RowsKept
  BY SameRows DEF AuthorityInv, Arrive
<1>2. /\ pc' = [pc EXCEPT ![c] = "persona"]
      /\ pc[c] = "idle" /\ c \notin effects
  BY DEF AuthorityInv, Typed, Arrive, Goto
<1>3. PICK r \in Requests : req' = [req EXCEPT ![c] = r]
  BY DEF Arrive
<1>4. over' = [over EXCEPT ![c] = OverNow]
  BY DEF Arrive
<1>5. \A d \in Calls \ {c} : pc'[d] = pc[d] /\ req'[d] = req[d] /\ over'[d] = over[d]
  BY <1>2, <1>3, <1>4 DEF AuthorityInv, Typed
<1>6. pc'[c] = "persona" /\ req'[c] = r /\ over'[c] = OverNow
  BY <1>2, <1>3, <1>4 DEF AuthorityInv, Typed
<1>7. Typed'
  <2>1. pc' \in [Calls -> Places]
    BY <1>2 DEF AuthorityInv, Typed, Places
  <2>2. \A d \in Calls : pc'[d] # "idle" => req'[d] \in Requests
    BY <1>3, <1>5, <1>6 DEF AuthorityInv, Typed
  <2>3. effects' \subseteq {d \in Calls : pc'[d] \in {"audit", "done"}}
    BY <1>2, <1>5 DEF AuthorityInv, Typed, Arrive
  <2> QED
    BY <1>1, <1>3, <1>4, <2>1, <2>2, <2>3 DEF AuthorityInv, Typed, Arrive, RowsKept
<1>8. StillOver(c)'
  <2>1. /\ over'[c].personas = {p \in Personas : status[p] = "revoked" \/ ValidUntil[p] < now}
        /\ over'[c].ended = Ended
        /\ over'[c].expired = {s \in Rows : Expired(s)}
        /\ over'[c].unknown = SessionIds \ Rows
    BY <1>6 DEF OverNow
  <2>2. Rows' = Rows /\ Ended' = Ended /\ now' = now /\ status' = status /\ sessions' = sessions
    BY DEF Arrive, rows, Rows, Ended
  <2>3. \A p \in Personas : ValidUntil[p] \in Nat
    BY DispatcherAssumption
  <2>4. now \in Nat
    BY DEF AuthorityInv, Typed
  <2>5. \A p \in over'[c].personas : ~PersonaValid(p)'
    BY <2>1, <2>2, <2>3, <2>4 DEF PersonaValid
  <2>6. \A s \in over'[c].expired : s \in Rows' /\ Expired(s)'
    BY <2>1, <2>2 DEF Expired
  <2> QED
    BY <2>1, <2>2, <2>5, <2>6 DEF StillOver
<1>9. Established(c)'
  BY <1>6 DEF Established, Revoking
<1>10. ASSUME NEW d \in Calls \ {c}, pc'[d] # "idle" PROVE StillOver(d)' /\ Established(d)'
  <2>1. StillOver(d) /\ Established(d)
    BY <1>5, <1>10 DEF AuthorityInv
  <2>2. StillOver(d)'
    BY <1>1, <1>5, <2>1, StillOverKept DEF AuthorityInv
  <2>3. Established(d)'
    BY <1>1, <1>5, <2>1, EstablishedKept
  <2> QED
    BY <2>2, <2>3
<1>11. ASSUME NEW d \in effects' PROVE Authorised(d)'
  <2>1. d \in Calls \ {c} /\ Authorised(d)
    BY <1>2, <1>11 DEF AuthorityInv, Typed, Arrive
  <2> QED
    BY <1>1, <1>5, <2>1, AuthorisedKept
<1> QED
  BY <1>7, <1>8, <1>9, <1>10, <1>11 DEF AuthorityInv

LEMMA PersonaAuthority ==
  ASSUME AuthorityInv, NEW c \in Calls, ValidatePersona(c) PROVE AuthorityInv'
<1>1. pc[c] = "persona" /\ UNCHANGED <<rows, closing, now, effects, over, req>>
  BY DEF ValidatePersona, history
<1>2. CASE Answer(c)
  BY <1>1, <1>2, Nothing DEF Answer
<1>3. CASE PersonaValid(req[c].persona) /\ Goto(c, AfterPersona(req[c].tool))
  <2> DEFINE place == AfterPersona(req[c].tool)
  <2>1. req[c] \in Requests /\ StillOver(c)
    BY <1>1 DEF AuthorityInv, Typed
  <2>2. PersonaAccepted(c)
    BY <1>3, <2>1 DEF PersonaAccepted, StillOver, Requests
  <2>3. req[c].tool \in AllTools
    BY <2>1, DispatcherAssumption DEF Requests
  <2>4. /\ place \in {"mint", "lookup", "handle"}
        /\ place = "mint" => req[c].tool = "session_start"
        /\ place = "lookup" => req[c].tool = "session_close"
        /\ place = "handle" => Governed(c)
    BY <2>3 DEF AfterPersona, Governed, SkipSession, AllTools
  <2>5. pc'[c] = place
    BY <1>3, Moved
  <2>6. Established(c)'
    BY <1>1, <2>2, <2>4, <2>5 DEF Established, PersonaAccepted, Governed, Revoking
  <2>7. place \in Places \ {"idle"}
    BY <2>4 DEF Places
  <2> QED
    BY <1>1, <1>3, <2>6, <2>7, CheckPassed
<1> QED
  BY <1>2, <1>3 DEF ValidatePersona

LEMMA HandleAuthority ==
  ASSUME AuthorityInv, NEW c \in Calls, ValidateHandle(c) PROVE AuthorityInv'
<1>1. pc[c] = "handle" /\ UNCHANGED <<rows, closing, now, effects, over, req>>
  BY DEF ValidateHandle, history
<1>2. CASE Answer(c)
  BY <1>1, <1>2, Nothing DEF Answer
<1>3. CASE Deny(c, Verdict(req[c].persona, req[c].handle))
  BY <1>1, <1>3, Nothing DEF Deny, Audit
<1>4. CASE Verdict(req[c].persona, req[c].handle) = "accept" /\ Goto(c, req[c].tool)
  <2>1. StillOver(c) /\ Established(c) /\ req[c] \in Requests
    BY <1>1 DEF AuthorityInv, Typed
  <2>2. /\ req[c].handle \in Rows
        /\ sessions[req[c].handle].persona = req[c].persona
        /\ req[c].handle \notin Ended
        /\ ~Expired(req[c].handle)
    BY <1>4 DEF Verdict
  <2>3. HandleAccepted(c)
    BY <2>1, <2>2 DEF HandleAccepted, OwnHandle, StillOver
  <2>4. req[c].tool \in {"persona_revoke", "db_write"}
    BY <1>1, <2>1, DispatcherAssumption DEF Established, Governed, SkipSession, AllTools, Requests
  <2>5. pc'[c] = req[c].tool
    BY <1>4, Moved
  <2>6. HandleAccepted(c)' /\ PersonaAccepted(c)'
    BY <1>1, <2>1, <2>3 DEF HandleAccepted, OwnHandle, Established, PersonaAccepted, rows, Rows
  <2>7. Established(c)'
    BY <1>1, <2>4, <2>5, <2>6 DEF Established, Revoking
  <2>8. req[c].tool \in Places \ {"idle"}
    BY <2>4 DEF Places
  <2> QED
    BY <1>1, <1>4, <2>7, <2>8, CheckPassed
<1> QED
  BY <1>2, <1>3, <1>4 DEF ValidateHandle

LEMMA LookupAuthority ==
  ASSUME AuthorityInv, NEW c \in Calls, Lookup(c) PROVE AuthorityInv'
<1>1. pc[c] = "lookup" /\ UNCHANGED <<rows, closing, now, effects, over, req>>
  BY DEF Lookup, history
<1>2. CASE Answer(c)
  BY <1>1, <1>2, Nothing DEF Answer
<1>3. CASE Deny(c, CloseVerdict(req[c].persona, req[c].handle))
  BY <1>1, <1>3, Nothing DEF Deny, Audit
<1>4. CASE CloseVerdict(req[c].persona, req[c].handle) = "accept" /\ Goto(c, "close")
  <2>1. StillOver(c) /\ Established(c) /\ req[c] \in Requests
    BY <1>1 DEF AuthorityInv, Typed
  <2>2. /\ req[c].handle \in Rows \ Ended
        /\ sessions[req[c].handle].persona = req[c].persona
    BY <1>4 DEF CloseVerdict
  <2>3. OwnHandle(c)
    BY <2>1, <2>2 DEF OwnHandle, StillOver
  <2>4. pc'[c] = "close"
    BY <1>4, Moved
  <2>5. OwnHandle(c)' /\ PersonaAccepted(c)' /\ req'[c].tool = "session_close"
    BY <1>1, <2>1, <2>3 DEF OwnHandle, Established, PersonaAccepted, rows, Rows
  <2>6. Established(c)'
    BY <2>4, <2>5 DEF Established, Revoking
  <2> QED
    BY <1>1, <1>4, <2>6, CheckPassed DEF Places
<1> QED
  BY <1>2, <1>3, <1>4 DEF Lookup

LEMMA WriteAuthority ==
  ASSUME AuthorityInv, NEW c \in Calls, Write(c) PROVE AuthorityInv'
<1>1. pc[c] = "db_write" /\ UNCHANGED <<rows, closing, now, over, req>>
  BY DEF Write
<1>2. Goto(c, "audit")
  BY DEF Write, Failed, Finally, Audit
<1>3. effects' = effects \/ effects' = effects \cup {c}
  BY DEF Write, Effect
<1>4. Authorised(c)
  BY <1>1 DEF AuthorityInv, Established, Authorised, HandleAccepted, Revoking
<1>5. RowsKept /\ closing' \in [Calls -> SUBSET SessionIds]
  BY <1>1, SameRows DEF AuthorityInv, Typed
<1> QED
  BY <1>1, <1>2, <1>3, <1>4, <1>5, LastStep

LEMMA FetchAuthority ==
  ASSUME AuthorityInv, NEW c \in Calls, FetchTarget(c) PROVE AuthorityInv'
<1>1. pc[c] = "persona_revoke" /\ UNCHANGED <<rows, closing, now, effects, over, req>>
  BY DEF FetchTarget, history
<1>2. CASE Failed(c)
  BY <1>1, <1>2, Nothing DEF Failed, Finally, Audit
<1>3. CASE req[c].persona \in Managers /\ Goto(c, "update")
  <2>1. Established(c)
    BY <1>1 DEF AuthorityInv
  <2>2. pc'[c] = "update"
    BY <1>3, Moved
  <2>3. /\ HandleAccepted(c)' /\ PersonaAccepted(c)'
        /\ req'[c].tool = "persona_revoke" /\ req'[c].persona \in Managers
    BY <1>1, <1>3, <2>1
    DEF Established, HandleAccepted, OwnHandle, PersonaAccepted, rows, Rows, Revoking
  <2>4. Established(c)'
    BY <2>2, <2>3 DEF Established, Revoking
  <2> QED
    BY <1>1, <1>3, <2>4, CheckPassed DEF Places
<1> QED
  BY <1>2, <1>3 DEF FetchTarget

LEMMA BeginAuthority ==
  ASSUME AuthorityInv, NEW c \in Calls, BeginRevoke(c) PROVE AuthorityInv'
<1>1. pc[c] = "update" /\ UNCHANGED <<rows, now, effects, over, req>>
  BY DEF BeginRevoke, history
<1>2. RowsKept
  BY <1>1, SameRows DEF AuthorityInv
<1>3. OwnedOpen(req[c].target) \subseteq SessionIds
  BY DEF OwnedOpen, Rows
<1>4. closing' \in [Calls -> SUBSET SessionIds]
  BY <1>3 DEF AuthorityInv, Typed, BeginRevoke
<1>5. CASE Failed(c)
  BY <1>1, <1>2, <1>4, <1>5, LastStep DEF Failed, Finally, Audit
<1>6. CASE Goto(c, "commit")
  <2>1. Established(c)
    BY <1>1 DEF AuthorityInv
  <2>2. pc'[c] = "commit"
    BY <1>6, Moved
  <2>3. /\ HandleAccepted(c)' /\ PersonaAccepted(c)'
        /\ req'[c].tool = "persona_revoke" /\ req'[c].persona \in Managers
    BY <1>1, <2>1
    DEF Established, HandleAccepted, OwnHandle, PersonaAccepted, rows, Rows, Revoking
  <2>4. Established(c)'
    BY <2>2, <2>3 DEF Established, Revoking
  <2>5. c \notin effects
    BY <1>1 DEF AuthorityInv, Typed
  <2> QED
    BY <1>1, <1>2, <1>4, <1>6, <2>4, <2>5, CallStep DEF Places
<1> QED
  BY <1>5, <1>6 DEF BeginRevoke

LEMMA CommitKeeps ==
  ASSUME AuthorityInv, NEW c \in Calls, closing[c] \subseteq Rows, UNCHANGED now,
         CommitRevoke(c)
  PROVE  RowsKept
<1>1. status' \in [Personas -> {"active", "revoked"}]
  BY DEF AuthorityInv, Typed, CommitRevoke
<1>2. \A s \in Rows : sessions[s] \in Row
  BY DEF AuthorityInv, Typed, Rows
<1>3. \A s \in SessionIds :
        sessions'[s] = IF s \in closing[c] THEN [sessions[s] EXCEPT !.ended = TRUE]
                                           ELSE sessions[s]
  BY DEF CommitRevoke
<1>4. DOMAIN sessions' = SessionIds /\ sessions' = [s \in SessionIds |-> sessions'[s]]
  BY DEF CommitRevoke
<1>5. ASSUME NEW s \in SessionIds PROVE sessions'[s] \in Row \cup {NoRow}
  <2>1. CASE s \in closing[c]
    BY <1>2, <1>3, <2>1, EndedSession
  <2>2. CASE s \notin closing[c]
    BY <1>3, <2>2 DEF AuthorityInv, Typed
  <2> QED
    BY <2>1, <2>2
<1>6. \A p \in Personas : status[p] = "revoked" => status'[p] = "revoked"
  BY DEF AuthorityInv, Typed, CommitRevoke
<1>7. ASSUME NEW s \in Rows
      PROVE  /\ s \in Rows'
             /\ sessions'[s].persona = sessions[s].persona
             /\ sessions'[s].started_at = sessions[s].started_at
             /\ sessions[s].ended => sessions'[s].ended
  <2>1. s \in SessionIds /\ sessions[s] \in Row /\ sessions[s] # NoRow
    BY <1>2 DEF Rows
  <2>2. CASE s \in closing[c]
    BY <1>3, <2>1, <2>2, EndedSession, NoRowIsNoSession DEF Rows
  <2>3. CASE s \notin closing[c]
    BY <1>3, <2>1, <2>3 DEF Rows
  <2> QED
    BY <2>2, <2>3
<1> QED
  BY <1>1, <1>4, <1>5, <1>6, <1>7 DEF RowsKept, AuthorityInv, Typed

LEMMA EndAuthority ==
  ASSUME AuthorityInv, NEW c \in Calls, closing[c] \subseteq Rows, EndRevoke(c)
  PROVE  AuthorityInv'
<1>1. pc[c] = "commit" /\ UNCHANGED <<now, over, req>>
  BY DEF EndRevoke, InTransaction
<1>2. Goto(c, "audit")
  BY DEF EndRevoke, Failed, Finally, Audit
<1>3. Authorised(c)
  BY <1>1 DEF AuthorityInv, Established, Authorised, HandleAccepted, Revoking
<1>4. CASE CommitRevoke(c)
  <2>1. RowsKept
    BY <1>1, <1>4, CommitKeeps
  <2>2. closing' \in [Calls -> SUBSET SessionIds] /\ effects' = effects \cup {c}
    BY <1>4 DEF AuthorityInv, Typed, CommitRevoke, Effect
  <2> QED
    BY <1>1, <1>2, <1>3, <2>1, <2>2, LastStep
<1>5. CASE RollbackRevoke(c)
  <2>1. RowsKept /\ effects' = effects
    BY <1>1, <1>5, SameRows DEF AuthorityInv, RollbackRevoke, NoEffect
  <2>2. closing' \in [Calls -> SUBSET SessionIds]
    BY <1>5 DEF AuthorityInv, Typed, RollbackRevoke
  <2> QED
    BY <1>1, <1>2, <2>1, <2>2, LastStep
<1> QED
  BY <1>4, <1>5 DEF EndRevoke

\* One session row is written, as a new row or as an ended one.
LEMMA OneSessionKeeps ==
  ASSUME AuthorityInv, UNCHANGED <<status, now>>,
         NEW s \in SessionIds, NEW r \in Row, sessions' = [sessions EXCEPT ![s] = r],
         s \in Rows => r = [sessions[s] EXCEPT !.ended = TRUE]
  PROVE  RowsKept
<1>1. sessions' \in [SessionIds -> Row \cup {NoRow}]
  BY DEF AuthorityInv, Typed
<1>2. ASSUME NEW q \in Rows
      PROVE  /\ q \in Rows'
             /\ sessions'[q].persona = sessions[q].persona
             /\ sessions'[q].started_at = sessions[q].started_at
             /\ sessions[q].ended => sessions'[q].ended
  <2>1. q \in SessionIds /\ sessions[q] \in Row /\ sessions[q] # NoRow
    BY DEF AuthorityInv, Typed, Rows
  <2>2. CASE q = s
    <3>1. sessions'[q] = r /\ r = [sessions[q] EXCEPT !.ended = TRUE]
      BY <2>1, <2>2 DEF AuthorityInv, Typed
    <3> QED
      BY <2>1, <3>1, EndedSession, NoRowIsNoSession DEF Rows
  <2>3. CASE q # s
    BY <2>1, <2>3 DEF AuthorityInv, Typed, Rows
  <2> QED
    BY <2>2, <2>3
<1> QED
  BY <1>1, <1>2 DEF RowsKept, AuthorityInv, Typed

LEMMA MintAuthority ==
  ASSUME AuthorityInv, NEW c \in Calls, Mint(c) PROVE AuthorityInv'
<1>1. pc[c] = "mint" /\ UNCHANGED <<status, closing, now, over, req>>
  BY DEF Mint, createSession
<1>2. closing' \in [Calls -> SUBSET SessionIds]
  BY <1>1 DEF AuthorityInv, Typed
<1>3. PICK place \in {"audit", "done"} : Goto(c, place)
  BY DEF Mint, createSession, Audit, Answer
<1>4. CASE NoEffect
  BY <1>1, <1>2, <1>3, <1>4, SameRows, LastStep DEF NoEffect, AuthorityInv
<1>5. CASE \E s \in SessionIds \ Rows :
             sessions' = [sessions EXCEPT ![s] = Session(req[c].persona, now, FALSE)]
             /\ Effect(c)
  <2>1. PICK s \in SessionIds \ Rows :
          sessions' = [sessions EXCEPT ![s] = Session(req[c].persona, now, FALSE)]
    BY <1>5
  <2>2. req[c].persona \in Personas /\ now \in Nat
    BY <1>1 DEF AuthorityInv, Typed, Requests
  <2>3. Session(req[c].persona, now, FALSE) \in Row
    BY <2>2, NewSession
  <2>4. RowsKept
    BY <1>1, <2>1, <2>3, OneSessionKeeps
  <2>5. Authorised(c)
    BY <1>1 DEF AuthorityInv, Established, Authorised, Governed, SkipSession
  <2>6. effects' = effects \cup {c}
    BY <1>5 DEF Effect
  <2> QED
    BY <1>1, <1>2, <1>3, <2>4, <2>5, <2>6, LastStep
<1> QED
  BY <1>4, <1>5 DEF Mint, createSession

LEMMA CloseAuthority ==
  ASSUME AuthorityInv, NEW c \in Calls, Close(c) PROVE AuthorityInv'
<1>1. pc[c] = "close" /\ UNCHANGED <<status, closing, now, over, req>>
  BY DEF Close
<1>2. closing' \in [Calls -> SUBSET SessionIds]
  BY <1>1 DEF AuthorityInv, Typed
<1>3. PICK place \in {"audit", "done"} : Goto(c, place)
  BY DEF Close, Finally, Audit, Answer
<1>4. CASE UNCHANGED <<sessions, effects>>
  BY <1>1, <1>2, <1>3, <1>4, SameRows, LastStep DEF rows, AuthorityInv
<1>5. CASE sessions' = [sessions EXCEPT ![req[c].handle].ended = TRUE] /\ Effect(c)
  <2> DEFINE s == req[c].handle
  <2>1. Established(c) /\ OwnHandle(c)
    BY <1>1 DEF AuthorityInv, Established
  <2>2. s \in Rows /\ s \in SessionIds /\ sessions[s] \in Row
    BY <2>1 DEF AuthorityInv, Typed, OwnHandle, Rows
  <2>3. sessions' = [sessions EXCEPT ![s] = [sessions[s] EXCEPT !.ended = TRUE]]
    BY <1>5
  <2>4. [sessions[s] EXCEPT !.ended = TRUE] \in Row
    BY <2>2, EndedSession
  <2>5. RowsKept
    BY <1>1, <2>2, <2>3, <2>4, OneSessionKeeps
  <2>6. Authorised(c)
    BY <1>1, <2>1 DEF Established, Authorised, Governed, SkipSession
  <2>7. effects' = effects \cup {c}
    BY <1>5 DEF Effect
  <2> QED
    BY <1>1, <1>2, <1>3, <2>5, <2>6, <2>7, LastStep
<1> QED
  BY <1>4, <1>5 DEF Close

LEMMA AuditAuthority ==
  ASSUME AuthorityInv, NEW c \in Calls, WriteAudit(c) PROVE AuthorityInv'
BY Nothing DEF WriteAudit

-----------------------------------------------------------------------------
(***************************************************************************)
(* Revocation.  A transaction between its UPDATEs and its COMMIT has       *)
(* locked the target's row and sessions that are open and stay so; every   *)
(* session of the target it has not locked has ended, or was minted after  *)
(* its call arrived.                                                       *)
(***************************************************************************)
Locked(c) ==
  \A s \in closing[c] :
    s \in Rows \ Ended /\ sessions[s].persona = req[c].target

Reached(c) ==
  \A s \in SessionIds \ over[c].unknown :
    sessions[s].persona = req[c].target => s \in Ended \cup closing[c]

Terminated(c) ==
  /\ closing[c] \cap over[c].ended = {}
  /\ closing[c] \subseteq Ended
  /\ \A s \in SessionIds \ over[c].unknown :
       sessions[s].persona = req[c].target => s \in Ended

RevokeInv ==
  /\ \A c \in Calls : InTransaction(c) => Locked(c) /\ Reached(c)
  /\ \A c, d \in Calls :
       InTransaction(c) /\ InTransaction(d) /\ req[c].target = req[d].target => c = d
  /\ \A c \in Revocations : Terminated(c)
  /\ \A c, d \in Revocations : c # d => closing[c] \cap closing[d] = {}

DispatcherInv == AuthorityInv /\ RevokeInv

LEMMA InitRevoke == Init => RevokeInv
BY DEF Init, RevokeInv, InTransaction, Revocations

LEMMA RowsOnly ==
  ASSUME RowsKept
  PROVE  /\ Rows \subseteq Rows'
         /\ Ended \subseteq Ended'
         /\ \A s \in Rows : sessions'[s].persona = sessions[s].persona
BY DEF RowsKept, Rows, Ended

LEMMA TerminatedKept ==
  ASSUME RowsKept, NEW c \in Calls, StillOver(c), Terminated(c),
         req'[c] = req[c], over'[c] = over[c], closing'[c] = closing[c]
  PROVE  Terminated(c)'
BY RowsOnly DEF Terminated, StillOver

\* The sessions a transaction has locked are still open.
LEMMA TransactionKept ==
  ASSUME RowsKept, NEW c \in Calls, StillOver(c), Locked(c), Reached(c),
         req'[c] = req[c], over'[c] = over[c], closing'[c] = closing[c],
         closing[c] \cap Ended' = {}
  PROVE  Locked(c)' /\ Reached(c)'
BY RowsOnly DEF Locked, Reached, StillOver

(***************************************************************************)
(* A step that begins no transaction, commits none, and ends no session    *)
(* that one has locked.                                                    *)
(***************************************************************************)
LEMMA QuietStep ==
  ASSUME DispatcherInv, RowsKept, Revocations' = Revocations,
         \A d \in Calls : InTransaction(d)' => InTransaction(d),
         \A d \in Calls : pc[d] # "idle" => req'[d] = req[d] /\ over'[d] = over[d],
         \A d \in Calls : d \in Revocations \/ InTransaction(d)' => closing'[d] = closing[d],
         \A d \in Calls : InTransaction(d) => closing[d] \cap Ended' = {}
  PROVE  RevokeInv'
<1>1. ASSUME NEW d \in Calls, InTransaction(d)'
      PROVE  Locked(d)' /\ Reached(d)' /\ req'[d] = req[d]
  <2>1. InTransaction(d) /\ pc[d] # "idle"
    BY <1>1 DEF InTransaction
  <2>2. StillOver(d) /\ Locked(d) /\ Reached(d)
    BY <2>1 DEF DispatcherInv, AuthorityInv, RevokeInv
  <2> QED
    BY <1>1, <2>1, <2>2, TransactionKept
<1>2. ASSUME NEW c \in Calls, NEW d \in Calls, InTransaction(c)', InTransaction(d)',
             req'[c].target = req'[d].target
      PROVE  c = d
  BY <1>1, <1>2 DEF DispatcherInv, RevokeInv
<1>3. ASSUME NEW d \in Revocations PROVE d \in Calls /\ Terminated(d)' /\ closing'[d] = closing[d]
  <2>1. d \in Calls /\ pc[d] # "idle"
    BY DEF Revocations, DispatcherInv, AuthorityInv, Typed
  <2>2. StillOver(d) /\ Terminated(d)
    BY <2>1 DEF DispatcherInv, AuthorityInv, RevokeInv
  <2> QED
    BY <2>1, <2>2, TerminatedKept
<1>4. \A c, d \in Revocations' : c # d => closing'[c] \cap closing'[d] = {}
  BY <1>3 DEF DispatcherInv, RevokeInv
<1> QED
  BY <1>1, <1>2, <1>3, <1>4 DEF RevokeInv

\* A step of one call that is in no transaction before or after it.
LEMMA QuietCall ==
  ASSUME DispatcherInv, RowsKept, NEW c \in Calls, pc[c] # "idle", ~InTransaction(c),
         UNCHANGED <<req, over, closing>>,
         NEW place, Goto(c, place), place # "commit",
         \/ effects' = effects
         \/ effects' = effects \cup {c} /\ req[c].tool # "persona_revoke",
         \A d \in Calls : InTransaction(d) => closing[d] \cap Ended' = {}
  PROVE  RevokeInv'
<1>1. \A d \in Calls : InTransaction(d)' => InTransaction(d)
  BY DEF DispatcherInv, AuthorityInv, Typed, Goto, InTransaction
<1>2. Revocations' = Revocations
  BY DEF Revocations
<1> QED
  BY <1>1, <1>2, QuietStep

\* Nothing a transaction has locked has ended when the rows are as they were.
LEMMA LocksHeld ==
  ASSUME RevokeInv, UNCHANGED rows, NEW d \in Calls, InTransaction(d)
  PROVE  closing[d] \cap Ended' = {}
BY DEF RevokeInv, Locked, rows, Ended, Rows

LEMMA QuietRead ==
  ASSUME DispatcherInv, NEW c \in Calls, pc[c] \notin {"idle", "commit"},
         UNCHANGED <<rows, now, req, over, closing>>,
         NEW place, Goto(c, place), place # "commit",
         \/ effects' = effects
         \/ effects' = effects \cup {c} /\ req[c].tool # "persona_revoke"
  PROVE  RevokeInv'
<1>1. RowsKept /\ ~InTransaction(c)
  BY SameRows DEF DispatcherInv, AuthorityInv, InTransaction
<1>2. \A d \in Calls : InTransaction(d) => closing[d] \cap Ended' = {}
  BY LocksHeld DEF DispatcherInv
<1> QED
  BY <1>1, <1>2, QuietCall

LEMMA TickRevoke == ASSUME DispatcherInv, Tick PROVE RevokeInv'
<1>1. RowsKept
  BY DEF DispatcherInv, AuthorityInv, Typed, Tick, rows, RowsKept, Rows
<1>2. \A d \in Calls : InTransaction(d) => closing[d] \cap Ended' = {}
  BY LocksHeld DEF DispatcherInv, Tick
<1> QED
  BY <1>1, <1>2, QuietStep DEF Tick, history, Revocations, InTransaction

LEMMA ArriveRevoke == ASSUME DispatcherInv, NEW c \in Calls, Arrive(c) PROVE RevokeInv'
<1>1. RowsKept
  BY SameRows DEF DispatcherInv, AuthorityInv, Arrive
<1>2. \A d \in Calls : InTransaction(d) => closing[d] \cap Ended' = {}
  BY LocksHeld DEF DispatcherInv, Arrive
<1>3. \A d \in Calls : InTransaction(d)' => InTransaction(d)
  BY DEF DispatcherInv, AuthorityInv, Typed, Arrive, Goto, InTransaction
<1>4. \A d \in Calls \ {c} : req'[d] = req[d] /\ over'[d] = over[d]
  BY DEF DispatcherInv, AuthorityInv, Typed, Arrive
<1>5. c \notin effects /\ pc[c] = "idle"
  BY DEF DispatcherInv, AuthorityInv, Typed, Arrive
<1>6. Revocations' = Revocations
  BY <1>4, <1>5 DEF Revocations, Arrive, DispatcherInv, AuthorityInv, Typed
<1> QED
  BY <1>1, <1>2, <1>3, <1>4, <1>5, <1>6, QuietStep DEF Arrive

LEMMA ReadsRevoke ==
  ASSUME DispatcherInv, NEW c \in Calls,
         \/ ValidatePersona(c)
         \/ ValidateHandle(c)
         \/ FetchTarget(c)
         \/ Lookup(c)
         \/ WriteAudit(c)
  PROVE  RevokeInv'
<1>1. CASE ValidatePersona(c)
  <2>1. pc[c] = "persona" /\ UNCHANGED <<rows, now, req, over, closing, effects>>
    BY <1>1 DEF ValidatePersona, history
  <2>2. PICK place : Goto(c, place) /\ place # "commit"
    BY <1>1 DEF ValidatePersona, Answer, AfterPersona
  <2> QED
    BY <2>1, <2>2, QuietRead
<1>2. CASE ValidateHandle(c)
  <2>1. pc[c] = "handle" /\ UNCHANGED <<rows, now, req, over, closing, effects>>
    BY <1>2 DEF ValidateHandle, history
  <2>2. req[c].tool # "commit"
    BY <2>1, DispatcherAssumption DEF DispatcherInv, AuthorityInv, Typed, Requests, AllTools
  <2>3. PICK place : Goto(c, place) /\ place # "commit"
    BY <1>2, <2>2 DEF ValidateHandle, Answer, Deny, Audit
  <2> QED
    BY <2>1, <2>3, QuietRead
<1>3. CASE FetchTarget(c)
  <2>1. pc[c] = "persona_revoke" /\ UNCHANGED <<rows, now, req, over, closing, effects>>
    BY <1>3 DEF FetchTarget, history
  <2>2. PICK place : Goto(c, place) /\ place # "commit"
    BY <1>3 DEF FetchTarget, Failed, Finally, Audit
  <2> QED
    BY <2>1, <2>2, QuietRead
<1>4. CASE Lookup(c)
  <2>1. pc[c] = "lookup" /\ UNCHANGED <<rows, now, req, over, closing, effects>>
    BY <1>4 DEF Lookup, history
  <2>2. PICK place : Goto(c, place) /\ place # "commit"
    BY <1>4 DEF Lookup, Answer, Deny, Audit
  <2> QED
    BY <2>1, <2>2, QuietRead
<1>5. CASE WriteAudit(c)
  <2>1. pc[c] = "audit" /\ UNCHANGED <<rows, now, req, over, closing, effects>>
    BY <1>5 DEF WriteAudit
  <2>2. Goto(c, "done")
    BY <1>5 DEF WriteAudit
  <2> QED
    BY <2>1, <2>2, QuietRead
<1> QED
  BY <1>1, <1>2, <1>3, <1>4, <1>5

LEMMA WriteRevoke == ASSUME DispatcherInv, NEW c \in Calls, Write(c) PROVE RevokeInv'
<1>1. pc[c] = "db_write" /\ UNCHANGED <<rows, now, req, over, closing>>
  BY DEF Write
<1>2. req[c].tool # "persona_revoke"
  BY <1>1 DEF DispatcherInv, AuthorityInv, Established
<1>3. Goto(c, "audit")
  BY DEF Write, Failed, Finally, Audit
<1>4. effects' = effects \/ effects' = effects \cup {c}
  BY DEF Write, Effect
<1> QED
  BY <1>1, <1>2, <1>3, <1>4, QuietRead

LEMMA MintRevoke == ASSUME DispatcherInv, NEW c \in Calls, Mint(c) PROVE RevokeInv'
<1>1. pc[c] = "mint" /\ UNCHANGED <<status, now, req, over, closing>>
  BY DEF Mint, createSession
<1>2. req[c].tool # "persona_revoke"
  BY <1>1 DEF DispatcherInv, AuthorityInv, Established
<1>3. PICK place \in {"audit", "done"} : Goto(c, place)
  BY DEF Mint, createSession, Audit, Answer
<1>4. CASE NoEffect
  BY <1>1, <1>2, <1>3, <1>4, QuietRead DEF NoEffect
<1>5. CASE \E s \in SessionIds \ Rows :
             sessions' = [sessions EXCEPT ![s] = Session(req[c].persona, now, FALSE)]
             /\ Effect(c)
  <2>1. PICK s \in SessionIds \ Rows :
          sessions' = [sessions EXCEPT ![s] = Session(req[c].persona, now, FALSE)]
    BY <1>5
  <2>2. Session(req[c].persona, now, FALSE) \in Row
    BY <1>1, NewSession DEF DispatcherInv, AuthorityInv, Typed, Requests
  <2>3. RowsKept
    BY <1>1, <2>1, <2>2, OneSessionKeeps DEF DispatcherInv
  <2>4. \A q \in Rows : sessions'[q] = sessions[q]
    BY <2>1 DEF DispatcherInv, AuthorityInv, Typed, Rows
  <2>5. \A d \in Calls : InTransaction(d) => closing[d] \cap Ended' = {}
    BY <2>4 DEF DispatcherInv, RevokeInv, Locked, Ended
  <2>6. effects' = effects \cup {c} /\ ~InTransaction(c)
    BY <1>1, <1>5 DEF Effect, InTransaction
  <2> QED
    BY <1>1, <1>2, <1>3, <2>3, <2>5, <2>6, QuietCall
<1> QED
  BY <1>4, <1>5 DEF Mint, createSession

LEMMA CloseRevoke == ASSUME DispatcherInv, NEW c \in Calls, Close(c) PROVE RevokeInv'
<1>1. pc[c] = "close" /\ UNCHANGED <<status, now, req, over, closing>>
  BY DEF Close
<1>2. req[c].tool # "persona_revoke" /\ OwnHandle(c)
  BY <1>1 DEF DispatcherInv, AuthorityInv, Established
<1>3. PICK place \in {"audit", "done"} : Goto(c, place)
  BY DEF Close, Finally, Audit, Answer
<1>4. CASE UNCHANGED <<sessions, effects>>
  BY <1>1, <1>2, <1>3, <1>4, QuietRead DEF rows
<1>5. CASE /\ ~SessionLocked(req[c].handle)
           /\ sessions' = [sessions EXCEPT ![req[c].handle].ended = TRUE]
           /\ Effect(c)
  <2> DEFINE s == req[c].handle
  <2>1. s \in Rows /\ s \in SessionIds /\ sessions[s] \in Row
    BY <1>2 DEF DispatcherInv, AuthorityInv, Typed, OwnHandle, Rows
  <2>2. sessions' = [sessions EXCEPT ![s] = [sessions[s] EXCEPT !.ended = TRUE]]
    BY <1>5
  <2>3. [sessions[s] EXCEPT !.ended = TRUE] \in Row
    BY <2>1, EndedSession
  <2>4. RowsKept
    BY <1>1, <2>1, <2>2, <2>3, OneSessionKeeps DEF DispatcherInv
  <2>5. \A q \in Rows \ {s} : sessions'[q] = sessions[q]
    BY <2>2 DEF DispatcherInv, AuthorityInv, Typed, Rows
  <2>6. \A d \in Calls : InTransaction(d) => closing[d] \cap Ended' = {}
    BY <1>5, <2>5 DEF SessionLocked, DispatcherInv, RevokeInv, Locked, Ended
  <2>7. effects' = effects \cup {c} /\ ~InTransaction(c)
    BY <1>1, <1>5 DEF Effect, InTransaction
  <2> QED
    BY <1>1, <1>2, <1>3, <2>4, <2>6, <2>7, QuietCall
<1> QED
  BY <1>4, <1>5 DEF Close

LEMMA BeginRevokeInv == ASSUME DispatcherInv, NEW c \in Calls, BeginRevoke(c) PROVE RevokeInv'
<1>1. pc[c] = "update" /\ UNCHANGED <<rows, now, effects, over, req>>
  BY DEF BeginRevoke, history
<1>2. CASE Failed(c) /\ UNCHANGED closing
  BY <1>1, <1>2, QuietRead DEF Failed, Finally, Audit
<1>3. CASE /\ ~TargetLocked(c)
           /\ closing' = [closing EXCEPT ![c] = OwnedOpen(req[c].target)]
           /\ Goto(c, "commit")
  <2>1. \A d \in Calls \ {c} : closing'[d] = closing[d] /\ (InTransaction(d)' <=> InTransaction(d))
    BY <1>3 DEF DispatcherInv, AuthorityInv, Typed, Goto, InTransaction
  <2>2. closing'[c] = OwnedOpen(req[c].target)
    BY <1>3 DEF DispatcherInv, AuthorityInv, Typed
  <2>3. RowsKept
    BY <1>1, SameRows DEF DispatcherInv, AuthorityInv
  <2>4. Rows' = Rows /\ Ended' = Ended /\ sessions' = sessions
    BY <1>1 DEF rows, Rows, Ended
  <2>5. Locked(c)'
    BY <1>1, <2>2, <2>4 DEF Locked, OwnedOpen
  <2>6. Reached(c)'
    <3>1. SessionIds \ over[c].unknown \subseteq Rows
      BY <1>1 DEF DispatcherInv, AuthorityInv, StillOver
    <3> QED
      BY <1>1, <2>2, <2>4, <3>1 DEF Reached, OwnedOpen
  <2>7. ASSUME NEW d \in Calls \ {c}, InTransaction(d)'
        PROVE  Locked(d)' /\ Reached(d)' /\ req[d].target # req[c].target
    <3>1. InTransaction(d) /\ pc[d] # "idle" /\ closing'[d] = closing[d]
      BY <2>1, <2>7 DEF InTransaction
    <3>2. StillOver(d) /\ Locked(d) /\ Reached(d)
      BY <3>1 DEF DispatcherInv, AuthorityInv, RevokeInv
    <3>3. closing[d] \cap Ended' = {}
      BY <1>1, <3>1, LocksHeld DEF DispatcherInv
    <3>4. Locked(d)' /\ Reached(d)'
      BY <1>1, <2>3, <3>1, <3>2, <3>3, TransactionKept
    <3> QED
      BY <1>3, <3>1, <3>4 DEF TargetLocked
  <2>8. Revocations' = Revocations /\ c \notin Revocations
    BY <1>1 DEF Revocations, DispatcherInv, AuthorityInv, Typed
  <2>9. ASSUME NEW d \in Revocations PROVE Terminated(d)' /\ closing'[d] = closing[d]
    <3>1. d \in Calls \ {c} /\ pc[d] # "idle"
      BY <2>8 DEF Revocations, DispatcherInv, AuthorityInv, Typed
    <3>2. StillOver(d) /\ Terminated(d)
      BY <3>1 DEF DispatcherInv, AuthorityInv, RevokeInv
    <3> QED
      BY <1>1, <2>1, <2>3, <3>1, <3>2, TerminatedKept
  <2>10. \A d \in Calls : InTransaction(d)' => Locked(d)' /\ Reached(d)'
    BY <2>5, <2>6, <2>7
  <2>11. \A d, e \in Calls :
           InTransaction(d)' /\ InTransaction(e)' /\ req'[d].target = req'[e].target => d = e
    BY <1>1, <2>1, <2>7 DEF DispatcherInv, RevokeInv
  <2>12. \A d, e \in Revocations : d # e => closing'[d] \cap closing'[e] = {}
    BY <2>9 DEF DispatcherInv, RevokeInv
  <2> QED
    BY <2>8, <2>9, <2>10, <2>11, <2>12 DEF RevokeInv
<1> QED
  BY <1>2, <1>3 DEF BeginRevoke

LEMMA EndRevokeInv == ASSUME DispatcherInv, NEW c \in Calls, EndRevoke(c) PROVE RevokeInv'
<1>1. pc[c] = "commit" /\ InTransaction(c) /\ UNCHANGED <<now, over, req>> /\ Goto(c, "audit")
  BY DEF EndRevoke, InTransaction, Failed, Finally, Audit
<1>2. pc'[c] = "audit" /\ \A d \in Calls \ {c} : InTransaction(d)' <=> InTransaction(d)
  BY <1>1 DEF DispatcherInv, AuthorityInv, Typed, Goto, InTransaction
<1>3. /\ StillOver(c) /\ Locked(c) /\ Reached(c)
      /\ req[c].tool = "persona_revoke"
      /\ c \notin effects
  BY <1>1 DEF DispatcherInv, AuthorityInv, Typed, Established, Revoking, RevokeInv
<1>4. CASE RollbackRevoke(c)
  <2>1. RowsKept /\ Revocations' = Revocations
    BY <1>1, <1>4, SameRows
    DEF DispatcherInv, AuthorityInv, RollbackRevoke, NoEffect, Revocations
  <2>2. \A d \in Calls \ {c} : closing'[d] = closing[d]
    BY <1>4 DEF RollbackRevoke, DispatcherInv, AuthorityInv, Typed
  <2>3. \A d \in Calls : InTransaction(d) => closing[d] \cap Ended' = {}
    BY <1>4, LocksHeld DEF DispatcherInv, RollbackRevoke, NoEffect
  <2>4. c \notin Revocations /\ ~InTransaction(c)'
    BY <1>2, <1>3 DEF Revocations, InTransaction
  <2> QED
    BY <1>1, <1>2, <2>1, <2>2, <2>3, <2>4, QuietStep
<1>5. CASE CommitRevoke(c)
  <2>1. RowsKept /\ closing' = closing /\ effects' = effects \cup {c}
    BY <1>1, <1>3, <1>5, CommitKeeps DEF DispatcherInv, Locked, CommitRevoke, Effect
  <2>2. closing[c] \subseteq Rows \ Ended /\ closing[c] \subseteq Ended'
    <3>1. \A s \in closing[c] : s \in Rows \ Ended /\ sessions[s] \in Row
      BY <1>3 DEF Locked, DispatcherInv, AuthorityInv, Typed, Rows
    <3>2. \A s \in closing[c] : s \in Rows' /\ sessions'[s] = [sessions[s] EXCEPT !.ended = TRUE]
      BY <1>5, <2>1, <3>1, RowsOnly DEF CommitRevoke, Rows
    <3> QED
      BY <3>1, <3>2, EndedSession DEF Ended
  <2>3. \A s \in Rows \ closing[c] : s \in Ended' => s \in Ended
    BY <1>5 DEF CommitRevoke, Ended, Rows
  <2>4. Terminated(c)'
    <3>1. closing[c] \cap over[c].ended = {}
      BY <1>3, <2>2 DEF StillOver
    <3>2. ASSUME NEW s \in SessionIds \ over[c].unknown, sessions'[s].persona = req[c].target
          PROVE  s \in Ended'
      <4>1. s \in Rows
        BY <1>3 DEF StillOver
      <4>2. s \in Ended \cup closing[c]
        BY <1>3, <2>1, <3>2, <4>1, RowsOnly DEF Reached
      <4> QED
        BY <2>1, <2>2, <4>2, RowsOnly
    <3> QED
      BY <1>1, <2>1, <2>2, <3>1, <3>2 DEF Terminated
  <2>5. ASSUME NEW d \in Calls \ {c}, InTransaction(d)' PROVE Locked(d)' /\ Reached(d)'
    <3>1. InTransaction(d) /\ pc[d] # "idle"
      BY <1>2, <2>5 DEF InTransaction
    <3>2. StillOver(d) /\ Locked(d) /\ Reached(d) /\ req[d].target # req[c].target
      BY <1>1, <3>1 DEF DispatcherInv, AuthorityInv, RevokeInv
    <3>3. closing[d] \cap Ended' = {}
      BY <1>3, <2>3, <3>2 DEF Locked
    <3> QED
      BY <1>1, <2>1, <3>2, <3>3, TransactionKept
  <2>6. Revocations' = Revocations \cup {c}
    BY <1>1, <1>3, <2>1 DEF Revocations
  <2>7. ASSUME NEW d \in Revocations PROVE Terminated(d)' /\ closing[d] \cap closing[c] = {}
    <3>1. d \in Calls /\ pc[d] # "idle"
      BY DEF Revocations, DispatcherInv, AuthorityInv, Typed
    <3>2. StillOver(d) /\ Terminated(d)
      BY <3>1 DEF DispatcherInv, AuthorityInv, RevokeInv
    <3>3. Terminated(d)'
      BY <1>1, <2>1, <3>1, <3>2, TerminatedKept
    <3> QED
      BY <2>2, <3>2, <3>3 DEF Terminated
  <2>8. ~InTransaction(c)'
    BY <1>2 DEF InTransaction
  <2>9. \A d, e \in Calls :
          InTransaction(d)' /\ InTransaction(e)' /\ req'[d].target = req'[e].target => d = e
    BY <1>1, <1>2, <2>8 DEF DispatcherInv, RevokeInv
  <2>10. \A d, e \in Revocations' : d # e => closing'[d] \cap closing'[e] = {}
    BY <2>1, <2>6, <2>7 DEF DispatcherInv, RevokeInv
  <2> QED
    BY <2>4, <2>5, <2>6, <2>7, <2>8, <2>9, <2>10 DEF RevokeInv
<1> QED
  BY <1>4, <1>5 DEF EndRevoke

LEMMA Stuttering == DispatcherInv /\ UNCHANGED vars => DispatcherInv'
<1> SUFFICES ASSUME DispatcherInv, UNCHANGED vars PROVE DispatcherInv'
  OBVIOUS
<1>1. /\ UNCHANGED <<status, sessions, pc, req, closing, now, effects, over>>
      /\ RowsKept
  BY SameRows DEF vars, rows, history, DispatcherInv, AuthorityInv
<1>2. Typed'
  BY <1>1 DEF DispatcherInv, AuthorityInv, Typed
<1>3. \A d \in Calls : pc'[d] # "idle" => StillOver(d)' /\ Established(d)'
  BY <1>1, StillOverKept, EstablishedKept DEF DispatcherInv, AuthorityInv
<1>4. \A d \in effects' : Authorised(d)'
  BY <1>1, AuthorisedKept DEF DispatcherInv, AuthorityInv, Typed
<1>5. \A d \in Calls : InTransaction(d) => closing[d] \cap Ended' = {}
  BY <1>1, LocksHeld DEF DispatcherInv, rows
<1>6. RevokeInv'
  BY <1>1, <1>5, QuietStep DEF Revocations, InTransaction
<1> QED
  BY <1>2, <1>3, <1>4, <1>6 DEF DispatcherInv, AuthorityInv

(***************************************************************************)
(* What a call knows in the middle of its handler, and what a revocation   *)
(* has locked, is an invariant of the dispatcher.                          *)
(***************************************************************************)
THEOREM DispatcherInvariant == Spec => []DispatcherInv
<1>1. Init => DispatcherInv
  BY InitAuthority, InitRevoke DEF DispatcherInv
<1>2. DispatcherInv /\ [Next]_vars => DispatcherInv'
  <2> SUFFICES ASSUME DispatcherInv, [Next]_vars PROVE DispatcherInv'
    OBVIOUS
  <2>1. CASE UNCHANGED vars
    BY <2>1, Stuttering
  <2>2. CASE Tick
    BY <2>2, TickAuthority, TickRevoke DEF DispatcherInv
  <2>3. ASSUME NEW c \in Calls, Arrive(c) PROVE DispatcherInv'
    BY <2>3, ArriveAuthority, ArriveRevoke DEF DispatcherInv
  <2>4. ASSUME NEW c \in Calls, ValidatePersona(c) PROVE DispatcherInv'
    BY <2>4, PersonaAuthority, ReadsRevoke DEF DispatcherInv
  <2>5. ASSUME NEW c \in Calls, ValidateHandle(c) PROVE DispatcherInv'
    BY <2>5, HandleAuthority, ReadsRevoke DEF DispatcherInv
  <2>6. ASSUME NEW c \in Calls, Write(c) PROVE DispatcherInv'
    BY <2>6, WriteAuthority, WriteRevoke DEF DispatcherInv
  <2>7. ASSUME NEW c \in Calls, FetchTarget(c) PROVE DispatcherInv'
    BY <2>7, FetchAuthority, ReadsRevoke DEF DispatcherInv
  <2>8. ASSUME NEW c \in Calls, BeginRevoke(c) PROVE DispatcherInv'
    BY <2>8, BeginAuthority, BeginRevokeInv DEF DispatcherInv
  <2>9. ASSUME NEW c \in Calls, EndRevoke(c) PROVE DispatcherInv'
    <3>1. closing[c] \subseteq Rows
      BY <2>9 DEF EndRevoke, DispatcherInv, RevokeInv, Locked
    <3> QED
      BY <2>9, <3>1, EndAuthority, EndRevokeInv DEF DispatcherInv
  <2>10. ASSUME NEW c \in Calls, Mint(c) PROVE DispatcherInv'
    BY <2>10, MintAuthority, MintRevoke DEF DispatcherInv
  <2>11. ASSUME NEW c \in Calls, Lookup(c) PROVE DispatcherInv'
    BY <2>11, LookupAuthority, ReadsRevoke DEF DispatcherInv
  <2>12. ASSUME NEW c \in Calls, Close(c) PROVE DispatcherInv'
    BY <2>12, CloseAuthority, CloseRevoke DEF DispatcherInv
  <2>13. ASSUME NEW c \in Calls, WriteAudit(c) PROVE DispatcherInv'
    BY <2>13, AuditAuthority, ReadsRevoke DEF DispatcherInv
  <2> QED
    BY <2>1, <2>2, <2>3, <2>4, <2>5, <2>6, <2>7, <2>8, <2>9, <2>10, <2>11, <2>12, <2>13 DEF Next
<1> QED
  BY <1>1, <1>2, PTL DEF Spec

(***************************************************************************)
(* Revocation, expiry and closure bind every call that arrives later: an   *)
(* effect needs a persona that was valid, and a session of its own that    *)
(* was neither closed nor (for governed tools) expired, at the arrival.    *)
(***************************************************************************)
THEOREM AuthorityFromTheStart == Spec => []AuthorityAtStart
<1>1. DispatcherInv => AuthorityAtStart
  BY DEF DispatcherInv, AuthorityInv, AuthorityAtStart, Authorised, PersonaAccepted, OwnHandle
<1> QED
  BY <1>1, DispatcherInvariant, PTL

(***************************************************************************)
(* A revocation leaves no session of its target open but those minted      *)
(* after its call arrived.                                                 *)
(***************************************************************************)
THEOREM RevocationIsComplete == Spec => []RevocationClosesSessions
<1>1. DispatcherInv => RevocationClosesSessions
  BY DEF DispatcherInv, RevokeInv, RevocationClosesSessions, Terminated
<1> QED
  BY <1>1, DispatcherInvariant, PTL

(***************************************************************************)
(* A session is counted as terminated by one revocation at most, and never *)
(* when it was closed before that revocation's call arrived.               *)
(***************************************************************************)
THEOREM SessionsCountedOnce == Spec => []TerminatedOnce
<1>1. DispatcherInv => TerminatedOnce
  BY DEF DispatcherInv, RevokeInv, TerminatedOnce, Terminated
<1> QED
  BY <1>1, DispatcherInvariant, PTL

-----------------------------------------------------------------------------
(***************************************************************************)
(* The audit trail: what a call has recorded, where it is.                 *)
(***************************************************************************)
\* No session row is from the future.
Timely ==
  /\ now <= MaxTime
  /\ \A s \in Rows : sessions[s].started_at <= now

\* A denied row was about a session that was there, and still is.
Truthful(c) ==
  entry[c].outcome = "denied" =>
    /\ TruthOf(entry[c], req[c].handle)
    /\ entry[c].reason # "SESSION_NOT_FOUND" => req[c].handle \in Rows

\* The row agrees with the call and with what its statement did.
Sound(c) ==
  /\ entry[c] # NoRow
  /\ entry[c].call = c
  /\ IsEntry(entry[c])
  /\ entry[c].outcome = "allowed" => c \in effects
  /\ entry[c].outcome = "denied" => c \notin effects
  /\ entry[c].outcome = "error" /\ c \in effects => "reply" \in Faults
  /\ Truthful(c)

Unrecorded(c) ==
  /\ entry[c] = NoRow
  /\ c \in effects => "reply" \in Faults /\ ~Governed(c)

Recorded(c) ==
  /\ pc[c] \notin {"audit", "done"} => entry[c] = NoRow
  /\ pc[c] = "audit" => Sound(c)
  /\ pc[c] = "done" => \/ Unrecorded(c)
                       \/ Sound(c) /\ (entry[c] \in trail \/ c \in dropped)

FromCalls ==
  \A r \in trail : /\ r.call \in Calls
                   /\ pc[r.call] = "done"
                   /\ r = entry[r.call]
                   /\ r # NoRow

TrailInv ==
  /\ Timely
  /\ DOMAIN entry = Calls
  /\ \A c \in Calls : Recorded(c)
  /\ FromCalls

-----------------------------------------------------------------------------
LEMMA EntryIsRow ==
  ASSUME NEW e, "call" \in DOMAIN e
  PROVE  e # NoRow
<1>1. "call" \notin DOMAIN NoRow
  BY DEF NoRow
<1>2. QED
  BY <1>1

\* What the call wrote, and nobody else's.
LEMMA EntryWritten ==
  ASSUME TrailInv, NEW c \in Calls, NEW event, NEW session, NEW outcome, NEW reason,
         Audit(c, event, session, outcome, reason)
  PROVE  /\ entry'[c] # NoRow
         /\ entry'[c].call = c /\ entry'[c].persona = req[c].persona
         /\ entry'[c].session = session /\ entry'[c].outcome = outcome
         /\ entry'[c].reason = reason
         /\ DOMAIN entry' = Calls
         /\ \A d \in Calls \ {c} : entry'[d] = entry[d]
<1> DEFINE e == [call |-> c, event |-> event, persona |-> req[c].persona,
                 session |-> session, outcome |-> outcome, reason |-> reason]
<1>1. /\ entry'[c] = e
      /\ DOMAIN entry' = Calls
      /\ \A d \in Calls \ {c} : entry'[d] = entry[d]
  BY DEF Audit, TrailInv
<1>2. e # NoRow
  BY EntryIsRow
<1>3. QED
  BY <1>1, <1>2

LEMMA TruthKept ==
  ASSUME Typed, RowsKept, NEW c \in Calls, Truthful(c), entry[c] # NoRow,
         IsEntry(entry[c]), entry[c].call = c,
         entry'[c] = entry[c], req'[c] = req[c], over'[c] = over[c]
  PROVE  Truthful(c)'
<1> DEFINE e == entry[c]
           s == req[c].handle
<1> SUFFICES ASSUME e.outcome = "denied"
             PROVE  TruthOf(e, s)' /\ (e.reason # "SESSION_NOT_FOUND" => s \in Rows')
  BY DEF Truthful
<1>1. TruthOf(e, s) /\ (e.reason # "SESSION_NOT_FOUND" => s \in Rows)
  BY DEF Truthful
<1>2. CASE e.reason = "SESSION_NOT_FOUND"
  BY <1>1, <1>2 DEF TruthOf
<1>3. CASE e.reason # "SESSION_NOT_FOUND"
  <2>1. /\ s \in Rows'
        /\ sessions'[s].persona = sessions[s].persona
        /\ sessions'[s].started_at = sessions[s].started_at
        /\ sessions[s].ended => sessions'[s].ended
    BY <1>1, <1>3 DEF RowsKept
  <2>2. sessions[s].started_at \in Nat /\ TTL \in Nat
    BY <1>1, <1>3, DispatcherAssumption DEF Typed, Rows, Row
  <2>3. Expired(s) => Expired(s)'
    BY <2>1, <2>2 DEF Expired, Typed, RowsKept
  <2>4. s \in Ended => s \in Ended'
    BY <2>1 DEF Ended
  <2>5. QED
    BY <1>1, <1>3, <2>1, <2>3, <2>4 DEF TruthOf
<1>4. QED
  BY <1>2, <1>3

LEMMA SoundKept ==
  ASSUME Typed, RowsKept, NEW c \in Calls, Sound(c),
         entry'[c] = entry[c], req'[c] = req[c], over'[c] = over[c],
         c \in effects' <=> c \in effects
  PROVE  Sound(c)'
<1>1. Truthful(c)'
  BY TruthKept DEF Sound
<1>2. IsEntry(entry[c])'
  BY DEF Sound, IsEntry, RowsKept
<1>3. QED
  BY <1>1, <1>2 DEF Sound

LEMMA RecordedKept ==
  ASSUME Typed, RowsKept, NEW c \in Calls, Recorded(c), pc'[c] = pc[c],
         entry'[c] = entry[c], req'[c] = req[c], over'[c] = over[c],
         c \in effects' <=> c \in effects,
         trail \subseteq trail', dropped \subseteq dropped'
  PROVE  Recorded(c)'
<1>1. Sound(c) => Sound(c)'
  BY SoundKept
<1>2. Unrecorded(c) => Unrecorded(c)'
  BY DEF Unrecorded, Governed
<1>3. QED
  BY <1>1, <1>2 DEF Recorded

(***************************************************************************)
(* A step of one call that has not finished: the others' rows stay as true *)
(* as they were.                                                           *)
(***************************************************************************)
LEMMA TrailStep ==
  ASSUME Typed, TrailInv, RowsKept, Timely', NEW c \in Calls,
         pc[c] # "done", \A d \in Calls \ {c} : pc'[d] = pc[d],
         \A d \in Calls \ {c} : req'[d] = req[d] /\ over'[d] = over[d],
         UNCHANGED <<trail, dropped>>,
         DOMAIN entry' = Calls, \A d \in Calls \ {c} : entry'[d] = entry[d],
         \A d \in Calls \ {c} : d \in effects' <=> d \in effects,
         Recorded(c)'
  PROVE  TrailInv'
<1>1. \A d \in Calls : Recorded(d)'
  BY RecordedKept DEF TrailInv
<1>2. FromCalls'
  BY DEF TrailInv, FromCalls
<1>3. QED
  BY <1>1, <1>2 DEF TrailInv

\* A step of a call on its way, which records nothing yet.
LEMMA OnTheWay ==
  ASSUME Typed, TrailInv, RowsKept, Timely', NEW c \in Calls,
         pc[c] \notin {"idle", "audit", "done"},
         UNCHANGED <<trail, dropped, entry, req, over>>, effects' = effects,
         NEW place \in Places \ {"audit", "done"}, Goto(c, place)
  PROVE  TrailInv'
<1>1. pc'[c] = place /\ \A d \in Calls \ {c} : pc'[d] = pc[d]
  BY DEF Typed, Goto
<1>2. Recorded(c)'
  BY <1>1 DEF TrailInv, Recorded
<1>3. QED
  BY <1>1, <1>2, TrailStep DEF TrailInv

\* A step that answers without a row: nothing was done, or the reply was lost.
LEMMA Answered ==
  ASSUME Typed, TrailInv, RowsKept, Timely', NEW c \in Calls,
         pc[c] \notin {"idle", "audit", "done"}, Answer(c),
         UNCHANGED <<trail, dropped, req, over>>,
         \/ effects' = effects
         \/ effects' = effects \cup {c} /\ "reply" \in Faults /\ ~Governed(c)
  PROVE  TrailInv'
<1>1. pc'[c] = "done" /\ \A d \in Calls \ {c} : pc'[d] = pc[d]
  BY DEF Typed, Answer, Goto
<1>2. c \notin effects /\ entry[c] = NoRow /\ entry' = entry
  BY DEF Typed, TrailInv, Recorded, Answer
<1>3. Recorded(c)'
  BY <1>1, <1>2 DEF Recorded, Unrecorded, Governed
<1>4. QED
  BY <1>1, <1>2, <1>3, TrailStep DEF TrailInv

\* A step that puts what the tool returned into the finally block.
LEMMA Concluded ==
  ASSUME Typed, TrailInv, RowsKept, Timely', NEW c \in Calls,
         pc[c] \notin {"idle", "audit", "done"}, NEW outcome \in {"allowed", "error"},
         NEW event, NEW session \in Rows' \cup {NoRow},
         Audit(c, event, session, outcome, NoReason),
         UNCHANGED <<trail, dropped, req, over>>,
         \/ effects' = effects /\ outcome = "error"
         \/ effects' = effects \cup {c} /\ outcome = "allowed"
         \/ effects' = effects \cup {c} /\ "reply" \in Faults
  PROVE  TrailInv'
<1>1. pc'[c] = "audit" /\ \A d \in Calls \ {c} : pc'[d] = pc[d]
  BY DEF Typed, Audit, Goto
<1>2. /\ entry'[c] # NoRow
      /\ entry'[c].call = c /\ entry'[c].persona = req[c].persona
      /\ entry'[c].session = session /\ entry'[c].outcome = outcome
      /\ entry'[c].reason = NoReason
      /\ DOMAIN entry' = Calls
      /\ \A d \in Calls \ {c} : entry'[d] = entry[d]
  BY EntryWritten
<1>3. c \notin effects
  BY DEF Typed
<1>4. IsEntry(entry[c])'
  BY <1>2 DEF IsEntry, Reasons
<1>5. Recorded(c)'
  BY <1>1, <1>2, <1>3, <1>4 DEF Recorded, Sound, Truthful
<1>6. QED
  BY <1>1, <1>2, <1>5, TrailStep

\* A step that denies the call for a reason that is true.
LEMMA Denied ==
  ASSUME Typed, TrailInv, UNCHANGED <<rows, now>>, NEW c \in Calls,
         pc[c] \notin {"idle", "audit", "done"}, NEW verdict \in Reasons \ {NoReason},
         Deny(c, verdict),
         UNCHANGED <<trail, dropped, req, over, effects>>,
         verdict = "SESSION_NOT_FOUND" => req[c].handle \in over[c].unknown,
         verdict # "SESSION_NOT_FOUND" => req[c].handle \in Rows,
         verdict = "SESSION_PERSONA_MISMATCH" =>
           sessions[req[c].handle].persona # req[c].persona,
         verdict = "SESSION_EXPIRED" =>
           req[c].handle \notin over[c].ended /\ Expired(req[c].handle),
         verdict \in {"SESSION_CLOSED", "SESSION_ALREADY_CLOSED"} =>
           req[c].handle \in Ended /\ sessions[req[c].handle].persona = req[c].persona
  PROVE  TrailInv'
<1> DEFINE s == req[c].handle
<1>1. pc'[c] = "audit" /\ \A d \in Calls \ {c} : pc'[d] = pc[d]
  BY DEF Typed, Deny, Audit, Goto
<1>2. /\ entry'[c] # NoRow
      /\ entry'[c].call = c /\ entry'[c].persona = req[c].persona
      /\ entry'[c].session = LinkFor(verdict, s) /\ entry'[c].outcome = "denied"
      /\ entry'[c].reason = verdict
      /\ DOMAIN entry' = Calls
      /\ \A d \in Calls \ {c} : entry'[d] = entry[d]
  BY EntryWritten DEF Deny
<1>3. c \notin effects /\ RowsKept /\ Timely'
  BY SameRows DEF Typed, TrailInv, Timely, rows, Rows
<1>4. Rows' = Rows /\ Ended' = Ended /\ sessions' = sessions /\ (Expired(s) => Expired(s)')
  BY DEF rows, Rows, Ended, Expired
<1>6. IsEntry(entry[c])'
  BY <1>2, <1>4 DEF IsEntry, LinkFor
<1>7. TruthOf(entry[c], s)'
  BY <1>2, <1>4 DEF TruthOf, LinkFor
<1>8. Recorded(c)'
  BY <1>1, <1>2, <1>3, <1>4, <1>6, <1>7 DEF Recorded, Sound, Truthful
<1>9. QED
  BY <1>1, <1>2, <1>3, <1>8, TrailStep

-----------------------------------------------------------------------------
(***************************************************************************)
(* The actions.                                                            *)
(***************************************************************************)
LEMMA InitTrail == Init => TrailInv
<1> SUFFICES ASSUME Init PROVE TrailInv
  OBVIOUS
<1>1. Timely
  <2>1. \A p \in Personas : Session(p, 0, FALSE).started_at <= 0
    BY DEF Session
  <2>2. \A s \in Rows : \E p \in Personas : sessions[s] = Session(p, 0, FALSE)
    BY DEF Init, Rows
  <2>3. now = 0 /\ now <= MaxTime
    BY DispatcherAssumption DEF Init
  <2>4. QED
    BY <2>1, <2>2, <2>3 DEF Timely
<1>2. QED
  BY <1>1 DEF Init, TrailInv, Recorded, FromCalls

LEMMA SameTime == Timely /\ UNCHANGED <<rows, now>> => Timely'
BY DEF Timely, rows, Rows

LEMMA TickTrail == ASSUME Typed, TrailInv, RowsKept, Tick PROVE TrailInv'
<1>1. Timely'
  BY DispatcherAssumption DEF Tick, Typed, TrailInv, Timely, rows, Rows, Row
<1>2. \A d \in Calls : Recorded(d)'
  BY RecordedKept DEF Tick, TrailInv, history
<1>3. QED
  BY <1>1, <1>2 DEF Tick, TrailInv, FromCalls

LEMMA ArriveTrail ==
  ASSUME Typed, TrailInv, NEW c \in Calls, Arrive(c) PROVE TrailInv'
<1>1. /\ pc[c] = "idle" /\ pc' = [pc EXCEPT ![c] = "persona"]
      /\ entry' = entry /\ effects' = effects
      /\ RowsKept /\ Timely'
  BY SameRows, SameTime DEF Arrive, Goto, TrailInv
<1>2. \A d \in Calls \ {c} : pc'[d] = pc[d] /\ req'[d] = req[d] /\ over'[d] = over[d]
  BY DEF Arrive, Goto, Typed
<1>3. Recorded(c)'
  BY <1>1 DEF Typed, TrailInv, Recorded
<1>4. QED
  BY <1>1, <1>2, <1>3, TrailStep DEF Arrive, TrailInv

LEMMA PersonaTrail ==
  ASSUME DispatcherInv, TrailInv, NEW c \in Calls, ValidatePersona(c) PROVE TrailInv'
<1>1. /\ pc[c] = "persona" /\ Typed /\ RowsKept /\ Timely'
      /\ UNCHANGED <<trail, dropped, req, over, effects>>
  BY SameRows, SameTime DEF ValidatePersona, history, DispatcherInv, AuthorityInv, TrailInv
<1>2. CASE Answer(c)
  BY <1>1, <1>2, Answered
<1>3. CASE Goto(c, AfterPersona(req[c].tool)) /\ UNCHANGED entry
  <2>1. AfterPersona(req[c].tool) \in Places \ {"audit", "done"}
    BY DEF AfterPersona, Places
  <2>2. QED
    BY <1>1, <1>3, <2>1, OnTheWay
<1>4. QED
  BY <1>2, <1>3 DEF ValidatePersona

LEMMA HandleTrail ==
  ASSUME DispatcherInv, TrailInv, NEW c \in Calls, ValidateHandle(c) PROVE TrailInv'
<1> DEFINE s == req[c].handle
           verdict == Verdict(req[c].persona, s)
<1>1. /\ pc[c] = "handle" /\ Typed /\ RowsKept /\ Timely'
      /\ StillOver(c) /\ Established(c) /\ req[c] \in Requests
      /\ UNCHANGED <<rows, now, trail, dropped, req, over, effects>>
  BY SameRows, SameTime DEF ValidateHandle, history, DispatcherInv, AuthorityInv, Typed, TrailInv
<1>2. CASE Answer(c)
  BY <1>1, <1>2, Answered
<1>3. CASE s # BadHandle /\ verdict # "accept" /\ Deny(c, verdict)
  <2>1. s \in SessionIds
    BY <1>1, <1>3 DEF Requests, Handles
  <2>2. /\ verdict \in Reasons \ {NoReason}
        /\ verdict = "SESSION_NOT_FOUND" <=> s \notin Rows
        /\ verdict = "SESSION_PERSONA_MISMATCH" => sessions[s].persona # req[c].persona
        /\ verdict = "SESSION_EXPIRED" => s \notin Ended /\ Expired(s)
        /\ verdict = "SESSION_CLOSED" => s \in Ended /\ sessions[s].persona = req[c].persona
        /\ verdict # "SESSION_ALREADY_CLOSED"
    BY <1>3 DEF Verdict, Reasons, NoReason
  <2>3. s \notin Rows => s \in over[c].unknown
    BY <1>1, <2>1 DEF StillOver
  <2>4. s \notin Ended => s \notin over[c].ended
    BY <1>1 DEF StillOver
  <2> HIDE DEF verdict
  <2>5. QED
    BY <1>1, <1>3, <2>2, <2>3, <2>4, Denied DEF TrailInv
<1>4. CASE Goto(c, req[c].tool) /\ UNCHANGED entry
  <2>1. req[c].tool \in Places \ {"audit", "done"}
    BY <1>1, DispatcherAssumption
       DEF Established, Governed, SkipSession, Requests, AllTools, Places
  <2>2. QED
    BY <1>1, <1>4, <2>1, OnTheWay
<1>5. QED
  BY <1>2, <1>3, <1>4 DEF ValidateHandle

LEMMA LookupTrail ==
  ASSUME DispatcherInv, TrailInv, NEW c \in Calls, Lookup(c) PROVE TrailInv'
<1> DEFINE s == req[c].handle
           verdict == CloseVerdict(req[c].persona, s)
<1>1. /\ pc[c] = "lookup" /\ Typed /\ RowsKept /\ Timely'
      /\ StillOver(c) /\ req[c] \in Requests
      /\ UNCHANGED <<rows, now, trail, dropped, req, over, effects>>
  BY SameRows, SameTime DEF Lookup, history, DispatcherInv, AuthorityInv, Typed, TrailInv
<1>2. CASE Answer(c)
  BY <1>1, <1>2, Answered
<1>3. CASE s # BadHandle /\ verdict # "accept" /\ Deny(c, verdict)
  <2>1. s \in SessionIds
    BY <1>1, <1>3 DEF Requests, Handles
  <2>2. /\ verdict \in Reasons \ {NoReason}
        /\ verdict = "SESSION_NOT_FOUND" <=> s \notin Rows
        /\ verdict = "SESSION_PERSONA_MISMATCH" => sessions[s].persona # req[c].persona
        /\ verdict \notin {"SESSION_EXPIRED", "SESSION_CLOSED"}
        /\ verdict = "SESSION_ALREADY_CLOSED" =>
             s \in Ended /\ sessions[s].persona = req[c].persona
    BY <1>3 DEF CloseVerdict, Reasons, NoReason
  <2>3. s \notin Rows => s \in over[c].unknown
    BY <1>1, <2>1 DEF StillOver
  <2> HIDE DEF verdict
  <2>4. QED
    BY <1>1, <1>3, <2>2, <2>3, Denied DEF TrailInv
<1>4. CASE Goto(c, "close") /\ UNCHANGED entry
  BY <1>1, <1>4, OnTheWay DEF Places
<1>5. QED
  BY <1>2, <1>3, <1>4 DEF Lookup

LEMMA WriteTrail ==
  ASSUME DispatcherInv, TrailInv, NEW c \in Calls, Write(c) PROVE TrailInv'
<1>1. /\ pc[c] = "db_write" /\ Typed /\ RowsKept /\ Timely' /\ Established(c)
      /\ UNCHANGED <<rows, trail, dropped, req, over>>
  BY SameRows, SameTime DEF Write, DispatcherInv, AuthorityInv, TrailInv
<1>2. req[c].handle \in Rows'
  BY <1>1 DEF Established, HandleAccepted, OwnHandle, rows, Rows
<1>3. QED
  BY <1>1, <1>2, Concluded DEF Write, Effect, Failed, Finally

LEMMA FetchTrail ==
  ASSUME DispatcherInv, TrailInv, NEW c \in Calls, FetchTarget(c) PROVE TrailInv'
<1>1. /\ pc[c] = "persona_revoke" /\ Typed /\ RowsKept /\ Timely' /\ Established(c)
      /\ UNCHANGED <<rows, trail, dropped, req, over, effects>>
  BY SameRows, SameTime DEF FetchTarget, history, DispatcherInv, AuthorityInv, TrailInv
<1>2. req[c].handle \in Rows'
  BY <1>1 DEF Established, HandleAccepted, OwnHandle, rows, Rows, Revoking
<1>3. CASE Failed(c)
  BY <1>1, <1>2, <1>3, Concluded DEF Failed, Finally
<1>4. CASE Goto(c, "update") /\ UNCHANGED entry
  BY <1>1, <1>4, OnTheWay DEF Places
<1>5. QED
  BY <1>3, <1>4 DEF FetchTarget

LEMMA BeginTrail ==
  ASSUME DispatcherInv, TrailInv, NEW c \in Calls, BeginRevoke(c) PROVE TrailInv'
<1>1. /\ pc[c] = "update" /\ Typed /\ RowsKept /\ Timely' /\ Established(c)
      /\ UNCHANGED <<rows, trail, dropped, req, over, effects>>
  BY SameRows, SameTime DEF BeginRevoke, history, DispatcherInv, AuthorityInv, TrailInv
<1>2. req[c].handle \in Rows'
  BY <1>1 DEF Established, HandleAccepted, OwnHandle, rows, Rows, Revoking
<1>3. CASE Failed(c)
  BY <1>1, <1>2, <1>3, Concluded DEF Failed, Finally
<1>4. CASE Goto(c, "commit") /\ UNCHANGED entry
  BY <1>1, <1>4, OnTheWay DEF Places
<1>5. QED
  BY <1>3, <1>4 DEF BeginRevoke

\* Sessions end, and one appears that starts now.
LEMMA StillTimely ==
  ASSUME Timely, Typed, UNCHANGED now,
         \A s \in SessionIds :
           sessions'[s] # NoRow =>
             \/ sessions'[s].started_at = now
             \/ s \in Rows /\ sessions'[s].started_at = sessions[s].started_at
  PROVE  Timely'
BY DEF Timely, Typed, Rows

LEMMA EndTrail ==
  ASSUME DispatcherInv, TrailInv, NEW c \in Calls, EndRevoke(c) PROVE TrailInv'
<1>1. /\ pc[c] = "commit" /\ Typed /\ Established(c)
      /\ UNCHANGED <<now, trail, dropped, req, over>>
      /\ closing[c] \subseteq Rows
  BY DEF EndRevoke, InTransaction, DispatcherInv, AuthorityInv, RevokeInv, Locked
<1>2. RowsKept /\ Timely'
  <2>1. CASE CommitRevoke(c)
    <3>1. RowsKept
      BY <1>1, <2>1, CommitKeeps DEF DispatcherInv
    <3>2. \A s \in SessionIds : s \notin Rows => sessions'[s] = NoRow
      BY <1>1, <2>1 DEF CommitRevoke, Rows
    <3>3. sessions' \in [SessionIds -> Row \cup {NoRow}]
      BY <3>1 DEF RowsKept
    <3>4. QED
      BY <1>1, <3>1, <3>2, <3>3, StillTimely DEF RowsKept, TrailInv
  <2>2. CASE RollbackRevoke(c)
    BY <1>1, <2>2, SameRows, SameTime DEF RollbackRevoke, NoEffect, TrailInv
  <2>3. QED
    BY <2>1, <2>2 DEF EndRevoke
<1>3. req[c].handle \in Rows'
  BY <1>1, <1>2 DEF Established, HandleAccepted, OwnHandle, RowsKept, Revoking
<1>4. CASE CommitRevoke(c) /\ Finally(c, "allowed")
  BY <1>1, <1>2, <1>3, <1>4, Concluded DEF CommitRevoke, Effect, Finally
<1>5. CASE "reply" \in Faults /\ CommitRevoke(c) /\ Failed(c)
  BY <1>1, <1>2, <1>3, <1>5, Concluded DEF CommitRevoke, Effect, Failed, Finally
<1>6. CASE RollbackRevoke(c) /\ Failed(c)
  BY <1>1, <1>2, <1>3, <1>6, Concluded DEF RollbackRevoke, NoEffect, Failed, Finally
<1>7. QED
  BY <1>4, <1>5, <1>6 DEF EndRevoke

LEMMA MintTrail ==
  ASSUME DispatcherInv, TrailInv, NEW c \in Calls, Mint(c) PROVE TrailInv'
<1>1. /\ pc[c] = "mint" /\ Typed /\ Established(c) /\ req[c] \in Requests
      /\ UNCHANGED <<status, now, trail, dropped, req, over>>
  BY DEF Mint, createSession, DispatcherInv, AuthorityInv, Typed
<1>2. ~Governed(c)
  BY <1>1 DEF Established, Governed, SkipSession
<1>3. CASE NoEffect /\ Answer(c)
  BY <1>1, <1>3, SameRows, SameTime, Answered DEF NoEffect, TrailInv
<1>4. ASSUME NEW s \in SessionIds \ Rows, createSession(c, s), Effect(c),
             \/ Audit(c, "session_start", s, "allowed", NoReason)
             \/ "reply" \in Faults /\ Answer(c)
      PROVE  TrailInv'
  <2> DEFINE r == Session(req[c].persona, now, FALSE)
  <2>1. r \in Row /\ r.started_at = now
    BY <1>1, NewSession DEF Requests, Typed, Session
  <2>2. sessions' = [sessions EXCEPT ![s] = r]
    BY <1>4 DEF createSession
  <2> HIDE DEF r
  <2>3. RowsKept
    BY <1>1, <1>4, <2>1, <2>2, OneSessionKeeps DEF DispatcherInv
  <2>4. Timely'
    <3>1. sessions' \in [SessionIds -> Row \cup {NoRow}]
      BY <2>3 DEF RowsKept
    <3>2. \A q \in SessionIds : sessions'[q] # NoRow => sessions'[q].started_at = now \/ q # s
      BY <1>1, <2>1, <2>2 DEF Typed
    <3>3. \A q \in SessionIds \ {s} : sessions'[q] = sessions[q]
      BY <1>1, <2>2 DEF Typed
    <3>4. ASSUME NEW q \in SessionIds, sessions'[q] # NoRow
          PROVE  \/ sessions'[q].started_at = now
                 \/ q \in Rows /\ sessions'[q].started_at = sessions[q].started_at
      BY <3>2, <3>3, <3>4 DEF Rows
    <3>5. Timely /\ UNCHANGED now
      BY <1>1 DEF TrailInv
    <3>6. QED
      BY <1>1, <3>4, <3>5 DEF Timely, Typed, Rows
  <2>5. s \in Rows'
    BY <1>1, <2>1, <2>2, NoRowIsNoSession DEF Typed, Rows
  <2>6. QED
    BY <1>1, <1>2, <1>4, <2>3, <2>4, <2>5, Concluded, Answered DEF Effect
<1>5. QED
  BY <1>3, <1>4 DEF Mint

LEMMA CloseTrail ==
  ASSUME DispatcherInv, TrailInv, NEW c \in Calls, Close(c) PROVE TrailInv'
<1> DEFINE s == req[c].handle
<1>1. /\ pc[c] = "close" /\ Typed /\ OwnHandle(c) /\ s \in Rows /\ ~Governed(c)
      /\ UNCHANGED <<status, now, trail, dropped, req, over>>
  BY DEF Close, DispatcherInv, AuthorityInv, Established, OwnHandle, Governed, SkipSession
<1>2. CASE UNCHANGED <<sessions, effects>> /\ Answer(c)
  BY <1>1, <1>2, SameRows, SameTime, Answered DEF rows, TrailInv
<1>3. CASE /\ sessions' = [sessions EXCEPT ![s].ended = TRUE]
           /\ Effect(c)
           /\ \/ Finally(c, "allowed")
              \/ "reply" \in Faults /\ Answer(c)
  <2> DEFINE r == [sessions[s] EXCEPT !.ended = TRUE]
  <2>1. sessions[s] \in Row /\ s \in SessionIds
    BY <1>1 DEF Typed, Rows
  <2>2. r \in Row /\ r.started_at = sessions[s].started_at
    BY <2>1, EndedSession
  <2>3. sessions' = [sessions EXCEPT ![s] = r]
    BY <1>3
  <2>4. RowsKept
    BY <1>1, <2>1, <2>2, <2>3, OneSessionKeeps DEF DispatcherInv
  <2> HIDE DEF r
  <2>5. Timely'
    BY <1>1, <2>1, <2>2, <2>3, StillTimely DEF Typed, Rows, TrailInv
  <2>6. s \in Rows'
    BY <1>1, <2>4 DEF RowsKept
  <2>7. QED
    BY <1>1, <1>3, <2>4, <2>5, <2>6, Concluded, Answered DEF Effect, Finally
<1>4. QED
  BY Zenon, <1>2, <1>3 DEF Close

\* The row is in the trail, or dropped, and the call is over.
LEMMA RecordTrail ==
  ASSUME DispatcherInv, TrailInv, NEW c \in Calls, WriteAudit(c) PROVE TrailInv'
<1>1. /\ pc[c] = "audit" /\ Typed /\ RowsKept /\ Timely' /\ Sound(c)
      /\ UNCHANGED <<rows, now, entry, req, over, effects>>
      /\ pc'[c] = "done" /\ \A d \in Calls \ {c} : pc'[d] = pc[d]
      /\ trail \subseteq trail' /\ dropped \subseteq dropped'
      /\ trail' \subseteq trail \cup {entry[c]}
      /\ entry[c] \in trail' \/ c \in dropped'
  BY SameRows, SameTime
     DEF WriteAudit, Goto, DispatcherInv, AuthorityInv, Typed, TrailInv, Recorded
<1>2. Sound(c)'
  BY <1>1, SoundKept
<1>3. \A d \in Calls : Recorded(d)'
  BY <1>1, <1>2, RecordedKept DEF TrailInv, Recorded
<1>4. FromCalls'
  BY <1>1 DEF TrailInv, FromCalls, Sound
<1>5. QED
  BY <1>1, <1>3, <1>4 DEF TrailInv

(***************************************************************************)
(* What each call has recorded agrees with what it did, at every moment.   *)
(***************************************************************************)
LEMMA TrailInvariant == Spec => []TrailInv
<1>1. Init => TrailInv
  BY InitTrail
<1>2. DispatcherInv /\ TrailInv /\ [Next]_vars => TrailInv'
  <2> SUFFICES ASSUME DispatcherInv, TrailInv, [Next]_vars PROVE TrailInv'
    OBVIOUS
  <2>1. CASE UNCHANGED vars
    <3>1. RowsKept /\ Timely' /\ Typed
      BY <2>1, SameRows, SameTime DEF vars, rows, DispatcherInv, AuthorityInv, TrailInv
    <3>2. \A d \in Calls : Recorded(d)'
      BY <2>1, <3>1, RecordedKept DEF vars, history, TrailInv
    <3>3. QED
      BY <2>1, <3>1, <3>2 DEF vars, TrailInv, FromCalls
  <2>2. CASE Tick
    <3>1. RowsKept
      BY <2>2 DEF DispatcherInv, AuthorityInv, Typed, Tick, rows, RowsKept, Rows
    <3>2. QED
      BY <2>2, <3>1, TickTrail DEF DispatcherInv, AuthorityInv
  <2>3. ASSUME NEW c \in Calls, Arrive(c) PROVE TrailInv'
    BY <2>3, ArriveTrail DEF DispatcherInv, AuthorityInv
  <2>4. ASSUME NEW c \in Calls, EndRevoke(c) PROVE TrailInv'
    BY <2>4, EndTrail
  <2>5. ASSUME NEW c \in Calls,
               ValidatePersona(c) \/ ValidateHandle(c) \/ Lookup(c) \/ FetchTarget(c)
        PROVE  TrailInv'
    BY <2>5, PersonaTrail, HandleTrail, LookupTrail, FetchTrail
  <2>6. ASSUME NEW c \in Calls, Write(c) \/ BeginRevoke(c) \/ Mint(c) \/ Close(c)
        PROVE  TrailInv'
    BY <2>6, WriteTrail, BeginTrail, MintTrail, CloseTrail
  <2>7. ASSUME NEW c \in Calls, WriteAudit(c) PROVE TrailInv'
    BY <2>7, RecordTrail
  <2>8. QED
    BY <2>1, <2>2, <2>3, <2>4, <2>5, <2>6, <2>7 DEF Next
<1>3. QED
  BY <1>1, <1>2, DispatcherInvariant, PTL DEF Spec

(***************************************************************************)
(* Every finished call is accounted for: an allowed row is a statement     *)
(* that committed, a denied row one that did not, and only a lost reply    *)
(* leaves an effect without an allowed row, whatever fails.                *)
(***************************************************************************)
THEOREM TrailIsComplete == Spec => []Accounted
<1>1. TrailInv => Accounted
  BY DEF TrailInv, Recorded, Unrecorded, Sound, Accounted
<1>2. QED
  BY <1>1, TrailInvariant, PTL

(***************************************************************************)
(* The reason a denied row gives was true when the row was written, and    *)
(* still is: no race of the clock, a close or a revocation makes closure   *)
(* look like expiry, or one persona's session like another's.              *)
(***************************************************************************)
THEOREM ReasonsAreTrue == Spec => []RejectionsTruthful
<1>1. TrailInv => RejectionsTruthful
  BY DEF TrailInv, FromCalls, Recorded, Unrecorded, Sound, Truthful, RejectionsTruthful
<1>2. QED
  BY <1>1, TrailInvariant, PTL

(***************************************************************************)
(* The types, and with them that the session an audit row names exists, so *)
(* that its foreign key never drops it.                                    *)
(***************************************************************************)
THEOREM TypeCorrect == Spec => []TypeOK
<1>1. DispatcherInv /\ TrailInv => TypeOK
  <2> SUFFICES ASSUME DispatcherInv, TrailInv PROVE TypeOK
    OBVIOUS
  <2>1. Typed
    BY DEF DispatcherInv, AuthorityInv
  <2>2. \A c \in Calls : entry[c] = NoRow \/ IsEntry(entry[c])
    BY <2>1 DEF TrailInv, Recorded, Unrecorded, Sound, Typed
  <2>3. trail \subseteq {entry[c] : c \in Calls} \ {NoRow}
    BY DEF TrailInv, FromCalls
  <2>4. ASSUME NEW s \in Rows
        PROVE  sessions[s] \in {Session(p, t, e) : p \in Personas, t \in 0 .. MaxTime, e \in BOOLEAN}
    <3>1. sessions[s] \in Row
      BY <2>1 DEF Typed, Rows
    <3>2. PICK p \in Personas, t \in Nat, e \in BOOLEAN :
            sessions[s] = [persona |-> p, started_at |-> t, ended |-> e]
      BY <3>1 DEF Row
    <3>3. t \in 0 .. MaxTime
      BY <2>1, <3>2, DispatcherAssumption DEF TrailInv, Timely, Typed
    <3>4. QED
      BY <3>2, <3>3 DEF Session
  <2>5. sessions \in [SessionIds -> {NoRow} \cup
          {Session(p, t, e) : p \in Personas, t \in 0 .. MaxTime, e \in BOOLEAN}]
    BY <2>1, <2>4 DEF Typed, Rows
  <2>6. now \in 0 .. MaxTime
    BY <2>1, DispatcherAssumption DEF TrailInv, Timely, Typed
  <2>7. QED
    BY <2>1, <2>2, <2>3, <2>5, <2>6 DEF Typed, TypeOK
<1>2. QED
  BY <1>1, TrailInvariant, DispatcherInvariant, PTL
=============================================================================
