-------------------------- MODULE DelegationProofs --------------------------
(***************************************************************************)
(* Tokens, grants and lineage, for any number of calls, personas,          *)
(* assignments and tokens, and every combination of failures.              *)
(*                                                                         *)
(* TokenInv adds to the properties of tokens what a call between its       *)
(* UPDATE and its INSERT owns; GrantInv adds to GrantedAtStart what a call *)
(* has established where it is, which nothing can undo in the past;        *)
(* LineageInv says how a persona stands to its parent, and what a call has *)
(* read of the parent, from which Ancestry climbs to the root.             *)
(***************************************************************************)
EXTENDS Delegation, FiniteSetTheorems, WellFoundedInduction, TLAPS

PersonaRow ==
  [status : {"active", "revoked"}, scope : Scopes \cup {RootScope},
   limit : Limits \cup {RootLimit}, parent : Ids \cup {NoParent}]

Typed ==
  /\ personas \in [Ids -> PersonaRow \cup {NoRow}]
  /\ DOMAIN grant = Ids
  /\ assignments \in [Assignments -> [token_consumed : BOOLEAN, revoked : BOOLEAN]]
  /\ spender \in [Assignments -> Calls \cup {Nobody}]
  /\ pc \in [Calls -> Places]
  /\ DOMAIN answer = Calls /\ DOMAIN req = Calls
  /\ DOMAIN local = Calls /\ DOMAIN over = Calls
  /\ \A c \in Calls : pc[c] \notin {"idle", "done"} => req[c] \in Requests
  /\ now \in Nat
  /\ \A p \in Ids : grant[p] # NoRow => p \in Known

\* A call that is about to insert owns the assignment it names.
Owns(c) ==
  /\ pc[c] \in {"consume", "insert"} => req[c].token \in Tokens
  /\ pc[c] = "insert" => spender[AssignmentOf[req[c].token]] = c

PaidFor(p) ==
  /\ grant[p].token \in Tokens
  /\ grant[p].call \in Calls
  /\ pc[grant[p].call] = "done"
  /\ spender[Paid(p)] = grant[p].call

Spent(a) ==
  LET c == spender[a] IN
    /\ assignments[a].token_consumed <=> c # Nobody
    /\ c # Nobody => \/ pc[c] = "insert" /\ AssignmentOf[req[c].token] = a
                     \/ pc[c] = "done" /\ answer[c] = "error" /\ Faults # {}
                     \/ /\ pc[c] = "done" /\ answer[c] = "created"
                        /\ \E p \in Created : grant[p].call = c

TokenInv ==
  /\ Typed
  /\ \A c \in Calls : Owns(c)
  /\ \A p \in Created : PaidFor(p)
  /\ \A p, q \in Created : grant[p].call = grant[q].call => p = q
  /\ \A a \in Assignments : Spent(a)

-----------------------------------------------------------------------------
LEMMA NewRow ==
  ASSUME NEW scope \in Scopes \cup {RootScope}, NEW limit \in Limits \cup {RootLimit},
         NEW parent \in Ids \cup {NoParent}
  PROVE  /\ Persona("active", scope, limit, parent) \in PersonaRow
         /\ Persona("active", scope, limit, parent).status = "active"
         /\ Persona("active", scope, limit, parent).scope = scope
         /\ Persona("active", scope, limit, parent).limit = limit
         /\ Persona("active", scope, limit, parent).parent = parent
BY DEF Persona, PersonaRow

LEMMA RevokedRow ==
  ASSUME NEW r \in PersonaRow
  PROVE  /\ [r EXCEPT !.status = "revoked"] \in PersonaRow
         /\ [r EXCEPT !.status = "revoked"].status = "revoked"
         /\ [r EXCEPT !.status = "revoked"].scope = r.scope
         /\ [r EXCEPT !.status = "revoked"].limit = r.limit
         /\ [r EXCEPT !.status = "revoked"].parent = r.parent
BY DEF PersonaRow

LEMMA NoRowIsNoPersona == NoRow \notin PersonaRow
<1>1. \A r \in PersonaRow : "status" \in DOMAIN r
  BY DEF PersonaRow
<1>2. "status" \notin DOMAIN NoRow
  BY DEF NoRow
<1> QED
  BY <1>1, <1>2

(***************************************************************************)
(* What a step of one call leaves alone.                                   *)
(***************************************************************************)
OnlyCall(c) ==
  /\ pc' \in [Calls -> Places]
  /\ DOMAIN answer' = Calls /\ DOMAIN req' = Calls
  /\ DOMAIN local' = Calls /\ DOMAIN over' = Calls
  /\ \A d \in Calls \ {c} :
       /\ pc'[d] = pc[d]
       /\ answer'[d] = answer[d]
       /\ req'[d] = req[d]
       /\ local'[d] = local[d]
       /\ over'[d] = over[d]

LEMMA Answered ==
  ASSUME Typed, NEW c \in Calls, NEW text, Answer(c, text)
  PROVE  OnlyCall(c) /\ pc'[c] = "done" /\ answer'[c] = text
BY DEF Typed, Answer, OnlyCall, Places

LEMMA Moved ==
  ASSUME Typed, NEW c \in Calls, NEW place \in Places, Proceed(c, place)
  PROVE  OnlyCall(c) /\ pc'[c] = place /\ UNCHANGED <<req, local, over, answer>>
BY DEF Typed, Proceed, Goto, frames, OnlyCall

\* The first step of a call, which fills its frame, and the reads, which add to it.
LEMMA MovedOn ==
  ASSUME Typed, NEW c \in Calls, NEW place \in Places, Goto(c, place),
         NEW r, NEW l, NEW o,
         \/ req' = req
         \/ req' = [req EXCEPT ![c] = r],
         \/ local' = local
         \/ local' = [local EXCEPT ![c] = l]
         \/ local' = [local EXCEPT ![c].depth = l],
         \/ over' = over
         \/ over' = [over EXCEPT ![c] = o]
  PROVE  OnlyCall(c) /\ pc'[c] = place /\ answer' = answer
BY DEF Typed, Goto, OnlyCall

\* A step that spends nothing and grants nothing, of a call that owns nothing.
LEMMA TokensKept ==
  ASSUME TokenInv, NEW c \in Calls, OnlyCall(c),
         pc[c] \notin {"insert", "done"}, pc'[c] # "insert",
         pc'[c] \notin {"idle", "done"} => req'[c] \in Requests,
         pc'[c] = "consume" => req'[c].token \in Tokens,
         UNCHANGED <<tables, now, history>>
  PROVE  TokenInv'
<1>1. Typed'
  BY DEF TokenInv, Typed, OnlyCall, tables, history, Known
<1>2. Created' = Created
  BY DEF Created, Known, tables, history
<1>3. ASSUME NEW d \in Calls PROVE Owns(d)'
  BY DEF TokenInv, Owns, OnlyCall, tables, history
<1>4. ASSUME NEW p \in Created PROVE PaidFor(p)'
  BY DEF TokenInv, PaidFor, Paid, OnlyCall, tables, history
<1>5. ASSUME NEW a \in Assignments PROVE Spent(a)'
  <2>1. Spent(a) /\ spender'[a] = spender[a] /\ assignments' = assignments /\ grant' = grant
    BY DEF TokenInv, tables, history
  <2>2. CASE spender[a] = Nobody
    BY <2>1, <2>2 DEF Spent
  <2>3. CASE spender[a] # Nobody
    <3>1. spender[a] \in Calls \ {c}
      BY <2>1, <2>3 DEF Spent, TokenInv, Typed
    <3> QED
      BY <1>2, <2>1, <2>3, <3>1 DEF Spent, OnlyCall
  <2> QED
    BY <2>2, <2>3
<1>6. \A p, q \in Created : grant'[p].call = grant'[q].call => p = q
  BY DEF TokenInv, history
<1> QED
  BY <1>1, <1>2, <1>3, <1>4, <1>5, <1>6 DEF TokenInv

\* A step of nobody's call.
LEMMA TokensKeptOutside ==
  ASSUME TokenInv, UNCHANGED <<pc, frames, answer, history>>, Typed', Known' = Known,
         \A a \in Assignments : assignments'[a].token_consumed = assignments[a].token_consumed
  PROVE  TokenInv'
BY DEF TokenInv, Owns, PaidFor, Paid, Spent, Created, frames, history

LEMMA InitTokens == Init => TokenInv
<1> SUFFICES ASSUME Init PROVE TokenInv
  OBVIOUS
<1>1. Created = {}
  BY DEF Init, Created, Known
<1>2. Typed
  <2>1. personas \in [Ids -> PersonaRow \cup {NoRow}]
    BY NewRow DEF Init
  <2> QED
    BY <2>1 DEF Init, Typed, Places
<1> QED
  BY <1>1, <1>2 DEF Init, TokenInv, Owns, Spent

-----------------------------------------------------------------------------
(***************************************************************************)
(* The actions.                                                            *)
(***************************************************************************)
LEMMA ArriveTokens == ASSUME TokenInv, NEW c \in Calls, Arrive(c) PROVE TokenInv'
<1>1. pc[c] = "idle" /\ UNCHANGED <<tables, now, history>>
  BY DEF Arrive
<1>2. CASE Refuse(c)
  BY <1>1, <1>2, Answered, TokensKept DEF Refuse, TokenInv
<1>3. ASSUME NEW r \in Requests, req' = [req EXCEPT ![c] = r],
             over' = [over EXCEPT ![c] = OverNow], UNCHANGED local,
             NEW place \in {"token", "parent"}, Goto(c, place)
      PROVE  TokenInv'
  <2>1. OnlyCall(c) /\ pc'[c] = place
    BY <1>3, MovedOn DEF TokenInv, Places
  <2>2. req'[c] \in Requests
    BY <1>3 DEF TokenInv, Typed
  <2> QED
    BY <1>1, <2>1, <2>2, TokensKept
<1> QED
  BY <1>2, <1>3 DEF Arrive

LEMMA ParentTokens == ASSUME TokenInv, NEW c \in Calls, FetchParent(c) PROVE TokenInv'
<1>1. pc[c] = "parent" /\ UNCHANGED <<tables, now, history>>
  BY DEF FetchParent
<1>2. ASSUME NEW text, Answer(c, text) PROVE TokenInv'
  BY <1>1, <1>2, Answered, TokensKept DEF TokenInv
<1>3. ASSUME NEW l, local' = [local EXCEPT ![c] = l], Goto(c, "depth"), UNCHANGED <<req, over>>
      PROVE  TokenInv'
  <2>1. OnlyCall(c) /\ pc'[c] = "depth"
    BY <1>3, MovedOn DEF TokenInv, Places
  <2>2. req'[c] \in Requests
    BY <1>1, <1>3 DEF TokenInv, Typed
  <2> QED
    BY <1>1, <2>1, <2>2, TokensKept
<1> QED
  BY <1>2, <1>3 DEF FetchParent, Refuse, QueryFails, Error

LEMMA DepthTokens == ASSUME TokenInv, NEW c \in Calls, FetchDepth(c) PROVE TokenInv'
<1>1. pc[c] = "depth" /\ UNCHANGED <<tables, now, history>>
  BY DEF FetchDepth
<1>2. ASSUME NEW text, Answer(c, text) PROVE TokenInv'
  BY <1>1, <1>2, Answered, TokensKept DEF TokenInv
<1>3. ASSUME NEW l, local' = [local EXCEPT ![c].depth = l], Goto(c, "token"),
             UNCHANGED <<req, over>>
      PROVE  TokenInv'
  <2>1. OnlyCall(c) /\ pc'[c] = "token"
    BY <1>3, MovedOn DEF TokenInv, Places
  <2>2. req'[c] \in Requests
    BY <1>1, <1>3 DEF TokenInv, Typed
  <2> QED
    BY <1>1, <2>1, <2>2, TokensKept
<1> QED
  BY <1>2, <1>3 DEF FetchDepth, Refuse, QueryFails, Error

LEMMA LookupTokens == ASSUME TokenInv, NEW c \in Calls, LookupAssignment(c) PROVE TokenInv'
<1>1. pc[c] = "token" /\ UNCHANGED <<tables, now, history>>
  BY DEF LookupAssignment
<1>2. ASSUME NEW text, Answer(c, text) PROVE TokenInv'
  BY <1>1, <1>2, Answered, TokensKept DEF TokenInv
<1>3. CASE Fresh(req[c].token) /\ Proceed(c, "consume")
  <2>1. OnlyCall(c) /\ pc'[c] = "consume" /\ req' = req
    BY <1>3, Moved DEF TokenInv, Places
  <2>2. req'[c] \in Requests
    BY <1>1, <2>1 DEF TokenInv, Typed
  <2>3. req'[c].token \in Tokens
    BY <1>3, <2>1, <2>2 DEF Requests, Fresh
  <2> QED
    BY <1>1, <2>1, <2>2, <2>3, TokensKept
<1> QED
  BY <1>2, <1>3 DEF LookupAssignment, Refuse, QueryFails, Error

(***************************************************************************)
(* The UPDATE succeeds: nobody had consumed the assignment, so no call     *)
(* owns it and no persona was paid for with it.                            *)
(***************************************************************************)
LEMMA SpendTokens ==
  ASSUME TokenInv, NEW c \in Calls, pc[c] = "consume", req[c].token \in Tokens,
         Unconsumed(AssignmentOf[req[c].token]), Spend(c, AssignmentOf[req[c].token]),
         OnlyCall(c), UNCHANGED <<personas, chain, now, grant>>,
         \/ pc'[c] = "insert" /\ req' = req
         \/ pc'[c] = "done" /\ answer'[c] = "error" /\ Faults # {}
  PROVE  TokenInv'
<1> DEFINE a == AssignmentOf[req[c].token]
<1>1. a \in Assignments /\ spender[a] = Nobody
  BY DelegationAssumption DEF TokenInv, Spent, Unconsumed
<1>2. spender' = [spender EXCEPT ![a] = c] /\ spender'[a] = c
  BY <1>1 DEF Spend, TokenInv, Typed
<1>3. assignments' = [assignments EXCEPT ![a].token_consumed = TRUE]
  BY DEF Spend
<1>4. Typed'
  <2>1. assignments' \in [Assignments -> [token_consumed : BOOLEAN, revoked : BOOLEAN]]
    BY <1>1, <1>3 DEF TokenInv, Typed
  <2>2. spender' \in [Assignments -> Calls \cup {Nobody}]
    BY <1>2 DEF TokenInv, Typed
  <2>3. \A d \in Calls : pc'[d] \notin {"idle", "done"} => req'[d] \in Requests
    BY DEF TokenInv, Typed, OnlyCall
  <2> QED
    BY <2>1, <2>2, <2>3 DEF TokenInv, Typed, OnlyCall, Known
<1>5. Created' = Created
  BY DEF Created, Known
<1>6. ASSUME NEW d \in Calls PROVE Owns(d)'
  <2>1. CASE d = c
    BY <1>2, <2>1 DEF Owns
  <2>2. CASE d # c
    BY <1>1, <1>2, <2>2, NamesAssumption DEF TokenInv, Typed, Owns, OnlyCall
  <2> QED
    BY <2>1, <2>2
<1>7. ASSUME NEW p \in Created PROVE PaidFor(p)'
  BY <1>1, <1>2, NamesAssumption DEF TokenInv, Typed, PaidFor, Paid, OnlyCall
<1>8. ASSUME NEW b \in Assignments PROVE Spent(b)'
  <2>1. CASE b = a
    <3>1. assignments'[b].token_consumed
      BY <1>1, <1>3, <2>1 DEF TokenInv, Typed
    <3>2. spender'[b] = c /\ c # Nobody
      BY <1>2, <2>1, NamesAssumption
    <3> QED
      BY <2>1, <3>1, <3>2 DEF Spent
  <2>2. CASE b # a
    <3>1. assignments'[b] = assignments[b] /\ spender'[b] = spender[b] /\ Spent(b)
      BY <1>2, <1>3, <2>2 DEF TokenInv, Typed
    <3>2. CASE spender[b] = Nobody
      BY <3>1, <3>2 DEF Spent
    <3>3. CASE spender[b] # Nobody
      <4>1. spender[b] \in Calls \ {c}
        BY <3>1, <3>3 DEF Spent, TokenInv, Typed
      <4> QED
        BY <1>5, <3>1, <3>3, <4>1 DEF Spent, OnlyCall
    <3> QED
      BY <3>2, <3>3
  <2> QED
    BY <2>1, <2>2
<1> QED
  BY <1>4, <1>5, <1>6, <1>7, <1>8 DEF TokenInv

LEMMA ConsumeTokens == ASSUME TokenInv, NEW c \in Calls, ConsumeToken(c) PROVE TokenInv'
<1>1. pc[c] = "consume" /\ UNCHANGED <<personas, chain, now, grant>>
  BY DEF ConsumeToken
<1>2. req[c].token \in Tokens
  BY <1>1 DEF TokenInv, Owns
<1>3. ASSUME NEW text, Answer(c, text), UNCHANGED <<assignments, spender>> PROVE TokenInv'
  <2>1. OnlyCall(c) /\ pc'[c] = "done" /\ UNCHANGED <<tables, now, history>>
    BY <1>1, <1>3, Answered DEF TokenInv, tables, history
  <2> QED
    BY <1>1, <2>1, TokensKept
<1>4. CASE /\ Unconsumed(AssignmentOf[req[c].token])
           /\ Spend(c, AssignmentOf[req[c].token])
           /\ Proceed(c, "insert")
  <2>1. OnlyCall(c) /\ pc'[c] = "insert" /\ req' = req
    BY <1>4, Moved DEF TokenInv, Places
  <2> QED
    BY <1>1, <1>2, <1>4, <2>1, SpendTokens
<1>5. CASE /\ Unconsumed(AssignmentOf[req[c].token])
           /\ Spend(c, AssignmentOf[req[c].token])
           /\ "reply" \in Faults
           /\ Error(c)
  <2>1. OnlyCall(c) /\ pc'[c] = "done" /\ answer'[c] = "error"
    BY <1>5, Answered DEF TokenInv, Error
  <2>2. Faults # {}
    BY <1>5
  <2> QED
    BY <1>1, <1>2, <1>5, <2>1, <2>2, SpendTokens
<1> QED
  BY <1>3, <1>4, <1>5 DEF ConsumeToken, Refuse, QueryFails, Error

(***************************************************************************)
(* The INSERT: the call owned its assignment, and nothing had been paid    *)
(* for with it.                                                            *)
(***************************************************************************)
LEMMA InsertTokens == ASSUME TokenInv, NEW c \in Calls, InsertPersona(c) PROVE TokenInv'
<1>1. pc[c] = "insert" /\ UNCHANGED <<assignments, now, spender>>
  BY DEF InsertPersona
<1> DEFINE a == AssignmentOf[req[c].token]
<1>2. req[c].token \in Tokens /\ spender[a] = c /\ a \in Assignments
  BY <1>1, DelegationAssumption DEF TokenInv, Owns
<1>3. PICK text : Answer(c, text) /\ (text = "created" \/ (text = "error" /\ Faults # {}))
  BY DEF InsertPersona, QueryFails, Error
<1>4. OnlyCall(c) /\ pc'[c] = "done" /\ answer'[c] = text
  BY <1>3, Answered DEF TokenInv
<1>5. \A d \in Calls : Owns(d)'
  BY <1>1, <1>4 DEF TokenInv, Owns, OnlyCall
<1>6. \A p \in Created : grant[p].call # c
  BY <1>1 DEF TokenInv, PaidFor
<1>7. \A b \in Assignments : spender[b] = c => b = a
  BY <1>1, NamesAssumption DEF TokenInv, Spent
<1>8. CASE UNCHANGED <<personas, chain, grant>> /\ text = "error"
  <2>1. Created' = Created /\ Typed'
    BY <1>1, <1>4, <1>8 DEF TokenInv, Typed, Created, Known, OnlyCall
  <2>2. \A p \in Created : PaidFor(p)'
    BY <1>1, <1>4, <1>6, <1>8 DEF TokenInv, PaidFor, Paid, OnlyCall
  <2>3. ASSUME NEW b \in Assignments PROVE Spent(b)'
    <3>1. Spent(b)
      BY DEF TokenInv
    <3>2. CASE spender[b] = c
      BY <1>1, <1>3, <1>4, <1>8, <3>1, <3>2 DEF Spent
    <3>3. CASE spender[b] = Nobody
      BY <1>1, <3>1, <3>3 DEF Spent
    <3>4. CASE spender[b] \notin {c, Nobody}
      <4>1. spender[b] \in Calls \ {c}
        BY <3>4 DEF TokenInv, Typed
      <4> QED
        BY <1>1, <1>4, <1>8, <2>1, <3>1, <4>1 DEF Spent, OnlyCall
    <3> QED
      BY <3>2, <3>3, <3>4
  <2> QED
    BY <1>5, <1>8, <2>1, <2>2, <2>3 DEF TokenInv
<1>9. CASE \E p \in Ids \ Known :
             /\ personas' = [personas EXCEPT ![p] =
                               Persona("active", req[c].scope, req[c].limit, req[c].parent)]
             /\ grant' = [grant EXCEPT ![p] =
                            [call |-> c, issuer |-> req[c].issuer, token |-> req[c].token,
                             over |-> over[c]]]
  <2>1. PICK p \in Ids \ Known :
             /\ personas' = [personas EXCEPT ![p] =
                               Persona("active", req[c].scope, req[c].limit, req[c].parent)]
             /\ grant' = [grant EXCEPT ![p] =
                            [call |-> c, issuer |-> req[c].issuer, token |-> req[c].token,
                             over |-> over[c]]]
    BY <1>9
  <2>2. personas'[p] # NoRow /\ grant'[p] # NoRow
    <3>1. req[c] \in Requests
      BY <1>1 DEF TokenInv, Typed
    <3>2. personas'[p] \in PersonaRow
      BY <2>1, <3>1, NewRow DEF TokenInv, Typed, Requests
    <3>3. "call" \in DOMAIN grant'[p]
      BY <2>1 DEF TokenInv, Typed
    <3>4. "call" \notin DOMAIN NoRow
      BY DEF NoRow
    <3> QED
      BY <3>2, <3>3, <3>4, NoRowIsNoPersona
  <2>3. \A q \in Ids \ {p} : personas'[q] = personas[q] /\ grant'[q] = grant[q]
    BY <2>1 DEF TokenInv, Typed
  <2>4. Known' = Known \cup {p} /\ Created' = Created \cup {p} /\ p \notin Created
    BY <2>1, <2>2, <2>3 DEF Known, Created
  <2>5. grant'[p].call = c /\ grant'[p].token = req[c].token
    BY <2>1 DEF TokenInv, Typed
  <2>6. Typed'
    <3>1. \A q \in Ids : grant'[q] # NoRow => q \in Known'
      BY <2>3, <2>4 DEF TokenInv, Typed
    <3>3. personas' \in [Ids -> PersonaRow \cup {NoRow}]
      <4>1. req[c] \in Requests
        BY <1>1 DEF TokenInv, Typed
      <4> QED
        BY <2>1, <4>1, NewRow DEF TokenInv, Typed, Requests
    <3>2. \A d \in Calls : pc'[d] \notin {"idle", "done"} => req'[d] \in Requests
      BY <1>4 DEF TokenInv, Typed, OnlyCall
    <3> QED
      BY <1>1, <1>4, <2>1, <3>1, <3>2, <3>3 DEF TokenInv, Typed, OnlyCall
  <2>7. PaidFor(p)'
    BY <1>1, <1>2, <1>4, <2>5 DEF PaidFor, Paid
  <2>8. \A q \in Created : q \in Ids \ {p} /\ grant'[q] = grant[q]
    BY <2>3, <2>4 DEF Created, Known
  <2>9. ASSUME NEW q \in Created PROVE PaidFor(q)'
    BY <1>1, <1>4, <1>6, <2>8 DEF TokenInv, PaidFor, Paid, OnlyCall
  <2>10. \A q, r \in Created' : grant'[q].call = grant'[r].call => q = r
    BY <1>6, <2>4, <2>5, <2>8 DEF TokenInv
  <2>11. ASSUME NEW b \in Assignments PROVE Spent(b)'
    <3>1. Spent(b)
      BY DEF TokenInv
    <3>2. CASE spender[b] = c
      BY <1>1, <1>3, <1>4, <2>4, <2>5, <3>1, <3>2 DEF Spent
    <3>3. CASE spender[b] = Nobody
      BY <1>1, <3>1, <3>3 DEF Spent
    <3>4. CASE spender[b] \notin {c, Nobody}
      <4>1. spender[b] \in Calls \ {c}
        BY <3>4 DEF TokenInv, Typed
      <4>2. \A d \in Calls : (\E q \in Created : grant[q].call = d)
                               => \E q \in Created' : grant'[q].call = d
        BY <2>4, <2>8
      <4> QED
        BY <1>1, <1>4, <3>1, <4>1, <4>2 DEF Spent, OnlyCall
    <3> QED
      BY <3>2, <3>3, <3>4
  <2> QED
    BY <1>5, <2>4, <2>6, <2>7, <2>9, <2>10, <2>11 DEF TokenInv
<1> QED
  <2>1. CASE QueryFails(c) /\ UNCHANGED <<personas, chain, grant>>
    <3>1. text = "error"
      BY <1>3, <1>4, <2>1, Answered DEF QueryFails, Error, TokenInv
    <3> QED
      BY <1>8, <2>1, <3>1
  <2> QED
    BY <1>9, <2>1 DEF InsertPersona

\* A revocation changes the status of one row, and no other column.
LEMMA RevokeChanges ==
  ASSUME Typed, NEW p \in Ids, Revoke(p)
  PROVE  /\ personas' \in [Ids -> PersonaRow \cup {NoRow}]
         /\ Known' = Known
         /\ \A q \in Known : /\ personas'[q].scope = personas[q].scope
                             /\ personas'[q].limit = personas[q].limit
                             /\ personas'[q].parent = personas[q].parent
                             /\ q \notin Active => q \notin Active'
<1>1. p \in Known /\ personas[p] \in PersonaRow
  BY DEF Revoke, Active, Known, Typed
<1>2. personas' = [personas EXCEPT ![p] = [personas[p] EXCEPT !.status = "revoked"]]
  BY DEF Revoke
<1>3. personas'[p] = [personas[p] EXCEPT !.status = "revoked"]
  BY <1>2 DEF Typed
<1>4. \A q \in Ids \ {p} : personas'[q] = personas[q]
  BY <1>2 DEF Typed
<1>5. personas' \in [Ids -> PersonaRow \cup {NoRow}]
  BY <1>1, <1>2, RevokedRow DEF Typed
<1>6. Known' = Known
  BY <1>1, <1>3, <1>4, RevokedRow, NoRowIsNoPersona DEF Known
<1>7. ASSUME NEW q \in Known
      PROVE  /\ personas'[q].scope = personas[q].scope
             /\ personas'[q].limit = personas[q].limit
             /\ personas'[q].parent = personas[q].parent
             /\ q \notin Active => q \notin Active'
  <2>1. CASE q = p
    BY <1>1, <1>3, <2>1, RevokedRow DEF Active, Known
  <2>2. CASE q # p
    BY <1>4, <2>2 DEF Active, Known
  <2> QED
    BY <2>1, <2>2
<1> QED
  BY <1>5, <1>6, <1>7

LEMMA RevokedAssignment ==
  ASSUME NEW r \in [token_consumed : BOOLEAN, revoked : BOOLEAN]
  PROVE  /\ [r EXCEPT !.revoked = TRUE] \in [token_consumed : BOOLEAN, revoked : BOOLEAN]
         /\ [r EXCEPT !.revoked = TRUE].token_consumed = r.token_consumed
         /\ [r EXCEPT !.revoked = TRUE].revoked
OBVIOUS

LEMMA OutsideTokens ==
  ASSUME TokenInv,
         \/ UNCHANGED vars
         \/ Tick
         \/ \E p \in Ids : Revoke(p)
         \/ \E a \in Assignments : RevokeAssignment(a)
  PROVE  TokenInv'
<1>1. CASE UNCHANGED vars
  BY <1>1, TokensKeptOutside DEF vars, TokenInv, Typed, Known, frames, history
<1>2. CASE Tick
  <2>1. Known' = Known /\ Typed'
    BY <1>2 DEF Tick, TokenInv, Typed, Known, tables, frames, history
  <2> QED
    BY <1>2, <2>1, TokensKeptOutside DEF Tick, tables
<1>3. ASSUME NEW p \in Ids, Revoke(p) PROVE TokenInv'
  <2>1. Known' = Known /\ personas' \in [Ids -> PersonaRow \cup {NoRow}]
    BY <1>3, RevokeChanges DEF TokenInv
  <2>2. Typed'
    BY <1>3, <2>1 DEF Revoke, TokenInv, Typed, frames, history
  <2> QED
    BY <1>3, <2>1, <2>2, TokensKeptOutside DEF Revoke
<1>4. ASSUME NEW a \in Assignments, RevokeAssignment(a) PROVE TokenInv'
  <2>1. assignments' = [assignments EXCEPT ![a] = [assignments[a] EXCEPT !.revoked = TRUE]]
    BY <1>4 DEF RevokeAssignment
  <2>2. \A b \in Assignments :
          /\ assignments'[b] \in [token_consumed : BOOLEAN, revoked : BOOLEAN]
          /\ assignments'[b].token_consumed = assignments[b].token_consumed
    <3>1. \A b \in Assignments \ {a} : assignments'[b] = assignments[b]
      BY <2>1 DEF TokenInv, Typed
    <3>2. assignments'[a] = [assignments[a] EXCEPT !.revoked = TRUE]
      BY <2>1 DEF TokenInv, Typed
    <3>3. \A b \in Assignments : assignments[b] \in [token_consumed : BOOLEAN, revoked : BOOLEAN]
      BY DEF TokenInv, Typed
    <3> QED
      BY <3>1, <3>2, <3>3, RevokedAssignment
  <2>3. Known' = Known /\ Typed'
    BY <1>4, <2>1, <2>2 DEF RevokeAssignment, TokenInv, Typed, Known, frames, history
  <2> QED
    BY <1>4, <2>2, <2>3, TokensKeptOutside DEF RevokeAssignment
<1> QED
  BY <1>1, <1>2, <1>3, <1>4

LEMMA TokenInvariant == Spec => []TokenInv
<1>1. TokenInv /\ [Next]_vars => TokenInv'
  BY ArriveTokens, ParentTokens, DepthTokens, LookupTokens, ConsumeTokens, InsertTokens,
     OutsideTokens DEF Next
<1> QED
  BY <1>1, InitTokens, PTL DEF Spec

(***************************************************************************)
(* Single use: no two personas are created under one assignment, however   *)
(* many tokens name it and however many calls present them concurrently.   *)
(***************************************************************************)
THEOREM TokensAreSingleUse == Spec => []TokenUsedOnce
<1>1. TokenInv => TokenUsedOnce
  BY DEF TokenInv, TokenUsedOnce, PaidFor
<1> QED
  BY <1>1, TokenInvariant, PTL

(***************************************************************************)
(* Every persona was paid for by the call that created it, and a token     *)
(* consumed without a persona is an internal error, never a refusal.       *)
(***************************************************************************)
THEOREM NoTokenIsLostByRefusal == Spec => []TokensAccounted
<1>1. TokenInv => TokensAccounted
  BY DEF TokenInv, TokensAccounted, PaidFor, Spent
<1> QED
  BY <1>1, TokenInvariant, PTL

-----------------------------------------------------------------------------
(***************************************************************************)
(* Grants.  What was over when a call arrived is over still, so a check    *)
(* that passes now would have passed then.                                 *)
(***************************************************************************)
Past(c) ==
  /\ over[c].personas \subseteq Known \ Active
  /\ \A a \in over[c].assignments : a \in Assignments /\ assignments[a].revoked
  /\ over[c].time \in Nat /\ over[c].time <= now

Held(c) ==
  /\ req[c].issuer \in Known \ over[c].personas
  /\ Manages(req[c].issuer)
  /\ pc[c] \in {"depth", "token", "consume", "insert"} => req[c].parent \notin over[c].personas
  /\ pc[c] \in {"consume", "insert"} =>
       /\ AssignmentOf[req[c].token] \notin over[c].assignments
       /\ over[c].time <= IssuedAt[req[c].token] + TokenAge

Granted(p) ==
  LET g == grant[p] IN
    /\ g.issuer \in Known
    /\ Manages(g.issuer)
    /\ {g.issuer, personas[p].parent} \cap g.over.personas = {}
    /\ Paid(p) \notin g.over.assignments
    /\ g.over.time <= IssuedAt[g.token] + TokenAge

InProgress(c) == pc[c] \notin {"idle", "done"}

GrantInv ==
  /\ \A c \in Calls : InProgress(c) => Past(c) /\ Held(c)
  /\ \A p \in Created : Granted(p)

DelegationInv == TokenInv /\ GrantInv

\* What no step undoes.
TablesKept ==
  /\ now' \in Nat /\ now <= now'
  /\ \A p \in Known :
       /\ p \in Known'
       /\ personas'[p].scope = personas[p].scope
       /\ personas'[p].parent = personas[p].parent
       /\ p \notin Active => p \notin Active'
  /\ \A a \in Assignments : assignments[a].revoked => assignments'[a].revoked

LEMMA SameTables ==
  ASSUME Typed, UNCHANGED <<personas, assignments, now>>
  PROVE  TablesKept
BY DEF Typed, TablesKept, Known, Active

LEMMA PastStays ==
  ASSUME Typed, TablesKept, NEW c \in Calls, over'[c] = over[c], Past(c)
  PROVE  Past(c)'
BY DEF Typed, TablesKept, Past

LEMMA HeldStays ==
  ASSUME TablesKept, NEW c \in Calls, Held(c),
         req'[c] = req[c], over'[c] = over[c], pc'[c] = pc[c]
  PROVE  Held(c)'
BY DEF TablesKept, Held, Manages

LEMMA GrantedStays ==
  ASSUME TablesKept, NEW p \in Known, Granted(p), grant'[p] = grant[p]
  PROVE  Granted(p)'
BY DEF TablesKept, Granted, Paid, Manages

\* A step of one call that grants nothing.
LEMMA GrantsKept ==
  ASSUME DelegationInv, TablesKept, NEW c \in Calls, OnlyCall(c), grant' = grant,
         Created' = Created,
         pc'[c] \in {"idle", "done"} \/ (Past(c)' /\ Held(c)')
  PROVE  GrantInv'
<1>1. ASSUME NEW d \in Calls, InProgress(d)' PROVE Past(d)' /\ Held(d)'
  <2>1. CASE d = c
    BY <1>1, <2>1 DEF InProgress
  <2>2. CASE d # c
    <3>1. /\ pc'[d] = pc[d] /\ req'[d] = req[d] /\ over'[d] = over[d]
          /\ Past(d) /\ Held(d)
      BY <1>1, <2>2 DEF InProgress, OnlyCall, DelegationInv, GrantInv
    <3> QED
      BY <3>1, PastStays, HeldStays DEF DelegationInv, TokenInv
  <2> QED
    BY <2>1, <2>2
<1>2. ASSUME NEW p \in Created PROVE Granted(p)'
  BY GrantedStays DEF Created, DelegationInv, GrantInv
<1> QED
  BY <1>1, <1>2 DEF GrantInv

\* A call that answers, or passes a check, with the tables as they were.
LEMMA GrantsRead ==
  ASSUME DelegationInv, NEW c \in Calls, OnlyCall(c),
         UNCHANGED <<personas, assignments, now, grant>>,
         pc'[c] \in {"idle", "done"} \/ (Past(c)' /\ Held(c)')
  PROVE  GrantInv'
<1>1. TablesKept /\ Created' = Created
  BY SameTables DEF DelegationInv, TokenInv, Created, Known
<1> QED
  BY <1>1, GrantsKept

LEMMA InitGrants == Init => GrantInv
BY DEF Init, GrantInv, InProgress, Created, Known

LEMMA ArriveGrants == ASSUME DelegationInv, NEW c \in Calls, Arrive(c) PROVE GrantInv'
<1>1. UNCHANGED <<personas, assignments, now, grant>>
  BY DEF Arrive, tables, history
<1>2. CASE Refuse(c)
  BY <1>1, <1>2, Answered, GrantsRead DEF Refuse, DelegationInv, TokenInv
<1>3. ASSUME NEW r \in Requests, r.issuer \in Active, Manages(r.issuer),
             req' = [req EXCEPT ![c] = r], over' = [over EXCEPT ![c] = OverNow],
             Goto(c, IF r.parent = NoParent THEN "token" ELSE "parent"), UNCHANGED local
      PROVE  GrantInv'
  <2> DEFINE place == IF r.parent = NoParent THEN "token" ELSE "parent"
  <2>1. place \in Places
    BY DEF Places
  <2>2. OnlyCall(c) /\ pc'[c] = place
    BY <1>3, <2>1, MovedOn DEF DelegationInv, TokenInv
  <2>3. req'[c] = r /\ over'[c] = OverNow
    BY <1>3 DEF DelegationInv, TokenInv, Typed
  <2>4. /\ OverNow.personas = Known \ Active
        /\ OverNow.assignments = {a \in Assignments : assignments[a].revoked}
        /\ OverNow.time = now
    BY DEF OverNow
  <2>5. Known' = Known /\ Active' = Active
    BY <1>1 DEF Known, Active
  <2>6. Past(c)'
    BY <1>1, <2>3, <2>4, <2>5 DEF Past, DelegationInv, TokenInv, Typed
  <2>7. pc'[c] = "token" => r.parent \notin OverNow.personas
    BY <2>2, <2>4, NamesAssumption DEF Known
  <2>8. Held(c)'
    BY <1>1, <1>3, <2>2, <2>3, <2>4, <2>5, <2>7 DEF Held, Manages, Active
  <2> QED
    BY <1>1, <2>2, <2>6, <2>8, GrantsRead
<1> QED
  BY <1>2, <1>3 DEF Arrive

LEMMA ParentGrants == ASSUME DelegationInv, NEW c \in Calls, FetchParent(c) PROVE GrantInv'
<1>1. pc[c] = "parent" /\ UNCHANGED <<personas, assignments, now, grant>>
  BY DEF FetchParent, tables, history
<1>2. Past(c) /\ Held(c)
  BY <1>1 DEF DelegationInv, GrantInv, InProgress
<1>3. ASSUME NEW text, Answer(c, text) PROVE GrantInv'
  BY <1>1, <1>3, Answered, GrantsRead DEF DelegationInv, TokenInv
<1>4. ASSUME NEW l, local' = [local EXCEPT ![c] = l], Goto(c, "depth"), UNCHANGED <<req, over>>,
             ParentFound(req[c].parent)
      PROVE  GrantInv'
  <2>1. OnlyCall(c) /\ pc'[c] = "depth"
    BY <1>4, MovedOn DEF DelegationInv, TokenInv, Places
  <2>2. Past(c)'
    BY <1>1, <1>2, <1>4, SameTables, PastStays DEF DelegationInv, TokenInv
  <2>3. req[c].parent \notin over[c].personas
    BY <1>2, <1>4 DEF Past, ParentFound
  <2>4. Held(c)'
    BY <1>1, <1>2, <1>4, <2>1, <2>3 DEF Held, Manages, Known
  <2> QED
    BY <1>1, <2>1, <2>2, <2>4, GrantsRead
<1> QED
  BY <1>3, <1>4 DEF FetchParent, Refuse, QueryFails, Error

LEMMA DepthGrants == ASSUME DelegationInv, NEW c \in Calls, FetchDepth(c) PROVE GrantInv'
<1>1. pc[c] = "depth" /\ UNCHANGED <<personas, assignments, now, grant>>
  BY DEF FetchDepth, tables, history
<1>2. Past(c) /\ Held(c)
  BY <1>1 DEF DelegationInv, GrantInv, InProgress
<1>3. ASSUME NEW text, Answer(c, text) PROVE GrantInv'
  BY <1>1, <1>3, Answered, GrantsRead DEF DelegationInv, TokenInv
<1>4. ASSUME NEW l, local' = [local EXCEPT ![c].depth = l], Goto(c, "token"),
             UNCHANGED <<req, over>>
      PROVE  GrantInv'
  <2>1. OnlyCall(c) /\ pc'[c] = "token"
    BY <1>4, MovedOn DEF DelegationInv, TokenInv, Places
  <2>2. Past(c)'
    BY <1>1, <1>2, <1>4, SameTables, PastStays DEF DelegationInv, TokenInv
  <2>3. Held(c)'
    BY <1>1, <1>2, <1>4, <2>1 DEF Held, Manages, Known
  <2> QED
    BY <1>1, <2>1, <2>2, <2>3, GrantsRead
<1> QED
  BY <1>3, <1>4 DEF FetchDepth, Refuse, QueryFails, Error

LEMMA LookupGrants == ASSUME DelegationInv, NEW c \in Calls, LookupAssignment(c) PROVE GrantInv'
<1>1. pc[c] = "token" /\ UNCHANGED <<personas, assignments, now, grant>>
  BY DEF LookupAssignment, tables, history
<1>2. Past(c) /\ Held(c) /\ req[c] \in Requests
  BY <1>1 DEF DelegationInv, GrantInv, InProgress, TokenInv, Typed
<1>3. ASSUME NEW text, Answer(c, text) PROVE GrantInv'
  BY <1>1, <1>3, Answered, GrantsRead DEF DelegationInv, TokenInv
<1>4. CASE /\ Fresh(req[c].token)
           /\ Open(AssignmentOf[req[c].token])
           /\ Proceed(c, "consume")
  <2>1. OnlyCall(c) /\ pc'[c] = "consume" /\ UNCHANGED <<req, over>>
    BY <1>4, Moved DEF DelegationInv, TokenInv, Places
  <2>2. Past(c)'
    BY <1>1, <1>2, <2>1, SameTables, PastStays DEF DelegationInv, TokenInv
  <2>3. AssignmentOf[req[c].token] \notin over[c].assignments
    BY <1>2, <1>4 DEF Past, Open
  <2>4. over[c].time <= IssuedAt[req[c].token] + TokenAge
    <3>1. req[c].token \in Tokens
      BY <1>2, <1>4 DEF Requests, Fresh
    <3>2. now \in Nat /\ IssuedAt[req[c].token] \in Nat /\ TokenAge \in Nat
      BY <3>1, DelegationAssumption DEF DelegationInv, TokenInv, Typed
    <3> QED
      BY <1>2, <1>4, <3>2 DEF Past, Fresh
  <2>5. Held(c)'
    BY <1>1, <1>2, <2>1, <2>3, <2>4 DEF Held, Manages, Known
  <2> QED
    BY <1>1, <2>1, <2>2, <2>5, GrantsRead
<1> QED
  BY <1>3, <1>4 DEF LookupAssignment, Refuse, QueryFails, Error

LEMMA ConsumeGrants == ASSUME DelegationInv, NEW c \in Calls, ConsumeToken(c) PROVE GrantInv'
<1>1. pc[c] = "consume" /\ UNCHANGED <<personas, now, grant>>
  BY DEF ConsumeToken
<1>2. Past(c) /\ Held(c)
  BY <1>1 DEF DelegationInv, GrantInv, InProgress
<1>3. \A a \in Assignments : assignments'[a].revoked = assignments[a].revoked
  BY DEF ConsumeToken, Spend, DelegationInv, TokenInv, Typed
<1>4. TablesKept /\ Created' = Created
  BY <1>1, <1>3 DEF TablesKept, Created, Known, Active, DelegationInv, TokenInv, Typed
<1>5. ASSUME NEW text, Answer(c, text) PROVE GrantInv'
  BY <1>1, <1>4, <1>5, Answered, GrantsKept DEF DelegationInv, TokenInv
<1>6. CASE Proceed(c, "insert")
  <2>1. OnlyCall(c) /\ pc'[c] = "insert" /\ UNCHANGED <<req, over>>
    BY <1>6, Moved DEF DelegationInv, TokenInv, Places
  <2>2. Past(c)'
    BY <1>2, <1>4, <2>1, PastStays DEF DelegationInv, TokenInv
  <2>3. Held(c)'
    BY <1>1, <1>2, <2>1 DEF Held, Manages, Known
  <2> QED
    BY <1>1, <1>4, <2>1, <2>2, <2>3, GrantsKept
<1> QED
  BY <1>5, <1>6 DEF ConsumeToken, Refuse, QueryFails, Error

LEMMA InsertGrants == ASSUME DelegationInv, NEW c \in Calls, InsertPersona(c) PROVE GrantInv'
<1>1. pc[c] = "insert" /\ UNCHANGED <<assignments, now>>
  BY DEF InsertPersona
<1>2. Past(c) /\ Held(c) /\ req[c] \in Requests
  BY <1>1 DEF DelegationInv, GrantInv, InProgress, TokenInv, Typed
<1>3. PICK text : Answer(c, text)
  BY DEF InsertPersona, QueryFails, Error
<1>4. OnlyCall(c) /\ pc'[c] = "done"
  BY <1>3, Answered DEF DelegationInv, TokenInv
<1>5. CASE UNCHANGED <<personas, grant>>
  BY <1>1, <1>4, <1>5, GrantsRead
<1>6. CASE \E p \in Ids \ Known :
             /\ personas' = [personas EXCEPT ![p] =
                               Persona("active", req[c].scope, req[c].limit, req[c].parent)]
             /\ grant' = [grant EXCEPT ![p] =
                            [call |-> c, issuer |-> req[c].issuer, token |-> req[c].token,
                             over |-> over[c]]]
  <2>1. PICK p \in Ids \ Known :
             /\ personas' = [personas EXCEPT ![p] =
                               Persona("active", req[c].scope, req[c].limit, req[c].parent)]
             /\ grant' = [grant EXCEPT ![p] =
                            [call |-> c, issuer |-> req[c].issuer, token |-> req[c].token,
                             over |-> over[c]]]
    BY <1>6
  <2>2. \A q \in Ids \ {p} : personas'[q] = personas[q] /\ grant'[q] = grant[q]
    BY <2>1 DEF DelegationInv, TokenInv, Typed
  <2>3. personas'[p] = Persona("active", req[c].scope, req[c].limit, req[c].parent)
    BY <2>1 DEF DelegationInv, TokenInv, Typed
  <2>4. personas'[p].parent = req[c].parent
    BY <1>2, <2>3, NewRow DEF Requests
  <2>5. TablesKept
    BY <1>1, <2>2 DEF TablesKept, Known, Active, DelegationInv, TokenInv, Typed
  <2>6. /\ grant'[p].issuer = req[c].issuer /\ grant'[p].token = req[c].token
        /\ grant'[p].over = over[c]
    BY <2>1 DEF DelegationInv, TokenInv, Typed
  <2>7. /\ req[c].issuer \in Known'
        /\ "manage_personas" \in personas'[req[c].issuer].scope
    BY <1>2, <2>5 DEF Held, TablesKept, Manages
  <2>8. Granted(p)'
    BY <1>1, <1>2, <2>4, <2>6, <2>7 DEF Granted, Paid, Held, Manages
  <2>9. ASSUME NEW q \in Created', q # p PROVE Granted(q)'
    <3>1. q \in Created /\ q \in Known /\ grant'[q] = grant[q]
      BY <2>2, <2>9 DEF Created, Known
    <3> QED
      BY <2>5, <3>1, GrantedStays DEF DelegationInv, GrantInv
  <2>10. ASSUME NEW d \in Calls, InProgress(d)' PROVE Past(d)' /\ Held(d)'
    <3>1. d # c
      BY <1>4, <2>10 DEF InProgress
    <3>2. /\ pc'[d] = pc[d] /\ req'[d] = req[d] /\ over'[d] = over[d]
          /\ Past(d) /\ Held(d)
      BY <1>4, <2>10, <3>1 DEF InProgress, OnlyCall, DelegationInv, GrantInv
    <3> QED
      BY <2>5, <3>2, PastStays, HeldStays DEF DelegationInv, TokenInv
  <2> QED
    BY <2>8, <2>9, <2>10 DEF GrantInv
<1> QED
  BY <1>5, <1>6 DEF InsertPersona

\* A step that is no call's.
LEMMA GrantsKeptOutside ==
  ASSUME DelegationInv, TablesKept, Known' = Known, UNCHANGED <<pc, frames, grant>>
  PROVE  GrantInv'
<1>1. Created' = Created
  BY DEF Created
<1>2. ASSUME NEW c \in Calls, InProgress(c)' PROVE Past(c)' /\ Held(c)'
  <2>1. Past(c) /\ Held(c) /\ UNCHANGED <<pc, req, over>>
    BY <1>2 DEF InProgress, DelegationInv, GrantInv, frames
  <2> QED
    BY <2>1, PastStays, HeldStays DEF DelegationInv, TokenInv
<1>3. ASSUME NEW p \in Created PROVE Granted(p)'
  BY GrantedStays DEF Created, DelegationInv, GrantInv
<1> QED
  BY <1>1, <1>2, <1>3 DEF GrantInv

LEMMA OutsideGrants ==
  ASSUME DelegationInv,
         \/ UNCHANGED vars
         \/ Tick
         \/ \E p \in Ids : Revoke(p)
         \/ \E a \in Assignments : RevokeAssignment(a)
  PROVE  GrantInv'
<1>1. CASE UNCHANGED vars
  <2>1. TablesKept /\ Known' = Known
    BY <1>1, SameTables DEF vars, Known, DelegationInv, TokenInv
  <2> QED
    BY <1>1, <2>1, GrantsKeptOutside DEF vars, frames
<1>2. CASE Tick
  <2>1. Known' = Known /\ Active' = Active
    BY <1>2 DEF Tick, tables, Known, Active
  <2>2. TablesKept
    BY <1>2, <2>1 DEF Tick, tables, TablesKept, DelegationInv, TokenInv, Typed
  <2> QED
    BY <1>2, <2>1, <2>2, GrantsKeptOutside DEF Tick, history
<1>3. ASSUME NEW p \in Ids, Revoke(p) PROVE GrantInv'
  <2>1. /\ Known' = Known
        /\ \A q \in Known : /\ personas'[q].scope = personas[q].scope
                            /\ personas'[q].parent = personas[q].parent
                            /\ q \notin Active => q \notin Active'
    BY <1>3, RevokeChanges DEF DelegationInv, TokenInv
  <2>2. TablesKept
    BY <1>3, <2>1 DEF Revoke, TablesKept, DelegationInv, TokenInv, Typed
  <2> QED
    BY <1>3, <2>1, <2>2, GrantsKeptOutside DEF Revoke, history
<1>4. ASSUME NEW a \in Assignments, RevokeAssignment(a) PROVE GrantInv'
  <2>1. \A b \in Assignments : assignments[b].revoked => assignments'[b].revoked
    <3>1. assignments' = [assignments EXCEPT ![a] = [assignments[a] EXCEPT !.revoked = TRUE]]
      BY <1>4 DEF RevokeAssignment
    <3>2. \A b \in Assignments \ {a} : assignments'[b] = assignments[b]
      BY <3>1 DEF DelegationInv, TokenInv, Typed
    <3>3. assignments'[a] = [assignments[a] EXCEPT !.revoked = TRUE]
      BY <3>1 DEF DelegationInv, TokenInv, Typed
    <3>4. assignments[a] \in [token_consumed : BOOLEAN, revoked : BOOLEAN]
      BY DEF DelegationInv, TokenInv, Typed
    <3> QED
      BY <3>2, <3>3, <3>4, RevokedAssignment
  <2>2. Known' = Known /\ Active' = Active /\ UNCHANGED <<personas, now>>
    BY <1>4 DEF RevokeAssignment, Known, Active
  <2>3. TablesKept
    BY <2>1, <2>2 DEF TablesKept, DelegationInv, TokenInv, Typed
  <2> QED
    BY <1>4, <2>2, <2>3, GrantsKeptOutside DEF RevokeAssignment, history
<1> QED
  BY <1>1, <1>2, <1>3, <1>4

(***************************************************************************)
(* What had been revoked, or was too old, when a call arrived creates no   *)
(* persona: parent, issuer, identity assignment and token were all good    *)
(* then, whatever happened between the checks and the INSERT.              *)
(***************************************************************************)
THEOREM GrantsWereGood == Spec => []GrantedAtStart
<1>1. Init => DelegationInv
  BY InitTokens, InitGrants DEF DelegationInv
<1>2. DelegationInv /\ [Next]_vars => DelegationInv'
  <2> SUFFICES ASSUME DelegationInv, [Next]_vars PROVE DelegationInv'
    OBVIOUS
  <2>1. TokenInv'
    BY ArriveTokens, ParentTokens, DepthTokens, LookupTokens, ConsumeTokens, InsertTokens,
       OutsideTokens DEF Next, DelegationInv
  <2>2. GrantInv'
    BY ArriveGrants, ParentGrants, DepthGrants, LookupGrants, ConsumeGrants, InsertGrants,
       OutsideGrants DEF Next
  <2> QED
    BY <2>1, <2>2 DEF DelegationInv
<1>3. DelegationInv => GrantedAtStart
  BY DEF DelegationInv, GrantInv, GrantedAtStart, Granted
<1> QED
  BY <1>1, <1>2, <1>3, PTL DEF Spec

-----------------------------------------------------------------------------
(***************************************************************************)
(* Lineage.  Each persona stands one below its parent, within its limit    *)
(* and its scope, and a call that has passed a check against the parent    *)
(* would pass it still: scope, limit and chain row are never updated.      *)
(***************************************************************************)
ChainTyped ==
  /\ chain \in [Ids -> [parent : Ids, depth : Nat] \cup {NoRow}]
  /\ \A p \in Ids \ Known : chain[p] = NoRow
  /\ answer \in [Calls -> {"none", "created", "refused", "error"}]
  /\ now <= MaxTime

Descends(p) ==
  LET q == personas[p].parent IN
    IF q = NoParent THEN chain[p] = NoRow
    ELSE /\ q \in Known
         /\ chain[p] # NoRow
         /\ chain[p].parent = q
         /\ chain[p].depth = DepthOf(q) + 1
         /\ chain[p].depth <= personas[q].limit
         /\ personas[p].scope \subseteq personas[q].scope

\* What FetchParent has read, and what FetchDepth has checked with it.
ParentRead(c) ==
  LET q == req[c].parent IN
    /\ q \in Known
    /\ local[c] \in [parent : PersonaRow, depth : Nat]
    /\ local[c].parent.scope = personas[q].scope
    /\ local[c].parent.limit = personas[q].limit

DepthChecked(c) ==
  LET q == req[c].parent IN
    /\ q \in Known
    /\ local[c].depth = DepthOf(q) + 1
    /\ local[c].depth <= personas[q].limit
    /\ req[c].scope \subseteq personas[q].scope

Admitted(c) ==
  /\ pc[c] = "depth" => ParentRead(c)
  /\ pc[c] \in {"token", "consume", "insert"} /\ req[c].parent # NoParent => DepthChecked(c)

LineageInv ==
  /\ ChainTyped
  /\ \A p \in Known : Descends(p)
  /\ \A c \in Calls : Admitted(c)


-----------------------------------------------------------------------------
(***************************************************************************)
(* Lineage is well defined: the least set that contains a persona and is   *)
(* closed under parents satisfies the equation, as parents are known.      *)
(***************************************************************************)
ParentsKnown == \A p \in Known : personas[p].parent # NoParent => personas[p].parent \in Known

Closed(S) == \A r \in S : personas[r].parent # NoParent => personas[r].parent \in S

Above(p) == {q \in Known : \A S \in SUBSET Known : p \in S /\ Closed(S) => q \in S}

LEMMA AboveStep ==
  ASSUME ParentsKnown, NEW p \in Known
  PROVE  Above(p) = IF personas[p].parent = NoParent THEN {p}
                    ELSE {p} \cup Above(personas[p].parent)
<1>1. p \in Above(p)
  BY DEF Above
<1>2. CASE personas[p].parent = NoParent
  <2>1. Closed({p}) /\ {p} \in SUBSET Known
    BY <1>2 DEF Closed
  <2>2. Above(p) \subseteq {p}
    BY <2>1 DEF Above
  <2> QED
    BY <1>1, <1>2, <2>2
<1>3. CASE personas[p].parent # NoParent
  <2> DEFINE q == personas[p].parent
  <2>1. q \in Known
    BY <1>3 DEF ParentsKnown
  <2>2. Above(q) \subseteq Above(p)
    <3>1. \A S : p \in S /\ Closed(S) => q \in S
      BY <1>3 DEF Closed
    <3> QED
      BY <3>1 DEF Above
  <2>3. Closed({p} \cup Above(q)) /\ {p} \cup Above(q) \in SUBSET Known
    <3>1. ASSUME NEW r \in Above(q), personas[r].parent # NoParent
          PROVE  personas[r].parent \in Above(q)
      BY <3>1 DEF Above, Closed, ParentsKnown
    <3>2. q \in Above(q)
      BY <2>1 DEF Above
    <3> QED
      BY <3>1, <3>2 DEF Closed, Above
  <2>4. Above(p) \subseteq {p} \cup Above(q)
    BY <2>3 DEF Above
  <2> QED
    BY <1>1, <1>3, <2>2, <2>4
<1> QED
  BY <1>2, <1>3

LEMMA LineageStep ==
  ASSUME ParentsKnown, NEW p \in Known
  PROVE  Lineage[p] = IF personas[p].parent = NoParent THEN {p}
                      ELSE {p} \cup Lineage[personas[p].parent]
<1> DEFINE Equation(f) ==
      f = [q \in Known |-> IF personas[q].parent = NoParent THEN {q}
                           ELSE {q} \cup f[personas[q].parent]]
           g == [q \in Known |-> Above(q)]
<1>1. Equation(g)
  <2>1. ASSUME NEW q \in Known
        PROVE  Above(q) = IF personas[q].parent = NoParent THEN {q}
                          ELSE {q} \cup g[personas[q].parent]
    <3>1. personas[q].parent # NoParent => g[personas[q].parent] = Above(personas[q].parent)
      BY DEF ParentsKnown
    <3> QED
      BY <3>1, AboveStep
  <2> QED
    BY <2>1
<1>2. Lineage = CHOOSE f : Equation(f)
  BY DEF Lineage
<1>3. Equation(Lineage)
  <2> HIDE DEF Equation, g
  <2>1. \E f : Equation(f)
    BY <1>1
  <2> QED
    BY <1>2, <2>1
<1> QED
  BY <1>3

(***************************************************************************)
(* The lineage of a persona, by its depth: one persona per level, each     *)
(* with at least its rights.  By the least depth at which it would fail.   *)
(***************************************************************************)
Ancestry(p) ==
  /\ IsFiniteSet(Lineage[p])
  /\ Cardinality(Lineage[p]) = DepthOf(p) + 1
  /\ \A q \in Lineage[p] : /\ q \in Known
                           /\ DepthOf(q) <= DepthOf(p)
                           /\ personas[p].scope \subseteq personas[q].scope

LEMMA DepthsAreNumbers ==
  ASSUME ChainTyped
  PROVE  \A p \in Ids : DepthOf(p) \in Nat
BY DEF ChainTyped, DepthOf

LEMMA RootAncestry ==
  ASSUME LineageInv, ParentsKnown, NEW p \in Known, personas[p].parent = NoParent
  PROVE  Ancestry(p)
<1>1. Lineage[p] = {p}
  BY LineageStep
<1>2. DepthOf(p) = 0
  BY DEF LineageInv, Descends, DepthOf
<1>3. IsFiniteSet({p}) /\ Cardinality({p}) = 1
  BY FS_Singleton
<1> QED
  BY <1>1, <1>2, <1>3 DEF Ancestry

LEMMA ChildAncestry ==
  ASSUME LineageInv, ParentsKnown, NEW p \in Known, personas[p].parent # NoParent,
         Ancestry(personas[p].parent)
  PROVE  Ancestry(p)
<1> DEFINE q == personas[p].parent
           above == Lineage[q]
<1>1. /\ q \in Known
      /\ DepthOf(p) = DepthOf(q) + 1
      /\ personas[p].scope \subseteq personas[q].scope
  BY DEF LineageInv, Descends, DepthOf
<1>2. DepthOf(p) \in Nat /\ DepthOf(q) \in Nat /\ \A r \in above : DepthOf(r) \in Nat
  BY <1>1, DepthsAreNumbers DEF LineageInv, Known, Ancestry
<1>3. Lineage[p] = above \cup {p}
  BY LineageStep
<1>4. /\ IsFiniteSet(above) /\ Cardinality(above) = DepthOf(q) + 1
      /\ \A r \in above : /\ r \in Known
                          /\ DepthOf(r) <= DepthOf(q)
                          /\ personas[q].scope \subseteq personas[r].scope
  BY DEF Ancestry
<1>5. p \notin above
  BY <1>1, <1>2, <1>4
<1>6. IsFiniteSet(above \cup {p}) /\ Cardinality(above \cup {p}) = Cardinality(above) + 1
  BY <1>4, <1>5, FS_AddElement
<1>7. \A r \in above \cup {p} : /\ r \in Known
                                /\ DepthOf(r) <= DepthOf(p)
                                /\ personas[p].scope \subseteq personas[r].scope
  BY <1>1, <1>2, <1>4
<1> HIDE DEF above
<1> QED
  BY <1>1, <1>2, <1>3, <1>4, <1>6, <1>7 DEF Ancestry

LEMMA AncestryOfAll ==
  ASSUME LineageInv, ParentsKnown, NEW p \in Known
  PROVE  Ancestry(p)
<1> SUFFICES ASSUME ~Ancestry(p) PROVE FALSE
  OBVIOUS
<1> DEFINE depths == {DepthOf(q) : q \in {r \in Known : ~Ancestry(r)}}
<1>1. depths \subseteq Nat /\ depths # {}
  BY DepthsAreNumbers DEF LineageInv, Known
<1>2. PICK n \in depths : \A m \in depths : <<m, n>> \notin OpToRel(<, Nat)
  <2> HIDE DEF depths
  <2> QED
    BY <1>1, NatLessThanWellFounded, WFMin
<1>3. PICK r \in Known : ~Ancestry(r) /\ n = DepthOf(r)
  BY <1>2
<1>4. personas[r].parent # NoParent
  BY <1>3, RootAncestry
<1> DEFINE q == personas[r].parent
<1>5. q \in Known /\ DepthOf(r) = DepthOf(q) + 1
  BY <1>4 DEF LineageInv, Descends, DepthOf
<1>6. ~Ancestry(q)
  BY <1>3, <1>4, ChildAncestry
<1>7. DepthOf(q) \in depths
  BY <1>5, <1>6
<1>8. DepthOf(q) \in Nat /\ n \in Nat /\ DepthOf(q) < n
  BY <1>3, <1>5, DepthsAreNumbers DEF LineageInv, Known
<1> QED
  BY <1>2, <1>7, <1>8 DEF OpToRel

-----------------------------------------------------------------------------
(***************************************************************************)
(* The actions.  What no step undoes:                                      *)
(***************************************************************************)
RowsKept ==
  \A p \in Known : /\ p \in Known'
                   /\ personas'[p].scope = personas[p].scope
                   /\ personas'[p].limit = personas[p].limit
                   /\ personas'[p].parent = personas[p].parent
                   /\ chain'[p] = chain[p]

LEMMA SameRows == ASSUME UNCHANGED <<personas, chain>> PROVE RowsKept
BY DEF RowsKept, Known

LEMMA DescendsStays ==
  ASSUME RowsKept, NEW p \in Known, Descends(p)
  PROVE  Descends(p)'
BY DEF RowsKept, Descends, DepthOf

LEMMA AdmittedStays ==
  ASSUME RowsKept, NEW c \in Calls, Admitted(c), req'[c] = req[c], local'[c] = local[c],
         pc'[c] = pc[c]
  PROVE  Admitted(c)'
<1>1. pc[c] = "depth" => ParentRead(c)'
  BY DEF RowsKept, Admitted, ParentRead
<1>2. pc[c] \in {"token", "consume", "insert"} /\ req[c].parent # NoParent => DepthChecked(c)'
  BY DEF RowsKept, Admitted, DepthChecked, DepthOf
<1> QED
  BY <1>1, <1>2 DEF Admitted

\* A step of one call that leaves the tables of personas alone.
LEMMA LineageKept ==
  ASSUME Typed, LineageInv, NEW c \in Calls, OnlyCall(c), UNCHANGED <<personas, chain, now>>,
         \/ answer' = answer
         \/ \E text \in {"created", "refused", "error"} : answer' = [answer EXCEPT ![c] = text],
         Admitted(c)'
  PROVE  LineageInv'
<1>1. Known' = Known /\ RowsKept
  BY SameRows DEF Known
<1>2. ChainTyped'
  BY <1>1 DEF LineageInv, ChainTyped
<1>3. ASSUME NEW p \in Known PROVE Descends(p)'
  BY <1>1, DescendsStays DEF LineageInv
<1>4. ASSUME NEW d \in Calls PROVE Admitted(d)'
  BY <1>1, AdmittedStays DEF LineageInv, OnlyCall
<1> QED
  BY <1>1, <1>2, <1>3, <1>4 DEF LineageInv

LEMMA AnsweredLineage ==
  ASSUME Typed, LineageInv, NEW c \in Calls, NEW text \in {"refused", "error"}, Answer(c, text),
         UNCHANGED <<personas, chain, now>>
  PROVE  LineageInv'
<1>1. OnlyCall(c) /\ pc'[c] = "done"
  BY Answered
<1>2. Admitted(c)'
  BY <1>1 DEF Admitted
<1>3. answer' = [answer EXCEPT ![c] = text]
  BY DEF Answer
<1> QED
  BY <1>1, <1>2, <1>3, LineageKept

LEMMA ArriveLineage ==
  ASSUME Typed, LineageInv, NEW c \in Calls, Arrive(c) PROVE LineageInv'
<1>1. UNCHANGED <<personas, chain, now>>
  BY DEF Arrive, tables
<1>2. CASE Refuse(c)
  BY <1>1, <1>2, AnsweredLineage DEF Refuse
<1>3. ASSUME NEW r \in Requests, req' = [req EXCEPT ![c] = r],
             over' = [over EXCEPT ![c] = OverNow], UNCHANGED local,
             Goto(c, IF r.parent = NoParent THEN "token" ELSE "parent")
      PROVE  LineageInv'
  <2> DEFINE place == IF r.parent = NoParent THEN "token" ELSE "parent"
  <2>1. place \in Places
    BY DEF Places
  <2>2. OnlyCall(c) /\ pc'[c] = place /\ answer' = answer
    BY <1>3, <2>1, MovedOn
  <2>3. req'[c] = r
    BY <1>3 DEF Typed
  <2>4. Admitted(c)'
    BY <2>2, <2>3 DEF Admitted
  <2> QED
    BY <1>1, <2>2, <2>4, LineageKept
<1> QED
  BY <1>2, <1>3 DEF Arrive

LEMMA ParentLineage ==
  ASSUME Typed, LineageInv, NEW c \in Calls, FetchParent(c) PROVE LineageInv'
<1>1. pc[c] = "parent" /\ UNCHANGED <<personas, chain, now>>
  BY DEF FetchParent, tables
<1>2. ASSUME NEW text \in {"refused", "error"}, Answer(c, text) PROVE LineageInv'
  BY <1>1, <1>2, AnsweredLineage
<1>3. CASE /\ ParentFound(req[c].parent)
           /\ local' = [local EXCEPT ![c] = [parent |-> personas[req[c].parent], depth |-> 0]]
           /\ Goto(c, "depth") /\ UNCHANGED <<req, over>>
  <2>1. OnlyCall(c) /\ pc'[c] = "depth" /\ answer' = answer
    BY <1>3, MovedOn DEF Places
  <2>2. local'[c] = [parent |-> personas[req[c].parent], depth |-> 0]
    BY <1>3 DEF Typed
  <2>3. req[c].parent \in Known /\ personas[req[c].parent] \in PersonaRow
    BY <1>3 DEF ParentFound, Active, Known, Typed
  <2>4. ParentRead(c)'
    BY <1>1, <1>3, <2>2, <2>3 DEF ParentRead, Known
  <2>5. Admitted(c)'
    BY <2>1, <2>4 DEF Admitted
  <2> QED
    BY <1>1, <2>1, <2>5, LineageKept
<1> QED
  BY <1>2, <1>3 DEF FetchParent, Refuse, QueryFails, Error

LEMMA DepthLineage ==
  ASSUME Typed, LineageInv, NEW c \in Calls, FetchDepth(c) PROVE LineageInv'
<1> DEFINE depth == DepthOf(req[c].parent) + 1
<1>1. pc[c] = "depth" /\ UNCHANGED <<personas, chain, now>>
  BY DEF FetchDepth, tables
<1>2. ASSUME NEW text \in {"refused", "error"}, Answer(c, text) PROVE LineageInv'
  BY <1>1, <1>2, AnsweredLineage
<1>3. CASE /\ depth <= local[c].parent.limit
           /\ req[c].scope \subseteq local[c].parent.scope
           /\ local' = [local EXCEPT ![c].depth = depth]
           /\ Goto(c, "token") /\ UNCHANGED <<req, over>>
  <2>1. OnlyCall(c) /\ pc'[c] = "token" /\ answer' = answer
    BY <1>3, MovedOn DEF Places
  <2>2. ParentRead(c)
    BY <1>1 DEF LineageInv, Admitted
  <2>3. local'[c].depth = depth
    <3>1. local'[c] = [local[c] EXCEPT !.depth = depth]
      BY <1>3 DEF Typed
    <3> QED
      BY <2>2, <3>1 DEF ParentRead
  <2>4. DepthOf(req[c].parent)' = DepthOf(req[c].parent)
    BY <1>1, <1>3 DEF DepthOf
  <2>5. DepthChecked(c)'
    BY <1>1, <1>3, <2>2, <2>3, <2>4 DEF ParentRead, DepthChecked, Known
  <2>6. Admitted(c)'
    BY <2>1, <2>5 DEF Admitted
  <2> QED
    BY <1>1, <2>1, <2>6, LineageKept
<1> QED
  BY <1>2, <1>3 DEF FetchDepth, Refuse, QueryFails, Error, scopeIsSubset, ScopeAbove

\* The two steps of the token change nothing that the checks have looked at.
LEMMA ProceedLineage ==
  ASSUME Typed, LineageInv, NEW c \in Calls, NEW place \in {"consume", "insert"},
         pc[c] \in {"token", "consume"}, Proceed(c, place), UNCHANGED <<personas, chain, now>>
  PROVE  LineageInv'
<1>1. OnlyCall(c) /\ pc'[c] = place /\ UNCHANGED <<req, local, answer>>
  BY Moved DEF Places
<1>2. req[c].parent # NoParent => DepthChecked(c)
  BY DEF LineageInv, Admitted
<1>3. req[c].parent # NoParent => DepthChecked(c)'
  BY <1>1, <1>2 DEF DepthChecked, DepthOf, Known
<1>4. Admitted(c)'
  BY <1>1, <1>3 DEF Admitted
<1> QED
  BY <1>1, <1>4, LineageKept

LEMMA TokenLineage ==
  ASSUME Typed, LineageInv, NEW c \in Calls, LookupAssignment(c) \/ ConsumeToken(c)
  PROVE  LineageInv'
<1>1. pc[c] \in {"token", "consume"} /\ UNCHANGED <<personas, chain, now>>
  BY DEF LookupAssignment, ConsumeToken, tables
<1>2. \/ \E text \in {"refused", "error"} : Answer(c, text)
      \/ \E place \in {"consume", "insert"} : Proceed(c, place)
  BY DEF LookupAssignment, ConsumeToken, Refuse, QueryFails, Error
<1> QED
  BY <1>1, <1>2, AnsweredLineage, ProceedLineage

LEMMA InsertLineage ==
  ASSUME Typed, LineageInv, NEW c \in Calls, InsertPersona(c) PROVE LineageInv'
<1>1. pc[c] = "insert" /\ now' = now /\ req[c] \in Requests
  BY DEF InsertPersona, Typed
<1>2. PICK text \in {"created", "error"} : Answer(c, text)
  BY DEF InsertPersona, QueryFails, Error
<1>3. OnlyCall(c) /\ pc'[c] = "done" /\ answer' = [answer EXCEPT ![c] = text]
  BY <1>2, Answered DEF Answer
<1>4. Admitted(c)'
  BY <1>3 DEF Admitted
<1>5. CASE UNCHANGED <<personas, chain>>
  BY <1>1, <1>3, <1>4, <1>5, LineageKept
<1>6. ASSUME NEW p \in Ids \ Known,
             personas' = [personas EXCEPT ![p] =
                            Persona("active", req[c].scope, req[c].limit, req[c].parent)],
             chain' = [chain EXCEPT ![p] = ChainRow(c)]
      PROVE  LineageInv'
  <2>1. /\ personas'[p] \in PersonaRow
        /\ personas'[p].scope = req[c].scope
        /\ personas'[p].limit = req[c].limit
        /\ personas'[p].parent = req[c].parent
    BY <1>1, <1>6, NewRow DEF Requests, Typed
  <2>2. \A q \in Ids \ {p} : personas'[q] = personas[q] /\ chain'[q] = chain[q]
    BY <1>6 DEF Typed, LineageInv, ChainTyped
  <2>3. Known' = Known \cup {p}
    BY <2>1, <2>2, NoRowIsNoPersona DEF Known
  <2>4. RowsKept
    BY <2>2, <2>3 DEF RowsKept, Known
  <2>5. chain'[p] = ChainRow(c)
    BY <1>6 DEF LineageInv, ChainTyped
  <2>6. req[c].parent # NoParent => DepthChecked(c) /\ DepthOf(req[c].parent) \in Nat
    BY <1>1, DepthsAreNumbers DEF LineageInv, Admitted, DepthChecked, Known
  <2>7. /\ req[c].parent = NoParent => ChainRow(c) = NoRow
        /\ req[c].parent # NoParent => ChainRow(c) \in [parent : {req[c].parent},
                                                         depth : {local[c].depth}]
    BY DEF ChainRow
  <2>8. Descends(p)'
    <3>1. CASE req[c].parent = NoParent
      BY <2>1, <2>5, <2>7, <3>1 DEF Descends
    <3>2. CASE req[c].parent # NoParent
      <4> DEFINE q == req[c].parent
      <4>1. /\ q \in Known /\ local[c].depth = DepthOf(q) + 1
            /\ local[c].depth <= personas[q].limit /\ req[c].scope \subseteq personas[q].scope
        BY <2>6, <3>2 DEF DepthChecked
      <4>2. /\ q \in Known' /\ chain'[q] = chain[q] /\ personas'[q].limit = personas[q].limit
            /\ personas'[q].scope = personas[q].scope
        BY <2>4, <4>1 DEF RowsKept
      <4>3. chain'[p] # NoRow /\ chain'[p].parent = q /\ chain'[p].depth = local[c].depth
        <5>1. "depth" \in DOMAIN ChainRow(c)
          BY <2>7, <3>2
        <5>2. "depth" \notin DOMAIN NoRow
          BY DEF NoRow
        <5> QED
          BY <2>5, <2>7, <3>2, <5>1, <5>2
      <4>4. personas'[p].parent = q /\ personas'[p].scope = req[c].scope
        BY <2>1
      <4> HIDE DEF q
      <4>5. q # NoParent
        BY <3>2 DEF q
      <4> QED
        BY <4>1, <4>2, <4>3, <4>4, <4>5 DEF Descends, DepthOf
    <3> QED
      BY <3>1, <3>2
  <2>9. ASSUME NEW q \in Known PROVE Descends(q)'
    BY <2>4, DescendsStays DEF LineageInv
  <2>10. ChainTyped'
    <3>1. ChainRow(c) \in [parent : Ids, depth : Nat] \cup {NoRow}
      BY <1>1, <2>6 DEF ChainRow, DepthChecked, Known
    <3>2. chain' \in [Ids -> [parent : Ids, depth : Nat] \cup {NoRow}]
      BY <1>6, <3>1 DEF LineageInv, ChainTyped
    <3>3. \A q \in Ids \ Known' : chain'[q] = NoRow
      BY <2>2, <2>3 DEF LineageInv, ChainTyped
    <3>4. answer' \in [Calls -> {"none", "created", "refused", "error"}]
      BY <1>3 DEF LineageInv, ChainTyped
    <3> QED
      BY <1>1, <3>2, <3>3, <3>4 DEF LineageInv, ChainTyped
  <2>11. ASSUME NEW d \in Calls PROVE Admitted(d)'
    BY <1>3, <1>4, <2>4, AdmittedStays DEF LineageInv, OnlyCall
  <2> QED
    BY <2>3, <2>8, <2>9, <2>10, <2>11 DEF LineageInv
<1> QED
  BY <1>5, <1>6 DEF InsertPersona

LEMMA OutsideLineage ==
  ASSUME Typed, LineageInv,
         \/ UNCHANGED vars
         \/ Tick
         \/ \E p \in Ids : Revoke(p)
         \/ \E a \in Assignments : RevokeAssignment(a)
  PROVE  LineageInv'
<1>1. UNCHANGED <<chain, pc, req, local, answer>> /\ (now' = now \/ now' <= MaxTime)
  BY DelegationAssumption DEF vars, Tick, Revoke, RevokeAssignment, tables, frames, Typed
<1>2. RowsKept /\ Known' = Known
  <2>1. CASE personas' = personas
    BY <1>1, <2>1, SameRows DEF Known
  <2>2. ASSUME NEW p \in Ids, Revoke(p) PROVE RowsKept /\ Known' = Known
    BY <1>1, <2>2, RevokeChanges DEF RowsKept
  <2> QED
    BY <2>1, <2>2 DEF vars, Tick, RevokeAssignment, tables
<1>3. ChainTyped'
  BY <1>1, <1>2 DEF LineageInv, ChainTyped
<1>4. ASSUME NEW p \in Known PROVE Descends(p)'
  BY <1>2, DescendsStays DEF LineageInv
<1>5. ASSUME NEW c \in Calls PROVE Admitted(c)'
  BY <1>1, <1>2, AdmittedStays DEF LineageInv
<1> QED
  BY <1>2, <1>3, <1>4, <1>5 DEF LineageInv

LEMMA InitLineage == Init => LineageInv
<1> SUFFICES ASSUME Init PROVE LineageInv
  OBVIOUS
<1>1. ASSUME NEW p \in Known PROVE Descends(p)
  <2>1. personas[p] = Persona("active", RootScope, RootLimit, NoParent)
    BY DEF Init, Known
  <2>2. personas[p].parent = NoParent
    BY <2>1 DEF Persona
  <2> QED
    BY <2>2 DEF Init, Known, Descends
<1>2. ChainTyped
  BY DelegationAssumption DEF Init, ChainTyped
<1> QED
  BY <1>1, <1>2 DEF Init, LineageInv, Admitted

LEMMA LineageInvariant == Spec => [](Typed /\ LineageInv)
<1>1. Typed /\ LineageInv /\ [Next]_vars => LineageInv'
  BY ArriveLineage, ParentLineage, DepthLineage, TokenLineage, InsertLineage,
     OutsideLineage DEF Next
<1>2. TokenInv => Typed
  BY DEF TokenInv
<1> QED
  BY <1>1, <1>2, TokenInvariant, InitLineage, PTL DEF Spec

(***************************************************************************)
(* The type invariant: among it, the foreign keys of the two tables hold,  *)
(* and only a persona that has a parent has a row in the chain.            *)
(***************************************************************************)
THEOREM TypeCorrect == Spec => []TypeOK
<1>1. Typed /\ LineageInv => TypeOK
  <2> SUFFICES ASSUME Typed, LineageInv PROVE TypeOK
    OBVIOUS
  <2>1. ASSUME NEW p \in Known
        PROVE  /\ personas[p] \in [status : {"active", "revoked"},
                                   scope : Scopes \cup {RootScope},
                                   limit : Limits \cup {RootLimit},
                                   parent : Known \cup {NoParent}]
               /\ chain[p] # NoRow => chain[p] \in [parent : Known, depth : Nat]
    <3>1. personas[p] \in PersonaRow
      BY DEF Typed, Known
    <3>2. personas[p].parent \in Known \cup {NoParent}
      BY DEF LineageInv, Descends
    <3>3. chain[p] # NoRow => /\ chain[p] \in [parent : Ids, depth : Nat]
                              /\ chain[p].parent \in Known
      BY DEF LineageInv, ChainTyped, Descends, Known
    <3> QED
      BY <3>1, <3>2, <3>3 DEF PersonaRow
  <2>2. now \in 0 .. MaxTime
    BY DelegationAssumption DEF Typed, LineageInv, ChainTyped
  <2> QED
    BY <2>1, <2>2 DEF Typed, LineageInv, ChainTyped, TypeOK
<1> QED
  BY <1>1, LineageInvariant, PTL

LEMMA LineageAncestry ==
  ASSUME LineageInv PROVE \A p \in Known : Ancestry(p)
<1>1. ParentsKnown
  BY DEF LineageInv, Descends, ParentsKnown
<1> QED
  BY <1>1, AncestryOfAll

(***************************************************************************)
(* No persona holds a right that anybody above it in the chain of          *)
(* delegation does not hold, however long the chain and whatever was       *)
(* created or revoked between the handler's checks and its INSERT.         *)
(***************************************************************************)
THEOREM RightsShrinkDownward == Spec => []ScopeWithinLineage
<1>1. LineageInv => ScopeWithinLineage
  BY LineageAncestry DEF Ancestry, ScopeWithinLineage
<1> QED
  BY <1>1, LineageInvariant, PTL

(***************************************************************************)
(* delegation_depth, which a call computes from one row it has read, is    *)
(* the number of personas above, and never over the parent's limit.        *)
(***************************************************************************)
THEOREM DepthCountsAncestors == Spec => []DepthIsDistance
<1>1. LineageInv => DepthIsDistance
  <2> SUFFICES ASSUME LineageInv, NEW p \in Created, personas[p].parent # NoParent
               PROVE  /\ chain[p].depth = Cardinality(Lineage[p]) - 1
                      /\ chain[p].depth <= personas[personas[p].parent].limit
    BY DEF DepthIsDistance
  <2>1. p \in Known /\ Ancestry(p)
    BY LineageAncestry DEF Created
  <2>2. chain[p] # NoRow /\ chain[p].depth <= personas[personas[p].parent].limit
    BY <2>1 DEF LineageInv, Descends
  <2>3. DepthOf(p) \in Nat /\ DepthOf(p) = chain[p].depth
    BY <2>1, <2>2, DepthsAreNumbers DEF LineageInv, DepthOf, Known
  <2> QED
    BY <2>1, <2>2, <2>3 DEF Ancestry
<1> QED
  BY <1>1, LineageInvariant, PTL
=============================================================================
