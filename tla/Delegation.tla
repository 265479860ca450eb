----------------------------- MODULE Delegation -----------------------------
(***************************************************************************)
(* persona_create: personas delegated from a parent, each paid for with a  *)
(* single-use identity token.  Calls run concurrently with each other,     *)
(* with revocations and with the administrator; every query is a step.     *)
(*                                                                         *)
(* A call arrives here when the dispatcher has validated its persona and   *)
(* its session.  A scope is a set of rights, an entry of one of the three  *)
(* lists the handler compares each; nothing updates it, or a limit, later. *)
(***************************************************************************)
EXTENDS Naturals, FiniteSets

CONSTANTS
  Calls,        \* persona_create requests
  Ids,          \* persona UUIDs
  Roots,        \* personas that exist at the start
  RootScope, RootLimit,
  Scopes,       \* scope_definition arguments
  Limits,       \* max_delegation_depth arguments
  Assignments,  \* rows of user_persona_assignments
  Tokens,       \* what issue_identity_token printed
  AssignmentOf, \* the assignment a token names
  IssuedAt,     \* and its issued_at
  TokenAge,     \* 15 minutes
  MaxTime,      \* bound of the clock
  Faults        \* "query": a query fails; "reply": it commits, its reply is lost

ASSUME DelegationAssumption ==
  /\ Roots \subseteq Ids
  /\ RootLimit \in Nat /\ Limits \subseteq Nat
  /\ AssignmentOf \in [Tokens -> Assignments]
  /\ IssuedAt \in [Tokens -> Nat]
  /\ TokenAge \in Nat /\ MaxTime \in Nat
  /\ Faults \subseteq {"query", "reply"}

\* Malformed, or not signed with the server's secret.
BadToken == "bad token"

NoParent == "no parent"
NoRow == [kind |-> "no row"]
Nobody == "nobody"

ASSUME NamesAssumption ==
  /\ BadToken \notin Tokens
  /\ NoParent \notin Ids
  /\ Nobody \notin Calls

VARIABLES
  personas,     \* gif.personas
  chain,        \* gif.delegation_chain, by child
  assignments,  \* gif.user_persona_assignments
  pc,
  req,          \* the arguments of each call in progress
  local,        \* parentPersona and delegationDepth
  answer,
  now,
  over,         \* history: what had been revoked when the call arrived
  grant,        \* history: who inserted each persona, and upon what
  spender       \* history: the call that consumed each assignment

vars == <<personas, chain, assignments, pc, req, local, answer, now, over, grant, spender>>
tables == <<personas, chain, assignments>>
frames == <<req, local, over>>
history == <<grant, spender>>

Persona(status, scope, limit, parent) ==
  [status |-> status, scope |-> scope, limit |-> limit, parent |-> parent]

Known == {p \in Ids : personas[p] # NoRow}

Active == {p \in Known : personas[p].status = "active"}

Requests ==
  [issuer : Ids, parent : Ids \cup {NoParent}, scope : Scopes, limit : Limits,
   token : Tokens \cup {BadToken}]

Init ==
  /\ personas = [p \in Ids |-> IF p \in Roots
                                 THEN Persona("active", RootScope, RootLimit, NoParent)
                                 ELSE NoRow]
  /\ chain = [p \in Ids |-> NoRow]
  /\ assignments = [a \in Assignments |-> [token_consumed |-> FALSE, revoked |-> FALSE]]
  /\ pc = [c \in Calls |-> "idle"]
  /\ req = [c \in Calls |-> NoRow]
  /\ local = [c \in Calls |-> NoRow]
  /\ answer = [c \in Calls |-> "none"]
  /\ now = 0
  /\ over = [c \in Calls |-> NoRow]
  /\ grant = [p \in Ids |-> NoRow]
  /\ spender = [a \in Assignments |-> Nobody]

-----------------------------------------------------------------------------
Goto(c, place) == pc' = [pc EXCEPT ![c] = place] /\ UNCHANGED answer

Proceed(c, place) == Goto(c, place) /\ UNCHANGED frames

\* The handler returns, and what it kept is gone.
Answer(c, text) ==
  /\ pc' = [pc EXCEPT ![c] = "done"]
  /\ answer' = [answer EXCEPT ![c] = text]
  /\ req' = [req EXCEPT ![c] = NoRow]
  /\ local' = [local EXCEPT ![c] = NoRow]
  /\ over' = [over EXCEPT ![c] = NoRow]

\* A rule of the handler says no.  Its scope_violations row, which nothing
\* reads, is left out.
Refuse(c) == Answer(c, "refused")

\* A query failed, or its reply was lost.
Error(c) == Answer(c, "error")

QueryFails(c) == "query" \in Faults /\ Error(c)

(***************************************************************************)
(* The call arrives with a valid persona; without manage_personas it is    *)
(* refused before its first query.                                         *)
(***************************************************************************)
Manages(p) == "manage_personas" \in personas[p].scope

OverNow ==
  [personas |-> Known \ Active, assignments |-> {a \in Assignments : assignments[a].revoked},
   time |-> now]

\* issue_identity_token has signed these for an operator.
Issued == {t \in Tokens : IssuedAt[t] <= now}

Arrive(c) ==
  /\ pc[c] = "idle"
  /\ \E r \in Requests :
       /\ r.issuer \in Active
       /\ r.token \in Issued \cup {BadToken}
       /\ \/ ~Manages(r.issuer) /\ Refuse(c)
          \/ /\ Manages(r.issuer)
             /\ req' = [req EXCEPT ![c] = r]
             /\ over' = [over EXCEPT ![c] = OverNow]
             /\ Goto(c, IF r.parent = NoParent THEN "token" ELSE "parent")
             /\ UNCHANGED local
  /\ UNCHANGED <<tables, now, history>>

\* Any persona there is.
ParentKnown(p) == p \in Known

ParentFound(p) == p \in Active

FetchParent(c) ==
  LET parent == req[c].parent IN
    /\ pc[c] = "parent"
    /\ \/ /\ ParentFound(parent)
          /\ local' = [local EXCEPT ![c] = [parent |-> personas[parent], depth |-> 0]]
          /\ Goto(c, "depth") /\ UNCHANGED <<req, over>>
       \/ ~ParentFound(parent) /\ Refuse(c)
       \/ QueryFails(c)
    /\ UNCHANGED <<tables, now, history>>

\* A parent without a row of its own in the chain; and without looking.
DepthUnread(p) == 0

DepthOf(p) == IF chain[p] = NoRow THEN 0 ELSE chain[p].depth

\* The issuer's scope.
ScopeOfIssuer(c) == personas[req[c].issuer].scope

ScopeAbove(c) == local[c].parent.scope

\* An absent field of a scope grants nothing, and nothing is asked for with it.
scopeIsSubset(childScope, parentScope) == childScope \subseteq parentScope

FetchDepth(c) ==
  LET depth == DepthOf(req[c].parent) + 1
      permitted == depth <= local[c].parent.limit /\ scopeIsSubset(req[c].scope, ScopeAbove(c))
  IN
    /\ pc[c] = "depth"
    /\ \/ /\ permitted
          /\ local' = [local EXCEPT ![c].depth = depth]
          /\ Goto(c, "token") /\ UNCHANGED <<req, over>>
       \/ ~permitted /\ Refuse(c)
       \/ QueryFails(c)
    /\ UNCHANGED <<tables, now, history>>

-----------------------------------------------------------------------------
(***************************************************************************)
(* verifyIdentityBinding: signature and age, a SELECT of the assignment,   *)
(* and an UPDATE that looks at token_consumed again but not at revoked_at. *)
(***************************************************************************)
Fresh(token) == token # BadToken /\ now <= IssuedAt[token] + TokenAge

Open(a) == ~assignments[a].token_consumed /\ ~assignments[a].revoked

LookupAssignment(c) ==
  LET token == req[c].token IN
    /\ pc[c] = "token"
    /\ \/ ~Fresh(token) /\ Refuse(c)
       \/ /\ Fresh(token)
          /\ \/ Open(AssignmentOf[token]) /\ Proceed(c, "consume")
             \/ ~Open(AssignmentOf[token]) /\ Refuse(c)
             \/ QueryFails(c)
    /\ UNCHANGED <<tables, now, history>>

\* Without AND token_consumed = false.
AnyRow(a) == TRUE

Unconsumed(a) == ~assignments[a].token_consumed

\* Without the UPDATE.
SpendNothing(c, a) == UNCHANGED <<assignments, spender>>

Spend(c, a) ==
  /\ assignments' = [assignments EXCEPT ![a].token_consumed = TRUE]
  /\ spender' = [spender EXCEPT ![a] = c]

ConsumeToken(c) ==
  LET a == AssignmentOf[req[c].token] IN
    /\ pc[c] = "consume"
    /\ \/ /\ Unconsumed(a)
          /\ Spend(c, a)
          /\ \/ Proceed(c, "insert")
             \/ "reply" \in Faults /\ Error(c)
       \/ /\ \/ ~Unconsumed(a) /\ Refuse(c)
             \/ QueryFails(c)
          /\ UNCHANGED <<assignments, spender>>
    /\ UNCHANGED <<personas, chain, now, grant>>

(***************************************************************************)
(* One transaction on a client of its own: the persona and, if it has a    *)
(* parent, its row in the chain.  Its foreign keys lock no row against a   *)
(* revocation, so nothing sees it before COMMIT and it waits for nobody.   *)
(***************************************************************************)
\* Also for a root.
ChainRowAlways(c) == [parent |-> req[c].parent, depth |-> 0]

ChainRow(c) ==
  IF req[c].parent = NoParent THEN NoRow
  ELSE [parent |-> req[c].parent, depth |-> local[c].depth]

InsertPersona(c) ==
  /\ pc[c] = "insert"
  /\ \/ \E p \in Ids \ Known :
          /\ personas' = [personas EXCEPT ![p] =
                            Persona("active", req[c].scope, req[c].limit, req[c].parent)]
          /\ chain' = [chain EXCEPT ![p] = ChainRow(c)]
          /\ grant' = [grant EXCEPT ![p] =
                         [call |-> c, issuer |-> req[c].issuer, token |-> req[c].token,
                          over |-> over[c]]]
          /\ \/ Answer(c, "created")
             \/ "reply" \in Faults /\ Error(c)
     \/ QueryFails(c) /\ UNCHANGED <<personas, chain, grant>>
  /\ UNCHANGED <<assignments, now, spender>>

-----------------------------------------------------------------------------
\* A persona_revoke of another call commits.
Revoke(p) ==
  /\ p \in Active
  /\ personas' = [personas EXCEPT ![p].status = "revoked"]
  /\ UNCHANGED <<chain, assignments, pc, frames, answer, now, history>>

\* The administrator sets revoked_at.
RevokeAssignment(a) ==
  /\ ~assignments[a].revoked
  /\ assignments' = [assignments EXCEPT ![a].revoked = TRUE]
  /\ UNCHANGED <<personas, chain, pc, frames, answer, now, history>>

Tick ==
  /\ now < MaxTime
  /\ now' = now + 1
  /\ UNCHANGED <<tables, pc, frames, answer, history>>

Next ==
  \/ Tick
  \/ \E c \in Calls :
       \/ Arrive(c)
       \/ FetchParent(c)
       \/ FetchDepth(c)
       \/ LookupAssignment(c)
       \/ ConsumeToken(c)
       \/ InsertPersona(c)
  \/ \E p \in Ids : Revoke(p)
  \/ \E a \in Assignments : RevokeAssignment(a)

Spec == Init /\ [][Next]_vars

-----------------------------------------------------------------------------
(***************************************************************************)
(* Properties.                                                             *)
(***************************************************************************)
Places == {"idle", "parent", "depth", "token", "consume", "insert", "done"}

(* The type invariant: among it, the foreign keys of the two tables hold,  *)
(* and only a persona that has a parent has a row in the chain.            *)
TypeOK ==
  /\ \A p \in Known :
       /\ personas[p] \in [status : {"active", "revoked"}, scope : Scopes \cup {RootScope},
                           limit : Limits \cup {RootLimit}, parent : Known \cup {NoParent}]
       /\ chain[p] # NoRow => chain[p] \in [parent : Known, depth : Nat]
  /\ \A p \in Ids \ Known : chain[p] = NoRow
  /\ assignments \in [Assignments -> [token_consumed : BOOLEAN, revoked : BOOLEAN]]
  /\ pc \in [Calls -> Places]
  /\ \A c \in Calls : pc[c] \notin {"idle", "done"} => req[c] \in Requests
  /\ answer \in [Calls -> {"none", "created", "refused", "error"}]
  /\ now \in 0 .. MaxTime

Created == {p \in Known : grant[p] # NoRow}

Paid(p) == AssignmentOf[grant[p].token]

(* Single use: no two personas are created under one assignment, however   *)
(* many tokens were issued for it and however many calls present one at    *)
(* the same time.                                                          *)
TokenUsedOnce ==
  \A p, q \in Created : Paid(p) = Paid(q) => p = q

(* No persona without a token its own call consumed, and no token spent in *)
(* vain except by an internal error: a refused call has consumed nothing.  *)
TokensAccounted ==
  /\ \A p \in Created : spender[Paid(p)] = grant[p].call
  /\ \A a \in Assignments :
       LET c == spender[a] IN
         /\ assignments[a].token_consumed <=> c # Nobody
         /\ c # Nobody => \/ pc[c] = "insert"
                          \/ pc[c] = "done" /\ answer[c] = "error" /\ Faults # {}
                          \/ answer[c] = "created" /\ \E p \in Created : grant[p].call = c

\* A persona and everybody above it.
Lineage[p \in Known] ==
  IF personas[p].parent = NoParent THEN {p} ELSE {p} \cup Lineage[personas[p].parent]

(* A persona holds no right that anybody above it in the chain of          *)
(* delegation does not hold.                                               *)
ScopeWithinLineage ==
  \A p \in Known : \A q \in Lineage[p] : personas[p].scope \subseteq personas[q].scope

(* delegation_depth is the distance from the root, and within the limit of *)
(* the parent.                                                             *)
DepthIsDistance ==
  \A p \in Created :
    personas[p].parent # NoParent =>
      /\ chain[p].depth = Cardinality(Lineage[p]) - 1
      /\ chain[p].depth <= personas[personas[p].parent].limit

(* What had been revoked before the call arrived, the parent, the issuer   *)
(* or the identity assignment, creates nothing; nor does a token that was  *)
(* too old by then.                                                        *)
GrantedAtStart ==
  \A p \in Created :
    LET g == grant[p] IN
      /\ {g.issuer, personas[p].parent} \cap g.over.personas = {}
      /\ Paid(p) \notin g.over.assignments
      /\ g.over.time <= IssuedAt[g.token] + TokenAge
      /\ Manages(g.issuer)

=============================================================================
