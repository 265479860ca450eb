------------------------------ MODULE Service ------------------------------
(***************************************************************************)
(* The server process: HTTP connections, tools/call handlers in flight,    *)
(* the pg pool they share, and the shutdown that drains them.              *)
(*                                                                         *)
(* What a handler asks of the database is abstracted to the sequence of    *)
(* its uses of the pool; what those uses do is the subject of Dispatcher   *)
(* and Delegation.                                                         *)
(***************************************************************************)
EXTENDS Naturals, FiniteSets, Sequences

CONSTANTS
  Calls,    \* tools/call requests, numbered in the order they arrive
  Conns,    \* HTTP connections
  Clients   \* the pool's connections to PostgreSQL: max of db.ts of them

NoCall == 0
NoConn == "no connection"

ASSUME ServiceAssumption ==
  /\ Calls \subseteq Nat \ {NoCall} /\ IsFiniteSet(Calls)
  /\ NoConn \notin Conns
  /\ Clients # {} /\ IsFiniteSet(Clients)

VARIABLES
  server,         \* "up", "draining", "ending" (the pool), "exit 0", "exit 1"
  conn,           \* HTTP connections
  inFlightCalls,
  drain,          \* the promise callsDrained
  pc,             \* what each handler awaits
  todo,           \* the uses of the pool it has left
  reply,          \* the connection its client waits on
  owner,          \* the call that holds a client of the pool
  open,           \* clients inside a transaction
  queue,          \* calls the pool keeps waiting, first come first served
  audit,          \* what became of each call's audit row
  late,           \* history: calls that arrived after the drain had settled
  overload        \* history: more calls were in flight than the pool has clients

http == <<conn, reply>>
pool == <<owner, open, queue>>
flight == <<inFlightCalls, drain>>
history == <<late, overload>>
vars == <<server, http, flight, pc, todo, pool, audit, history>>

\* A request refused as malformed, a tool of single statements, a persona tool.
\* One query stands for those a handler makes one after the other.
Uses == {<<>>, <<"query", "audit">>, <<"transaction", "audit">>}

Running == {c \in Calls : pc[c] \notin {"new", "answered"}}

Alive == server \in {"up", "draining", "ending"}

Held == {k \in Clients : owner[k] # NoCall}

Init ==
  /\ server = "up"
  /\ conn = [k \in Conns |-> "closed"]
  /\ inFlightCalls = 0
  /\ drain = "unset"
  /\ pc = [c \in Calls |-> "new"]
  /\ todo = [c \in Calls |-> <<>>]
  /\ reply = [c \in Calls |-> NoConn]
  /\ owner = [k \in Clients |-> NoCall]
  /\ open = {}
  /\ queue = <<>>
  /\ audit = [c \in Calls |-> "none"]
  /\ late = {}
  /\ overload = FALSE

-----------------------------------------------------------------------------
(* Connections and routing. *)

\* The first bytes of a request, on a connection of which it is the first, which
\* only a listening server accepts, or on one kept alive.
Send(k) ==
  /\ Alive
  /\ conn[k] = "idle" \/ (conn[k] = "closed" /\ server = "up")
  /\ conn' = [conn EXCEPT ![k] = "sending"]
  /\ UNCHANGED <<server, flight, pc, todo, reply, pool, audit, history>>

\* /health, an unknown path, a refused Origin, a request that is no tools/call.
AnswerDirectly(k) ==
  /\ Alive
  /\ conn[k] = "sending"
  /\ conn' = [conn EXCEPT ![k] = "idle"]
  /\ UNCHANGED <<server, flight, pc, todo, reply, pool, audit, history>>

Dispatch(k, c) ==
  /\ Alive
  /\ conn[k] = "sending"
  /\ pc[c] = "new" /\ \A d \in Calls : pc[d] = "new" => c <= d
  /\ conn' = [conn EXCEPT ![k] = "waiting"]
  /\ reply' = [reply EXCEPT ![c] = k]
  /\ pc' = [pc EXCEPT ![c] = "ready"]
  /\ \E uses \in Uses : todo' = [todo EXCEPT ![c] = uses]
  /\ inFlightCalls' = inFlightCalls + 1
  /\ late' = IF drain = "settled" THEN late \cup {c} ELSE late
  /\ overload' = (overload \/ inFlightCalls' > Cardinality(Clients))
  /\ UNCHANGED <<server, drain, pool, audit>>

\* The client goes away, or an idle connection outlives its keep-alive.
Disconnect(k) ==
  /\ Alive
  /\ conn[k] # "closed"
  /\ conn' = [conn EXCEPT ![k] = "closed"]
  /\ reply' = [c \in Calls |-> IF reply[c] = k THEN NoConn ELSE reply[c]]
  /\ UNCHANGED <<server, flight, pc, todo, pool, audit, history>>

-----------------------------------------------------------------------------
(* The pool. *)

\* Call c has client k; a transaction begins with it.
Grant(c, k) ==
  /\ owner' = [owner EXCEPT ![k] = c]
  /\ open' = IF Head(todo[c]) = "transaction" THEN open \cup {k} ELSE open
  /\ pc' = [pc EXCEPT ![c] = "holding"]

\* The outcome of the use at the head of todo[c]: an audit row that fails is
\* dropped; a call whose persona or session cannot be read is answered at once,
\* and any other failure is answered after it has been audited.
Proceed(c, ok, fate) ==
  /\ audit' = IF Head(todo[c]) = "audit" THEN [audit EXCEPT ![c] = fate] ELSE audit
  /\ \/ todo' = [todo EXCEPT ![c] = Tail(@)]
     \/ ~ok /\ Head(todo[c]) = "query" /\ todo' = [todo EXCEPT ![c] = <<>>]

Ask(c) ==
  /\ Alive
  /\ pc[c] = "ready" /\ todo[c] # <<>>
  /\ IF server = "ending"
       THEN Proceed(c, FALSE, "ended") /\ UNCHANGED <<pc, pool>>
       ELSE /\ IF Held # Clients
                 THEN (\E k \in Clients \ Held : Grant(c, k)) /\ UNCHANGED queue
                 ELSE /\ queue' = Append(queue, c)
                      /\ pc' = [pc EXCEPT ![c] = "queued"]
                      /\ UNCHANGED <<owner, open>>
            /\ UNCHANGED <<todo, audit>>
  /\ UNCHANGED <<server, http, flight, history>>

\* Mutant: a client whose ROLLBACK failed goes back to the pool as it is.
ReturnAsIs(k, outcome) == IF outcome = "broken" THEN open ELSE open \ {k}

\* COMMIT and ROLLBACK end the transaction; where ROLLBACK fails the client is
\* destroyed, and the pool connects afresh in its place.
ReturnClean(k, outcome) == open \ {k}

\* Mutant: the client goes back and the head of the queue is not looked at.
HandOverToNobody(c, k) ==
  /\ owner' = [owner EXCEPT ![k] = NoCall]
  /\ pc' = [pc EXCEPT ![c] = "ready"]
  /\ UNCHANGED queue

\* Mutant: no release() after a transaction.
HandOverSometimes(c, k) ==
  IF Head(todo[c]) = "transaction"
    THEN pc' = [pc EXCEPT ![c] = "ready"] /\ UNCHANGED <<owner, queue>>
    ELSE HandOverToNobody(c, k)

\* Client k leaves call c for the first waiter, whom an ending pool ignores.
HandOver(c, k) ==
  IF queue = <<>> \/ server = "ending"
    THEN /\ owner' = [owner EXCEPT ![k] = NoCall]
         /\ pc' = [pc EXCEPT ![c] = "ready"]
         /\ UNCHANGED queue
    ELSE /\ owner' = [owner EXCEPT ![k] = Head(queue)]
         /\ pc' = [pc EXCEPT ![c] = "ready", ![Head(queue)] = "holding"]
         /\ queue' = Tail(queue)

Begins(k) ==
  IF owner'[k] # NoCall /\ Head(todo[owner'[k]]) = "transaction" THEN {k} ELSE {}

\* The statement, or the transaction, of call c is over.
Complete(c, k, outcome) ==
  /\ Alive
  /\ pc[c] = "holding" /\ owner[k] = c
  /\ outcome = "broken" => Head(todo[c]) = "transaction"
  /\ HandOver(c, k)
  /\ open' = (IF Head(todo[c]) = "transaction" THEN ReturnClean(k, outcome) ELSE open) \cup Begins(k)
  /\ Proceed(c, outcome = "ok",
             IF outcome # "ok" THEN "failed" ELSE IF k \in open THEN "stranded" ELSE "written")
  /\ UNCHANGED <<server, http, flight, history>>

Without(i) == [j \in 1 .. Len(queue) - 1 |-> queue[IF j < i THEN j ELSE j + 1]]

\* connectionTimeoutMillis.
TimeOut(c) ==
  /\ Alive
  /\ pc[c] = "queued"
  /\ pc' = [pc EXCEPT ![c] = "ready"]
  /\ \E i \in DOMAIN queue : queue[i] = c /\ queue' = Without(i)
  /\ Proceed(c, FALSE, "timed out")
  /\ UNCHANGED <<server, http, flight, owner, open, history>>

\* The handler's outer finally, and the response.
Finish(c) ==
  /\ Alive
  /\ pc[c] = "ready" /\ todo[c] = <<>>
  /\ pc' = [pc EXCEPT ![c] = "answered"]
  /\ inFlightCalls' = inFlightCalls - 1
  /\ drain' = IF inFlightCalls = 1 /\ drain = "pending" THEN "settled" ELSE drain
  /\ conn' = [k \in Conns |-> IF reply[c] = k THEN "idle" ELSE conn[k]]
  /\ reply' = [reply EXCEPT ![c] = NoConn]
  /\ UNCHANGED <<server, todo, pool, audit, history>>

-----------------------------------------------------------------------------
(* SIGTERM and SIGINT. *)

\* Mutant: only httpServer.close() is waited for.
SettledAtOnce == "settled"

DrainAtSignal == IF inFlightCalls = 0 THEN "settled" ELSE "pending"

\* httpServer.close() stops listening and closes the connections that are idle
\* now; the drain is resolved now or by the call that brings the counter to zero.
Signal ==
  /\ server = "up"
  /\ server' = "draining"
  /\ conn' = [k \in Conns |-> IF conn[k] = "idle" THEN "closed" ELSE conn[k]]
  /\ drain' = DrainAtSignal
  /\ UNCHANGED <<inFlightCalls, pc, todo, reply, pool, audit, history>>

SecondSignal ==
  /\ server \in {"draining", "ending"}
  /\ server' = "exit 1"
  /\ UNCHANGED <<http, flight, pc, todo, pool, audit, history>>

\* Mutant: a timer that does not fire on a call in flight.
TimerWhenQuiet == server \in {"draining", "ending"} /\ inFlightCalls = 0

TimerArmed == server \in {"draining", "ending"}

ForceTimer ==
  /\ TimerArmed
  /\ server' = "exit 1"
  /\ UNCHANGED <<http, flight, pc, todo, pool, audit, history>>

\* Both promises have resolved: the MCP handler is closed and the pool ended.
EndPool ==
  /\ server = "draining"
  /\ drain = "settled"
  /\ \A k \in Conns : conn[k] = "closed"
  /\ server' = "ending"
  /\ UNCHANGED <<http, flight, pc, todo, pool, audit, history>>

\* pool.end() resolves when every client is back.
ExitOrderly ==
  /\ server = "ending"
  /\ Held = {}
  /\ server' = "exit 0"
  /\ UNCHANGED <<http, flight, pc, todo, pool, audit, history>>

Answered(c, k) == \E outcome \in {"ok", "failed", "broken"} : Complete(c, k, outcome)

Next ==
  \/ \E k \in Conns :
       Send(k) \/ AnswerDirectly(k) \/ Disconnect(k) \/ \E c \in Calls : Dispatch(k, c)
  \/ \E c \in Calls : Ask(c) \/ TimeOut(c) \/ Finish(c)
  \/ \E c \in Calls, k \in Clients : Answered(c, k)
  \/ Signal \/ SecondSignal \/ ForceTimer \/ EndPool \/ ExitOrderly

Spec == Init /\ [][Next]_vars

\* Handlers run on, and the timer of a shutdown fires.  PostgreSQL need not
\* answer: a query may wait on a row lock for ever.
FairSpec ==
  Spec /\ (\A c \in Calls : WF_vars(Ask(c)) /\ WF_vars(Finish(c))) /\ WF_vars(ForceTimer)

-----------------------------------------------------------------------------
TypeOK ==
  /\ server \in {"up", "draining", "ending", "exit 0", "exit 1"}
  /\ conn \in [Conns -> {"closed", "idle", "sending", "waiting"}]
  /\ inFlightCalls \in Nat /\ inFlightCalls = Cardinality(Running)
  /\ drain \in {"unset", "pending", "settled"}
  /\ pc \in [Calls -> {"new", "ready", "queued", "holding", "answered"}]
  /\ todo \in [Calls -> Uses \cup {<<"audit">>}]
  /\ reply \in [Calls -> Conns \cup {NoConn}]
  /\ owner \in [Clients -> Calls \cup {NoCall}]
  /\ open \subseteq Held
  /\ queue \in Seq(Calls)
  /\ audit \in [Calls -> {"none", "written", "failed", "timed out", "ended", "stranded"}]
  /\ late \subseteq Calls
  /\ overload \in BOOLEAN

\* A call whose row an orderly shutdown can lose arrived after the drain had
\* settled, and its client has gone.
LateOrphan(c) == c \in late /\ reply[c] = NoConn

\* Once the pool is being ended, every call that arrived before the drain
\* settled has written its audit row or seen that INSERT fail, orphaned by a
\* disconnect or not; only a late orphan can meet a pool that refuses it
\* (index.ts: "no tools/call in flight" implies "no audit write in flight").
DrainFlushesAudits ==
  server \in {"ending", "exit 0"} =>
    \A c \in Calls : c \in Running \/ audit[c] = "ended" => LateOrphan(c)

\* An audit row times out waiting for a client only if more calls were in
\* flight at once than the pool has clients: a handler holds one client at
\* most, a persona tool's transaction released before its audit row is written
\* (db.ts: the known capacity limit).
TimeoutMeansOverload ==
  \A c \in Calls : audit[c] = "timed out" => overload

\* An audit row is never written inside a transaction some persona tool left
\* open on a pooled client, to vanish with it (persona_revoke.ts: the client
\* whose ROLLBACK fails is destroyed).
NoAuditStranded == \A c \in Calls : audit[c] # "stranded"

\* A shutdown comes to an end, whatever the calls in flight wait for.
ShutdownEnds == server = "draining" ~> server \in {"exit 0", "exit 1"}

\* As long as PostgreSQL answers and the process lives every call is answered:
\* the pool leaves no waiter behind.
CallsAnswered ==
  (\A c \in Calls : WF_vars(\E k \in Clients : Answered(c, k)))
    => \A c \in Calls : pc[c] # "new" ~> (pc[c] = "answered" \/ ~Alive)
=============================================================================
