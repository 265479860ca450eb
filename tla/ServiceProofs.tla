---------------------------- MODULE ServiceProofs ----------------------------
(***************************************************************************)
(* The drain and the pool, for any number of calls, connections and        *)
(* clients.                                                                *)
(*                                                                         *)
(* ServiceInv strengthens the properties by who holds what: a client       *)
(* belongs to one call, which is at a use of its own and holds no other;   *)
(* an open transaction belongs to the use it was begun for; and once the   *)
(* drain has settled every handler still running came later.               *)
(***************************************************************************)
EXTENDS Service, FiniteSetTheorems, SequenceTheorems, TLAPS

Todos == Uses \cup {<<"audit">>}

\* Clients, transactions and the queue.
PoolInv ==
  /\ \A c \in Calls : pc[c] \in {"queued", "holding"} => todo[c] # <<>>
  /\ \A k \in Held : pc[owner[k]] = "holding"
  /\ \A j, k \in Held : owner[j] = owner[k] => j = k
  /\ \A k \in open : Head(todo[owner[k]]) = "transaction"
  /\ \A i \in DOMAIN queue : pc[queue[i]] = "queued"
  /\ \A i, j \in DOMAIN queue : queue[i] = queue[j] => i = j

\* How many calls there have been at once.
LoadInv ==
  /\ overload \/ inFlightCalls <= Cardinality(Clients)
  /\ \A c \in Calls : pc[c] = "queued" => overload

\* Who may be running, and who is waited for, as the shutdown proceeds.
DrainInv ==
  /\ drain = "settled" => Running \subseteq late
  /\ \A c \in Calls : reply[c] # NoConn => conn[reply[c]] = "waiting"
  /\ \A c, d \in Calls : reply[c] = reply[d] /\ reply[c] # NoConn => c = d
  /\ server \in {"ending", "exit 0"} =>
       drain = "settled" /\ \A k \in Conns : conn[k] = "closed"
  /\ \A c \in Calls : pc[c] = "new" => audit[c] = "none"
  /\ \A c \in Calls : audit[c] = "ended" => LateOrphan(c)

ServiceInv == TypeOK /\ PoolInv /\ LoadInv /\ DrainInv /\ TimeoutMeansOverload /\ NoAuditStranded

-----------------------------------------------------------------------------
\* What is left of a handler's uses of the pool, one by one.
LEMMA UsesLeft ==
  /\ <<>> \in Todos
  /\ Uses \subseteq Todos
  /\ \A t \in Todos : t # <<>> => Tail(t) \in Todos /\ Head(t) \in {"query", "transaction", "audit"}
  /\ \A t \in Todos : t # <<>> => (Head(t) = "transaction" => Tail(t) = <<"audit">>)
  /\ Head(<<"audit">>) = "audit"
  /\ \A u \in Todos : u # <<>> /\ Head(u) = "audit" => Tail(u) = <<>>
  BY DEF Todos, Uses

\* The handlers running are finitely many.
LEMMA RunningFinite == IsFiniteSet(Running) /\ Cardinality(Running) \in Nat
<1>1. Running \in SUBSET Calls /\ IsFiniteSet(Calls)
  BY ServiceAssumption DEF Running
<1> QED
  BY <1>1, FS_Subset, FS_CardinalityType

\* A call arrives: one more is running.
LEMMA OneMoreRunning ==
  ASSUME NEW c \in Calls, c \notin Running, Running' = Running \cup {c}
  PROVE  Cardinality(Running') = Cardinality(Running) + 1
BY RunningFinite, FS_AddElement

\* A call is answered: one less is running.
LEMMA OneLessRunning ==
  ASSUME NEW c \in Calls, c \in Running, Running' = Running \ {c}
  PROVE  Cardinality(Running') = Cardinality(Running) - 1
BY RunningFinite, FS_RemoveElement

\* The counter is zero, or one, exactly when no call, or that call alone, runs.
LEMMA CounterReadsZero == Cardinality(Running) = 0 => Running = {}
BY RunningFinite, FS_EmptySet

LEMMA CounterReadsOne ==
  ASSUME NEW c \in Running, Cardinality(Running) = 1
  PROVE  Running = {c}
<1>1. PICK d : Running = {d}
  BY RunningFinite, FS_Singleton
<1> QED
  BY <1>1

-----------------------------------------------------------------------------
LEMMA InitEstablishes == Init => ServiceInv
<1> SUFFICES ASSUME Init PROVE ServiceInv
  OBVIOUS
<1> USE DEF Init
<1>1. Running = {} /\ Held = {}
  BY DEF Running, Held
<1>2. Cardinality(Running) = 0 /\ Cardinality(Clients) \in Nat
  BY <1>1, FS_EmptySet, ServiceAssumption, FS_CardinalityType
<1>3. TypeOK
  <2>1. inFlightCalls \in Nat /\ inFlightCalls = Cardinality(Running) /\ open \subseteq Held
    BY <1>2
  <2>2. <<>> \in Uses /\ queue \in Seq(Calls)
    BY DEF Uses
  <2> QED
    BY <2>1, <2>2 DEF TypeOK
<1>4. PoolInv /\ TimeoutMeansOverload /\ NoAuditStranded
  BY <1>1 DEF PoolInv, TimeoutMeansOverload, NoAuditStranded
<1>5. LoadInv /\ DrainInv
  BY <1>1, <1>2 DEF LoadInv, DrainInv
<1> QED
  BY <1>3, <1>4, <1>5 DEF ServiceInv

\* Steps that leave the handlers and the pool alone.
Outside ==
  \/ \E k \in Conns : Send(k) \/ AnswerDirectly(k) \/ Disconnect(k)
  \/ Signal \/ SecondSignal \/ ForceTimer \/ EndPool \/ ExitOrderly
  \/ UNCHANGED vars

LEMMA OutsideKeeps ==
  ASSUME TypeOK, PoolInv, Outside
  PROVE  /\ UNCHANGED <<inFlightCalls, pc, todo, pool, audit, history>>
         /\ TypeOK' /\ PoolInv'
<1>1. UNCHANGED <<inFlightCalls, pc, todo, pool, audit, history>>
  BY DEF Outside, Send, AnswerDirectly, Disconnect, Signal, SecondSignal, ForceTimer, EndPool,
         ExitOrderly, vars, http, pool, flight, history
<1>2. /\ server' \in {"up", "draining", "ending", "exit 0", "exit 1"}
      /\ conn' \in [Conns -> {"closed", "idle", "sending", "waiting"}]
      /\ drain' \in {"unset", "pending", "settled"}
      /\ reply' \in [Calls -> Conns \cup {NoConn}]
  BY DEF Outside, Send, AnswerDirectly, Disconnect, Signal, SecondSignal, ForceTimer, EndPool,
         ExitOrderly, vars, http, pool, flight, history, TypeOK, DrainAtSignal
<1>3. TypeOK'
  BY <1>1, <1>2 DEF TypeOK, Running, Held, pool, history
<1>4. PoolInv'
  BY <1>1 DEF PoolInv, Held, pool
<1> QED
  BY <1>1, <1>3, <1>4

LEMMA Queued ==
  ASSUME TypeOK
  PROVE  /\ Len(queue) \in Nat /\ DOMAIN queue = 1 .. Len(queue)
         /\ \A i \in DOMAIN queue : queue[i] \in Calls
<1>1. queue \in Seq(Calls)
  BY DEF TypeOK
<1>2. queue \in [1 .. Len(queue) -> Calls] /\ Len(queue) \in Nat
  BY <1>1, LenProperties
<1> QED
  BY <1>2

\* A call that is neither queued nor holding is nowhere in the pool.
LEMMA NotInPool ==
  ASSUME TypeOK, PoolInv, NEW c \in Calls, pc[c] \notin {"queued", "holding"}
  PROVE  /\ \A k \in Held : owner[k] # c
         /\ \A i \in DOMAIN queue : queue[i] # c
BY DEF PoolInv

\* A handler outside the pool that goes on, or begins or ends, disturbs nobody.
LEMMA OthersUndisturbed ==
  ASSUME TypeOK, PoolInv, UNCHANGED pool, NEW c \in Calls,
         pc[c] \notin {"queued", "holding"},
         NEW there \in {"new", "ready", "answered"},
         pc' = [pc EXCEPT ![c] = there],
         \A d \in Calls \ {c} : todo'[d] = todo[d]
  PROVE  PoolInv'
<1>1. UNCHANGED <<owner, open, queue>> /\ Held' = Held
  BY DEF pool, Held
<1>2. /\ \A k \in Held : owner[k] \in Calls \ {c}
      /\ \A i \in DOMAIN queue : queue[i] \in Calls \ {c}
      /\ open \subseteq Held
  BY NotInPool, Queued DEF TypeOK, Held
<1>3. \A d \in Calls \ {c} : pc'[d] = pc[d] /\ todo'[d] = todo[d]
  BY DEF TypeOK
<1>4. pc'[c] = there
  BY DEF TypeOK
<1>5. \A d \in Calls : pc'[d] \in {"queued", "holding"} => todo'[d] # <<>>
  BY <1>3, <1>4 DEF PoolInv
<1> QED
  BY <1>1, <1>2, <1>3, <1>5 DEF PoolInv

LEMMA DispatchKeeps ==
  ASSUME TypeOK, PoolInv, NEW k \in Conns, NEW c \in Calls, Dispatch(k, c)
  PROVE  TypeOK' /\ PoolInv'
<1> USE DEF Dispatch
<1>1. c \notin Running /\ Running' = Running \cup {c}
  BY DEF Running, TypeOK
<1>2. inFlightCalls' \in Nat /\ inFlightCalls' = Cardinality(Running')
  <2>1. Cardinality(Running') = Cardinality(Running) + 1
    BY <1>1, OneMoreRunning
  <2>2. inFlightCalls \in Nat /\ inFlightCalls = Cardinality(Running)
    BY DEF TypeOK
  <2> QED
    BY <2>1, <2>2
<1>3. todo' \in [Calls -> Uses \cup {<<"audit">>}]
  BY DEF TypeOK
<1>4. /\ late' \subseteq Calls /\ overload' \in BOOLEAN
      /\ conn' \in [Conns -> {"closed", "idle", "sending", "waiting"}]
      /\ reply' \in [Calls -> Conns \cup {NoConn}]
      /\ pc' \in [Calls -> {"new", "ready", "queued", "holding", "answered"}]
  BY DEF TypeOK
<1>5. UNCHANGED <<server, drain, owner, open, queue, audit>> /\ Held' = Held
  BY DEF pool, Held
<1>6. TypeOK'
  BY <1>2, <1>3, <1>4, <1>5 DEF TypeOK
<1>7. PoolInv'
  BY OthersUndisturbed DEF TypeOK
<1> QED
  BY <1>6, <1>7

LEMMA FinishKeeps ==
  ASSUME TypeOK, PoolInv, NEW c \in Calls, Finish(c)
  PROVE  TypeOK' /\ PoolInv'
<1> USE DEF Finish
<1>1. c \in Running /\ Running' = Running \ {c}
  BY DEF Running, TypeOK
<1>2. inFlightCalls' \in Nat /\ inFlightCalls' = Cardinality(Running')
  <2>1. Cardinality(Running') = Cardinality(Running) - 1
    BY <1>1, OneLessRunning
  <2>2. Cardinality(Running') \in Nat
    BY <1>1, RunningFinite, FS_RemoveElement, FS_CardinalityType
  <2> QED
    BY <2>1, <2>2 DEF TypeOK
<1>3. /\ conn' \in [Conns -> {"closed", "idle", "sending", "waiting"}]
      /\ reply' \in [Calls -> Conns \cup {NoConn}]
      /\ pc' \in [Calls -> {"new", "ready", "queued", "holding", "answered"}]
      /\ drain' \in {"unset", "pending", "settled"}
  BY DEF TypeOK
<1>4. UNCHANGED <<server, todo, owner, open, queue, audit, late, overload>> /\ Held' = Held
  BY DEF pool, history, Held
<1>5. TypeOK'
  BY <1>2, <1>3, <1>4 DEF TypeOK
<1>6. PoolInv'
  BY <1>4, OthersUndisturbed DEF TypeOK, pool
<1> QED
  BY <1>5, <1>6

Fates == {"none", "written", "failed", "timed out", "ended", "stranded"}

\* The use at the head of a handler's list is behind it.
LEMMA ProceedKeeps ==
  ASSUME TypeOK, NEW c \in Calls, todo[c] # <<>>, NEW ok, NEW fate \in Fates, Proceed(c, ok, fate)
  PROVE  /\ todo' \in [Calls -> Todos] /\ audit' \in [Calls -> Fates]
         /\ \A d \in Calls \ {c} : todo'[d] = todo[d] /\ audit'[d] = audit[d]
         /\ audit'[c] = IF Head(todo[c]) = "audit" THEN fate ELSE audit[c]
<1>1. todo \in [Calls -> Todos] /\ audit \in [Calls -> Fates]
  BY DEF TypeOK, Todos, Fates
<1>2. Tail(todo[c]) \in Todos /\ <<>> \in Todos
  BY <1>1, UsesLeft
<1>3. audit' = IF Head(todo[c]) = "audit" THEN [audit EXCEPT ![c] = fate] ELSE audit
  BY DEF Proceed
<1>4. todo' = [todo EXCEPT ![c] = Tail(todo[c])] \/ todo' = [todo EXCEPT ![c] = <<>>]
  BY DEF Proceed
<1> QED
  BY <1>1, <1>2, <1>3, <1>4

\* A handler takes a free client.
LEMMA GrantKeeps ==
  ASSUME TypeOK, PoolInv, NEW c \in Calls, pc[c] = "ready", todo[c] # <<>>,
         NEW k \in Clients \ Held, Grant(c, k), UNCHANGED <<queue, todo>>
  PROVE  /\ PoolInv'
         /\ owner' \in [Clients -> Calls \cup {NoCall}] /\ open' \subseteq Held'
<1>1. /\ owner' = [owner EXCEPT ![k] = c]
      /\ open' \subseteq open \cup {k}
      /\ k \in open' => Head(todo[c]) = "transaction" \/ k \in open
      /\ pc' = [pc EXCEPT ![c] = "holding"]
  BY DEF Grant
<1>2. /\ c # NoCall /\ owner \in [Clients -> Calls \cup {NoCall}]
      /\ open \subseteq Held /\ k \notin open
      /\ \A d \in Calls : pc'[d] = IF d = c THEN "holding" ELSE pc[d]
  BY <1>1, ServiceAssumption DEF TypeOK
<1>3. /\ Held' = Held \cup {k} /\ owner'[k] = c
      /\ \A j \in Held : owner'[j] = owner[j] /\ owner[j] \in Calls \ {c}
  BY <1>1, <1>2, NotInPool DEF Held
<1>4. \A i \in DOMAIN queue : queue[i] \in Calls \ {c}
  BY NotInPool, Queued
<1>5. open' \subseteq Held'
  BY <1>1, <1>2, <1>3
<1>6. \A d \in Calls : pc'[d] \in {"queued", "holding"} => todo[d] # <<>>
  BY <1>2 DEF PoolInv
<1>7. /\ \A j \in Held' : pc'[owner'[j]] = "holding"
      /\ \A i, j \in Held' : owner'[i] = owner'[j] => i = j
  BY <1>2, <1>3 DEF PoolInv
<1>8. \A j \in open' : Head(todo[owner'[j]]) = "transaction"
  BY <1>1, <1>2, <1>3 DEF PoolInv
<1>9. /\ \A i \in DOMAIN queue : pc'[queue[i]] = "queued"
      /\ \A i, j \in DOMAIN queue : queue[i] = queue[j] => i = j
  BY <1>2, <1>4 DEF PoolInv
<1> QED
  BY <1>1, <1>2, <1>5, <1>6, <1>7, <1>8, <1>9 DEF PoolInv

\* A handler joins the queue.
LEMMA EnqueueKeeps ==
  ASSUME TypeOK, PoolInv, NEW c \in Calls, pc[c] = "ready", todo[c] # <<>>,
         queue' = Append(queue, c), pc' = [pc EXCEPT ![c] = "queued"],
         UNCHANGED <<owner, open, todo>>
  PROVE  PoolInv' /\ queue' \in Seq(Calls)
<1>1. queue \in Seq(Calls) /\ \A d \in Calls : pc'[d] = IF d = c THEN "queued" ELSE pc[d]
  BY DEF TypeOK
<1>2. /\ queue' \in Seq(Calls) /\ Len(queue') = Len(queue) + 1
      /\ \A i \in 1 .. Len(queue) : queue'[i] = queue[i]
      /\ queue'[Len(queue) + 1] = c
  BY <1>1, AppendProperties
<1>3. Len(queue) \in Nat /\ DOMAIN queue = 1 .. Len(queue) /\ DOMAIN queue' = 1 .. Len(queue) + 1
  BY <1>1, <1>2, LenProperties
<1>4. Held' = Held /\ \A k \in Held : owner[k] \in Calls \ {c}
  BY NotInPool DEF Held, TypeOK
<1>5. \A i \in DOMAIN queue : queue[i] \in Calls \ {c}
  BY NotInPool, Queued
<1>6. \A i \in DOMAIN queue' : i \in DOMAIN queue \/ i = Len(queue) + 1
  BY <1>3
<1>7. \A i \in DOMAIN queue' : pc'[queue'[i]] = "queued"
  BY <1>1, <1>2, <1>3, <1>5, <1>6 DEF PoolInv
<1>8. \A i, j \in DOMAIN queue' : queue'[i] = queue'[j] => i = j
  BY <1>2, <1>3, <1>5, <1>6 DEF PoolInv
<1>9. \A d \in Calls : pc'[d] \in {"queued", "holding"} => todo[d] # <<>>
  BY <1>1 DEF PoolInv
<1>10. \A k \in Held : pc'[owner[k]] = "holding"
  BY <1>1, <1>4 DEF PoolInv
<1> QED
  BY <1>2, <1>4, <1>7, <1>8, <1>9, <1>10 DEF PoolInv

\* Between its uses of the pool a handler keeps on running.
LEMMA StillRunning ==
  ASSUME TypeOK, pc' \in [Calls -> {"new", "ready", "queued", "holding", "answered"}],
         \A d \in Calls : pc'[d] \in {"new", "answered"} \/ pc[d] \in {"new", "answered"} => pc'[d] = pc[d],
         todo' \in [Calls -> Todos], audit' \in [Calls -> Fates],
         owner' \in [Clients -> Calls \cup {NoCall}], open' \subseteq Held', queue' \in Seq(Calls),
         UNCHANGED <<server, http, flight, history>>
  PROVE  TypeOK' /\ Running' = Running
<1>1. Running' = Running
  BY DEF Running
<1> QED
  BY <1>1 DEF TypeOK, http, flight, history, Todos, Fates

LEMMA AskKeeps ==
  ASSUME TypeOK, PoolInv, NEW c \in Calls, Ask(c)
  PROVE  TypeOK' /\ PoolInv' /\ Running' = Running
<1>1. /\ pc[c] = "ready" /\ todo[c] # <<>>
      /\ UNCHANGED <<server, http, flight, history>>
  BY DEF Ask
<1>2. /\ pc \in [Calls -> {"new", "ready", "queued", "holding", "answered"}]
      /\ todo \in [Calls -> Todos] /\ audit \in [Calls -> Fates]
      /\ owner \in [Clients -> Calls \cup {NoCall}] /\ open \subseteq Held /\ queue \in Seq(Calls)
  BY DEF TypeOK, Todos, Fates
<1>3. CASE server = "ending"
  <2>1. Proceed(c, FALSE, "ended") /\ UNCHANGED <<pc, pool>> /\ "ended" \in Fates
    BY <1>3 DEF Ask, Fates
  <2>2. /\ todo' \in [Calls -> Todos] /\ audit' \in [Calls -> Fates]
        /\ \A d \in Calls \ {c} : todo'[d] = todo[d]
    BY <1>1, <2>1, ProceedKeeps
  <2>3. pc' = [pc EXCEPT ![c] = "ready"]
    BY <1>1, <1>2, <2>1
  <2>4. PoolInv'
    BY <1>1, <2>1, <2>2, <2>3, OthersUndisturbed
  <2>5. UNCHANGED <<owner, open, queue>> /\ Held' = Held
    BY <2>1 DEF pool, Held
  <2>6. TypeOK' /\ Running' = Running
    BY <1>1, <1>2, <2>1, <2>2, <2>5, StillRunning
  <2> QED
    BY <2>4, <2>6
<1>4. CASE server # "ending" /\ Held # Clients
  <2>1. UNCHANGED <<queue, todo, audit>>
    BY <1>4 DEF Ask
  <2>2. PICK k \in Clients \ Held : Grant(c, k)
    BY <1>4 DEF Ask
  <2>3. PoolInv' /\ owner' \in [Clients -> Calls \cup {NoCall}] /\ open' \subseteq Held'
    BY <1>1, <2>1, <2>2, GrantKeeps
  <2>4. pc' = [pc EXCEPT ![c] = "holding"]
    BY <2>2 DEF Grant
  <2>5. TypeOK' /\ Running' = Running
    BY <1>1, <1>2, <2>1, <2>3, <2>4, StillRunning
  <2> QED
    BY <2>3, <2>5
<1>5. CASE server # "ending" /\ Held = Clients
  <2>1. /\ queue' = Append(queue, c) /\ pc' = [pc EXCEPT ![c] = "queued"]
        /\ UNCHANGED <<owner, open, todo, audit>>
    BY <1>5 DEF Ask
  <2>2. PoolInv' /\ queue' \in Seq(Calls) /\ Held' = Held
    BY <1>1, <2>1, EnqueueKeeps DEF Held
  <2>3. TypeOK' /\ Running' = Running
    BY <1>1, <1>2, <2>1, <2>2, StillRunning
  <2> QED
    BY <2>2, <2>3
<1> QED
  BY <1>3, <1>4, <1>5

\* A waiter that leaves a queue without duplicates is gone from it, and the
\* others stay in their order.
LEMMA WithoutKeeps ==
  ASSUME TypeOK, PoolInv, NEW i \in DOMAIN queue
  PROVE  /\ Without(i) \in Seq(Calls)
         /\ \A j \in DOMAIN Without(i) : \E n \in DOMAIN queue \ {i} : Without(i)[j] = queue[n]
         /\ \A j, l \in DOMAIN Without(i) : Without(i)[j] = Without(i)[l] => j = l
<1>1. Len(queue) \in Nat /\ DOMAIN queue = 1 .. Len(queue) /\ \A n \in DOMAIN queue : queue[n] \in Calls
  BY Queued
<1> DEFINE m == Len(queue) - 1
           Of(j) == IF j < i THEN j ELSE j + 1
<1>2. i \in 1 .. Len(queue) /\ m \in Nat
  BY <1>1
<1>3. \A j \in 1 .. m : Of(j) \in DOMAIN queue /\ Of(j) # i
  BY <1>1, <1>2
<1>4. \A j, l \in 1 .. m : Of(j) = Of(l) => j = l
  BY <1>2
<1> HIDE DEF Of
<1>5. Without(i) = [j \in 1 .. m |-> queue[Of(j)]]
  BY DEF Without, Of
<1>6. Without(i) \in [1 .. m -> Calls]
  BY <1>1, <1>3, <1>5
<1>7. Without(i) \in Seq(Calls) /\ DOMAIN Without(i) = 1 .. m
  BY <1>2, <1>5, <1>6, SeqDef
<1>8. \A j \in 1 .. m : Without(i)[j] = queue[Of(j)]
  BY <1>5
<1>9. \A j, l \in 1 .. m : Without(i)[j] = Without(i)[l] => j = l
  BY <1>3, <1>4, <1>8 DEF PoolInv
<1> QED
  BY <1>3, <1>7, <1>8, <1>9

LEMMA TimeOutKeeps ==
  ASSUME TypeOK, PoolInv, NEW c \in Calls, TimeOut(c)
  PROVE  TypeOK' /\ PoolInv' /\ Running' = Running
<1>1. /\ pc[c] = "queued" /\ pc' = [pc EXCEPT ![c] = "ready"]
      /\ Proceed(c, FALSE, "timed out") /\ "timed out" \in Fates
      /\ UNCHANGED <<server, http, flight, owner, open, history>>
  BY DEF TimeOut, Fates
<1>2. PICK i \in DOMAIN queue : queue[i] = c /\ queue' = Without(i)
  BY DEF TimeOut
<1>3. /\ pc \in [Calls -> {"new", "ready", "queued", "holding", "answered"}]
      /\ \A d \in Calls : pc'[d] = IF d = c THEN "ready" ELSE pc[d]
      /\ owner \in [Clients -> Calls \cup {NoCall}] /\ open \subseteq Held
  BY <1>1 DEF TypeOK
<1>4. todo[c] # <<>>
  BY <1>1 DEF PoolInv
<1>5. /\ todo' \in [Calls -> Todos] /\ audit' \in [Calls -> Fates]
      /\ \A d \in Calls \ {c} : todo'[d] = todo[d]
  BY <1>1, <1>4, ProceedKeeps
<1>6. Held' = Held /\ \A k \in Held : owner[k] \in Calls \ {c}
  <2>1. Held' = Held
    BY <1>1 DEF Held
  <2>2. \A k \in Held : owner[k] \in Calls
    BY <1>3 DEF Held
  <2>3. \A k \in Held : pc[owner[k]] = "holding"
    BY DEF PoolInv
  <2> QED
    BY <1>1, <2>1, <2>2, <2>3
<1>7. /\ queue' \in Seq(Calls)
      /\ \A j \in DOMAIN queue' : \E n \in DOMAIN queue \ {i} : queue'[j] = queue[n]
      /\ \A j, l \in DOMAIN queue' : queue'[j] = queue'[l] => j = l
  BY <1>2, WithoutKeeps
<1>8. \A n \in DOMAIN queue \ {i} : queue[n] \in Calls \ {c} /\ pc[queue[n]] = "queued"
  BY <1>2, Queued DEF PoolInv
<1>9. TypeOK' /\ Running' = Running
  BY <1>1, <1>3, <1>5, <1>6, <1>7, StillRunning
<1>10. \A d \in Calls : pc'[d] \in {"queued", "holding"} => todo'[d] # <<>>
  BY <1>3, <1>5 DEF PoolInv
<1>11. /\ \A k \in Held : pc'[owner[k]] = "holding"
       /\ \A k \in open : Head(todo'[owner[k]]) = "transaction"
  BY <1>3, <1>5, <1>6 DEF PoolInv
<1>12. \A j \in DOMAIN queue' : pc'[queue'[j]] = "queued"
  BY <1>3, <1>7, <1>8
<1>13. \A j, l \in Held : owner[j] = owner[l] => j = l
  BY DEF PoolInv
<1>14. PoolInv'
  BY <1>1, <1>6, <1>7, <1>10, <1>11, <1>12, <1>13 DEF PoolInv
<1> QED
  BY <1>9, <1>14

\* A client changes hands: it is free, or with the first waiter.
LEMMA HandOverMoves ==
  ASSUME TypeOK, PoolInv, NEW c \in Calls, NEW k \in Clients, owner[k] = c, pc[c] = "holding",
         HandOver(c, k)
  PROVE  /\ pc'[c] = "ready" /\ queue' \in Seq(Calls)
         /\ \/ /\ Held' = Held \ {k} /\ owner'[k] = NoCall /\ UNCHANGED queue
               /\ \A d \in Calls \ {c} : pc'[d] = pc[d]
            \/ \E w \in Calls \ {c} :
                 /\ Held' = Held /\ owner'[k] = w /\ pc[w] = "queued" /\ pc'[w] = "holding"
                 /\ \A d \in Calls \ {c, w} : pc'[d] = pc[d]
                 /\ \A i \in DOMAIN queue' : i + 1 \in DOMAIN queue /\ queue'[i] = queue[i + 1]
                 /\ queue[1] = w /\ 1 \in DOMAIN queue
         /\ \A j \in Clients \ {k} : owner'[j] = owner[j]
         /\ owner' \in [Clients -> Calls \cup {NoCall}]
         /\ pc' \in [Calls -> {"new", "ready", "queued", "holding", "answered"}]
<1>1. /\ pc \in [Calls -> {"new", "ready", "queued", "holding", "answered"}]
      /\ owner \in [Clients -> Calls \cup {NoCall}] /\ queue \in Seq(Calls) /\ NoCall \notin Calls
  BY ServiceAssumption DEF TypeOK
<1>2. CASE /\ owner' = [owner EXCEPT ![k] = NoCall]
           /\ pc' = [pc EXCEPT ![c] = "ready"]
           /\ UNCHANGED queue
  <2>1. owner'[k] = NoCall /\ \A j \in Clients \ {k} : owner'[j] = owner[j]
    BY <1>1, <1>2
  <2>2. Held' = Held \ {k}
    BY <2>1 DEF Held
  <2> QED
    BY <1>1, <1>2, <2>1, <2>2
<1>3. CASE /\ queue # <<>>
           /\ owner' = [owner EXCEPT ![k] = Head(queue)]
           /\ pc' = [pc EXCEPT ![c] = "ready", ![Head(queue)] = "holding"]
           /\ queue' = Tail(queue)
  <2>1. /\ Head(queue) = queue[1] /\ Tail(queue) \in Seq(Calls)
        /\ Len(Tail(queue)) = Len(queue) - 1
        /\ \A i \in 1 .. Len(Tail(queue)) : Tail(queue)[i] = queue[i + 1]
    BY <1>1, <1>3, HeadTailProperties
  <2>2. Len(queue) \in Nat /\ DOMAIN queue = 1 .. Len(queue) /\ Len(queue) # 0
    BY <1>1, <1>3, LenProperties, EmptySeq
  <2>3. DOMAIN queue' = 1 .. Len(queue) - 1
    BY <1>3, <2>1, LenProperties
  <2>4. 1 \in DOMAIN queue /\ \A i \in DOMAIN queue' : i + 1 \in DOMAIN queue /\ queue'[i] = queue[i + 1]
    BY <1>3, <2>1, <2>2, <2>3
  <2>5. queue[1] \in Calls /\ pc[queue[1]] = "queued"
    BY <2>4, Queued DEF PoolInv
  <2>6. queue[1] # c
    BY <2>5
  <2>7. owner'[k] = queue[1] /\ \A j \in Clients \ {k} : owner'[j] = owner[j]
    BY <1>1, <1>3, <2>1
  <2>8. Held' = Held
    BY <1>1, <2>5, <2>7 DEF Held
  <2>9. pc' = [pc EXCEPT ![c] = "ready", ![queue[1]] = "holding"]
    BY <1>3, <2>1
  <2>10. /\ pc'[c] = "ready" /\ pc'[queue[1]] = "holding"
         /\ \A d \in Calls \ {c, queue[1]} : pc'[d] = pc[d]
         /\ pc' \in [Calls -> {"new", "ready", "queued", "holding", "answered"}]
    BY <1>1, <2>5, <2>6, <2>9
  <2>11. owner' \in [Clients -> Calls \cup {NoCall}] /\ queue' \in Seq(Calls)
    BY <1>1, <1>3, <2>1, <2>5
  <2> QED
    BY <2>4, <2>5, <2>6, <2>7, <2>8, <2>10, <2>11
<1> QED
  BY <1>2, <1>3 DEF HandOver

\* What is behind a completed statement: its client is out of the transaction it
\* may have been in, and in another's only if the next holder begins one.
LEMMA CompleteParts ==
  ASSUME TypeOK, PoolInv, NEW c \in Calls, NEW k \in Clients, NEW outcome, Complete(c, k, outcome)
  PROVE  /\ pc[c] = "holding" /\ owner[k] = c /\ k \in Held /\ HandOver(c, k)
         /\ todo[c] # <<>>
         /\ open' = (open \ {k}) \cup Begins(k)
         /\ todo' \in [Calls -> Todos] /\ audit' \in [Calls -> Fates]
         /\ \A d \in Calls \ {c} : todo'[d] = todo[d] /\ audit'[d] = audit[d]
         /\ audit'[c] = audit[c] \/ audit'[c] \in {"written", "failed"}
         /\ UNCHANGED <<server, http, flight, history>>
<1>1. /\ pc[c] = "holding" /\ owner[k] = c /\ HandOver(c, k)
      /\ open' = (IF Head(todo[c]) = "transaction" THEN open \ {k} ELSE open) \cup Begins(k)
      /\ UNCHANGED <<server, http, flight, history>>
  BY DEF Complete, ReturnClean
<1>2. PICK ok, fate : /\ fate = IF outcome # "ok" THEN "failed" ELSE IF k \in open THEN "stranded" ELSE "written"
                      /\ Proceed(c, ok, fate)
  BY DEF Complete
<1>3. c # NoCall /\ k \in Held
  BY <1>1, ServiceAssumption DEF Held
<1>4. todo[c] # <<>>
  BY <1>1 DEF PoolInv
<1>5. k \in open => Head(todo[c]) = "transaction"
  BY <1>1 DEF PoolInv
<1>6. open' = (open \ {k}) \cup Begins(k)
  BY <1>1, <1>5
<1>7. fate \in Fates
  BY <1>2 DEF Fates
<1>8. /\ todo' \in [Calls -> Todos] /\ audit' \in [Calls -> Fates]
      /\ \A d \in Calls \ {c} : todo'[d] = todo[d] /\ audit'[d] = audit[d]
      /\ audit'[c] = IF Head(todo[c]) = "audit" THEN fate ELSE audit[c]
  BY <1>2, <1>4, <1>7, ProceedKeeps
<1>9. audit'[c] = audit[c] \/ audit'[c] \in {"written", "failed"}
  BY <1>2, <1>5, <1>8
<1> QED
  BY <1>1, <1>3, <1>4, <1>6, <1>8, <1>9

LEMMA CompleteKeeps ==
  ASSUME TypeOK, PoolInv, NEW c \in Calls, NEW k \in Clients, NEW outcome, Complete(c, k, outcome)
  PROVE  TypeOK' /\ PoolInv' /\ Running' = Running
<1>1. /\ pc[c] = "holding" /\ owner[k] = c /\ k \in Held /\ HandOver(c, k) /\ todo[c] # <<>>
      /\ open' = (open \ {k}) \cup Begins(k)
      /\ todo' \in [Calls -> Todos] /\ audit' \in [Calls -> Fates]
      /\ \A d \in Calls \ {c} : todo'[d] = todo[d]
      /\ UNCHANGED <<server, http, flight, history>>
  BY CompleteParts
<1>2. /\ pc \in [Calls -> {"new", "ready", "queued", "holding", "answered"}]
      /\ owner \in [Clients -> Calls \cup {NoCall}] /\ open \subseteq Held /\ NoCall \notin Calls
  BY ServiceAssumption DEF TypeOK
<1>3. /\ pc'[c] = "ready" /\ queue' \in Seq(Calls)
      /\ \A j \in Clients \ {k} : owner'[j] = owner[j]
      /\ owner' \in [Clients -> Calls \cup {NoCall}]
      /\ pc' \in [Calls -> {"new", "ready", "queued", "holding", "answered"}]
  BY <1>1, HandOverMoves
<1>4. \A j \in Held \ {k} : owner[j] \in Calls \ {c} /\ pc[owner[j]] = "holding" /\ owner'[j] = owner[j]
  BY <1>1, <1>2, <1>3 DEF PoolInv, Held
<1>5. /\ \A i \in DOMAIN queue : pc[queue[i]] = "queued" /\ queue[i] \in Calls \ {c}
      /\ \A i, j \in DOMAIN queue : queue[i] = queue[j] => i = j
      /\ \A i, j \in Held : owner[i] = owner[j] => i = j
      /\ \A j \in open : Head(todo[owner[j]]) = "transaction"
      /\ \A d \in Calls : pc[d] \in {"queued", "holding"} => todo[d] # <<>>
  BY <1>1, Queued DEF PoolInv
<1>6. /\ open' \subseteq Held' /\ PoolInv'
      /\ \A d \in Calls : pc'[d] \in {"new", "answered"} \/ pc[d] \in {"new", "answered"} => pc'[d] = pc[d]
  <2>1. CASE /\ Held' = Held \ {k} /\ owner'[k] = NoCall /\ UNCHANGED queue
             /\ \A d \in Calls \ {c} : pc'[d] = pc[d]
    <3>1. Begins(k) = {}
      BY <2>1 DEF Begins
    <3>2. open' \subseteq Held'
      BY <1>1, <1>2, <2>1, <3>1
    <3>3. /\ \A d \in Calls : pc'[d] \in {"queued", "holding"} => todo'[d] # <<>>
          /\ \A i \in DOMAIN queue' : pc'[queue'[i]] = "queued"
          /\ \A i, j \in DOMAIN queue' : queue'[i] = queue'[j] => i = j
      BY <1>1, <1>3, <1>5, <2>1
    <3>4. /\ \A j \in Held' : pc'[owner'[j]] = "holding"
          /\ \A i, j \in Held' : owner'[i] = owner'[j] => i = j
      BY <1>4, <1>5, <2>1
    <3>5. \A j \in open' : Head(todo'[owner'[j]]) = "transaction"
      BY <1>1, <1>2, <1>4, <1>5, <3>1
    <3> QED
      BY <1>1, <1>3, <2>1, <3>2, <3>3, <3>4, <3>5 DEF PoolInv
  <2>2. ASSUME NEW w \in Calls \ {c},
               Held' = Held, owner'[k] = w, pc[w] = "queued", pc'[w] = "holding",
               \A d \in Calls \ {c, w} : pc'[d] = pc[d],
               \A i \in DOMAIN queue' : i + 1 \in DOMAIN queue /\ queue'[i] = queue[i + 1],
               queue[1] = w, 1 \in DOMAIN queue
        PROVE  /\ open' \subseteq Held' /\ PoolInv'
               /\ \A d \in Calls : pc'[d] \in {"new", "answered"} \/ pc[d] \in {"new", "answered"} => pc'[d] = pc[d]
    <3>1. Begins(k) = IF Head(todo[w]) = "transaction" THEN {k} ELSE {}
      BY <1>2, <2>2 DEF Begins
    <3>2. open' \subseteq Held'
      BY <1>1, <1>2, <2>2, <3>1
    <3>3. todo'[w] = todo[w] /\ todo[w] # <<>>
      BY <1>1, <1>5, <2>2
    <3>4. \A d \in Calls : pc'[d] \in {"queued", "holding"} => todo'[d] # <<>>
      BY <1>1, <1>3, <1>5, <2>2, <3>3
    <3>5. DOMAIN queue' \subseteq Nat \ {0} /\ DOMAIN queue \subseteq Nat
      <4>1. /\ Len(queue) \in Nat /\ DOMAIN queue = 1 .. Len(queue)
            /\ Len(queue') \in Nat /\ DOMAIN queue' = 1 .. Len(queue')
        BY <1>3, Queued, LenProperties
      <4> QED
        BY <4>1
    <3>6. \A i \in DOMAIN queue' : queue'[i] \in Calls \ {c, w} /\ pc'[queue'[i]] = "queued"
      <4> SUFFICES ASSUME NEW i \in DOMAIN queue' PROVE queue'[i] \in Calls \ {c, w} /\ pc'[queue'[i]] = "queued"
        OBVIOUS
      <4>1. i + 1 \in DOMAIN queue /\ i + 1 # 1 /\ queue'[i] = queue[i + 1]
        BY <2>2, <3>5
      <4>2. queue[i + 1] # queue[1]
        BY <1>5, <2>2, <4>1
      <4> QED
        BY <1>5, <2>2, <4>1, <4>2
    <3>7. \A i, j \in DOMAIN queue' : queue'[i] = queue'[j] => i = j
      <4> SUFFICES ASSUME NEW i \in DOMAIN queue', NEW j \in DOMAIN queue', queue'[i] = queue'[j] PROVE i = j
        OBVIOUS
      <4>1. i + 1 = j + 1
        BY <1>5, <2>2
      <4> QED
        BY <3>5, <4>1
    <3>8. \A j \in Held' : pc'[owner'[j]] = "holding"
      BY <1>4, <2>2
    <3>9. \A j \in Held \ {k} : owner'[j] # w
      BY <1>4, <2>2
    <3>10. \A i, j \in Held' : owner'[i] = owner'[j] => i = j
      BY <1>4, <1>5, <2>2, <3>9
    <3>11. \A j \in open' : Head(todo'[owner'[j]]) = "transaction"
      BY <1>1, <1>2, <1>4, <1>5, <2>2, <3>1, <3>3
    <3>12. PoolInv'
      BY <3>4, <3>6, <3>7, <3>8, <3>10, <3>11 DEF PoolInv
    <3> QED
      BY <1>1, <1>3, <2>2, <3>2, <3>12
  <2> QED
    BY <1>1, <2>1, <2>2, HandOverMoves
<1>7. TypeOK' /\ Running' = Running
  BY <1>1, <1>2, <1>3, <1>6, StillRunning
<1> QED
  BY <1>6, <1>7

-----------------------------------------------------------------------------
\* A handler that asks while every client is out has one call more in flight
\* than there are clients: each client is out to a call of its own.
LEMMA AllOutMeansOverload ==
  ASSUME TypeOK, PoolInv, LoadInv, NEW c \in Calls, pc[c] = "ready", Held = Clients
  PROVE  overload
<1> SUFFICES ASSUME ~overload PROVE FALSE
  OBVIOUS
<1> DEFINE Others == Running \ {c}
<1>1. IsFiniteSet(Running) /\ c \in Running /\ IsFiniteSet(Clients) /\ Cardinality(Clients) \in Nat
  BY RunningFinite, ServiceAssumption, FS_CardinalityType DEF Running
<1>2. IsFiniteSet(Others) /\ Cardinality(Others) = Cardinality(Running) - 1
  BY <1>1, FS_RemoveElement
<1>3. Cardinality(Running) \in Nat /\ Cardinality(Running) <= Cardinality(Clients)
  BY RunningFinite DEF LoadInv, TypeOK
<1>4. Cardinality(Others) < Cardinality(Clients)
  BY <1>1, <1>2, <1>3
<1>5. owner \in [Clients -> Others]
  <2>1. owner \in [Clients -> Calls \cup {NoCall}]
    BY DEF TypeOK
  <2>2. \A k \in Clients : owner[k] # NoCall /\ pc[owner[k]] = "holding"
    BY DEF Held, PoolInv
  <2>3. \A k \in Clients : owner[k] \in Others
    BY <2>1, <2>2 DEF Running
  <2> QED
    BY <2>1, <2>3
<1> HIDE DEF Others
<1>6. \E j, k \in Clients : j # k /\ owner[j] = owner[k]
  BY <1>1, <1>2, <1>4, <1>5, FS_PigeonHole
<1> QED
  BY <1>6 DEF PoolInv

\* A client that waits has a connection of its own, and none once all are closed.
LEMMA ClientsWait ==
  ASSUME TypeOK, DrainInv
  PROVE  /\ \A d \in Calls : reply[d] = NoConn \/ (reply[d] \in Conns /\ conn[reply[d]] = "waiting")
         /\ \A d, e \in Calls : reply[d] = reply[e] => d = e \/ reply[d] = NoConn
         /\ server \in {"ending", "exit 0"} => \A d \in Calls : reply[d] = NoConn
<1>1. reply \in [Calls -> Conns \cup {NoConn}]
  BY DEF TypeOK
<1>2. \A d \in Calls : reply[d] # NoConn => conn[reply[d]] = "waiting"
  BY DEF DrainInv
<1>3. \A d, e \in Calls : reply[d] = reply[e] /\ reply[d] # NoConn => d = e
  BY DEF DrainInv
<1>4. server \in {"ending", "exit 0"} => \A k \in Conns : conn[k] = "closed"
  BY DEF DrainInv
<1> QED
  BY <1>1, <1>2, <1>3, <1>4

\* Steps between a call's arrival and its answer.
Inside ==
  \/ \E c \in Calls : Ask(c) \/ TimeOut(c)
  \/ \E c \in Calls, k \in Clients, outcome \in {"ok", "failed", "broken"} : Complete(c, k, outcome)

\* What such a step does to the calls: it goes on with one that is running.
LEMMA InsideParts ==
  ASSUME TypeOK, PoolInv, LoadInv, Inside
  PROVE  /\ TypeOK' /\ PoolInv' /\ Running' = Running
         /\ UNCHANGED <<server, http, flight, history>>
         /\ \A d \in Calls : pc'[d] = "new" => pc[d] = "new" /\ audit'[d] = audit[d]
         /\ \A d \in Calls : pc'[d] = "queued" => pc[d] = "queued" \/ overload
         /\ \A d \in Calls : \/ audit'[d] = audit[d]
                             \/ audit'[d] \in {"written", "failed"}
                             \/ audit'[d] = "ended" /\ server = "ending" /\ d \in Running
                             \/ audit'[d] = "timed out" /\ pc[d] = "queued"
<1>0. pc \in [Calls -> {"new", "ready", "queued", "holding", "answered"}]
  BY DEF TypeOK
<1>1. ASSUME NEW c \in Calls, Ask(c)
      PROVE  /\ UNCHANGED <<server, http, flight, history>>
             /\ \A d \in Calls : pc'[d] = "new" => pc[d] = "new" /\ audit'[d] = audit[d]
             /\ \A d \in Calls : pc'[d] = "queued" => pc[d] = "queued" \/ overload
             /\ \A d \in Calls : \/ audit'[d] = audit[d]
                                 \/ audit'[d] = "ended" /\ server = "ending" /\ d \in Running
  <2>1. /\ pc[c] = "ready" /\ c \in Running /\ todo[c] # <<>>
        /\ UNCHANGED <<server, http, flight, history>>
    BY <1>1 DEF Ask, Running
  <2>2. CASE server = "ending"
    <3>1. Proceed(c, FALSE, "ended") /\ UNCHANGED pc /\ "ended" \in Fates
      BY <1>1, <2>2 DEF Ask, Fates
    <3> QED
      BY <2>1, <2>2, <3>1, ProceedKeeps
  <2>3. CASE server # "ending" /\ Held # Clients
    <3>1. UNCHANGED audit /\ pc' = [pc EXCEPT ![c] = "holding"]
      BY <1>1, <2>3 DEF Ask, Grant
    <3> QED
      BY <1>0, <2>1, <3>1
  <2>4. CASE server # "ending" /\ Held = Clients
    <3>1. UNCHANGED audit /\ pc' = [pc EXCEPT ![c] = "queued"]
      BY <1>1, <2>4 DEF Ask
    <3>2. overload
      BY <2>1, <2>4, AllOutMeansOverload
    <3> QED
      BY <1>0, <2>1, <3>1, <3>2
  <2> QED
    BY <2>2, <2>3, <2>4
<1>2. ASSUME NEW c \in Calls, TimeOut(c)
      PROVE  /\ UNCHANGED <<server, http, flight, history>>
             /\ \A d \in Calls : pc'[d] = "new" => pc[d] = "new" /\ audit'[d] = audit[d]
             /\ \A d \in Calls : pc'[d] = "queued" => pc[d] = "queued"
             /\ \A d \in Calls : audit'[d] = audit[d] \/ (audit'[d] = "timed out" /\ pc[d] = "queued")
  <2>1. /\ pc[c] = "queued" /\ pc' = [pc EXCEPT ![c] = "ready"]
        /\ Proceed(c, FALSE, "timed out") /\ "timed out" \in Fates
        /\ UNCHANGED <<server, http, flight, history>>
    BY <1>2 DEF TimeOut, Fates
  <2>2. todo[c] # <<>>
    BY <2>1 DEF PoolInv
  <2>3. /\ \A d \in Calls \ {c} : audit'[d] = audit[d]
        /\ audit'[c] = audit[c] \/ audit'[c] = "timed out"
    BY <2>1, <2>2, ProceedKeeps
  <2>4. \A d \in Calls : pc'[d] = IF d = c THEN "ready" ELSE pc[d]
    BY <1>0, <2>1
  <2>5. \A d \in Calls : pc'[d] = "new" => pc[d] = "new" /\ audit'[d] = audit[d]
    BY <2>3, <2>4
  <2>6. \A d \in Calls : pc'[d] = "queued" => pc[d] = "queued"
    BY <2>4
  <2>7. \A d \in Calls : audit'[d] = audit[d] \/ (audit'[d] = "timed out" /\ pc[d] = "queued")
    BY <2>1, <2>3
  <2> QED
    BY <2>1, <2>5, <2>6, <2>7
<1>3. ASSUME NEW c \in Calls, NEW k \in Clients, NEW outcome \in {"ok", "failed", "broken"},
             Complete(c, k, outcome)
      PROVE  /\ UNCHANGED <<server, http, flight, history>>
             /\ \A d \in Calls : pc'[d] = "new" => pc[d] = "new" /\ audit'[d] = audit[d]
             /\ \A d \in Calls : pc'[d] = "queued" => pc[d] = "queued"
             /\ \A d \in Calls : audit'[d] = audit[d] \/ audit'[d] \in {"written", "failed"}
  <2>1. /\ pc[c] = "holding" /\ owner[k] = c /\ HandOver(c, k)
        /\ \A d \in Calls \ {c} : audit'[d] = audit[d]
        /\ audit'[c] = audit[c] \/ audit'[c] \in {"written", "failed"}
        /\ UNCHANGED <<server, http, flight, history>>
    BY <1>3, CompleteParts
  <2>2. pc'[c] = "ready" /\ \A d \in Calls \ {c} : pc'[d] = pc[d] \/ pc'[d] = "holding"
    BY <2>1, HandOverMoves
  <2> QED
    BY <2>1, <2>2
<1>4. TypeOK' /\ PoolInv' /\ Running' = Running
  BY AskKeeps, TimeOutKeeps, CompleteKeeps DEF Inside
<1> QED
  BY <1>1, <1>2, <1>3, <1>4 DEF Inside

LEMMA InsideKeeps ==
  ASSUME ServiceInv, Inside
  PROVE  ServiceInv'
<1> USE DEF ServiceInv
<1>1. /\ TypeOK' /\ PoolInv' /\ Running' = Running
      /\ UNCHANGED <<server, http, flight, history>>
      /\ \A d \in Calls : pc'[d] = "new" => pc[d] = "new" /\ audit'[d] = audit[d]
      /\ \A d \in Calls : pc'[d] = "queued" => pc[d] = "queued" \/ overload
      /\ \A d \in Calls : \/ audit'[d] = audit[d]
                          \/ audit'[d] \in {"written", "failed"}
                          \/ audit'[d] = "ended" /\ server = "ending" /\ d \in Running
                          \/ audit'[d] = "timed out" /\ pc[d] = "queued"
  BY InsideParts
<1>2. UNCHANGED <<conn, reply, inFlightCalls, drain, late, overload>>
  BY <1>1 DEF http, flight, history
<1>3. LoadInv' /\ TimeoutMeansOverload' /\ NoAuditStranded'
  BY <1>1, <1>2 DEF LoadInv, TimeoutMeansOverload, NoAuditStranded
<1>4. \A d \in Calls : audit'[d] = "ended" => LateOrphan(d)
  <2> SUFFICES ASSUME NEW d \in Calls, audit'[d] = "ended" PROVE LateOrphan(d)
    OBVIOUS
  <2>1. CASE audit[d] = "ended"
    BY <2>1 DEF DrainInv
  <2>2. CASE server = "ending" /\ d \in Running
    <3>1. d \in late /\ \A k \in Conns : conn[k] = "closed"
      BY <2>2 DEF DrainInv
    <3>2. reply[d] # NoConn => conn[reply[d]] = "waiting"
      BY DEF DrainInv
    <3>3. reply[d] # NoConn => reply[d] \in Conns
      BY DEF TypeOK
    <3> QED
      BY <3>1, <3>2, <3>3 DEF LateOrphan
  <2> QED
    BY <1>1, <2>1, <2>2
<1>5. /\ \A d \in Calls : audit'[d] = "ended" => LateOrphan(d)'
      /\ \A d \in Calls : pc'[d] = "new" => audit'[d] = "none"
  BY <1>1, <1>2, <1>4 DEF DrainInv, LateOrphan
<1>6. /\ drain' = "settled" => Running' \subseteq late'
      /\ \A d \in Calls : reply'[d] # NoConn => conn'[reply'[d]] = "waiting"
      /\ \A d, e \in Calls : reply'[d] = reply'[e] /\ reply'[d] # NoConn => d = e
      /\ server' \in {"ending", "exit 0"} =>
           drain' = "settled" /\ \A k \in Conns : conn'[k] = "closed"
  <2>1. drain = "settled" => Running \subseteq late
    BY DEF DrainInv
  <2>2. \A d \in Calls : reply[d] # NoConn => conn[reply[d]] = "waiting"
    BY DEF DrainInv
  <2>3. \A d, e \in Calls : reply[d] = reply[e] /\ reply[d] # NoConn => d = e
    BY DEF DrainInv
  <2>4. server \in {"ending", "exit 0"} => drain = "settled" /\ \A k \in Conns : conn[k] = "closed"
    BY DEF DrainInv
  <2>5. UNCHANGED <<server, conn, reply, drain, late>> /\ Running' = Running
    BY <1>1, <1>2
  <2> QED
    BY <2>1, <2>2, <2>3, <2>4, <2>5
<1>7. DrainInv'
  BY <1>5, <1>6 DEF DrainInv
<1> QED
  BY <1>1, <1>3, <1>7

-----------------------------------------------------------------------------
LEMMA DispatchKeepsAll ==
  ASSUME ServiceInv, NEW k \in Conns, NEW c \in Calls, Dispatch(k, c)
  PROVE  ServiceInv'
<1> USE DEF ServiceInv
<1>1. TypeOK' /\ PoolInv'
  BY DispatchKeeps
<1>2. /\ pc[c] = "new" /\ pc' = [pc EXCEPT ![c] = "ready"]
      /\ conn[k] = "sending" /\ conn' = [conn EXCEPT ![k] = "waiting"]
      /\ reply' = [reply EXCEPT ![c] = k]
      /\ late' = (IF drain = "settled" THEN late \cup {c} ELSE late)
      /\ overload' = (overload \/ inFlightCalls' > Cardinality(Clients))
      /\ UNCHANGED <<server, drain, audit>>
  BY DEF Dispatch
<1>3. /\ pc \in [Calls -> {"new", "ready", "queued", "holding", "answered"}]
      /\ conn \in [Conns -> {"closed", "idle", "sending", "waiting"}]
      /\ reply \in [Calls -> Conns \cup {NoConn}] /\ NoConn \notin Conns
  BY ServiceAssumption DEF TypeOK
<1>4. LoadInv' /\ TimeoutMeansOverload' /\ NoAuditStranded'
  <2>1. inFlightCalls' \in Nat /\ Cardinality(Clients) \in Nat
    BY <1>1, ServiceAssumption, FS_CardinalityType DEF TypeOK
  <2>2. overload' \/ inFlightCalls' <= Cardinality(Clients)
    <3>1. ~(inFlightCalls' > Cardinality(Clients)) => inFlightCalls' <= Cardinality(Clients)
      BY <2>1
    <3> QED
      BY <1>2, <3>1, Zenon
  <2>3. /\ overload => overload'
        /\ \A d \in Calls : pc'[d] = "queued" => pc[d] = "queued"
    BY <1>2, <1>3
  <2> QED
    BY <1>2, <2>2, <2>3 DEF LoadInv, TimeoutMeansOverload, NoAuditStranded
<1>5. drain' = "settled" => Running' \subseteq late'
  <2>1. Running' = Running \cup {c}
    BY <1>2, <1>3 DEF Running
  <2> QED
    BY <1>2, <2>1 DEF DrainInv
<1>6. \A d \in Calls : reply[d] # k
  BY <1>2, <1>3 DEF DrainInv
<1>7. \A d \in Calls : reply'[d] = IF d = c THEN k ELSE reply[d]
  BY <1>2, <1>3
<1>8. /\ \A d \in Calls : reply'[d] # NoConn => conn'[reply'[d]] = "waiting"
      /\ \A d, e \in Calls : reply'[d] = reply'[e] /\ reply'[d] # NoConn => d = e
  BY <1>2, <1>3, <1>6, <1>7 DEF DrainInv
<1>9. server' \notin {"ending", "exit 0"}
  BY <1>2, <1>3 DEF DrainInv
<1>10. \A d \in Calls : audit'[d] = "ended" => LateOrphan(d)'
  BY <1>2, <1>7 DEF DrainInv, LateOrphan
<1>11. \A d \in Calls : pc'[d] = "new" => audit'[d] = "none"
  BY <1>2, <1>3 DEF DrainInv
<1> QED
  BY <1>1, <1>4, <1>5, <1>8, <1>9, <1>10, <1>11 DEF DrainInv

LEMMA FinishKeepsAll ==
  ASSUME ServiceInv, NEW c \in Calls, Finish(c)
  PROVE  ServiceInv'
<1> USE DEF ServiceInv
<1>1. TypeOK' /\ PoolInv'
  BY FinishKeeps
<1>2. /\ pc[c] = "ready" /\ pc' = [pc EXCEPT ![c] = "answered"]
      /\ inFlightCalls' = inFlightCalls - 1
      /\ drain' = (IF inFlightCalls = 1 /\ drain = "pending" THEN "settled" ELSE drain)
      /\ conn' = [k \in Conns |-> IF reply[c] = k THEN "idle" ELSE conn[k]]
      /\ reply' = [reply EXCEPT ![c] = NoConn]
      /\ UNCHANGED <<server, audit, late, overload>>
  BY DEF Finish, history
<1>3. /\ pc \in [Calls -> {"new", "ready", "queued", "holding", "answered"}]
      /\ reply \in [Calls -> Conns \cup {NoConn}] /\ NoConn \notin Conns
      /\ inFlightCalls \in Nat /\ inFlightCalls = Cardinality(Running)
  BY ServiceAssumption DEF TypeOK
<1>4. LoadInv' /\ TimeoutMeansOverload' /\ NoAuditStranded'
  <2>1. overload' \/ inFlightCalls' <= Cardinality(Clients)
    <3>1. Cardinality(Clients) \in Nat
      BY ServiceAssumption, FS_CardinalityType
    <3> QED
      BY <1>2, <1>3, <3>1 DEF LoadInv
  <2>2. \A d \in Calls : pc'[d] = "queued" => pc[d] = "queued"
    BY <1>2, <1>3
  <2> QED
    BY <1>2, <2>1, <2>2 DEF LoadInv, TimeoutMeansOverload, NoAuditStranded
<1>5. drain' = "settled" => Running' \subseteq late'
  <2>1. c \in Running /\ Running' = Running \ {c}
    BY <1>2, <1>3 DEF Running
  <2>2. CASE drain = "settled"
    BY <1>2, <2>1, <2>2 DEF DrainInv
  <2>3. CASE inFlightCalls = 1
    BY <1>3, <2>1, <2>3, CounterReadsOne
  <2> QED
    BY <1>2, <2>2, <2>3
<1>6. \A d \in Calls : reply'[d] = IF d = c THEN NoConn ELSE reply[d]
  BY <1>2, <1>3
<1>7. \A d, e \in Calls : reply'[d] = reply'[e] /\ reply'[d] # NoConn => d = e
  BY <1>6, ClientsWait
<1>8. ASSUME NEW d \in Calls, reply'[d] # NoConn PROVE conn'[reply'[d]] = "waiting"
  <2>1. d # c /\ reply'[d] = reply[d] /\ reply[d] \in Conns /\ reply[d] # reply[c]
    BY <1>3, <1>6, <1>8, ClientsWait
  <2>2. conn'[reply[d]] = conn[reply[d]]
    BY <1>2, <2>1
  <2>3. conn[reply[d]] = "waiting"
    BY <1>3, <2>1, ClientsWait
  <2> QED
    BY <2>1, <2>2, <2>3
<1>9. server' \in {"ending", "exit 0"} => drain' = "settled" /\ \A k \in Conns : conn'[k] = "closed"
  <2> SUFFICES ASSUME server \in {"ending", "exit 0"}
               PROVE  drain' = "settled" /\ \A k \in Conns : conn'[k] = "closed"
    BY <1>2
  <2>1. drain = "settled" /\ \A k \in Conns : conn[k] = "closed"
    BY DEF DrainInv
  <2>2. reply[c] = NoConn
    BY ClientsWait
  <2> QED
    BY <1>2, <1>3, <2>1, <2>2
<1>10. \A d \in Calls : audit'[d] = "ended" => LateOrphan(d)'
  BY <1>2, <1>6 DEF DrainInv, LateOrphan
<1>11. \A d \in Calls : pc'[d] = "new" => audit'[d] = "none"
  BY <1>2, <1>3 DEF DrainInv
<1> QED
  BY <1>1, <1>4, <1>5, <1>7, <1>8, <1>9, <1>10, <1>11 DEF DrainInv

\* The steps outside the handlers: what they do to connections and drain.
LEMMA OutsideDrains ==
  ASSUME ServiceInv, Outside, UNCHANGED <<inFlightCalls, pc, todo, pool, audit, history>>
  PROVE  /\ drain' = drain \/ (drain' = DrainAtSignal /\ server' = "draining")
         /\ \A d \in Calls : reply'[d] = NoConn \/ (reply'[d] = reply[d] /\ conn'[reply[d]] = "waiting")
         /\ server' \in {"ending", "exit 0"} =>
              drain' = "settled" /\ \A k \in Conns : conn'[k] = "closed"
<1> USE DEF ServiceInv
<1>1. /\ conn \in [Conns -> {"closed", "idle", "sending", "waiting"}]
      /\ reply \in [Calls -> Conns \cup {NoConn}] /\ NoConn \notin Conns
  BY ServiceAssumption DEF TypeOK
<1>2. /\ \A d \in Calls : reply[d] = NoConn \/ (reply[d] \in Conns /\ conn[reply[d]] = "waiting")
      /\ \A d, e \in Calls : reply[d] = reply[e] => d = e \/ reply[d] = NoConn
  BY ClientsWait
<1>3. server \in {"ending", "exit 0"} => drain = "settled" /\ \A k \in Conns : conn[k] = "closed"
  BY DEF DrainInv
<1>4. CASE \E k \in Conns : Send(k) \/ AnswerDirectly(k)
  <2>1. PICK k \in Conns : Send(k) \/ AnswerDirectly(k)
    BY <1>4
  <2>2. /\ conn[k] # "waiting" /\ UNCHANGED <<server, drain, reply>>
        /\ \A j \in Conns \ {k} : conn'[j] = conn[j]
        /\ conn[k] = "closed" => server = "up"
    BY <1>1, <2>1 DEF Send, AnswerDirectly, flight
  <2>3. \A d \in Calls : reply[d] # k
    BY <1>1, <1>2, <2>2
  <2>4. server \notin {"ending", "exit 0"}
    BY <1>3, <2>2
  <2> QED
    BY <1>2, <2>2, <2>3, <2>4
<1>5. CASE \E k \in Conns : Disconnect(k)
  <2>1. PICK k \in Conns : Disconnect(k)
    BY <1>5
  <2>2. /\ UNCHANGED <<server, drain>> /\ conn' = [conn EXCEPT ![k] = "closed"]
        /\ reply' = [d \in Calls |-> IF reply[d] = k THEN NoConn ELSE reply[d]]
    BY <2>1 DEF Disconnect, flight
  <2>3. \A j \in Conns : conn'[j] = IF j = k THEN "closed" ELSE conn[j]
    BY <1>1, <2>2
  <2> QED
    BY <1>2, <1>3, <2>2, <2>3
<1>6. CASE Signal
  <2>1. /\ server' = "draining" /\ drain' = DrainAtSignal /\ UNCHANGED reply
        /\ conn' = [k \in Conns |-> IF conn[k] = "idle" THEN "closed" ELSE conn[k]]
    BY <1>6 DEF Signal
  <2> QED
    BY <1>2, <2>1
<1>7. CASE SecondSignal \/ ForceTimer \/ EndPool \/ ExitOrderly \/ UNCHANGED vars
  <2>1. UNCHANGED <<conn, reply, drain>>
    BY <1>7 DEF SecondSignal, ForceTimer, EndPool, ExitOrderly, vars, http, flight
  <2>2. server' \in {"ending", "exit 0"} => drain = "settled" /\ \A k \in Conns : conn[k] = "closed"
    BY <1>3, <1>7 DEF SecondSignal, ForceTimer, EndPool, ExitOrderly, vars
  <2> QED
    BY <1>2, <2>1, <2>2
<1> QED
  BY <1>4, <1>5, <1>6, <1>7 DEF Outside

LEMMA OutsideKeepsAll ==
  ASSUME ServiceInv, Outside
  PROVE  ServiceInv'
<1> USE DEF ServiceInv
<1>1. UNCHANGED <<inFlightCalls, pc, todo, pool, audit, history>> /\ TypeOK' /\ PoolInv'
  BY OutsideKeeps
<1>2. UNCHANGED <<late, overload>> /\ Running' = Running
  BY <1>1 DEF history, Running
<1>3. LoadInv' /\ TimeoutMeansOverload' /\ NoAuditStranded'
  BY <1>1, <1>2 DEF LoadInv, TimeoutMeansOverload, NoAuditStranded
<1>4. /\ drain' = drain \/ (drain' = DrainAtSignal /\ server' = "draining")
      /\ \A d \in Calls : reply'[d] = NoConn \/ (reply'[d] = reply[d] /\ conn'[reply[d]] = "waiting")
      /\ server' \in {"ending", "exit 0"} =>
           drain' = "settled" /\ \A k \in Conns : conn'[k] = "closed"
  BY <1>1, OutsideDrains
<1>5. drain' = "settled" => Running \subseteq late
  <2>1. drain = "settled" => Running \subseteq late
    BY DEF DrainInv
  <2>2. DrainAtSignal = "settled" => Running = {}
    BY CounterReadsZero DEF DrainAtSignal, TypeOK
  <2> QED
    BY <1>4, <2>1, <2>2
<1>6. \A d, e \in Calls : reply'[d] = reply'[e] /\ reply'[d] # NoConn => d = e
  BY <1>4, ClientsWait
<1>7. \A d \in Calls : reply'[d] # NoConn => conn'[reply'[d]] = "waiting"
  BY <1>4
<1>8. /\ \A d \in Calls : pc'[d] = "new" => audit'[d] = "none"
      /\ \A d \in Calls : audit'[d] = "ended" => LateOrphan(d)'
  <2>1. /\ \A d \in Calls : pc[d] = "new" => audit[d] = "none"
        /\ \A d \in Calls : audit[d] = "ended" => d \in late /\ reply[d] = NoConn
    BY DEF DrainInv, LateOrphan
  <2>2. \A d \in Calls : reply[d] = NoConn => reply'[d] = NoConn
    BY <1>4
  <2> QED
    BY <1>1, <1>2, <2>1, <2>2 DEF LateOrphan
<1>9. DrainInv'
  BY <1>2, <1>4, <1>5, <1>6, <1>7, <1>8 DEF DrainInv
<1> QED
  BY <1>1, <1>3, <1>9

\* ServiceInv is inductive.
LEMMA StepKeeps == ServiceInv /\ [Next]_vars => ServiceInv'
<1> SUFFICES ASSUME ServiceInv, [Next]_vars PROVE ServiceInv'
  OBVIOUS
<1>1. \/ Outside \/ Inside
      \/ \E k \in Conns, c \in Calls : Dispatch(k, c)
      \/ \E c \in Calls : Finish(c)
  BY DEF Next, Outside, Inside, Answered
<1> QED
  BY <1>1, OutsideKeepsAll, InsideKeeps, DispatchKeepsAll, FinishKeepsAll

LEMMA ServiceInvariant == Spec => []ServiceInv
BY InitEstablishes, StepKeeps, PTL DEF Spec

-----------------------------------------------------------------------------
\* The counter of calls in flight is the number of handlers between their first
\* step and their last, and the pool, its clients and its queue are well formed.
THEOREM ServiceTyped == Spec => []TypeOK
<1>1. ServiceInv => TypeOK
  BY DEF ServiceInv
<1> QED
  BY <1>1, ServiceInvariant, PTL

\* Once the pool is ended, the audit rows of the calls the drain waited for are
\* behind it, whatever the number of calls and of clients and however their
\* queries fail or time out.
THEOREM DrainFlushes == Spec => []DrainFlushesAudits
<1>1. ServiceInv => DrainFlushesAudits
  <2> SUFFICES ASSUME ServiceInv, server \in {"ending", "exit 0"},
                      NEW c \in Calls, c \in Running \/ audit[c] = "ended"
               PROVE  LateOrphan(c)
    BY DEF DrainFlushesAudits
  <2> USE DEF ServiceInv
  <2>1. CASE audit[c] = "ended"
    BY <2>1 DEF DrainInv
  <2>2. CASE c \in Running
    <3>1. c \in late
      BY <2>2 DEF DrainInv
    <3> QED
      BY <3>1, ClientsWait DEF LateOrphan
  <2> QED
    BY <2>1, <2>2
<1> QED
  BY <1>1, ServiceInvariant, PTL

\* An audit row is lost to the pool's queue only under more calls than clients.
THEOREM TimeoutsMeanOverload == Spec => []TimeoutMeansOverload
<1>1. ServiceInv => TimeoutMeansOverload
  BY DEF ServiceInv
<1> QED
  BY <1>1, ServiceInvariant, PTL

\* No pooled client carries one call's open transaction to another's audit row.
THEOREM NoRowStranded == Spec => []NoAuditStranded
<1>1. ServiceInv => NoAuditStranded
  BY DEF ServiceInv
<1> QED
  BY <1>1, ServiceInvariant, PTL
=============================================================================
