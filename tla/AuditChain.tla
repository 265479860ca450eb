----------------------------- MODULE AuditChain -----------------------------
(***************************************************************************)
(* The tamper-evident audit log under concurrent writers.                  *)
(*                                                                         *)
(* Every governed action inserts one row into gif.audit_events             *)
(* (enforcement.ts, _logAuditEvent).  The BEFORE INSERT trigger            *)
(* gif.compute_audit_event_hash (migration 016) links the row to the       *)
(* newest row of its month: it locks the month's row of                    *)
(* gif.audit_chain_locks, re-stamps the event, reads the chain tail,       *)
(* floors the stamp above the tail and seals the row with a SHA-256        *)
(* digest.  The lock is held until the surrounding transaction ends.       *)
(*                                                                         *)
(* PostgreSQL is modelled at READ COMMITTED, statement by statement: a     *)
(* statement sees the committed rows and its own transaction's rows.       *)
(***************************************************************************)
EXTENDS AuditRows, FiniteSets

CONSTANTS
  Writers,       \* database sessions that insert audit rows
  EventIds,      \* the UUIDs gen_random_uuid() can draw, ordered as PostgreSQL orders them
  Instants,      \* timestamptz values, one microsecond apart
  Months,        \* the UTC month partitions of gif.audit_events
  MonthOf,       \* date_trunc('month', t) under the trigger's pinned UTC
  LastInstant,   \* a month's last microsecond: start + 1 month - 1 microsecond
  MilliOf,       \* to_char(t, '...SS.MS'): the millisecond the preimage carries
  ClockValues,   \* readings of clock_timestamp() the instance explores, in any order
  Supplied,      \* occurred_at values an operator's SQL supplies explicitly
  TxnRows,       \* bound: rows one transaction inserts (the emission layer: 1)
  Faults         \* failing steps the instance explores, of AllFaults

AllFaults == {"abort", "prev_read", "hash"}

ASSUME IdsAssumption == EventIds \subseteq Nat \ {0}

ASSUME CalendarAssumption ==
  /\ Instants \subseteq Nat
  /\ MonthOf \in [Instants -> Months]
  /\ LastInstant \in [Months -> Instants]
  /\ \A m \in Months : MonthOf[LastInstant[m]] = m
  /\ \A t \in Instants :
       /\ t <= LastInstant[MonthOf[t]]
       /\ t # LastInstant[MonthOf[t]] =>
            t + 1 \in Instants /\ MonthOf[t + 1] = MonthOf[t]

ASSUME InputsAssumption ==
  /\ ClockValues \subseteq Instants
  /\ ClockValues # {}
  /\ Supplied \subseteq Instants
  /\ TxnRows \in Nat \ {0}
  /\ Faults \subseteq AllFaults

VARIABLES
  rows,       \* committed rows of gif.audit_events
  lockRows,   \* months with a committed row in gif.audit_chain_locks
  newLock,    \* newLock[m]: who inserted m's lock row in a transaction still open
  holders,    \* holders[m]: who holds FOR UPDATE on m's lock row
  pend,       \* pend[w]: rows w's open transaction has inserted
  pc,         \* where w is: in no transaction, in the trigger, or in an open transaction
  job,        \* job[w]: the row w is inserting, as the trigger sees it
  tail,       \* tail[w]: result set of the trigger's LIMIT 1 tail query
  clock       \* clock_timestamp() and, at its start, a transaction's now()

vars == <<rows, lockRows, newLock, holders, pend, pc, job, tail, clock>>
tables == <<rows, lockRows>>

MonthRows(S, m) == {r \in S : MonthOf[r.occurred_at] = m}

Visible(w) == rows \cup pend[w]

IdleJob == [event_id |-> 0, occurred_at |-> 0, month |-> 0, now |-> 0]

InFlight == {w \in Writers : pc[w] # "idle"}

UsedIds == {r.event_id : r \in rows \cup UNION {pend[w] : w \in Writers}}
             \cup {job[w].event_id : w \in InFlight}

Init ==
  /\ rows = {}
  /\ lockRows = {}
  /\ newLock = [m \in Months |-> {}]
  /\ holders = [m \in Months |-> {}]
  /\ pend = [w \in Writers |-> {}]
  /\ pc = [w \in Writers |-> "idle"]
  /\ job = [w \in Writers |-> IdleJob]
  /\ tail = [w \in Writers |-> {}]
  /\ clock \in ClockValues

-----------------------------------------------------------------------------
(***************************************************************************)
(* The statement.  PostgreSQL evaluates the defaults (event_id,            *)
(* occurred_at = now(), the transaction's start) and routes the row to its *)
(* month's partition before the trigger runs; Step 1 derives the month.    *)
(***************************************************************************)
Insert(w, stamp, now) ==
  \E i \in EventIds \ UsedIds :
    /\ job' = [job EXCEPT ![w] = [event_id |-> i, occurred_at |-> stamp,
                                  month |-> MonthOf[stamp], now |-> now]]
    /\ pc' = [pc EXCEPT ![w] = "select"]
    /\ UNCHANGED <<tables, newLock, holders, pend, tail, clock>>

Begin(w) ==
  /\ pc[w] = "idle"
  /\ \E stamp \in {clock} \cup Supplied : Insert(w, stamp, clock)

\* An operator's backfill inserts several rows in one transaction.
InsertAgain(w) ==
  /\ pc[w] = "open"
  /\ Cardinality(pend[w]) < TxnRows
  /\ \E stamp \in {job[w].now} \cup Supplied : Insert(w, stamp, job[w].now)

-----------------------------------------------------------------------------
(***************************************************************************)
(* Step 1: SELECT ... FOR UPDATE on the month's lock row; when there is    *)
(* none, INSERT ... ON CONFLICT DO NOTHING and look again.                 *)
(***************************************************************************)
SeesLockRow(w, m) == m \in lockRows \/ w \in newLock[m]

\* The row lock makes a second writer of the month wait for the first one's transaction.
LockIgnored(w, m) == TRUE

LockFree(w, m) == holders[m] \subseteq {w}

SelectLock(w) ==
  LET m == job[w].month IN
    /\ pc[w] = "select"
    /\ \/ /\ SeesLockRow(w, m)
          /\ LockFree(w, m)
          /\ holders' = [holders EXCEPT ![m] = @ \cup {w}]
          /\ pc' = [pc EXCEPT ![w] = "restamp"]
       \/ /\ ~SeesLockRow(w, m)
          /\ pc' = [pc EXCEPT ![w] = "create"]
          /\ UNCHANGED holders
    /\ UNCHANGED <<tables, newLock, pend, job, tail, clock>>

\* The lock row of the month the clock is in, not of the month the row was routed to.
CreateLockOfNow(w) ==
  LET m == MonthOf[clock] IN
    /\ pc[w] = "create"
    /\ newLock[m] \subseteq {w}
    /\ newLock' = [newLock EXCEPT ![m] = IF m \in lockRows THEN {} ELSE {w}]
    /\ pc' = [pc EXCEPT ![w] = "select"]
    /\ UNCHANGED <<tables, holders, pend, job, tail, clock>>

\* Waits while another transaction's uncommitted row has the same key.
CreateLock(w) ==
  LET m == job[w].month IN
    /\ pc[w] = "create"
    /\ newLock[m] = {}
    /\ newLock' = IF m \in lockRows THEN newLock
                                    ELSE [newLock EXCEPT ![m] = {w}]
    /\ pc' = [pc EXCEPT ![w] = "select"]
    /\ UNCHANGED <<tables, holders, pend, job, tail, clock>>

(***************************************************************************)
(* Step 2: re-stamp under the lock, only while the clock is still inside   *)
(* the month the row was routed to.                                        *)
(***************************************************************************)
RestampedAlways(m, stamp) == clock

Restamped(m, stamp) == IF MonthOf[clock] = m THEN clock ELSE stamp

\* Re-stamping across a rollover, with the new month's lock taken as well.
RestampFollowsClock(w) ==
  /\ pc[w] = "restamp"
  /\ job' = [job EXCEPT ![w].occurred_at = clock, ![w].month = MonthOf[clock]]
  /\ pc' = [pc EXCEPT ![w] = IF MonthOf[clock] = job[w].month THEN "read" ELSE "select"]
  /\ UNCHANGED <<tables, newLock, holders, pend, tail, clock>>

Restamp(w) ==
  /\ pc[w] = "restamp"
  /\ job' = [job EXCEPT ![w].occurred_at = Restamped(job[w].month, @)]
  /\ pc' = [pc EXCEPT ![w] = "read"]
  /\ UNCHANGED <<tables, newLock, holders, pend, tail, clock>>

(***************************************************************************)
(* Step 3: the newest row of the month.  An error in this query is         *)
(* swallowed, and the row is then linked as the first of its month.        *)
(***************************************************************************)
IsTail(t, S) == t \in S /\ \A q \in S : q = t \/ Before(q, t)

TailQuery(S) == IF S = {} THEN {{}} ELSE {{t} : t \in {u \in S : IsTail(u, S)}}

ReadTail(w) ==
  /\ pc[w] = "read"
  /\ \E result \in TailQuery(MonthRows(Visible(w), job[w].month))
                     \cup (IF "prev_read" \in Faults THEN {{}} ELSE {}) :
       tail' = [tail EXCEPT ![w] = result]
  /\ pc' = [pc EXCEPT ![w] = "seal"]
  /\ UNCHANGED <<tables, newLock, holders, pend, job, clock>>

(***************************************************************************)
(* Steps 3a and 4: a row not after its tail is moved one microsecond past  *)
(* it, capped at the month's last microsecond; then the digest is computed *)
(* over the final stamp, and the row is in the table, uncommitted.  An     *)
(* event's payload is its own, so its event_id stands for it.  The alert   *)
(* raised by a large move is left out.                                     *)
(***************************************************************************)
FlooredStrictlyBelow(at, t, m) ==
  IF at < t.occurred_at
  THEN IF t.occurred_at < LastInstant[m] THEN t.occurred_at + 1 ELSE LastInstant[m]
  ELSE at

FlooredUncapped(at, t, m) == IF at <= t.occurred_at THEN t.occurred_at + 1 ELSE at

Floored(at, t, m) ==
  IF at <= t.occurred_at
  THEN IF t.occurred_at < LastInstant[m] THEN t.occurred_at + 1 ELSE LastInstant[m]
  ELSE at

Hashed(i, at, prev) ==
  {Digest(i, MilliOf[at], i, prev)} \cup (IF "hash" \in Faults THEN {HashError} ELSE {})

Store(w, at, prev) ==
  \E h \in Hashed(job[w].event_id, at, prev) :
    pend' = [pend EXCEPT ![w] =
               @ \cup {AuditRow(job[w].event_id, at, prev, Char64(h))}]

SealRow(w) ==
  /\ pc[w] = "seal"
  /\ \/ tail[w] = {} /\ Store(w, job[w].occurred_at, Null)
     \/ \E t \in tail[w] :
          Store(w, Floored(job[w].occurred_at, t, job[w].month), t.event_hash)
  /\ tail' = [tail EXCEPT ![w] = {}]
  /\ pc' = [pc EXCEPT ![w] = "open"]
  /\ UNCHANGED <<tables, newLock, holders, job, clock>>

-----------------------------------------------------------------------------
(***************************************************************************)
(* The transaction's end publishes or drops its rows and its lock rows,    *)
(* and releases its row locks.                                             *)
(***************************************************************************)
Release(w) ==
  /\ newLock' = [m \in Months |-> newLock[m] \ {w}]
  /\ holders' = [m \in Months |-> holders[m] \ {w}]
  /\ pend' = [pend EXCEPT ![w] = {}]
  /\ pc' = [pc EXCEPT ![w] = "idle"]
  /\ job' = [job EXCEPT ![w] = IdleJob]
  /\ tail' = [tail EXCEPT ![w] = {}]
  /\ UNCHANGED clock

Commit(w) ==
  /\ pc[w] = "open"
  /\ rows' = rows \cup pend[w]
  /\ lockRows' = lockRows \cup {m \in Months : w \in newLock[m]}
  /\ Release(w)

Rollback(w) == UNCHANGED tables /\ Release(w)

\* A query cancel, a lost connection or a crashed backend, at any point.
Abort(w) ==
  /\ "abort" \in Faults
  /\ pc[w] # "idle"
  /\ Rollback(w)

\* PostgreSQL aborts a transaction of a cycle of lock waits.
WaitsFor(w) ==
  CASE pc[w] = "select" /\ SeesLockRow(w, job[w].month) -> holders[job[w].month] \ {w}
    [] pc[w] = "create" -> newLock[job[w].month] \ {w}
    [] OTHER -> {}

DeadlockVictim(w) ==
  /\ \E S \in SUBSET InFlight : w \in S /\ UNION {WaitsFor(v) : v \in S} = S
                                        /\ \A v \in S : WaitsFor(v) # {}
  /\ Rollback(w)

\* The system clock advances, or is stepped back.
Tick ==
  /\ \E t \in ClockValues \ {clock} : clock' = t
  /\ UNCHANGED <<tables, newLock, holders, pend, pc, job, tail>>

Next ==
  \/ Tick
  \/ \E w \in Writers :
       \/ Begin(w)
       \/ InsertAgain(w)
       \/ SelectLock(w)
       \/ CreateLock(w)
       \/ Restamp(w)
       \/ ReadTail(w)
       \/ SealRow(w)
       \/ Commit(w)
       \/ Abort(w)
       \/ DeadlockVictim(w)

Spec == Init /\ [][Next]_vars

(***************************************************************************)
(* A backend runs its statement to the end and the client commits (an      *)
(* INSERT through pool.query commits by itself).  Waiters on a row or on a *)
(* key are served in turn, so a writer is not overtaken for ever: fairness *)
(* is strong, and for the steps that wait for nobody no more than weak.    *)
(***************************************************************************)
Proceed(w) ==
  \/ SelectLock(w)
  \/ CreateLock(w)
  \/ Restamp(w)
  \/ ReadTail(w)
  \/ SealRow(w)
  \/ Commit(w)
  \/ DeadlockVictim(w)

Fairness == \A w \in Writers : SF_vars(Proceed(w))

FairSpec == Spec /\ Fairness

-----------------------------------------------------------------------------
(***************************************************************************)
(* Properties.                                                             *)
(***************************************************************************)
Job == [event_id : EventIds, occurred_at : Instants, month : Months, now : Instants]

IsRow(r) ==
  /\ r = AuditRow(r.event_id, r.occurred_at, r.previous_hash, r.event_hash)
  /\ r.event_id \in EventIds
  /\ r.occurred_at \in Instants

AreRows(S) == \A r \in S : IsRow(r)

States == {"idle", "select", "create", "restamp", "read", "seal", "open"}

(* The type invariant: every stamp a writer settles on is an instant the   *)
(* calendar has, so the cap keeps the floor inside the month.              *)
TypeOK ==
  /\ AreRows(rows)
  /\ lockRows \subseteq Months
  /\ newLock \in [Months -> SUBSET Writers]
  /\ holders \in [Months -> SUBSET Writers]
  /\ DOMAIN pend = Writers /\ \A w \in Writers : AreRows(pend[w])
  /\ pc \in [Writers -> States]
  /\ job \in [Writers -> Job \cup {IdleJob}]
  /\ \A w \in InFlight : job[w] \in Job
  /\ DOMAIN tail = Writers /\ \A w \in Writers : AreRows(tail[w])
  /\ clock \in ClockValues

(* At most one transaction writes a month's chain at a time, and a row is  *)
(* only ever stored in the month whose lock its transaction holds: neither *)
(* the re-stamp nor the floor moves a row out of the partition it was      *)
(* routed to (which PostgreSQL would refuse, dropping the audit row).      *)
SerializedMonth ==
  /\ \A m \in Months : \A u, v \in holders[m] : u = v
  /\ \A w \in Writers : \A r \in pend[w] : w \in holders[MonthOf[r.occurred_at]]

Capped(r) == r.occurred_at = LastInstant[MonthOf[r.occurred_at]]

\* The accepted exception of migration 016: a pile-up in a month's last microsecond.
Crowded(T, r) == Capped(r) /\ \E q \in T : q # r /\ Capped(q)

Linked(T, r) ==
  LET earlier == {q \in T : q # r /\ Before(q, r)} IN
    \/ earlier = {} /\ r.previous_hash = Null
    \/ \E t \in earlier : IsTail(t, earlier) /\ r.previous_hash = t.event_hash

Chained(T) == \A r \in T : Crowded(T, r) \/ Linked(T, r)

(* Linkage order is sort order: in every month each committed row names    *)
(* the digest of the row just before it in (occurred_at, event_id) order,  *)
(* and the first row names none, whatever the interleaving of writers, the *)
(* aborts, the clock steps and the explicit stamps; the one exception is   *)
(* two rows on the month's last microsecond.                               *)
ChainOrder == \A m \in Months : Chained(MonthRows(rows, m))

(* The log only grows at its end: a commit never slips a row in front of a *)
(* row some reader, verifier or anchor has already seen in that month, and *)
(* never changes or removes one.                                           *)
AppendOnlyStep ==
  /\ rows \subseteq rows'
  /\ \A r \in rows' \ rows : \A q \in rows :
       MonthOf[q.occurred_at] = MonthOf[r.occurred_at] => Before(q, r) \/ Capped(r)

AppendOnly == [][AppendOnlyStep]_vars

(* Two rows of a month never continue the same row: a fork can only happen *)
(* on the month's last microsecond, or after a failure the trigger         *)
(* swallows (a row sealed as HASH_ERROR, a tail query that failed).        *)
ForksOnlyAtCap ==
  \A q, r \in rows :
    (/\ q # r
     /\ MonthOf[q.occurred_at] = MonthOf[r.occurred_at]
     /\ q.previous_hash = r.previous_hash
     /\ q.previous_hash \notin {Null, PaddedError}) => Capped(q) /\ Capped(r)

(* The emission layer writes one row per transaction, so its writers never *)
(* wait for each other in a cycle: no audit row is lost to a deadlock.     *)
NoDeadlock ==
  \A S \in SUBSET InFlight :
    S # {} => ~ \A w \in S : WaitsFor(w) # {} /\ WaitsFor(w) \subseteq S

(* No writer is stuck: an INSERT that has started ends, committed or       *)
(* aborted, although waiters block for ever by design (no lock_timeout)    *)
(* and multi-month transactions can deadlock.                              *)
WriterFinishes == \A w \in Writers : pc[w] # "idle" ~> pc[w] = "idle"
=============================================================================
