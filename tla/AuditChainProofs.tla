-------------------------- MODULE AuditChainProofs --------------------------
(***************************************************************************)
(* What the month locks are for, for every set of writers, calendar, clock *)
(* and transaction size: a month's chain has one writer at a time, linkage *)
(* order is sort order as long as the tail query does not fail, writers of *)
(* one row each do not deadlock, and no row is continued twice before the  *)
(* month's last microsecond, whatever fails.                               *)
(*                                                                         *)
(* The argument: the month lock makes a month's uncommitted rows the       *)
(* property of one transaction (LockInv).  What that transaction sees of   *)
(* the month is then all there is, so the tail it read is still the tail   *)
(* when it seals its row, and the floor puts the row behind it (ChainInv). *)
(* A row that an older row continues already is not the tail, unless both  *)
(* sit on the last microsecond (ForkInv).                                  *)
(*                                                                         *)
(* What follows for those who read the trail: seen through ChainLog, a     *)
(* commit appends one entry that names the entry before it, and every      *)
(* other step stutters (LogInv); and the verifier, whose verdict           *)
(* VerifierProofs gives row by row, raises no alarm that the order of its  *)
(* walk does not explain, and finds every altered row (TrailInv).          *)
(***************************************************************************)
EXTENDS AuditTrail, VerifierProofs, SequenceTheorems

(* The facts about locks and routing that TypeOK and SerializedMonth rest  *)
(* on: between the lock and the end of the trigger a writer holds its      *)
(* month's lock, its stamp stays in the month it was routed to, and so is  *)
(* the tail it read.                                                       *)
InTrigger == {"restamp", "read", "seal"}

LockInv ==
  /\ SerializedMonth
  /\ \A w \in Writers :
       /\ pc[w] \in InTrigger => w \in holders[job[w].month]
       /\ pc[w] # "idle" => MonthOf[job[w].occurred_at] = job[w].month
       /\ pc[w] # "seal" => tail[w] = {}
       /\ \A t \in tail[w] : MonthOf[t.occurred_at] = job[w].month

-----------------------------------------------------------------------------
(* The floor moves a stamp behind the tail, or onto the month's last       *)
(* microsecond, and never out of the month.                                *)
LEMMA FloorStaysInMonth ==
  ASSUME NEW m \in Months, NEW at \in Instants, MonthOf[at] = m,
         NEW t, IsRow(t), MonthOf[t.occurred_at] = m
  PROVE  /\ Floored(at, t, m) \in Instants
         /\ MonthOf[Floored(at, t, m)] = m
         /\ t.occurred_at < Floored(at, t, m) \/ Floored(at, t, m) = LastInstant[m]
<1>1. /\ t.occurred_at \in Instants
      /\ t.occurred_at \in Nat /\ at \in Nat
      /\ LastInstant[m] \in Instants /\ LastInstant[m] \in Nat
      /\ MonthOf[LastInstant[m]] = m
      /\ t.occurred_at # LastInstant[m] =>
           t.occurred_at + 1 \in Instants /\ MonthOf[t.occurred_at + 1] = m
  BY CalendarAssumption DEF IsRow
<1>2. CASE at <= t.occurred_at /\ t.occurred_at < LastInstant[m]
  BY <1>1, <1>2 DEF Floored
<1>3. CASE at <= t.occurred_at /\ ~(t.occurred_at < LastInstant[m])
  BY <1>1, <1>3 DEF Floored
<1>4. CASE ~(at <= t.occurred_at)
  BY <1>1, <1>4 DEF Floored
<1>5. QED
  BY <1>2, <1>3, <1>4

\* A row's hash is the digest of what the row holds, or a failure's sentinel.
Sealed(r) ==
  \/ r.event_hash = PaddedError /\ "hash" \in Faults
  \/ r.event_hash = Digest(r.event_id, MilliOf[r.occurred_at], r.event_id, r.previous_hash)

(* A stored row is well formed, and its hash is its own. *)
LEMMA StoredRow ==
  ASSUME NEW i \in EventIds, NEW at \in Instants, NEW prev, NEW h \in Hashed(i, at, prev)
  PROVE  /\ IsRow(AuditRow(i, at, prev, Char64(h)))
         /\ AuditRow(i, at, prev, Char64(h)).event_id = i
         /\ AuditRow(i, at, prev, Char64(h)).occurred_at = at
         /\ AuditRow(i, at, prev, Char64(h)).previous_hash = prev
         /\ Sealed(AuditRow(i, at, prev, Char64(h)))
<1> DEFINE r == AuditRow(i, at, prev, Char64(h))
<1>1. IsRow(r) /\ r.event_id = i /\ r.occurred_at = at /\ r.previous_hash = prev
  BY DEF IsRow, AuditRow
<1>2. r.event_hash = Char64(h)
  BY DEF AuditRow
<1> HIDE DEF r
<1>3. ASSUME h = HashError, "hash" \in Faults PROVE Sealed(r)
  <2>1. Char64(h) = PaddedError
    BY <1>3 DEF Char64
  <2>2. QED
    BY <1>2, <1>3, <2>1 DEF Sealed
<1>4. ASSUME h = Digest(i, MilliOf[at], i, prev) PROVE Sealed(r)
  <2>1. Char64(h) = h
    BY <1>4, DigestNames DEF Char64
  <2>2. QED
    BY <1>1, <1>2, <1>4, <2>1 DEF Sealed
<1>5. QED
  BY <1>1, <1>3, <1>4 DEF Hashed, r

LEMMA InitLockInv == Init => TypeOK /\ LockInv
BY DEF Init, TypeOK, LockInv, SerializedMonth, AreRows, InFlight, States, IdleJob, InTrigger

(* A statement starts: the month is derived from the stamp. *)
LEMMA InsertLockInv ==
  ASSUME TypeOK, LockInv, NEW w \in Writers, pc[w] \in {"idle", "open"},
         NEW stamp \in Instants, NEW now \in Instants, Insert(w, stamp, now)
  PROVE  TypeOK' /\ LockInv'
<1>1. PICK i \in EventIds :
        /\ job' = [job EXCEPT ![w] = [event_id |-> i, occurred_at |-> stamp,
                                      month |-> MonthOf[stamp], now |-> now]]
        /\ pc' = [pc EXCEPT ![w] = "select"]
        /\ UNCHANGED <<tables, newLock, holders, pend, tail, clock>>
  BY DEF Insert
<1>2. MonthOf[stamp] \in Months
  BY CalendarAssumption
<1>3. TypeOK'
  BY <1>1, <1>2 DEF TypeOK, InFlight, Job, States, tables
<1>4. LockInv'
  BY <1>1, <1>2 DEF TypeOK, LockInv, SerializedMonth, InTrigger, tables
<1>5. QED
  BY <1>3, <1>4

(* The end of a transaction, committed or not. *)
LEMMA ReleaseLockInv ==
  ASSUME TypeOK, LockInv, NEW w \in Writers, Release(w),
         AreRows(rows)', lockRows' \subseteq Months
  PROVE  TypeOK' /\ LockInv'
<1>1. TypeOK'
  BY DEF TypeOK, Release, AreRows, InFlight, States
<1>2. SerializedMonth'
  <2>1. ASSUME NEW v \in Writers, NEW r \in pend'[v]
        PROVE  v \in holders'[MonthOf[r.occurred_at]]
    <3>1. v # w /\ r \in pend[v]
      BY <2>1 DEF TypeOK, Release
    <3>2. MonthOf[r.occurred_at] \in Months
      BY <3>1, CalendarAssumption DEF TypeOK, AreRows, IsRow
    <3>3. QED
      BY <3>1, <3>2 DEF Release, LockInv, SerializedMonth
  <2>2. \A m \in Months : \A u, v \in holders'[m] : u = v
    BY DEF Release, LockInv, SerializedMonth
  <2>3. QED
    BY <2>1, <2>2 DEF SerializedMonth
<1>3. ASSUME NEW v \in Writers
      PROVE  /\ pc'[v] \in InTrigger => v \in holders'[job'[v].month]
             /\ pc'[v] # "idle" => MonthOf[job'[v].occurred_at] = job'[v].month
             /\ pc'[v] # "seal" => tail'[v] = {}
             /\ \A t \in tail'[v] : MonthOf[t.occurred_at] = job'[v].month
  <2>1. CASE v = w
    BY <2>1 DEF TypeOK, Release, InTrigger
  <2>2. CASE v # w
    <3>1. pc'[v] = pc[v] /\ job'[v] = job[v] /\ tail'[v] = tail[v]
      BY <2>2 DEF TypeOK, Release
    <3>2. pc[v] \in InTrigger => job[v].month \in Months
      BY DEF TypeOK, InTrigger, InFlight, Job
    <3>3. QED
      BY <2>2, <3>1, <3>2 DEF LockInv, Release
  <2>3. QED
    BY <2>1, <2>2
<1>4. QED
  BY <1>1, <1>2, <1>3 DEF LockInv

(* Steps 3a and 4 of the trigger. *)
LEMMA SealLockInv ==
  ASSUME TypeOK, LockInv, NEW w \in Writers, SealRow(w)
  PROVE  /\ TypeOK' /\ LockInv'
         /\ \E r :
              /\ IsRow(r) /\ MonthOf[r.occurred_at] = job[w].month
              /\ r.event_id = job[w].event_id /\ Sealed(r)
              /\ pend' = [pend EXCEPT ![w] = @ \cup {r}]
              /\ \/ tail[w] = {} /\ r.previous_hash = Null
                 \/ \E t \in tail[w] :
                      /\ r.previous_hash = t.event_hash
                      /\ t.occurred_at < r.occurred_at \/ Capped(r)
<1> DEFINE m == job[w].month
<1>1. /\ pc[w] = "seal" /\ w \in InFlight
      /\ job[w] \in Job /\ m \in Months
      /\ job[w].event_id \in EventIds /\ job[w].occurred_at \in Instants
      /\ MonthOf[job[w].occurred_at] = m
      /\ w \in holders[m]
  BY DEF SealRow, TypeOK, LockInv, InFlight, Job, InTrigger
<1>2. PICK r :
        /\ IsRow(r) /\ MonthOf[r.occurred_at] = m
        /\ r.event_id = job[w].event_id /\ Sealed(r)
        /\ pend' = [pend EXCEPT ![w] = @ \cup {r}]
        /\ \/ tail[w] = {} /\ r.previous_hash = Null
           \/ \E t \in tail[w] :
                /\ r.previous_hash = t.event_hash
                /\ t.occurred_at < r.occurred_at \/ Capped(r)
  <2>1. CASE tail[w] = {} /\ Store(w, job[w].occurred_at, Null)
    <3>1. PICK h \in Hashed(job[w].event_id, job[w].occurred_at, Null) :
            pend' = [pend EXCEPT ![w] = @ \cup
              {AuditRow(job[w].event_id, job[w].occurred_at, Null, Char64(h))}]
      BY <2>1 DEF Store
    <3> DEFINE r == AuditRow(job[w].event_id, job[w].occurred_at, Null, Char64(h))
    <3>2. /\ IsRow(r) /\ r.occurred_at = job[w].occurred_at /\ r.previous_hash = Null
          /\ r.event_id = job[w].event_id /\ Sealed(r)
      BY <1>1, StoredRow
    <3>3. pend' = [pend EXCEPT ![w] = @ \cup {r}]
      BY <3>1
    <3> HIDE DEF r
    <3>4. QED
      BY <1>1, <2>1, <3>2, <3>3
  <2>2. CASE \E t \in tail[w] :
               Store(w, Floored(job[w].occurred_at, t, m), t.event_hash)
    <3>1. PICK t \in tail[w] : Store(w, Floored(job[w].occurred_at, t, m), t.event_hash)
      BY <2>2
    <3> DEFINE at == Floored(job[w].occurred_at, t, m)
    <3>2. IsRow(t) /\ MonthOf[t.occurred_at] = m
      BY DEF TypeOK, AreRows, LockInv
    <3>3. /\ at \in Instants /\ MonthOf[at] = m
          /\ t.occurred_at < at \/ at = LastInstant[m]
      BY <1>1, <3>2, FloorStaysInMonth
    <3>4. PICK h \in Hashed(job[w].event_id, at, t.event_hash) :
            pend' = [pend EXCEPT ![w] = @ \cup
              {AuditRow(job[w].event_id, at, t.event_hash, Char64(h))}]
      BY <3>1 DEF Store
    <3> HIDE DEF at
    <3> DEFINE r == AuditRow(job[w].event_id, at, t.event_hash, Char64(h))
    <3>5. /\ IsRow(r) /\ r.occurred_at = at /\ r.previous_hash = t.event_hash
          /\ r.event_id = job[w].event_id /\ Sealed(r)
      BY <1>1, <3>3, StoredRow
    <3> HIDE DEF r
    <3>6. t.occurred_at < r.occurred_at \/ Capped(r)
      BY <3>3, <3>5 DEF Capped
    <3>7. pend' = [pend EXCEPT ![w] = @ \cup {r}]
      BY <3>4 DEF r
    <3>8. QED
      BY <3>3, <3>5, <3>6, <3>7
  <2>3. QED
    BY <2>1, <2>2 DEF SealRow
<1>3. TypeOK'
  BY <1>1, <1>2 DEF TypeOK, SealRow, AreRows, InFlight, States, tables
<1>4. LockInv'
  BY <1>1, <1>2 DEF TypeOK, LockInv, SerializedMonth, SealRow, InTrigger, tables
<1>5. QED
  BY <1>2, <1>3, <1>4

(* Every step keeps the types, and the lock and the routing facts. *)
LEMMA NextLockInv == TypeOK /\ LockInv /\ [Next]_vars => TypeOK' /\ LockInv'
<1> SUFFICES ASSUME TypeOK, LockInv, [Next]_vars
             PROVE  TypeOK' /\ LockInv'
  OBVIOUS
<1>1. CASE Tick
  <2>1. TypeOK'
    BY <1>1 DEF Tick, TypeOK, InFlight, tables
  <2>2. LockInv'
    BY <1>1 DEF Tick, LockInv, SerializedMonth, tables
  <2>3. QED
    BY <2>1, <2>2
<1>2. ASSUME NEW w \in Writers, Begin(w)
      PROVE  TypeOK' /\ LockInv'
  <2>1. PICK stamp \in {clock} \cup Supplied : Insert(w, stamp, clock)
    BY <1>2 DEF Begin
  <2>2. stamp \in Instants /\ clock \in Instants
    BY InputsAssumption DEF TypeOK
  <2>3. QED
    BY <1>2, <2>1, <2>2, InsertLockInv DEF Begin
<1>3. ASSUME NEW w \in Writers, InsertAgain(w)
      PROVE  TypeOK' /\ LockInv'
  <2>1. PICK stamp \in {job[w].now} \cup Supplied : Insert(w, stamp, job[w].now)
    BY <1>3 DEF InsertAgain
  <2>2. stamp \in Instants /\ job[w].now \in Instants
    BY <1>3, InputsAssumption DEF TypeOK, InsertAgain, InFlight, Job
  <2>3. QED
    BY <1>3, <2>1, <2>2, InsertLockInv DEF InsertAgain
<1>4. ASSUME NEW w \in Writers, SelectLock(w)
      PROVE  TypeOK' /\ LockInv'
  <2>1. job[w].month \in Months /\ w \in InFlight
    BY <1>4 DEF SelectLock, TypeOK, InFlight, Job
  <2>2. TypeOK'
    BY <1>4, <2>1 DEF SelectLock, TypeOK, InFlight, States, tables
  <2>3. holders' \in [Months -> SUBSET Writers]
    BY <2>2 DEF TypeOK
  <2>4. \A k \in Months : holders[k] \subseteq holders'[k]
    BY <1>4, <2>1 DEF SelectLock, TypeOK
  <2>5. \A k \in Months : \A u, v \in holders'[k] : u = v
    BY <1>4, <2>1 DEF SelectLock, LockFree, TypeOK, LockInv, SerializedMonth
  <2>6. ASSUME NEW v \in Writers, NEW r \in pend'[v]
        PROVE  v \in holders'[MonthOf[r.occurred_at]]
    <3>1. r \in pend[v]
      BY <1>4, <2>6 DEF SelectLock
    <3>2. MonthOf[r.occurred_at] \in Months
      BY <3>1, CalendarAssumption DEF TypeOK, AreRows, IsRow
    <3>3. QED
      BY <2>4, <3>1, <3>2 DEF LockInv, SerializedMonth
  <2>7. ASSUME NEW v \in Writers
        PROVE  /\ pc'[v] \in InTrigger => v \in holders'[job'[v].month]
               /\ pc'[v] # "idle" => MonthOf[job'[v].occurred_at] = job'[v].month
               /\ pc'[v] # "seal" => tail'[v] = {}
               /\ \A t \in tail'[v] : MonthOf[t.occurred_at] = job'[v].month
    <3>1. job' = job /\ tail' = tail
      BY <1>4 DEF SelectLock
    <3>2. CASE v = w
      BY <1>4, <2>1, <3>1, <3>2 DEF SelectLock, TypeOK, LockInv, InTrigger
    <3>3. CASE v # w
      <4>1. pc'[v] = pc[v]
        BY <1>4, <3>3 DEF SelectLock, TypeOK
      <4>2. pc[v] \in InTrigger => job[v].month \in Months
        BY DEF TypeOK, InTrigger, InFlight, Job
      <4>3. QED
        BY <2>4, <3>1, <4>1, <4>2 DEF LockInv
    <3>4. QED
      BY <3>2, <3>3
  <2>8. QED
    BY <2>2, <2>5, <2>6, <2>7 DEF LockInv, SerializedMonth
<1>5. ASSUME NEW w \in Writers, CreateLock(w)
      PROVE  TypeOK' /\ LockInv'
  <2>1. job[w].month \in Months
    BY <1>5 DEF CreateLock, TypeOK, InFlight, Job
  <2>2. TypeOK'
    BY <1>5, <2>1 DEF CreateLock, TypeOK, InFlight, States, tables
  <2>3. LockInv'
    BY <1>5 DEF CreateLock, TypeOK, LockInv, SerializedMonth, InTrigger, tables
  <2>4. QED
    BY <2>2, <2>3
<1>6. ASSUME NEW w \in Writers, Restamp(w)
      PROVE  TypeOK' /\ LockInv'
  <2>1. /\ job[w] \in Job /\ w \in InFlight
        /\ MonthOf[job[w].occurred_at] = job[w].month
    BY <1>6 DEF Restamp, TypeOK, InFlight, LockInv
  <2>2. /\ Restamped(job[w].month, job[w].occurred_at) \in Instants
        /\ MonthOf[Restamped(job[w].month, job[w].occurred_at)] = job[w].month
    BY <2>1, InputsAssumption DEF Restamped, TypeOK, Job
  <2> DEFINE stamp == Restamped(job[w].month, job[w].occurred_at)
  <2>3. job' = [job EXCEPT ![w].occurred_at = stamp]
    BY <1>6 DEF Restamp
  <2> HIDE DEF stamp
  <2>4. /\ job'[w] \in Job
        /\ job'[w].occurred_at = stamp /\ job'[w].month = job[w].month
        /\ \A v \in Writers \ {w} : job'[v] = job[v]
        /\ DOMAIN job' = Writers
    BY <2>1, <2>2, <2>3 DEF TypeOK, Job, stamp
  <2>5. job' \in [Writers -> Job \cup {IdleJob}]
    BY <2>1, <2>3, <2>4 DEF TypeOK
  <2>6. TypeOK'
    BY <1>6, <2>4, <2>5 DEF Restamp, TypeOK, InFlight, States, tables
  <2>7. LockInv'
    BY <1>6, <2>2, <2>4 DEF Restamp, TypeOK, LockInv, SerializedMonth, InTrigger, tables, stamp
  <2>8. QED
    BY <2>6, <2>7
<1>7. ASSUME NEW w \in Writers, ReadTail(w)
      PROVE  TypeOK' /\ LockInv'
  <2>1. PICK result : /\ tail' = [tail EXCEPT ![w] = result]
                      /\ result \subseteq MonthRows(Visible(w), job[w].month)
    BY <1>7 DEF ReadTail, TailQuery
  <2>2. AreRows(result) /\ \A t \in result : MonthOf[t.occurred_at] = job[w].month
    BY <2>1 DEF MonthRows, Visible, TypeOK, AreRows
  <2>3. TypeOK'
    BY <1>7, <2>1, <2>2 DEF ReadTail, TypeOK, InFlight, States, tables
  <2>4. LockInv'
    BY <1>7, <2>1, <2>2 DEF ReadTail, TypeOK, LockInv, SerializedMonth, InTrigger, tables
  <2>5. QED
    BY <2>3, <2>4
<1>8. ASSUME NEW w \in Writers, SealRow(w)
      PROVE  TypeOK' /\ LockInv'
  BY <1>8, SealLockInv
<1>9. ASSUME NEW w \in Writers, Commit(w)
      PROVE  TypeOK' /\ LockInv'
  BY <1>9, ReleaseLockInv DEF Commit, TypeOK, AreRows
<1>10. ASSUME NEW w \in Writers, Rollback(w)
       PROVE  TypeOK' /\ LockInv'
  BY <1>10, ReleaseLockInv DEF Rollback, TypeOK, AreRows, tables
<1>11. CASE UNCHANGED vars
  BY <1>11 DEF vars, tables, TypeOK, LockInv, SerializedMonth, InFlight
<1>12. QED
  BY <1>1, <1>2, <1>3, <1>4, <1>5, <1>6, <1>7, <1>8, <1>9, <1>10, <1>11
     DEF Next, Abort, DeadlockVictim

(* The type invariant holds for every calendar and every set of writers:   *)
(* every stamp the trigger settles on is an instant of the calendar.       *)
THEOREM TypeCorrect == Spec => []TypeOK
<1>1. Spec => [](TypeOK /\ LockInv)
  BY InitLockInv, NextLockInv, PTL DEF Spec
<1>2. QED
  BY <1>1, PTL

(* A month's chain is written by one transaction at a time, always under   *)
(* the lock of that month, and no row leaves the partition it was routed   *)
(* to.                                                                     *)
THEOREM MonthsAreSerialized == Spec => []SerializedMonth
<1>1. Spec => [](TypeOK /\ LockInv)
  BY InitLockInv, NextLockInv, PTL DEF Spec
<1>2. LockInv => SerializedMonth
  BY DEF LockInv
<1>3. QED
  BY <1>1, <1>2, PTL

-----------------------------------------------------------------------------
(***************************************************************************)
(* Order.                                                                  *)
(***************************************************************************)
Behind(T, r) == \A q \in T : q.occurred_at < r.occurred_at \/ Capped(r)

(* A sealed row will be the last of its month.                             *)
PendingBehind ==
  \A w \in Writers : \A p \in pend[w] :
    Behind(MonthRows(rows, MonthOf[p.occurred_at]), p)

TailKnown(w) ==
  LET seen == MonthRows(Visible(w), job[w].month) IN
    \/ tail[w] = {} /\ seen = {}
    \/ \E t \in seen : tail[w] = {t} /\ IsTail(t, seen)

ChainInv ==
  /\ ChainOrder
  /\ \A w \in Writers, m \in Months : Chained(MonthRows(Visible(w), m))
  /\ PendingBehind
  /\ \A w \in Writers : pc[w] = "seal" => TailKnown(w)

-----------------------------------------------------------------------------
(* No row of a month sorts after the tail. *)
LEMMA TailIsNewest ==
  ASSUME NEW T, AreRows(T), NEW t, IsTail(t, T), NEW q \in T
  PROVE  q.occurred_at <= t.occurred_at
<1>1. t \in T /\ (q = t \/ Before(q, t))
  BY DEF IsTail
<1>2. q.occurred_at \in Nat /\ t.occurred_at \in Nat
  BY <1>1, CalendarAssumption DEF AreRows, IsRow
<1>3. QED
  BY <1>1, <1>2 DEF Before

(* A row put behind the tail it is linked to keeps the month chained, the  *)
(* month's last microsecond excepted.                                      *)
LEMMA SealChained ==
  ASSUME NEW m \in Months, NEW T, AreRows(T), \A q \in T : MonthOf[q.occurred_at] = m,
         Chained(T),
         NEW r, IsRow(r), MonthOf[r.occurred_at] = m,
         \/ T = {} /\ r.previous_hash = Null
         \/ \E t \in T : /\ IsTail(t, T)
                         /\ r.previous_hash = t.event_hash
                         /\ t.occurred_at < r.occurred_at \/ Capped(r)
  PROVE  Chained(T \cup {r}) /\ Behind(T, r)
<1> DEFINE U == T \cup {r}
<1>1. \A q \in U : /\ q.occurred_at \in Nat /\ q.event_id \in Nat
                   /\ MonthOf[q.occurred_at] = m
                   /\ q.occurred_at <= LastInstant[m]
  BY CalendarAssumption, IdsAssumption DEF AreRows, IsRow
<1>2. LastInstant[m] \in Nat
  BY CalendarAssumption
<1>3. Behind(T, r)
  BY <1>1, TailIsNewest DEF Behind
<1>4. CASE r \in T
  <2>1. T \cup {r} = T
    BY <1>4
  <2>2. QED
    BY <2>1, <1>3
<1>5. CASE r \notin T
  <2>1. Crowded(U, r) \/ Linked(U, r)
    <3>1. CASE T = {} /\ r.previous_hash = Null
      BY <3>1 DEF Linked
    <3>2. ASSUME NEW t \in T, IsTail(t, T), r.previous_hash = t.event_hash,
                 t.occurred_at < r.occurred_at
          PROVE  Linked(U, r)
      <4>1. \A q \in T : q # r /\ Before(q, r)
        BY <1>1, <1>5, <3>2, TailIsNewest DEF Before
      <4>2. {q \in U : q # r /\ Before(q, r)} = T
        BY <4>1
      <4>3. QED
        BY <3>2, <4>2 DEF Linked
    <3>3. ASSUME NEW t \in T, ~(t.occurred_at < r.occurred_at), Capped(r)
          PROVE  Crowded(U, r)
      <4>1. Capped(t)
        BY <1>1, <1>2, <3>3 DEF Capped
      <4>2. QED
        BY <1>5, <3>3, <4>1 DEF Crowded
    <3>4. QED
      BY <3>1, <3>2, <3>3
  <2>2. ASSUME NEW q \in T
        PROVE  Crowded(U, q) \/ Linked(U, q)
    <3>1. CASE Crowded(T, q)
      BY <3>1 DEF Crowded
    <3>2. CASE Linked(T, q) /\ Before(r, q)
      <4>1. r.occurred_at <= q.occurred_at
        BY <1>1, <3>2 DEF Before
      <4>2. Capped(r)
        BY <1>1, <1>3, <4>1 DEF Behind
      <4>3. Capped(q)
        BY <1>1, <1>2, <4>1, <4>2 DEF Capped
      <4>4. QED
        BY <1>5, <4>2, <4>3 DEF Crowded
    <3>3. CASE Linked(T, q) /\ ~Before(r, q)
      <4>1. {p \in U : p # q /\ Before(p, q)} = {p \in T : p # q /\ Before(p, q)}
        BY <3>3
      <4>2. QED
        BY <3>3, <4>1 DEF Linked
    <3>4. QED
      BY <3>1, <3>2, <3>3 DEF Chained
  <2>3. QED
    BY <1>3, <2>1, <2>2 DEF Chained
<1>6. QED
  BY <1>4, <1>5

-----------------------------------------------------------------------------
LEMMA InitChainInv == Init => ChainInv
BY DEF Init, ChainInv, ChainOrder, Chained, MonthRows, Visible, PendingBehind

(* The steps that store no row and end no transaction. *)
LEMMA QuietChainInv ==
  ASSUME ChainInv, rows' = rows, pend' = pend,
         \A w \in Writers :
           pc'[w] = "seal" => /\ pc[w] = "seal"
                              /\ job'[w].month = job[w].month
                              /\ tail'[w] = tail[w]
  PROVE  ChainInv'
<1>0. /\ \A m : MonthRows(rows, m)' = MonthRows(rows, m)
      /\ \A w \in Writers, m \in Months :
           MonthRows(Visible(w), m)' = MonthRows(Visible(w), m)
  BY DEF MonthRows, Visible
<1>1. /\ ChainOrder'
      /\ \A w \in Writers, m \in Months : Chained(MonthRows(Visible(w), m))'
      /\ PendingBehind'
  <2>1. ChainOrder'
    BY <1>0 DEF ChainInv, ChainOrder
  <2>2. \A w \in Writers, m \in Months : Chained(MonthRows(Visible(w), m))'
    BY <1>0 DEF ChainInv
  <2>3. PendingBehind'
    BY DEF ChainInv, PendingBehind, Behind, MonthRows, Capped
  <2>4. QED
    BY <2>1, <2>2, <2>3
<1>2. ASSUME NEW w \in Writers, pc'[w] = "seal"
      PROVE  TailKnown(w)'
  <2>1. TailKnown(w) /\ job'[w].month = job[w].month /\ tail'[w] = tail[w]
    BY <1>2 DEF ChainInv
  <2>2. QED
    BY <2>1 DEF TailKnown, MonthRows, Visible, IsTail
<1>3. QED
  BY <1>1, <1>2 DEF ChainInv

(* Step 3: under the month's lock the tail query sees the whole month.     *)
LEMMA ReadTailChainInv ==
  ASSUME "prev_read" \notin Faults, ChainInv, TypeOK, NEW w \in Writers, ReadTail(w)
  PROVE  ChainInv'
<1> DEFINE seen == MonthRows(Visible(w), job[w].month)
<1>1. PICK result \in TailQuery(seen) : tail' = [tail EXCEPT ![w] = result]
  BY DEF ReadTail
<1>2. \/ result = {} /\ seen = {}
      \/ \E t \in seen : result = {t} /\ IsTail(t, seen)
  BY <1>1 DEF TailQuery
<1>3. tail'[w] = result
  BY <1>1 DEF TypeOK
<1>4. TailKnown(w)'
  <2>1. MonthRows(Visible(w), job[w].month)' = seen
    BY DEF ReadTail, MonthRows, Visible, tables
  <2> HIDE DEF seen
  <2>2. QED
    BY <1>2, <1>3, <2>1 DEF TailKnown
<1>5. \A v \in Writers, m \in Months :
        /\ MonthRows(rows, m)' = MonthRows(rows, m)
        /\ MonthRows(Visible(v), m)' = MonthRows(Visible(v), m)
  BY DEF ReadTail, MonthRows, Visible, tables
<1>6. ASSUME NEW v \in Writers, pc'[v] = "seal"
      PROVE  TailKnown(v)'
  <2>1. CASE v = w
    BY <1>4, <2>1
  <2>2. CASE v # w
    <3>1. pc[v] = "seal" /\ tail'[v] = tail[v] /\ job' = job
      BY <1>1, <1>6, <2>2 DEF ReadTail, TypeOK
    <3>2. MonthRows(Visible(v), job[v].month)' = MonthRows(Visible(v), job[v].month)
      BY DEF ReadTail, MonthRows, Visible, tables
    <3>3. QED
      BY <3>1, <3>2 DEF ChainInv, TailKnown
  <2>3. QED
    BY <2>1, <2>2
<1>7. ChainOrder'
  BY <1>5 DEF ChainInv, ChainOrder, ReadTail, tables, MonthRows
<1>8. \A v \in Writers, m \in Months : Chained(MonthRows(Visible(v), m))'
  BY <1>5 DEF ChainInv
<1>9. PendingBehind'
  BY DEF ReadTail, tables, ChainInv, PendingBehind, Behind, MonthRows, Capped
<1>10. QED
  BY <1>6, <1>7, <1>8, <1>9 DEF ChainInv

(* Steps 3a and 4: the row goes behind the tail of all the month holds.    *)
LEMMA SealChainInv ==
  ASSUME TypeOK, LockInv, ChainInv, NEW w \in Writers, SealRow(w)
  PROVE  ChainInv'
<1> DEFINE m == job[w].month
           seen == MonthRows(Visible(w), m)
<1>1. PICK r :
        /\ IsRow(r) /\ MonthOf[r.occurred_at] = m
        /\ pend' = [pend EXCEPT ![w] = @ \cup {r}]
        /\ \/ tail[w] = {} /\ r.previous_hash = Null
           \/ \E t \in tail[w] :
                /\ r.previous_hash = t.event_hash
                /\ t.occurred_at < r.occurred_at \/ Capped(r)
  BY SealLockInv
<1>2. /\ pc[w] = "seal" /\ m \in Months
      /\ rows' = rows /\ job' = job
      /\ pc' = [pc EXCEPT ![w] = "open"]
      /\ tail' = [tail EXCEPT ![w] = {}]
  BY DEF SealRow, tables, TypeOK, InFlight, Job
<1>3. AreRows(seen) /\ \A q \in seen : MonthOf[q.occurred_at] = m
  BY DEF TypeOK, AreRows, MonthRows, Visible
<1>4. Chained(seen)
  BY <1>2 DEF ChainInv
<1>5. \/ seen = {} /\ r.previous_hash = Null
      \/ \E t \in seen : /\ IsTail(t, seen)
                         /\ r.previous_hash = t.event_hash
                         /\ t.occurred_at < r.occurred_at \/ Capped(r)
  BY <1>1, <1>2 DEF ChainInv, TailKnown
<1>6. Chained(seen \cup {r}) /\ Behind(seen, r)
  <2> HIDE DEF seen, m
  <2>1. QED
    BY <1>1, <1>2, <1>3, <1>4, <1>5, SealChained
<1>7. pend'[w] = pend[w] \cup {r} /\ \A v \in Writers \ {w} : pend'[v] = pend[v]
  BY <1>1 DEF TypeOK
<1>8. ASSUME NEW v \in Writers, NEW k \in Months
      PROVE  Chained(MonthRows(Visible(v), k))'
  <2>1. CASE v = w /\ k = m
    <3>1. MonthRows(Visible(v), k)' = seen \cup {r}
      BY <1>1, <1>2, <1>7, <2>1 DEF MonthRows, Visible
    <3>2. QED
      BY <1>6, <3>1
  <2>2. CASE ~(v = w /\ k = m)
    <3>1. MonthRows(Visible(v), k)' = MonthRows(Visible(v), k)
      BY <1>1, <1>2, <1>7, <2>2 DEF MonthRows, Visible
    <3>2. QED
      BY <3>1 DEF ChainInv
  <2>3. QED
    BY <2>1, <2>2
<1>9. PendingBehind'
  <2>1. \A k : MonthRows(rows, k)' = MonthRows(rows, k)
    BY <1>2 DEF MonthRows
  <2>2. Behind(MonthRows(rows, MonthOf[r.occurred_at]), r)
    BY <1>1, <1>6 DEF Behind, MonthRows, Visible
  <2>3. QED
    BY <1>7, <2>1, <2>2 DEF ChainInv, PendingBehind
<1>10. ChainOrder'
  <2>1. \A k : MonthRows(rows, k)' = MonthRows(rows, k)
    BY <1>2 DEF MonthRows
  <2>2. QED
    BY <2>1 DEF ChainInv, ChainOrder
<1>11. ASSUME NEW v \in Writers, pc'[v] = "seal"
       PROVE  TailKnown(v)'
  <2>1. v # w /\ pc[v] = "seal" /\ tail'[v] = tail[v]
    BY <1>2, <1>11 DEF TypeOK
  <2>2. MonthRows(Visible(v), job[v].month)' = MonthRows(Visible(v), job[v].month)
    BY <1>2, <1>7, <2>1 DEF MonthRows, Visible
  <2>3. QED
    BY <1>2, <2>1, <2>2 DEF ChainInv, TailKnown
<1>12. QED
  BY <1>8, <1>9, <1>10, <1>11 DEF ChainInv

(* A commit publishes rows of months nobody else has rows of: what anybody *)
(* sees of a month then is what the writer saw, or what it saw itself.     *)
LEMMA CommitViews ==
  ASSUME TypeOK, LockInv, NEW w \in Writers, Commit(w)
  PROVE  /\ \A v \in Writers \ {w} : \A p \in pend[v], q \in pend[w] :
              MonthOf[p.occurred_at] # MonthOf[q.occurred_at]
         /\ \A m \in Months : MonthRows(rows, m)' = MonthRows(Visible(w), m)
         /\ \A v \in Writers, m \in Months :
              \/ MonthRows(Visible(v), m)' = MonthRows(Visible(w), m)
              \/ v # w /\ MonthRows(Visible(v), m)' = MonthRows(Visible(v), m)
<1>1. /\ rows' = rows \cup pend[w]
      /\ pend'[w] = {} /\ \A v \in Writers \ {w} : pend'[v] = pend[v]
  BY DEF Commit, Release, TypeOK
<1>2. \A v \in Writers \ {w} : \A p \in pend[v], q \in pend[w] :
        MonthOf[p.occurred_at] # MonthOf[q.occurred_at]
  <2>1. \A v \in Writers : \A p \in pend[v] :
          MonthOf[p.occurred_at] \in Months /\ v \in holders[MonthOf[p.occurred_at]]
    BY CalendarAssumption DEF TypeOK, AreRows, IsRow, LockInv, SerializedMonth
  <2>2. QED
    BY <2>1 DEF LockInv, SerializedMonth
<1>3. \A m \in Months : MonthRows(rows, m)' = MonthRows(Visible(w), m)
  BY <1>1 DEF MonthRows, Visible
<1>4. ASSUME NEW v \in Writers, NEW m \in Months
      PROVE  \/ MonthRows(Visible(v), m)' = MonthRows(Visible(w), m)
             \/ v # w /\ MonthRows(Visible(v), m)' = MonthRows(Visible(v), m)
  <2>1. CASE \E p \in pend'[v] : MonthOf[p.occurred_at] = m
    BY <1>1, <1>2, <2>1 DEF MonthRows, Visible
  <2>2. CASE ~ \E p \in pend'[v] : MonthOf[p.occurred_at] = m
    BY <1>1, <2>2 DEF MonthRows, Visible
  <2>3. QED
    BY <2>1, <2>2
<1>5. QED
  BY <1>2, <1>3, <1>4

LEMMA CommitChainInv ==
  ASSUME TypeOK, LockInv, ChainInv, NEW w \in Writers, Commit(w)
  PROVE  ChainInv'
<1>1. /\ rows' = rows \cup pend[w]
      /\ pend'[w] = {} /\ \A v \in Writers \ {w} : pend'[v] = pend[v]
      /\ pc'[w] = "idle"
      /\ \A v \in Writers \ {w} : pc'[v] = pc[v] /\ job'[v] = job[v] /\ tail'[v] = tail[v]
  BY DEF Commit, Release, TypeOK
<1>2. \A v \in Writers \ {w} : \A p \in pend[v], q \in pend[w] :
        MonthOf[p.occurred_at] # MonthOf[q.occurred_at]
  BY CommitViews
<1>3. \A m \in Months : MonthRows(rows, m)' = MonthRows(Visible(w), m)
  BY CommitViews
<1>4. \A v \in Writers, m \in Months :
        \/ MonthRows(Visible(v), m)' = MonthRows(Visible(w), m)
        \/ v # w /\ MonthRows(Visible(v), m)' = MonthRows(Visible(v), m)
  BY CommitViews
<1>5. ChainOrder'
  BY <1>3 DEF ChainInv, ChainOrder
<1>6. \A v \in Writers, m \in Months : Chained(MonthRows(Visible(v), m))'
  BY <1>4 DEF ChainInv
<1>7. PendingBehind'
  <2>1. ASSUME NEW v \in Writers, NEW p \in pend'[v],
               NEW q \in MonthRows(rows, MonthOf[p.occurred_at])'
        PROVE  q.occurred_at < p.occurred_at \/ Capped(p)
    <3>1. v # w /\ p \in pend[v]
      BY <1>1, <2>1
    <3>2. q \in MonthRows(rows, MonthOf[p.occurred_at])
      BY <1>1, <1>2, <2>1, <3>1 DEF MonthRows
    <3>3. QED
      BY <3>1, <3>2 DEF ChainInv, PendingBehind, Behind
  <2>2. QED
    BY <2>1 DEF PendingBehind, Behind
<1>8. ASSUME NEW v \in Writers, pc'[v] = "seal"
      PROVE  TailKnown(v)'
  <2>1. /\ v # w /\ pc[v] = "seal" /\ job'[v] = job[v] /\ tail'[v] = tail[v]
        /\ TailKnown(v)
    BY <1>1, <1>8 DEF ChainInv
  <2>2. job[v].month \in Months /\ v \in holders[job[v].month]
    BY <2>1 DEF TypeOK, LockInv, InTrigger, InFlight, Job
  <2>3. ~ \E q \in pend[w] : MonthOf[q.occurred_at] = job[v].month
    BY <2>1, <2>2 DEF LockInv, SerializedMonth
  <2>4. MonthRows(Visible(v), job[v].month)' = MonthRows(Visible(v), job[v].month)
    BY <1>1, <2>1, <2>3 DEF MonthRows, Visible
  <2>5. QED
    BY <2>1, <2>4 DEF TailKnown
<1>9. QED
  BY <1>5, <1>6, <1>7, <1>8 DEF ChainInv

(* A rollback leaves what was committed. *)
LEMMA RollbackChainInv ==
  ASSUME TypeOK, ChainInv, NEW w \in Writers, Rollback(w)
  PROVE  ChainInv'
<1>1. /\ rows' = rows
      /\ pend'[w] = {} /\ \A v \in Writers \ {w} : pend'[v] = pend[v]
      /\ pc'[w] = "idle"
      /\ \A v \in Writers \ {w} : pc'[v] = pc[v] /\ job'[v] = job[v] /\ tail'[v] = tail[v]
  BY DEF Rollback, Release, TypeOK, tables
<1>2. \A m : MonthRows(rows, m)' = MonthRows(rows, m)
  BY <1>1 DEF MonthRows
<1>3. ChainOrder'
  BY <1>2 DEF ChainInv, ChainOrder
<1>4. ASSUME NEW v \in Writers, NEW m \in Months
      PROVE  Chained(MonthRows(Visible(v), m))'
  <2>1. CASE v = w
    <3>1. MonthRows(Visible(v), m)' = MonthRows(rows, m)
      BY <1>1, <2>1 DEF MonthRows, Visible
    <3>2. QED
      BY <3>1 DEF ChainInv, ChainOrder
  <2>2. CASE v # w
    <3>1. MonthRows(Visible(v), m)' = MonthRows(Visible(v), m)
      BY <1>1, <2>2 DEF MonthRows, Visible
    <3>2. QED
      BY <3>1 DEF ChainInv
  <2>3. QED
    BY <2>1, <2>2
<1>5. PendingBehind'
  BY <1>1, <1>2 DEF ChainInv, PendingBehind
<1>6. ASSUME NEW v \in Writers, pc'[v] = "seal"
      PROVE  TailKnown(v)'
  <2>1. /\ v # w /\ pc[v] = "seal" /\ job'[v] = job[v] /\ tail'[v] = tail[v]
        /\ TailKnown(v)
    BY <1>1, <1>6 DEF ChainInv
  <2>2. MonthRows(Visible(v), job[v].month)' = MonthRows(Visible(v), job[v].month)
    BY <1>1, <2>1 DEF MonthRows, Visible
  <2>3. QED
    BY <2>1, <2>2 DEF TailKnown
<1>7. QED
  BY <1>3, <1>4, <1>5, <1>6 DEF ChainInv

LEMMA NextChainInv ==
  ASSUME "prev_read" \notin Faults
  PROVE  TypeOK /\ LockInv /\ ChainInv /\ [Next]_vars => ChainInv'
<1> SUFFICES ASSUME TypeOK, LockInv, ChainInv, [Next]_vars
             PROVE  ChainInv'
  OBVIOUS
<1>1. CASE Tick
  BY <1>1, QuietChainInv DEF Tick, tables
<1>2. ASSUME NEW w \in Writers, NEW stamp, NEW now, Insert(w, stamp, now)
      PROVE  ChainInv'
  <2>1. /\ rows' = rows /\ pend' = pend /\ tail' = tail
        /\ pc'[w] = "select"
        /\ \A v \in Writers \ {w} : pc'[v] = pc[v] /\ job'[v] = job[v]
    BY <1>2 DEF Insert, tables, TypeOK
  <2>2. QED
    BY <2>1, QuietChainInv
<1>3. ASSUME NEW w \in Writers, SelectLock(w) \/ CreateLock(w)
      PROVE  ChainInv'
  <2>1. /\ rows' = rows /\ pend' = pend /\ tail' = tail /\ job' = job
        /\ pc'[w] # "seal"
        /\ \A v \in Writers \ {w} : pc'[v] = pc[v]
    BY <1>3 DEF SelectLock, CreateLock, tables, TypeOK
  <2>2. QED
    BY <2>1, QuietChainInv
<1>4. ASSUME NEW w \in Writers, Restamp(w)
      PROVE  ChainInv'
  <2>1. /\ rows' = rows /\ pend' = pend /\ tail' = tail
        /\ pc'[w] = "read"
        /\ \A v \in Writers \ {w} : pc'[v] = pc[v] /\ job'[v] = job[v]
    BY <1>4 DEF Restamp, tables, TypeOK
  <2>2. QED
    BY <2>1, QuietChainInv
<1>5. ASSUME NEW w \in Writers, ReadTail(w)
      PROVE  ChainInv'
  BY <1>5, ReadTailChainInv
<1>6. ASSUME NEW w \in Writers, SealRow(w)
      PROVE  ChainInv'
  BY <1>6, SealChainInv
<1>7. ASSUME NEW w \in Writers, Commit(w)
      PROVE  ChainInv'
  BY <1>7, CommitChainInv
<1>8. ASSUME NEW w \in Writers, Rollback(w)
      PROVE  ChainInv'
  BY <1>8, RollbackChainInv
<1>9. CASE UNCHANGED vars
  BY <1>9, QuietChainInv DEF vars, tables
<1>10. QED
  BY <1>1, <1>2, <1>3, <1>4, <1>5, <1>6, <1>7, <1>8, <1>9
     DEF Next, Begin, InsertAgain, Abort, DeadlockVictim

LEMMA SpecChainInv ==
  ASSUME "prev_read" \notin Faults
  PROVE  Spec => [](TypeOK /\ LockInv /\ ChainInv)
<1>1. Init => TypeOK /\ LockInv /\ ChainInv
  BY InitLockInv, InitChainInv
<1>2. TypeOK /\ LockInv /\ ChainInv /\ [Next]_vars => (TypeOK /\ LockInv /\ ChainInv)'
  BY NextLockInv, NextChainInv
<1>3. QED
  BY <1>1, <1>2, PTL DEF Spec

(* Linkage order equals sort order in every month of committed rows,       *)
(* whatever the interleaving of writers, aborts, deadlocks, clock steps,   *)
(* explicit stamps and transactions of several rows: migration 016's       *)
(* guarantee.                                                              *)
THEOREM LinkageIsSortOrder ==
  ASSUME "prev_read" \notin Faults
  PROVE  Spec => []ChainOrder
<1>1. TypeOK /\ LockInv /\ ChainInv => ChainOrder
  BY DEF ChainInv
<1>2. QED
  BY <1>1, SpecChainInv, PTL

(* A commit only adds rows, and only after every row the month already     *)
(* has, the month's last microsecond excepted.                             *)
THEOREM LogGrowsAtItsEnd ==
  ASSUME "prev_read" \notin Faults
  PROVE  Spec => AppendOnly
<1>1. ASSUME TypeOK, ChainInv, [Next]_vars
      PROVE  [AppendOnlyStep]_vars
  <2>1. CASE rows' = rows
    BY <2>1 DEF AppendOnlyStep
  <2>2. ASSUME NEW w \in Writers, Commit(w)
        PROVE  AppendOnlyStep
    <3>1. rows' = rows \cup pend[w]
      BY <2>2 DEF Commit
    <3>2. ASSUME NEW r \in pend[w], NEW q \in rows,
                 MonthOf[q.occurred_at] = MonthOf[r.occurred_at]
          PROVE  Before(q, r) \/ Capped(r)
      BY <1>1, <3>2 DEF ChainInv, PendingBehind, Behind, MonthRows, Before
    <3>3. QED
      BY <3>1, <3>2 DEF AppendOnlyStep
  <2>3. rows' = rows \/ \E w \in Writers : Commit(w)
    BY <1>1 DEF Next, vars, tables, Tick, Begin, InsertAgain, Insert, SelectLock, CreateLock,
               Restamp, ReadTail, SealRow, Abort, DeadlockVictim, Rollback
  <2>4. QED
    BY <2>1, <2>2, <2>3
<1>2. QED
  BY <1>1, SpecChainInv, PTL DEF Spec, AppendOnly

-----------------------------------------------------------------------------
(***************************************************************************)
(* Deadlock.  A writer of one row per transaction asks for its month's     *)
(* lock row before it holds anything but that row's own key.               *)
(***************************************************************************)
OneRow ==
  \A w \in Writers :
    /\ pc[w] = "open" => \E r \in pend[w] : pend[w] = {r}
    /\ pc[w] # "open" => pend[w] = {}
    /\ pc[w] \in {"idle", "select", "create"} => \A m \in Months : w \notin holders[m]
    /\ \A m \in Months : w \in newLock[m] => pc[w] \notin {"idle", "create"} /\ job[w].month = m

LEMMA InitOneRow == Init => OneRow
BY DEF Init, OneRow

LEMMA NextOneRow ==
  ASSUME TxnRows = 1
  PROVE  TypeOK /\ LockInv /\ OneRow /\ [Next]_vars => OneRow'
<1> SUFFICES ASSUME TypeOK, LockInv, OneRow, [Next]_vars
             PROVE  OneRow'
  OBVIOUS
<1>1. CASE Tick
  BY <1>1 DEF Tick, OneRow, tables
<1>2. ASSUME NEW w \in Writers, Begin(w)
      PROVE  OneRow'
  BY <1>2 DEF Begin, Insert, OneRow, TypeOK, tables
<1>3. ASSUME NEW w \in Writers, InsertAgain(w)
      PROVE  FALSE
  <2>1. PICK r \in pend[w] : pend[w] = {r}
    BY <1>3 DEF InsertAgain, OneRow
  <2>2. Cardinality(pend[w]) = 1
    BY <2>1, FS_Singleton
  <2>3. QED
    BY <1>3, <2>2 DEF InsertAgain
<1>4. ASSUME NEW w \in Writers, SelectLock(w)
      PROVE  OneRow'
  <2>1. job[w].month \in Months
    BY <1>4 DEF SelectLock, TypeOK, InFlight, Job
  <2>2. QED
    BY <1>4, <2>1 DEF SelectLock, SeesLockRow, OneRow, TypeOK, tables
<1>5. ASSUME NEW w \in Writers, CreateLock(w)
      PROVE  OneRow'
  BY <1>5 DEF CreateLock, OneRow, TypeOK, tables
<1>6. ASSUME NEW w \in Writers, Restamp(w)
      PROVE  OneRow'
  <2>1. \A v \in Writers : job'[v].month = job[v].month
    BY <1>6 DEF Restamp, TypeOK, InFlight, Job
  <2>2. QED
    BY <1>6, <2>1 DEF Restamp, OneRow, TypeOK, tables
<1>7. ASSUME NEW w \in Writers, ReadTail(w)
      PROVE  OneRow'
  BY <1>7 DEF ReadTail, OneRow, TypeOK, tables
<1>8. ASSUME NEW w \in Writers, SealRow(w)
      PROVE  OneRow'
  <2>1. PICK r : pend' = [pend EXCEPT ![w] = @ \cup {r}]
    BY <1>8, SealLockInv
  <2>2. pend[w] = {} /\ pend'[w] = {r} /\ \A v \in Writers \ {w} : pend'[v] = pend[v]
    BY <1>8, <2>1 DEF SealRow, OneRow, TypeOK
  <2>3. QED
    BY <1>8, <2>2 DEF SealRow, OneRow, TypeOK, tables
<1>9. ASSUME NEW w \in Writers, Release(w)
      PROVE  OneRow'
  BY <1>9 DEF Release, OneRow, TypeOK
<1>10. CASE UNCHANGED vars
  BY <1>10 DEF vars, tables, OneRow
<1>11. QED
  BY <1>1, <1>2, <1>3, <1>4, <1>5, <1>6, <1>7, <1>8, <1>9, <1>10
     DEF Next, Commit, Abort, DeadlockVictim, Rollback

(* Whoever a writer waits for holds the month's lock, and then waits for   *)
(* nobody, or holds the lock row's key, and then waits for such a holder.  *)
LEMMA NobodyInACycle == TypeOK /\ OneRow => NoDeadlock
<1> SUFFICES ASSUME TypeOK, OneRow,
                    NEW S \in SUBSET InFlight, S # {},
                    \A w \in S : WaitsFor(w) # {} /\ WaitsFor(w) \subseteq S
             PROVE  FALSE
  BY DEF NoDeadlock
<1>1. \A w \in S : /\ w \in Writers /\ job[w].month \in Months
                   /\ pc[w] \in {"select", "create"}
                   /\ pc[w] = "select" => WaitsFor(w) = holders[job[w].month] \ {w}
                   /\ pc[w] = "create" => WaitsFor(w) = newLock[job[w].month] \ {w}
  BY DEF WaitsFor, TypeOK, InFlight, Job
<1>2. ASSUME NEW w \in S, pc[w] = "select"
      PROVE  FALSE
  <2>1. PICK v \in S : v \in holders[job[w].month]
    BY <1>1, <1>2
  <2>2. QED
    BY <1>1, <2>1 DEF OneRow
<1>3. ASSUME NEW w \in S, pc[w] = "create"
      PROVE  FALSE
  <2>1. PICK v \in S : v \in newLock[job[w].month]
    BY <1>1, <1>3
  <2>2. pc[v] = "select"
    BY <1>1, <2>1 DEF OneRow
  <2>3. QED
    BY <1>2, <2>2
<1>4. QED
  BY <1>1, <1>2, <1>3

(* Writers of one row per transaction, which is what the emission layer    *)
(* is, never wait for each other in a cycle: no audit row is lost to a     *)
(* deadlock, however many writers and months there are.                    *)
THEOREM WritersDoNotDeadlock ==
  ASSUME TxnRows = 1
  PROVE  Spec => []NoDeadlock
<1>1. Init => TypeOK /\ LockInv /\ OneRow
  BY InitLockInv, InitOneRow
<1>2. TypeOK /\ LockInv /\ OneRow /\ [Next]_vars => (TypeOK /\ LockInv /\ OneRow)'
  BY NextLockInv, NextOneRow
<1>3. TypeOK /\ LockInv /\ OneRow => NoDeadlock
  BY NobodyInACycle
<1>4. QED
  BY <1>1, <1>2, <1>3, PTL DEF Spec

-----------------------------------------------------------------------------
(***************************************************************************)
(* Forks.                                                                  *)
(***************************************************************************)
Stored == rows \cup UNION {pend[w] : w \in Writers}

\* No two rows, and no two rows being inserted, have one event_id.
DistinctIds ==
  /\ \A q, r \in Stored : q.event_id = r.event_id => q = r
  /\ \A v, w \in InFlight : job[v].event_id = job[w].event_id => v = w
  /\ \A w \in InFlight : pc[w] # "open" => \A r \in Stored : r.event_id # job[w].event_id

Links(r) == r.previous_hash \notin {Null, PaddedError}

\* Every link leads back to a row of the month, or stays in its last microsecond.
Continues(S) ==
  \A q \in S : Links(q) =>
    \E t \in S : /\ q.previous_hash = t.event_hash
                 /\ Before(t, q) \/ (Capped(t) /\ Capped(q))

Forkless(S) ==
  \A q, r \in S :
    q # r /\ Links(q) /\ q.previous_hash = r.previous_hash => Capped(q) /\ Capped(r)

Unforked(S) == Continues(S) /\ Forkless(S)

IdsInv ==
  /\ DistinctIds
  /\ \A r \in Stored : Sealed(r)

ForkInv ==
  /\ \A m \in Months : Unforked(MonthRows(rows, m))
  /\ \A w \in Writers, m \in Months : Unforked(MonthRows(Visible(w), m))
  /\ \A w \in Writers : \A t \in tail[w] : IsTail(t, MonthRows(Visible(w), job[w].month))

LEMMA InitForks == Init => IdsInv /\ ForkInv
BY DEF Init, IdsInv, DistinctIds, Stored, InFlight, ForkInv, Unforked, Continues, Forkless,
       MonthRows, Visible

\* No row is stored, and no new id is drawn.
LEMMA QuietIds ==
  ASSUME IdsInv, Stored' \subseteq Stored,
         \A v \in InFlight' : /\ v \in InFlight
                              /\ job'[v].event_id = job[v].event_id
                              /\ pc[v] = "open" => pc'[v] = "open"
  PROVE  IdsInv'
<1>1. \A r \in Stored : Sealed(r)' = Sealed(r)
  BY DEF Sealed
<1>2. DistinctIds'
  BY DEF IdsInv, DistinctIds
<1>3. QED
  BY <1>1, <1>2 DEF IdsInv, Sealed

LEMMA NextIdsInv == TypeOK /\ LockInv /\ IdsInv /\ [Next]_vars => IdsInv'
<1> SUFFICES ASSUME TypeOK, LockInv, IdsInv, [Next]_vars
             PROVE  IdsInv'
  OBVIOUS
<1>1. CASE Tick
  BY <1>1, QuietIds DEF Tick, tables, Stored, InFlight
<1>2. ASSUME NEW w \in Writers, NEW stamp, NEW now, Insert(w, stamp, now)
      PROVE  IdsInv'
  <2>1. PICK i \in EventIds \ UsedIds :
          job' = [job EXCEPT ![w] = [event_id |-> i, occurred_at |-> stamp,
                                     month |-> MonthOf[stamp], now |-> now]]
    BY <1>2 DEF Insert
  <2>2. /\ job'[w].event_id = i /\ \A v \in Writers \ {w} : job'[v] = job[v]
        /\ InFlight' = InFlight \cup {w}
        /\ \A v \in Writers \ {w} : pc'[v] = pc[v]
        /\ Stored' = Stored
    BY <1>2, <2>1 DEF Insert, TypeOK, InFlight, Stored, tables
  <2>3. /\ \A r \in Stored : r.event_id # i
        /\ \A v \in InFlight : job[v].event_id # i
    BY <2>1 DEF UsedIds, Stored
  <2>4. \A v \in InFlight' : v \in Writers /\ (v # w => v \in InFlight)
    BY <2>2 DEF InFlight
  <2>5. DistinctIds'
    BY <2>2, <2>3, <2>4 DEF IdsInv, DistinctIds
  <2>6. QED
    BY <2>2, <2>5 DEF IdsInv, Sealed
<1>3. ASSUME NEW w \in Writers, SelectLock(w) \/ CreateLock(w) \/ Restamp(w) \/ ReadTail(w)
      PROVE  IdsInv'
  <2>1. Stored' = Stored
    BY <1>3 DEF SelectLock, CreateLock, Restamp, ReadTail, Stored, tables
  <2>2. \A v \in Writers : job'[v].event_id = job[v].event_id
    <3>1. CASE Restamp(w)
      BY <3>1 DEF Restamp, TypeOK, InFlight, Job
    <3>2. CASE SelectLock(w) \/ CreateLock(w) \/ ReadTail(w)
      BY <3>2 DEF SelectLock, CreateLock, ReadTail
    <3>3. QED
      BY <1>3, <3>1, <3>2
  <2>3. \A v \in Writers : /\ pc[v] = "open" => pc'[v] = "open"
                           /\ pc'[v] # "idle" => pc[v] # "idle"
    BY <1>3 DEF SelectLock, CreateLock, Restamp, ReadTail, TypeOK
  <2>4. QED
    BY <2>1, <2>2, <2>3, QuietIds DEF InFlight
<1>4. ASSUME NEW w \in Writers, SealRow(w)
      PROVE  IdsInv'
  <2>1. PICK r : /\ r.event_id = job[w].event_id /\ Sealed(r)
                 /\ pend' = [pend EXCEPT ![w] = @ \cup {r}]
    BY <1>4, SealLockInv
  <2>2. /\ pc[w] = "seal" /\ w \in InFlight /\ pc'[w] = "open"
        /\ \A v \in Writers \ {w} : pc'[v] = pc[v]
        /\ job' = job /\ InFlight' = InFlight
        /\ Stored' = Stored \cup {r}
    BY <1>4, <2>1 DEF SealRow, TypeOK, InFlight, Stored, tables
  <2>3. DistinctIds'
    BY <2>1, <2>2 DEF IdsInv, DistinctIds, InFlight
  <2>4. Sealed(r)'
    BY <2>1 DEF Sealed
  <2>5. QED
    BY <2>2, <2>3, <2>4 DEF IdsInv, Sealed
<1>5. ASSUME NEW w \in Writers, Release(w), Stored' \subseteq Stored
      PROVE  IdsInv'
  <2>1. \A v \in InFlight' : v # w /\ v \in InFlight /\ job'[v] = job[v] /\ pc'[v] = pc[v]
    BY <1>5 DEF Release, TypeOK, InFlight
  <2>2. QED
    BY <1>5, <2>1, QuietIds
<1>6. ASSUME NEW w \in Writers, Commit(w)
      PROVE  IdsInv'
  BY <1>5, <1>6 DEF Commit, Release, TypeOK, Stored
<1>7. ASSUME NEW w \in Writers, Rollback(w)
      PROVE  IdsInv'
  BY <1>5, <1>7 DEF Rollback, Release, TypeOK, Stored, tables
<1>8. CASE UNCHANGED vars
  BY <1>8, QuietIds DEF vars, tables, Stored, InFlight
<1>9. QED
  BY <1>1, <1>2, <1>3, <1>4, <1>6, <1>7, <1>8
     DEF Next, Begin, InsertAgain, Abort, DeadlockVictim

(* A row put behind the tail continues a row nothing continues yet, the    *)
(* month's last microsecond excepted.                                      *)
LEMMA SealUnforked ==
  ASSUME NEW m \in Months, NEW T, AreRows(T), \A q \in T : MonthOf[q.occurred_at] = m,
         Unforked(T), \A q \in T : Sealed(q),
         \A p, q \in T : p.event_id = q.event_id => p = q,
         NEW r, IsRow(r), MonthOf[r.occurred_at] = m, r \notin T,
         \/ r.previous_hash = Null
         \/ \E t \in T : /\ IsTail(t, T)
                         /\ r.previous_hash = t.event_hash
                         /\ t.occurred_at < r.occurred_at \/ Capped(r)
  PROVE  Unforked(T \cup {r})
<1>1. \A q \in T \cup {r} : /\ q.occurred_at \in Nat /\ q.event_id \in Nat
                            /\ MonthOf[q.occurred_at] = m
                            /\ q.occurred_at <= LastInstant[m]
  BY CalendarAssumption, IdsAssumption DEF AreRows, IsRow
<1>2. LastInstant[m] \in Nat
  BY CalendarAssumption
<1>3. CASE ~Links(r)
  BY <1>3 DEF Unforked, Continues, Forkless, Links
<1>4. ASSUME NEW t \in T, IsTail(t, T), Links(r), r.previous_hash = t.event_hash,
             t.occurred_at < r.occurred_at \/ Capped(r)
      PROVE  Unforked(T \cup {r})
  <2>1. Before(t, r) \/ (Capped(t) /\ Capped(r))
    BY <1>1, <1>2, <1>4 DEF Before, Capped
  <2>2. ASSUME NEW q \in T, q.previous_hash = r.previous_hash
        PROVE  Capped(q) /\ Capped(r)
    <3>1. PICK s \in T : /\ q.previous_hash = s.event_hash
                         /\ Before(s, q) \/ (Capped(s) /\ Capped(q))
      BY <1>4, <2>2 DEF Unforked, Continues, Links
    <3>2. s.event_id = t.event_id
      <4>1. s.event_hash = t.event_hash
        BY <1>4, <2>2, <3>1
      <4>2. t.event_hash # PaddedError
        BY <1>4 DEF Links
      <4>3. Sealed(s) /\ Sealed(t)
        OBVIOUS
      <4>4. QED
        BY <4>1, <4>2, <4>3, DigestNames DEF Sealed
    <3>3. s = t
      BY <3>2
    <3>4. ~Before(t, q)
      BY <1>1, <1>4 DEF IsTail, Before
    <3>5. Capped(t) /\ Capped(q)
      BY <3>1, <3>3, <3>4
    <3>6. Capped(r)
      BY <1>1, <1>2, <1>4, <3>5 DEF Capped
    <3>7. QED
      BY <3>5, <3>6
  <2>3. Forkless(T \cup {r})
    BY <2>2 DEF Unforked, Forkless, Links
  <2>4. Continues(T \cup {r})
    BY <1>4, <2>1 DEF Unforked, Continues
  <2>5. QED
    BY <2>3, <2>4 DEF Unforked
<1>5. QED
  BY <1>3, <1>4 DEF Links

\* Nothing is stored, and every tail read stays what it was.
LEMMA QuietForks ==
  ASSUME ForkInv, rows' = rows, pend' = pend,
         \A w \in Writers :
           tail'[w] # {} => tail'[w] = tail[w] /\ job'[w].month = job[w].month
  PROVE  ForkInv'
<1>1. /\ \A m \in Months : MonthRows(rows, m)' = MonthRows(rows, m)
      /\ \A w \in Writers : \A m : MonthRows(rows' \cup pend'[w], m) = MonthRows(Visible(w), m)
  BY DEF MonthRows, Visible
<1>2. \A m \in Months : Unforked(MonthRows(rows, m))'
  BY <1>1 DEF ForkInv
<1>3. \A w \in Writers, m \in Months : Unforked(MonthRows(Visible(w), m))'
  BY <1>1 DEF ForkInv, Visible
<1>4. ASSUME NEW w \in Writers, NEW t \in tail'[w]
      PROVE  IsTail(t, MonthRows(Visible(w), job[w].month))'
  <2>1. tail'[w] = tail[w] /\ job'[w].month = job[w].month
    BY <1>4
  <2>2. IsTail(t, MonthRows(Visible(w), job[w].month))
    BY <2>1 DEF ForkInv
  <2>3. QED
    BY <1>1, <2>1, <2>2 DEF Visible
<1>5. QED
  BY <1>2, <1>3, <1>4 DEF ForkInv

(* Step 3: under the lock, the tail is the newest row there is; a failed   *)
(* query returns none.                                                     *)
LEMMA ReadTailForks ==
  ASSUME TypeOK, ForkInv, NEW w \in Writers, ReadTail(w)
  PROVE  ForkInv'
<1> DEFINE seen == MonthRows(Visible(w), job[w].month)
<1>1. PICK result : /\ tail' = [tail EXCEPT ![w] = result]
                    /\ \A t \in result : IsTail(t, seen)
  <2>1. \A result \in TailQuery(seen) \cup {{}} : \A t \in result : IsTail(t, seen)
    BY DEF TailQuery
  <2>2. QED
    BY <2>1 DEF ReadTail
<1>2. /\ rows' = rows /\ pend' = pend /\ job' = job
      /\ tail'[w] = result /\ \A v \in Writers \ {w} : tail'[v] = tail[v]
  BY <1>1 DEF ReadTail, TypeOK, tables
<1>3. \A v \in Writers : \A m : MonthRows(Visible(v), m)' = MonthRows(Visible(v), m)
  BY <1>2 DEF MonthRows, Visible
<1>4. \A m \in Months : Unforked(MonthRows(rows, m))'
  BY <1>2 DEF ForkInv, MonthRows
<1>5. \A v \in Writers, m \in Months : Unforked(MonthRows(Visible(v), m))'
  BY <1>3 DEF ForkInv
<1>6. \A v \in Writers : \A t \in tail'[v] : IsTail(t, MonthRows(Visible(v), job[v].month))'
  BY <1>1, <1>2, <1>3 DEF ForkInv
<1>7. QED
  BY <1>4, <1>5, <1>6 DEF ForkInv

LEMMA SealForks ==
  ASSUME TypeOK, LockInv, IdsInv, ForkInv, NEW w \in Writers, SealRow(w)
  PROVE  ForkInv'
<1> DEFINE m == job[w].month
           seen == MonthRows(Visible(w), m)
<1>1. PICK r :
        /\ IsRow(r) /\ MonthOf[r.occurred_at] = m
        /\ r.event_id = job[w].event_id
        /\ pend' = [pend EXCEPT ![w] = @ \cup {r}]
        /\ \/ tail[w] = {} /\ r.previous_hash = Null
           \/ \E t \in tail[w] :
                /\ r.previous_hash = t.event_hash
                /\ t.occurred_at < r.occurred_at \/ Capped(r)
  BY SealLockInv
<1>2. /\ pc[w] = "seal" /\ w \in InFlight /\ m \in Months
      /\ rows' = rows /\ job' = job
      /\ tail' = [tail EXCEPT ![w] = {}]
  BY DEF SealRow, tables, TypeOK, InFlight, Job
<1>3. /\ AreRows(seen) /\ \A q \in seen : MonthOf[q.occurred_at] = m
      /\ seen \subseteq Stored
  BY DEF TypeOK, AreRows, MonthRows, Visible, Stored
<1>4. /\ \A q \in seen : Sealed(q)
      /\ \A p, q \in seen : p.event_id = q.event_id => p = q
      /\ r \notin seen
  BY <1>1, <1>2, <1>3 DEF IdsInv, DistinctIds
<1>5. /\ Unforked(seen)
      /\ \/ r.previous_hash = Null
         \/ \E t \in seen : /\ IsTail(t, seen)
                            /\ r.previous_hash = t.event_hash
                            /\ t.occurred_at < r.occurred_at \/ Capped(r)
  BY <1>1, <1>2 DEF ForkInv, IsTail
<1>6. Unforked(seen \cup {r})
  <2> HIDE DEF seen, m
  <2>1. QED
    BY <1>1, <1>2, <1>3, <1>4, <1>5, SealUnforked
<1>7. pend'[w] = pend[w] \cup {r} /\ \A v \in Writers \ {w} : pend'[v] = pend[v]
  BY <1>1 DEF TypeOK
<1>8. ASSUME NEW v \in Writers, NEW k \in Months
      PROVE  Unforked(MonthRows(Visible(v), k))'
  <2>1. CASE v = w /\ k = m
    <3>1. MonthRows(Visible(v), k)' = seen \cup {r}
      BY <1>1, <1>2, <1>7, <2>1 DEF MonthRows, Visible
    <3>2. QED
      BY <1>6, <3>1
  <2>2. CASE ~(v = w /\ k = m)
    <3>1. MonthRows(Visible(v), k)' = MonthRows(Visible(v), k)
      BY <1>1, <1>2, <1>7, <2>2 DEF MonthRows, Visible
    <3>2. QED
      BY <3>1 DEF ForkInv
  <2>3. QED
    BY <2>1, <2>2
<1>9. \A k \in Months : Unforked(MonthRows(rows, k))'
  BY <1>2 DEF ForkInv, MonthRows
<1>10. ASSUME NEW v \in Writers, NEW t \in tail'[v]
       PROVE  IsTail(t, MonthRows(Visible(v), job[v].month))'
  <2>1. v # w /\ tail'[v] = tail[v]
    BY <1>2, <1>10 DEF TypeOK
  <2>2. MonthRows(Visible(v), job[v].month)' = MonthRows(Visible(v), job[v].month)
    BY <1>2, <1>7, <2>1 DEF MonthRows, Visible
  <2>3. QED
    BY <1>10, <2>1, <2>2 DEF ForkInv
<1>11. QED
  BY <1>8, <1>9, <1>10 DEF ForkInv

LEMMA CommitForks ==
  ASSUME TypeOK, LockInv, ForkInv, NEW w \in Writers, Commit(w)
  PROVE  ForkInv'
<1>1. \A m \in Months : Unforked(MonthRows(rows, m))'
  BY CommitViews DEF ForkInv
<1>2. \A v \in Writers, m \in Months : Unforked(MonthRows(Visible(v), m))'
  BY CommitViews DEF ForkInv
<1>3. ASSUME NEW v \in Writers, NEW t \in tail'[v]
      PROVE  IsTail(t, MonthRows(Visible(v), job[v].month))'
  <2>1. /\ v # w /\ pc[v] = "seal" /\ job'[v] = job[v] /\ tail'[v] = tail[v]
        /\ rows' = rows \cup pend[w] /\ pend'[v] = pend[v]
    BY <1>3 DEF Commit, Release, TypeOK, LockInv
  <2>2. job[v].month \in Months /\ v \in holders[job[v].month]
    BY <2>1 DEF TypeOK, LockInv, InTrigger, InFlight, Job
  <2>3. ~ \E q \in pend[w] : MonthOf[q.occurred_at] = job[v].month
    BY <2>1, <2>2 DEF LockInv, SerializedMonth
  <2>4. MonthRows(Visible(v), job[v].month)' = MonthRows(Visible(v), job[v].month)
    BY <2>1, <2>3 DEF MonthRows, Visible
  <2>5. QED
    BY <1>3, <2>1, <2>4 DEF ForkInv
<1>4. QED
  BY <1>1, <1>2, <1>3 DEF ForkInv

LEMMA RollbackForks ==
  ASSUME TypeOK, ForkInv, NEW w \in Writers, Rollback(w)
  PROVE  ForkInv'
<1>1. /\ rows' = rows
      /\ pend'[w] = {} /\ \A v \in Writers \ {w} : pend'[v] = pend[v]
      /\ tail'[w] = {}
      /\ \A v \in Writers \ {w} : job'[v] = job[v] /\ tail'[v] = tail[v]
  BY DEF Rollback, Release, TypeOK, tables
<1>2. \A m \in Months : Unforked(MonthRows(rows, m))'
  BY <1>1 DEF ForkInv, MonthRows
<1>3. \A v \in Writers \ {w} : \A m : MonthRows(Visible(v), m)' = MonthRows(Visible(v), m)
  BY <1>1 DEF MonthRows, Visible
<1>4. \A m : MonthRows(Visible(w), m)' = MonthRows(rows, m)
  BY <1>1 DEF MonthRows, Visible
<1>5. \A v \in Writers, m \in Months : Unforked(MonthRows(Visible(v), m))'
  BY <1>3, <1>4 DEF ForkInv
<1>6. \A v \in Writers : \A t \in tail'[v] : IsTail(t, MonthRows(Visible(v), job[v].month))'
  BY <1>1, <1>3 DEF ForkInv
<1>7. QED
  BY <1>2, <1>5, <1>6 DEF ForkInv

LEMMA NextForkInv == TypeOK /\ LockInv /\ IdsInv /\ ForkInv /\ [Next]_vars => ForkInv'
<1> SUFFICES ASSUME TypeOK, LockInv, IdsInv, ForkInv, [Next]_vars
             PROVE  ForkInv'
  OBVIOUS
<1>1. CASE Tick \/ UNCHANGED vars
  BY <1>1, QuietForks DEF Tick, vars, tables
<1>2. ASSUME NEW w \in Writers, pc[w] # "seal", tail' = tail, rows' = rows, pend' = pend,
             \A v \in Writers \ {w} : job'[v] = job[v]
      PROVE  ForkInv'
  BY <1>2, QuietForks DEF LockInv
<1>3. ASSUME NEW w \in Writers, pc[w] # "seal", NEW stamp, NEW now, Insert(w, stamp, now)
      PROVE  ForkInv'
  BY <1>2, <1>3 DEF Insert, tables, TypeOK
<1>4. ASSUME NEW w \in Writers, SelectLock(w) \/ CreateLock(w) \/ Restamp(w)
      PROVE  ForkInv'
  BY <1>2, <1>4 DEF SelectLock, CreateLock, Restamp, tables, TypeOK
<1>5. QED
  BY <1>1, <1>3, <1>4, ReadTailForks, SealForks, CommitForks, RollbackForks
     DEF Next, Begin, InsertAgain, Abort, DeadlockVictim

(* A fork, two rows of a month that continue one row, needs the month's    *)
(* last microsecond or a failure the trigger swallows (a row sealed as     *)
(* HASH_ERROR, a row linked to nothing), whatever writers, operators,      *)
(* clocks and crashes do; here also when the tail query may fail.          *)
THEOREM NoForkBeforeTheCap == Spec => []ForksOnlyAtCap
<1>1. Init => TypeOK /\ LockInv /\ IdsInv /\ ForkInv
  BY InitLockInv, InitForks
<1>2. TypeOK /\ LockInv /\ IdsInv /\ ForkInv /\ [Next]_vars =>
        (TypeOK /\ LockInv /\ IdsInv /\ ForkInv)'
  BY NextLockInv, NextIdsInv, NextForkInv
<1>3. TypeOK /\ ForkInv => ForksOnlyAtCap
  <2> SUFFICES ASSUME TypeOK, ForkInv, NEW q \in rows, NEW r \in rows, q # r,
                      MonthOf[q.occurred_at] = MonthOf[r.occurred_at],
                      q.previous_hash = r.previous_hash,
                      q.previous_hash \notin {Null, PaddedError}
               PROVE  Capped(q) /\ Capped(r)
    BY DEF ForksOnlyAtCap
  <2>1. MonthOf[q.occurred_at] \in Months
    BY CalendarAssumption DEF TypeOK, AreRows, IsRow
  <2>2. {q, r} \subseteq MonthRows(rows, MonthOf[q.occurred_at])
    BY DEF MonthRows
  <2>3. QED
    BY <2>1, <2>2 DEF ForkInv, Unforked, Forkless, Links
<1>4. QED
  BY <1>1, <1>2, <1>3, PTL DEF Spec

-----------------------------------------------------------------------------
(***************************************************************************)
(* The writers implement the abstract log.  For writers of one row per     *)
(* transaction, and as long as no failure is swallowed by the trigger.     *)
(***************************************************************************)
PendingNew == \A w \in Writers : \A p \in pend[w] : p \notin rows

Enumerated ==
  /\ IsFiniteSet(rows)
  /\ \A m \in Months :
       LET S == Settled(m) IN \A k \in 1 .. Cardinality(S) : Ranked(S, k) # {}

LogInv ==
  /\ TypeOK /\ LockInv /\ ChainInv /\ OneRow /\ IdsInv
  /\ PendingNew
  /\ Enumerated

-----------------------------------------------------------------------------
(***************************************************************************)
(* Ranks.  A row put after every row of a set is the one past the last in  *)
(* its order, and leaves every other row where it was.                     *)
(***************************************************************************)
LEMMA RankOfNew ==
  ASSUME NEW S, IsFiniteSet(S), NEW x, x \notin S, AreRows(S \cup {x}),
         \A q \in S : Before(q, x)
  PROVE  /\ Cardinality(S) \in Nat
         /\ Cardinality(S \cup {x}) = Cardinality(S) + 1
         /\ \A k \in 1 .. Cardinality(S) : Ranked(S \cup {x}, k) = Ranked(S, k)
         /\ Ranked(S \cup {x}, Cardinality(S) + 1) = {x}
<1> DEFINE n == Cardinality(S)
           T == S \cup {x}
           under(U, r) == {q \in U : Before(q, r)}
<1>1. n \in Nat /\ Cardinality(T) = n + 1
  BY FS_CardinalityType, FS_AddElement
<1>2. \A q \in T : q.occurred_at \in Nat /\ q.event_id \in Nat
  BY CalendarAssumption, IdsAssumption DEF AreRows, IsRow
<1>3. ~Before(x, x) /\ \A r \in S : ~Before(x, r) /\ ~Before(r, r)
  BY <1>2 DEF Before
<1>4. under(T, x) = S
  BY <1>3
<1>5. \A r \in S : under(T, r) = under(S, r)
  BY <1>3
<1>6. ASSUME NEW r \in S PROVE Cardinality(under(S, r)) \in Nat /\ Cardinality(under(S, r)) < n
  <2>1. under(S, r) \in SUBSET S /\ under(S, r) # S
    BY <1>3
  <2>2. /\ IsFiniteSet(under(S, r)) /\ Cardinality(under(S, r)) <= n
        /\ n = Cardinality(under(S, r)) => S = under(S, r)
    <3> HIDE DEF under
    <3> QED
      BY <2>1, FS_Subset
  <2>3. Cardinality(under(S, r)) \in Nat
    BY <2>2, FS_CardinalityType
  <2> HIDE DEF under
  <2> QED
    BY <1>1, <2>1, <2>2, <2>3
<1>7. \A U : \A k : Ranked(U, k) = {r \in U : Cardinality(under(U, r)) = k - 1}
  BY DEF Ranked
<1> HIDE DEF under
<1>8. ASSUME NEW k \in 1 .. n PROVE Ranked(T, k) = Ranked(S, k)
  <2>1. Cardinality(under(T, x)) # k - 1
    BY <1>1, <1>4
  <2> QED
    BY <1>5, <1>7, <2>1
<1>9. Ranked(T, n + 1) = {x}
  <2>1. Cardinality(under(T, x)) = (n + 1) - 1
    BY <1>1, <1>4
  <2>2. ASSUME NEW r \in S PROVE Cardinality(under(T, r)) # (n + 1) - 1
    <3>1. under(T, r) = under(S, r) /\ Cardinality(under(S, r)) < n
      BY <1>5, <1>6
    <3>2. Cardinality(under(T, r)) < n /\ Cardinality(under(T, r)) \in Nat
      BY <1>6, <3>1
    <3> HIDE DEF n
    <3> QED
      BY <1>1, <3>2
  <2> QED
    BY <1>7, <2>1, <2>2
<1> QED
  BY <1>1, <1>8, <1>9

\* The newest row is the last in the order.
LEMMA RankOfTail ==
  ASSUME NEW S, IsFiniteSet(S), AreRows(S), NEW t, IsTail(t, S)
  PROVE  Cardinality(S) \in Nat \ {0} /\ Ranked(S, Cardinality(S)) = {t}
<1> DEFINE R == S \ {t}
<1>1. t \in S /\ R \cup {t} = S /\ t \notin R /\ \A q \in R : Before(q, t)
  BY DEF IsTail
<1>2. IsFiniteSet(R)
  BY FS_RemoveElement
<1> HIDE DEF R
<1>3. /\ Cardinality(R) \in Nat
      /\ Cardinality(R \cup {t}) = Cardinality(R) + 1
      /\ Ranked(R \cup {t}, Cardinality(R) + 1) = {t}
  BY <1>1, <1>2, RankOfNew
<1> QED
  BY <1>1, <1>3

(***************************************************************************)
(* A row put after every other appends its entry.                          *)
(***************************************************************************)
LEMMA InOrderAppends ==
  ASSUME NEW S, IsFiniteSet(S), NEW x, x \notin S, AreRows(S \cup {x}),
         \A q \in S : Before(q, x)
  PROVE  InOrder(S \cup {x}) = Append(InOrder(S), LogEntry(x))
<1> DEFINE n == Cardinality(S)
           T == S \cup {x}
           V == {LogEntry(RowAt(T, k)) : k \in 1 .. n + 1}
<1>1. /\ n \in Nat /\ Cardinality(T) = n + 1
      /\ \A k \in 1 .. n : Ranked(T, k) = Ranked(S, k)
      /\ Ranked(T, n + 1) = {x}
  BY RankOfNew
<1>2. \A k \in 1 .. n : RowAt(T, k) = RowAt(S, k)
  BY <1>1 DEF RowAt
<1>3. RowAt(T, n + 1) = x
  BY <1>1 DEF RowAt
<1>4. InOrder(T) = [k \in 1 .. n + 1 |-> LogEntry(RowAt(T, k))]
  BY <1>1 DEF InOrder
<1>5. InOrder(S) = [k \in 1 .. n |-> LogEntry(RowAt(T, k))]
  BY <1>2 DEF InOrder
<1>6. InOrder(S) \in Seq(V) /\ Len(InOrder(S)) = n /\ LogEntry(x) \in V
  <2>1. \A k \in 1 .. n : LogEntry(RowAt(T, k)) \in V
    BY <1>1
  <2>2. LogEntry(x) \in V
    BY <1>1, <1>3
  <2> HIDE DEF n, T, V
  <2>3. InOrder(S) \in Seq(V) /\ Len(InOrder(S)) = n
    BY <1>1, <1>5, <2>1
  <2> QED
    BY <2>2, <2>3
<1> HIDE DEF n, T, V
<1>7. Append(InOrder(S), LogEntry(x))
        = [k \in 1 .. n + 1 |-> IF k = n + 1 THEN LogEntry(x) ELSE InOrder(S)[k]]
  <2> DEFINE longer == Append(InOrder(S), LogEntry(x))
  <2>1. /\ longer \in Seq(V) /\ Len(longer) = n + 1
        /\ \A k \in 1 .. n : longer[k] = InOrder(S)[k]
        /\ longer[n + 1] = LogEntry(x)
    BY <1>6, AppendProperties
  <2> HIDE DEF longer
  <2>2. longer \in [1 .. n + 1 -> V]
    BY <2>1, LenProperties
  <2>3. \A k \in 1 .. n + 1 :
          longer[k] = IF k = n + 1 THEN LogEntry(x) ELSE InOrder(S)[k]
    BY <1>1, <2>1
  <2>4. longer = [k \in 1 .. n + 1 |-> IF k = n + 1 THEN LogEntry(x) ELSE InOrder(S)[k]]
    BY <2>2, <2>3
  <2> QED
    BY <2>4 DEF longer
<1>8. \A k \in 1 .. n + 1 : (IF k = n + 1 THEN LogEntry(x) ELSE InOrder(S)[k])
                              = LogEntry(RowAt(T, k))
  BY <1>1, <1>3, <1>5
<1>9. Append(InOrder(S), LogEntry(x)) = [k \in 1 .. n + 1 |-> LogEntry(RowAt(T, k))]
  BY <1>7, <1>8
<1> QED
  BY <1>4, <1>9 DEF T

\* The newest entry of the log is the entry of the newest row.
LEMMA NewestOf ==
  ASSUME NEW S, IsFiniteSet(S), AreRows(S)
  PROVE  /\ S = {} => InOrder(S) = <<>>
         /\ \A t : IsTail(t, S) => Log!Newest(InOrder(S)) = t.event_id
<1>1. CASE S = {}
  <2>1. Cardinality(S) = 0
    BY <1>1, FS_EmptySet
  <2>2. InOrder(S) = <<>>
    BY <2>1 DEF InOrder
  <2> QED
    BY <1>1, <2>2 DEF IsTail
<1>2. ASSUME NEW t, IsTail(t, S) PROVE Log!Newest(InOrder(S)) = t.event_id
  <2> DEFINE n == Cardinality(S)
  <2>1. n \in Nat \ {0} /\ RowAt(S, n) = t
    BY <1>2, RankOfTail DEF RowAt
  <2>2. InOrder(S) = [k \in 1 .. n |-> LogEntry(RowAt(S, k))]
    BY DEF InOrder
  <2> HIDE DEF n
  <2>3. Len(InOrder(S)) = n /\ InOrder(S)[n] = LogEntry(t) /\ InOrder(S) # <<>>
    BY <2>1, <2>2
  <2> QED
    BY <2>3 DEF Log!Newest, LogEntry
<1> QED
  BY <1>1, <1>2 DEF IsTail

-----------------------------------------------------------------------------
(***************************************************************************)
(* What a commit publishes, in the month of the row and in the others.     *)
(***************************************************************************)
LEMMA NextPendingNew ==
  ASSUME TypeOK, LockInv, IdsInv, PendingNew, [Next]_vars
  PROVE  PendingNew'
<1>1. CASE UNCHANGED <<rows, pend>>
  BY <1>1 DEF PendingNew
<1>2. ASSUME NEW w \in Writers, SealRow(w) PROVE PendingNew'
  <2>1. PICK r : r.event_id = job[w].event_id /\ pend' = [pend EXCEPT ![w] = @ \cup {r}]
    BY <1>2, SealLockInv
  <2>2. \A v \in Writers : \A p \in pend'[v] : p \in pend[v] \/ p = r
    BY <2>1 DEF TypeOK
  <2>3. r \notin rows /\ rows' = rows
    BY <1>2, <2>1 DEF SealRow, IdsInv, DistinctIds, InFlight, Stored, tables
  <2> QED
    BY <2>2, <2>3 DEF PendingNew
<1>3. ASSUME NEW w \in Writers, Commit(w) PROVE PendingNew'
  <2>1. /\ rows' = rows \cup pend[w]
        /\ pend'[w] = {} /\ \A v \in Writers \ {w} : pend'[v] = pend[v]
    BY <1>3 DEF Commit, Release, TypeOK
  <2>2. \A v \in Writers \ {w} : \A p \in pend[v] : p \notin pend[w]
    BY <1>3, CommitViews
  <2> QED
    BY <2>1, <2>2 DEF PendingNew
<1>4. ASSUME NEW w \in Writers, Rollback(w) PROVE PendingNew'
  BY <1>4 DEF Rollback, Release, PendingNew, TypeOK, tables
<1> QED
  BY <1>1, <1>2, <1>3, <1>4
     DEF Next, vars, tables, Tick, Begin, InsertAgain, Insert, SelectLock, CreateLock,
         Restamp, ReadTail, Abort, DeadlockVictim

\* One row, behind every settled row of its month, linked to the newest of them.
Appends(r, m) ==
  LET S == Settled(m) IN
    /\ m \in Months /\ r.event_id \in EventIds
    /\ r \notin S /\ AreRows(S \cup {r}) /\ IsFiniteSet(S)
    /\ Settled(m)' = S \cup {r}
    /\ \A n \in Months \ {m} : Settled(n)' = Settled(n)
    /\ \A q \in rows : q.event_id # r.event_id
    /\ \A q \in S : Before(q, r)
    /\ \/ S = {} /\ PreviousEvent(r) = 0
       \/ \E t \in S : IsTail(t, S) /\ PreviousEvent(r) = t.event_id

\* A row of the last microsecond is no entry of the log; another one is the next.
LEMMA CommitAppends ==
  ASSUME "hash" \notin Faults, LogInv, NEW w \in Writers, Commit(w)
  PROVE  \E r \in pend[w] :
           /\ rows' = rows \cup {r}
           /\ \/ \A m \in Months : Settled(m)' = Settled(m)
              \/ Appends(r, MonthOf[r.occurred_at])
<1>1. PICK r \in pend[w] : pend[w] = {r}
  BY DEF Commit, LogInv, OneRow
<1> DEFINE m == MonthOf[r.occurred_at]
           S == MonthRows(rows, m)
<1>2. rows' = rows \cup {r} /\ r \notin rows
  BY <1>1 DEF Commit, LogInv, PendingNew
<1>3. /\ IsRow(r) /\ m \in Months /\ r.event_id \in EventIds
      /\ AreRows(S \cup {r})
      /\ \A q \in S : q.occurred_at \in Nat /\ q.occurred_at <= LastInstant[m]
      /\ r.occurred_at \in Nat /\ r.occurred_at <= LastInstant[m] /\ LastInstant[m] \in Nat
  BY <1>1, CalendarAssumption DEF LogInv, TypeOK, AreRows, IsRow, MonthRows
<1>4. IsFiniteSet(S)
  <2>1. S \in SUBSET rows
    BY DEF MonthRows
  <2> QED
    BY <2>1, FS_Subset DEF LogInv, Enumerated
<1>5. /\ MonthRows(rows, m)' = S \cup {r}
      /\ \A n \in Months \ {m} : MonthRows(rows, n)' = MonthRows(rows, n)
  BY <1>2 DEF MonthRows
<1>6. CASE Capped(r)
  <2>1. \A n \in Months : Settled(n)' = Settled(n)
    BY <1>5, <1>6 DEF Settled, Capped
  <2> QED
    BY <1>2, <2>1
<1>7. CASE ~Capped(r)
  <2>1. \A q \in S : Before(q, r) /\ ~Capped(q)
    <3> SUFFICES ASSUME NEW q \in S PROVE Before(q, r) /\ ~Capped(q)
      OBVIOUS
    <3>1. q.occurred_at < r.occurred_at
      BY <1>1, <1>7 DEF LogInv, ChainInv, PendingBehind, Behind
    <3>2. MonthOf[q.occurred_at] = m
      BY DEF MonthRows
    <3> QED
      BY <1>3, <3>1, <3>2 DEF Before, Capped
  <2>2. Settled(m) = S /\ Settled(m)' = S \cup {r}
    BY <1>5, <1>7, <2>1 DEF Settled, Capped
  <2>3. \A n \in Months \ {m} : Settled(n)' = Settled(n)
    BY <1>5 DEF Settled, Capped
  <2>4. \A q \in rows : q.event_id # r.event_id
    BY <1>2 DEF LogInv, IdsInv, DistinctIds, Stored
  <2>5. Linked(S \cup {r}, r)
    <3>1. MonthRows(Visible(w), m) = S \cup {r}
      BY <1>1, <1>2 DEF MonthRows, Visible
    <3>2. Chained(S \cup {r})
      BY <1>3, <3>1 DEF LogInv, ChainInv
    <3> QED
      BY <1>7, <3>2 DEF Crowded, Chained
  <2>6. {q \in S \cup {r} : q # r /\ Before(q, r)} = S
    BY <1>2, <2>1 DEF MonthRows
  <2>7. \/ S = {} /\ r.previous_hash = Null
        \/ \E t \in S : IsTail(t, S) /\ r.previous_hash = t.event_hash
    BY <2>5, <2>6 DEF Linked
  <2>8. \A t \in S : t.event_hash # Null /\ t.event_hash.event_id = t.event_id
    BY DigestNames DEF LogInv, IdsInv, Stored, MonthRows, Sealed
  <2>9. \/ S = {} /\ PreviousEvent(r) = 0
        \/ \E t \in S : IsTail(t, S) /\ PreviousEvent(r) = t.event_id
    BY <2>7, <2>8 DEF PreviousEvent
  <2>10. r \notin S
    BY <1>2 DEF MonthRows
  <2>11. Appends(r, m)
    BY <1>3, <1>4, <2>1, <2>2, <2>3, <2>4, <2>9, <2>10 DEF Appends
  <2> QED
    BY <1>2, <2>11
<1> QED
  BY <1>6, <1>7

LEMMA NextEnumerated ==
  ASSUME "hash" \notin Faults, LogInv, [Next]_vars
  PROVE  Enumerated'
<1>1. CASE rows' = rows
  BY <1>1 DEF LogInv, Enumerated, Settled, MonthRows, Capped
<1>2. ASSUME NEW w \in Writers, Commit(w) PROVE Enumerated'
  <2>1. PICK r \in pend[w] :
          /\ rows' = rows \cup {r}
          /\ \/ \A m \in Months : Settled(m)' = Settled(m)
             \/ Appends(r, MonthOf[r.occurred_at])
    BY <1>2, CommitAppends
  <2>2. IsFiniteSet(rows')
    BY <2>1, FS_AddElement DEF LogInv, Enumerated
  <2>3. CASE \A m \in Months : Settled(m)' = Settled(m)
    <3>1. \A m \in Months : \A k \in 1 .. Cardinality(Settled(m)') : Ranked(Settled(m)', k) # {}
      BY <2>3 DEF LogInv, Enumerated
    <3> QED
      BY <2>2, <3>1 DEF Enumerated, Ranked
  <2>4. CASE Appends(r, MonthOf[r.occurred_at])
    <3> DEFINE m == MonthOf[r.occurred_at]
               S == Settled(m)
    <3>1. /\ m \in Months /\ Settled(m)' = S \cup {r}
          /\ \A n \in Months \ {m} : Settled(n)' = Settled(n)
      BY <2>4 DEF Appends
    <3>2. /\ Cardinality(S) \in Nat
          /\ Cardinality(S \cup {r}) = Cardinality(S) + 1
          /\ \A k \in 1 .. Cardinality(S) : Ranked(S \cup {r}, k) = Ranked(S, k)
          /\ Ranked(S \cup {r}, Cardinality(S) + 1) = {r}
      BY <2>4, RankOfNew DEF Appends
    <3>3. \A k \in 1 .. Cardinality(S) : Ranked(S, k) # {}
      BY <3>1 DEF LogInv, Enumerated
    <3>4. ASSUME NEW k \in 1 .. Cardinality(S \cup {r}) PROVE Ranked(S \cup {r}, k) # {}
      <4>1. CASE k \in 1 .. Cardinality(S)
        BY <3>2, <3>3, <4>1
      <4>2. CASE k = Cardinality(S) + 1
        BY <3>2, <4>2
      <4>3. k \in 1 .. Cardinality(S) \/ k = Cardinality(S) + 1
        BY <3>2
      <4> QED
        BY <4>1, <4>2, <4>3
    <3>5. ASSUME NEW n \in Months
          PROVE  \A k \in 1 .. Cardinality(Settled(n)') : Ranked(Settled(n)', k) # {}
      BY <3>1, <3>4 DEF LogInv, Enumerated
    <3> QED
      BY <2>2, <3>5 DEF Enumerated, Ranked
  <2> QED
    BY <2>1, <2>3, <2>4
<1> QED
  BY <1>1, <1>2
     DEF Next, vars, tables, Tick, Begin, InsertAgain, Insert, SelectLock, CreateLock,
         Restamp, ReadTail, SealRow, Abort, DeadlockVictim, Rollback

LEMMA NextLogInv ==
  ASSUME TxnRows = 1, Faults \subseteq {"abort"}
  PROVE  LogInv /\ [Next]_vars => LogInv'
<1> SUFFICES ASSUME LogInv, [Next]_vars PROVE LogInv'
  OBVIOUS
<1>1. (TypeOK /\ LockInv /\ ChainInv)'
  BY NextLockInv, NextChainInv DEF LogInv
<1>2. OneRow'
  BY NextOneRow DEF LogInv
<1>3. IdsInv' /\ PendingNew'
  BY NextIdsInv, NextPendingNew DEF LogInv
<1>4. Enumerated'
  BY NextEnumerated
<1> QED
  BY <1>1, <1>2, <1>3, <1>4 DEF LogInv

LEMMA InitLogInv == Init => LogInv
<1> SUFFICES ASSUME Init PROVE LogInv
  OBVIOUS
<1>1. PendingNew
  BY DEF Init, PendingNew
<1>2. Enumerated
  <2>1. IsFiniteSet({}) /\ Cardinality({}) = 0
    BY FS_EmptySet
  <2>2. rows = {} /\ \A m \in Months : Settled(m) = {}
    BY DEF Init, MonthRows, Settled
  <2> QED
    BY <2>1, <2>2 DEF Enumerated
<1> QED
  BY <1>1, <1>2, InitLockInv, InitChainInv, InitOneRow, InitForks DEF LogInv

-----------------------------------------------------------------------------
(***************************************************************************)
(* The refinement.                                                         *)
(***************************************************************************)
LEMMA InitMapped == Init => Log!Init
<1> SUFFICES ASSUME Init PROVE Log!Init
  OBVIOUS
<1>1. IsFiniteSet({}) /\ AreRows({})
  BY FS_EmptySet DEF AreRows
<1>2. InOrder({}) = <<>>
  BY <1>1, NewestOf
<1>3. \A m \in Months : Settled(m) = {}
  BY DEF Init, MonthRows, Settled
<1> QED
  BY <1>2, <1>3 DEF Log!Init, ChainLog

\* Every entry of the log is a committed row's.
LEMMA LoggedAreRows ==
  ASSUME LogInv
  PROVE  \A i \in Log!Logged : \E q \in rows : q.event_id = i
<1> SUFFICES ASSUME NEW m \in Months, NEW k \in DOMAIN ChainLog[m]
             PROVE  \E q \in rows : q.event_id = ChainLog[m][k].event_id
  BY DEF Log!Logged
<1> DEFINE S == Settled(m)
<1>1. ChainLog[m] = InOrder(S)
  BY DEF ChainLog
<1>2. k \in 1 .. Cardinality(S) /\ InOrder(S)[k] = LogEntry(RowAt(S, k))
  BY <1>1 DEF InOrder
<1>3. RowAt(S, k) \in Ranked(S, k)
  BY <1>2 DEF LogInv, Enumerated, RowAt
<1>4. RowAt(S, k) \in rows
  BY <1>3 DEF Ranked, Settled, MonthRows
<1> QED
  BY <1>1, <1>2, <1>4 DEF LogEntry

LEMMA AppendMapped ==
  ASSUME LogInv, NEW r, Appends(r, MonthOf[r.occurred_at])
  PROVE  Log!Next
<1> DEFINE m == MonthOf[r.occurred_at]
           S == Settled(m)
<1>1. /\ m \in Months /\ r.event_id \in EventIds /\ Settled(m)' = S \cup {r}
      /\ \A n \in Months \ {m} : Settled(n)' = Settled(n)
      /\ IsFiniteSet(S) /\ AreRows(S)
  BY DEF Appends, AreRows
<1>2. InOrder(S \cup {r}) = Append(InOrder(S), LogEntry(r))
  BY InOrderAppends DEF Appends
<1>3. Log!Newest(InOrder(S)) = PreviousEvent(r)
  <2>1. CASE S = {} /\ PreviousEvent(r) = 0
    BY <1>1, <2>1, NewestOf DEF Log!Newest, Log!NoEntry
  <2>2. CASE \E t \in S : IsTail(t, S) /\ PreviousEvent(r) = t.event_id
    BY <1>1, <2>2, NewestOf
  <2> QED
    BY <2>1, <2>2 DEF Appends
<1>4. LogEntry(r) = Log!Entry(r.event_id, Log!Newest(InOrder(S)))
  BY <1>3 DEF LogEntry, Log!Entry
<1>5. ChainLog' = [ChainLog EXCEPT ![m] =
                     Append(ChainLog[m], Log!Entry(r.event_id, Log!Newest(ChainLog[m])))]
  <2>1. ChainLog[m] = InOrder(S) /\ \A n \in Months : ChainLog[n] = InOrder(Settled(n))
    BY <1>1 DEF ChainLog
  <2>2. ChainLog' = [n \in Months |-> InOrder(Settled(n)')]
    BY DEF ChainLog, InOrder, RowAt, Ranked, LogEntry, PreviousEvent
  <2>3. \A n \in Months : InOrder(Settled(n)') =
          IF n = m THEN Append(ChainLog[m], Log!Entry(r.event_id, Log!Newest(ChainLog[m])))
                   ELSE ChainLog[n]
    BY <1>1, <1>2, <1>4, <2>1
  <2>4. DOMAIN ChainLog = Months
    BY DEF ChainLog
  <2> QED
    BY <1>1, <2>2, <2>3, <2>4
<1>6. r.event_id \notin Log!Logged
  BY LoggedAreRows DEF Appends
<1>7. Log!Record(m, r.event_id)
  BY <1>5, <1>6 DEF Log!Record
<1> QED
  BY <1>1, <1>7 DEF Log!Next

(***************************************************************************)
(* The committed rows, those of a month's last microsecond apart, are an   *)
(* append-only log per month in which every entry names the entry before   *)
(* it: locks, aborts, clock steps, floors and the interleaving of any      *)
(* number of writers are invisible.                                        *)
(***************************************************************************)
THEOREM WritersImplementLog ==
  ASSUME TxnRows = 1, Faults \subseteq {"abort"}
  PROVE  Spec => ImplementsLog
<1>1. Init => LogInv /\ Log!Init
  BY InitLogInv, InitMapped
<1>2. LogInv /\ [Next]_vars => LogInv'
  BY NextLogInv
<1>3. LogInv /\ [Next]_vars => [Log!Next]_ChainLog
  <2> SUFFICES ASSUME LogInv, [Next]_vars PROVE [Log!Next]_ChainLog
    OBVIOUS
  <2>1. ASSUME \A m \in Months : Settled(m)' = Settled(m) PROVE ChainLog' = ChainLog
    <3>1. ChainLog' = [m \in Months |-> InOrder(Settled(m)')]
      BY DEF ChainLog, InOrder, RowAt, Ranked, LogEntry, PreviousEvent
    <3> QED
      BY <2>1, <3>1 DEF ChainLog
  <2>2. CASE rows' = rows
    BY <2>1, <2>2 DEF Settled, MonthRows, Capped
  <2>3. ASSUME NEW w \in Writers, Commit(w) PROVE [Log!Next]_ChainLog
    BY <2>1, <2>3, CommitAppends, AppendMapped
  <2>4. rows' = rows \/ \E w \in Writers : Commit(w)
    BY DEF Next, vars, tables, Tick, Begin, InsertAgain, Insert, SelectLock, CreateLock,
           Restamp, ReadTail, SealRow, Abort, DeadlockVictim, Rollback
  <2> QED
    BY <2>2, <2>3, <2>4
<1> QED
  BY <1>1, <1>2, <1>3, PTL DEF Spec, ImplementsLog, Log!Spec

-----------------------------------------------------------------------------
(***************************************************************************)
(* The verifier over the writers' rows.  What it recomputes it finds in    *)
(* the row, because no link is to a padded sentinel, which canonicalize    *)
(* would trim.                                                             *)
(***************************************************************************)
Unpadded == \A r \in Stored : r.previous_hash # PaddedError

FiniteTables == IsFiniteSet(rows) /\ \A w \in Writers : IsFiniteSet(pend[w])

TrailInv ==
  /\ TypeOK /\ LockInv /\ ChainInv /\ IdsInv /\ ForkInv
  /\ Unpadded /\ FiniteTables

LEMMA InitTrailInv == Init => TrailInv
<1> SUFFICES ASSUME Init PROVE TrailInv
  OBVIOUS
<1>1. IsFiniteSet({})
  BY FS_EmptySet
<1>2. Unpadded /\ FiniteTables
  BY <1>1 DEF Init, Unpadded, FiniteTables, Stored
<1> QED
  BY <1>2, InitLockInv, InitChainInv, InitForks DEF TrailInv

LEMMA NextUnpadded ==
  ASSUME Faults \subseteq {"abort"}, TrailInv, [Next]_vars
  PROVE  (Unpadded /\ FiniteTables)'
<1>1. ASSUME NEW w \in Writers, SealRow(w) PROVE (Unpadded /\ FiniteTables)'
  <2>1. PICK r : /\ pend' = [pend EXCEPT ![w] = @ \cup {r}]
                 /\ \/ tail[w] = {} /\ r.previous_hash = Null
                    \/ \E t \in tail[w] : r.previous_hash = t.event_hash
    BY <1>1, SealLockInv DEF TrailInv
  <2>2. \A t \in tail[w] : Sealed(t)
    BY DEF TrailInv, ForkInv, IsTail, MonthRows, Visible, IdsInv, Stored
  <2>3. \A t \in tail[w] : t.event_hash # PaddedError
    BY <2>2, DigestNames DEF Sealed
  <2>4. Null # PaddedError
    BY DEF Null, PaddedError
  <2>5. r.previous_hash # PaddedError
    BY <2>1, <2>3, <2>4
  <2>6. rows' = rows /\ pend'[w] = pend[w] \cup {r} /\ \A v \in Writers \ {w} : pend'[v] = pend[v]
    BY <1>1, <2>1 DEF SealRow, tables, TrailInv, TypeOK
  <2>7. \A q \in Stored' : q \in Stored \/ q = r
    BY <2>6 DEF Stored
  <2>8. IsFiniteSet(pend[w] \cup {r})
    BY FS_AddElement DEF TrailInv, FiniteTables
  <2> QED
    BY <2>5, <2>6, <2>7, <2>8 DEF TrailInv, Unpadded, FiniteTables
<1>2. ASSUME NEW w \in Writers, Release(w), rows' \in {rows, rows \cup pend[w]}
      PROVE  (Unpadded /\ FiniteTables)'
  <2>1. pend'[w] = {} /\ \A v \in Writers \ {w} : pend'[v] = pend[v]
    BY <1>2 DEF Release, TrailInv, TypeOK
  <2>2. Stored' \subseteq Stored
    BY <1>2, <2>1 DEF Stored
  <2>3. IsFiniteSet(rows') /\ IsFiniteSet({})
    <3>1. IsFiniteSet(rows) /\ IsFiniteSet(pend[w])
      BY DEF TrailInv, FiniteTables
    <3>2. IsFiniteSet(rows \cup pend[w])
      BY <3>1, FS_Union
    <3>3. IsFiniteSet(rows')
      BY <1>2, <3>1, <3>2
    <3> QED
      BY <3>3, FS_EmptySet
  <2> QED
    BY <2>1, <2>2, <2>3 DEF TrailInv, Unpadded, FiniteTables
<1>3. CASE UNCHANGED <<rows, pend>>
  BY <1>3 DEF TrailInv, Unpadded, FiniteTables, Stored
<1> QED
  BY <1>1, <1>2, <1>3
     DEF Next, vars, tables, Tick, Begin, InsertAgain, Insert, SelectLock, CreateLock,
         Restamp, ReadTail, Commit, Abort, DeadlockVictim, Rollback

LEMMA SpecTrailInv ==
  ASSUME Faults \subseteq {"abort"}
  PROVE  Spec => []TrailInv
<1>1. TrailInv /\ [Next]_vars => TrailInv'
  <2> SUFFICES ASSUME TrailInv, [Next]_vars PROVE TrailInv'
    OBVIOUS
  <2>1. (TypeOK /\ LockInv /\ ChainInv)'
    BY NextLockInv, NextChainInv DEF TrailInv
  <2>2. IdsInv' /\ ForkInv'
    BY NextIdsInv, NextForkInv DEF TrailInv
  <2> QED
    BY <2>1, <2>2, NextUnpadded DEF TrailInv
<1> QED
  BY <1>1, InitTrailInv, PTL DEF Spec

\* The rows of a month as the verifier fetches them: all sound but for the
\* payloads its normalisation rejects.
LEMMA FetchedFields ==
  ASSUME NEW r
  PROVE  /\ Fetched(r).event_id = r.event_id /\ Fetched(r).payload = r.event_id
         /\ Fetched(r).ms = MilliOf[r.occurred_at]
         /\ Fetched(r).canon_version \in KnownVersions
         /\ Fetched(r).previous_hash = r.previous_hash
         /\ Fetched(r).event_hash = r.event_hash
         /\ DOMAIN Fetched(r) = {"event_id", "ms", "payload", "canon_version",
                                 "previous_hash", "event_hash"}
BY DEF Fetched, KnownVersions

LEMMA FetchedAsWritten ==
  ASSUME Faults \subseteq {"abort"}, TrailInv, NEW m \in Months
  PROVE  /\ Keyed(FetchedRows(m))
         /\ \A f \in FetchedRows(m) :
              /\ Checked(f) /\ f.event_hash # Null /\ f.payload = f.event_id
              /\ f.previous_hash # PaddedError
              /\ f.event_hash = Digest(f.event_id, f.ms, f.payload, f.previous_hash)
              /\ ~Mismatched(f)
<1> DEFINE S == MonthRows(rows, m)
<1>1. /\ IsFiniteSet(S)
      /\ \A q \in S : q \in rows /\ q \in Stored
  <2>1. S \in SUBSET rows
    BY DEF MonthRows
  <2> QED
    BY <2>1, FS_Subset DEF TrailInv, FiniteTables, Stored
<1>2. FetchedRows(m) = {Fetched(r) : r \in S}
  BY DEF FetchedRows
<1> HIDE DEF S
<1>3. IsFiniteSet(FetchedRows(m))
  <2> DEFINE fetch == [r \in S |-> Fetched(r)]
  <2>1. fetch \in Surjection(S, FetchedRows(m))
    BY <1>2 DEF Surjection
  <2> HIDE DEF fetch
  <2> QED
    BY <1>1, <2>1, FS_Surjection
<1>4. ASSUME NEW r \in S
      PROVE  LET f == Fetched(r) IN
               /\ f.ms \in Nat /\ f.event_id \in Nat
               /\ Checked(f) /\ f.event_hash # Null /\ f.payload = f.event_id
               /\ f.previous_hash # PaddedError
               /\ f.event_hash = Digest(f.event_id, f.ms, f.payload, f.previous_hash)
               /\ ~Mismatched(f)
  <2> DEFINE f == Fetched(r)
  <2>1. /\ f.event_id = r.event_id /\ f.payload = r.event_id /\ f.ms = MilliOf[r.occurred_at]
        /\ f.canon_version \in KnownVersions
        /\ f.previous_hash = r.previous_hash /\ f.event_hash = r.event_hash
    BY FetchedFields
  <2> HIDE DEF f
  <2>2. r.event_id \in Nat /\ MilliOf[r.occurred_at] \in Nat
    BY <1>1, IdsAssumption, MilliAssumption DEF TrailInv, TypeOK, AreRows, IsRow
  <2>3. /\ r.event_hash = Digest(r.event_id, MilliOf[r.occurred_at], r.event_id, r.previous_hash)
        /\ r.previous_hash # PaddedError
    BY <1>1 DEF TrailInv, IdsInv, Sealed, Unpadded
  <2>4. r.event_hash \notin {Null, HashError}
    BY <2>3, DigestNames
  <2>5. recomputeHash(f) = f.event_hash
    BY <2>1, <2>3 DEF recomputeHash, Trimmed
  <2> QED
    BY <2>1, <2>2, <2>3, <2>4, <2>5 DEF Checked, Mismatched, f
<1>5. \A q, r \in S : Fetched(q).event_id = Fetched(r).event_id => Fetched(q) = Fetched(r)
  <2>1. \A q, r \in S : q.event_id = r.event_id => q = r
    BY <1>1 DEF TrailInv, IdsInv, DistinctIds
  <2> QED
    BY <2>1, FetchedFields
<1> QED
  BY <1>2, <1>3, <1>4, <1>5 DEF Keyed

\* A break is at a row that shares its millisecond, or right after such a row:
\* elsewhere the walk's order is the chain's.
LEMMA BreaksShareMilliseconds ==
  ASSUME Faults \subseteq {"abort"}, TrailInv, NEW m \in Months,
         NEW n \in Nat, n = Cardinality(FetchedRows(m)),
         NEW walk, Len(walk) = n, Sorted(walk, FetchedRows(m)),
         NEW k \in 1 .. n, BrokenAt(walk, k)
  PROVE  \E j \in {k - 1, k} \cap DOMAIN walk : InSharedMillisecond(walk, j)
<1> SUFFICES ASSUME \A j \in {k - 1, k} \cap DOMAIN walk : ~InSharedMillisecond(walk, j)
             PROVE  FALSE
  OBVIOUS
<1> DEFINE F == FetchedRows(m)
           S == MonthRows(rows, m)
<1>1. /\ \A j \in 1 .. n : walk[j] \in F
      /\ \A f \in F : \E j \in 1 .. n : walk[j] = f
      /\ \A i, j \in 1 .. n : WalkOrder(walk[i], walk[j]) <=> i < j
      /\ DOMAIN walk = 1 .. n
  BY DEF Sorted
<1>2. k - 1 \in 1 .. n /\ k - 1 # k /\ walk[k].previous_hash # walk[k - 1].event_hash
  BY DEF BrokenAt
<1>3. \A j \in 1 .. n : /\ j # k => walk[j].ms # walk[k].ms
                        /\ j # k - 1 => walk[j].ms # walk[k - 1].ms
  BY <1>1, <1>2 DEF InSharedMillisecond
<1>4. \A j \in 1 .. n : walk[j].ms \in Nat
  BY <1>1, FetchedAsWritten DEF Keyed
<1>5. \A j \in 1 .. n : /\ j < k => walk[j].ms < walk[k].ms
                        /\ walk[j].ms < walk[k].ms => j < k
                        /\ j < k - 1 => walk[j].ms < walk[k - 1].ms
  BY <1>1, <1>2, <1>3, <1>4 DEF WalkOrder
<1>6. \A f \in F : \E r \in S : f = Fetched(r)
  BY DEF FetchedRows
<1>7. PICK r \in S : walk[k] = Fetched(r)
  BY <1>1, <1>6
<1>8. PICK t \in S : walk[k - 1] = Fetched(t)
  BY <1>1, <1>2, <1>6
<1>9. \A q \in S : Fetched(q) \in F
  BY DEF FetchedRows
<1>10. \A q, s \in S : /\ q.occurred_at \in Nat /\ s.occurred_at \in Nat
                       /\ MilliOf[q.occurred_at] \in Nat /\ MilliOf[s.occurred_at] \in Nat
                       /\ MilliOf[q.occurred_at] < MilliOf[s.occurred_at] =>
                            q.occurred_at < s.occurred_at
  <2>1. \A q \in S : q.occurred_at \in Instants /\ q.occurred_at \in Nat
    BY CalendarAssumption DEF TrailInv, TypeOK, AreRows, IsRow, MonthRows
  <2>2. \A q \in S : MilliOf[q.occurred_at] \in Nat
    BY <2>1, MilliAssumption
  <2> SUFFICES ASSUME NEW q \in S, NEW s \in S,
                      MilliOf[q.occurred_at] < MilliOf[s.occurred_at]
               PROVE  q.occurred_at < s.occurred_at
    BY <2>1, <2>2
  <2>3. s.occurred_at <= q.occurred_at => MilliOf[s.occurred_at] <= MilliOf[q.occurred_at]
    BY <2>1, MilliAssumption
  <2> QED
    BY <2>1, <2>2, <2>3
<1> DEFINE earlier == {q \in S : q # r /\ Before(q, r)}
<1>11. ASSUME NEW q \in S
       PROVE  /\ q \in earlier <=> MilliOf[q.occurred_at] < MilliOf[r.occurred_at]
              /\ q \in earlier => q = t \/ MilliOf[q.occurred_at] < MilliOf[t.occurred_at]
              /\ q = r \/ MilliOf[q.occurred_at] # MilliOf[r.occurred_at]
  <2>1. PICK j \in 1 .. n : walk[j] = Fetched(q)
    BY <1>1, <1>9
  <2>2. /\ walk[j].ms = MilliOf[q.occurred_at] /\ walk[j].event_id = q.event_id
        /\ walk[k].ms = MilliOf[r.occurred_at] /\ walk[k].event_id = r.event_id
        /\ walk[k - 1].ms = MilliOf[t.occurred_at] /\ walk[k - 1].event_id = t.event_id
    BY <1>7, <1>8, <2>1, FetchedFields
  <2>3. \A s \in S : s.event_id = q.event_id => s = q
    BY DEF TrailInv, IdsInv, DistinctIds, Stored, MonthRows
  <2>4. /\ j = k => q = r
        /\ j = k - 1 => q = t
        /\ q = r => j = k
    BY <1>1, <1>3, <2>2, <2>3
  <2>5. q.occurred_at \in Nat /\ r.occurred_at \in Nat
        /\ (MilliOf[q.occurred_at] < MilliOf[r.occurred_at] => q.occurred_at < r.occurred_at)
        /\ (MilliOf[r.occurred_at] < MilliOf[q.occurred_at] => r.occurred_at < q.occurred_at)
    BY <1>10
  <2>6. MilliOf[q.occurred_at] \in Nat /\ MilliOf[r.occurred_at] \in Nat
    BY <1>10
  <2>7. j = k \/ MilliOf[q.occurred_at] # MilliOf[r.occurred_at]
    BY <1>3, <2>2
  <2>8. q \in earlier <=> MilliOf[q.occurred_at] < MilliOf[r.occurred_at]
    BY <2>4, <2>5, <2>6, <2>7 DEF Before
  <2>9. q \in earlier => q = t \/ MilliOf[q.occurred_at] < MilliOf[t.occurred_at]
    <3> SUFFICES ASSUME q \in earlier, q # t
                 PROVE  MilliOf[q.occurred_at] < MilliOf[t.occurred_at]
      OBVIOUS
    <3>1. j < k /\ j # k - 1
      BY <1>5, <2>2, <2>4, <2>8
    <3>2. j < k - 1
      BY <3>1
    <3> QED
      BY <1>5, <2>2, <3>2
  <2> QED
    BY <2>4, <2>7, <2>8, <2>9
<1> HIDE DEF earlier
<1>12. MilliOf[t.occurred_at] < MilliOf[r.occurred_at]
  <2>1. walk[k - 1].ms < walk[k].ms
    BY <1>2, <1>5
  <2> QED
    BY <1>7, <1>8, <2>1, FetchedFields
<1>13. IsTail(t, earlier)
  <2>1. t \in earlier
    BY <1>11, <1>12
  <2>2. \A q \in earlier : q \in S
    BY DEF earlier
  <2>3. \A q \in earlier : q = t \/ Before(q, t)
    BY <1>10, <1>11, <2>2 DEF Before
  <2> QED
    BY <2>1, <2>3 DEF IsTail
<1>14. ~Crowded(S, r)
  <2> SUFFICES ASSUME NEW q \in S, q # r, Capped(q), Capped(r) PROVE FALSE
    BY DEF Crowded
  <2>1. q.occurred_at = r.occurred_at
    BY DEF Capped, MonthRows
  <2> QED
    BY <1>11, <2>1
<1>15. Linked(S, r)
  BY <1>14 DEF TrailInv, ChainInv, ChainOrder, Chained
<1>16. r.previous_hash = t.event_hash
  <2>1. \/ earlier = {}
        \/ \E u \in earlier : IsTail(u, earlier) /\ r.previous_hash = u.event_hash
    BY <1>15 DEF Linked, earlier
  <2>2. \A u : IsTail(u, earlier) => u = t
    <3> SUFFICES ASSUME NEW u, IsTail(u, earlier), u # t PROVE FALSE
      OBVIOUS
    <3>1. u \in S /\ t \in S /\ Before(u, t) /\ Before(t, u)
      BY <1>13 DEF IsTail, earlier
    <3>2. /\ u.occurred_at \in Nat /\ t.occurred_at \in Nat
          /\ u.event_id \in Nat /\ t.event_id \in Nat
      BY <1>10, <3>1, IdsAssumption DEF TrailInv, TypeOK, AreRows, IsRow, MonthRows
    <3> QED
      BY <3>1, <3>2 DEF Before
  <2> QED
    BY <1>13, <2>1, <2>2 DEF IsTail
<1> QED
  BY <1>2, <1>7, <1>8, <1>16, FetchedFields

LEMMA TrailExplained ==
  ASSUME Faults \subseteq {"abort"}, TrailInv
  PROVE  AlarmsExplained
<1> SUFFICES ASSUME NEW m \in Months
             PROVE  LET walk == fetchPartition(m) IN
                      /\ Verdict(m).mismatches = {}
                      /\ Verdict(m).unrecomputable =
                           {r.event_id : r \in MonthRows(rows, m)} \cap Rejected
                      /\ \A k \in DOMAIN walk :
                           walk[k].event_id \in Verdict(m).breaks =>
                             \E j \in {k - 1, k} \cap DOMAIN walk : InSharedMillisecond(walk, j)
  BY DEF AlarmsExplained
<1> DEFINE F == FetchedRows(m)
           walk == fetchPartition(m)
           n == Len(walk)
<1>1. Keyed(F)
  BY FetchedAsWritten
<1>2. \A f \in F : Checked(f) /\ ~Mismatched(f) /\ f.event_hash # Null /\ f.payload = f.event_id
  BY FetchedAsWritten
<1>3. walk = Walk(F) /\ Verdict(m) = verifyPartition(Walk(F))
  BY DEF fetchPartition, Verdict
<1>4. \A f : (f \in F) <=> \E r \in MonthRows(rows, m) : f = Fetched(r)
  BY DEF FetchedRows
<1> HIDE DEF F, walk
<1>5. /\ n = Cardinality(F) /\ n \in Nat /\ Sorted(walk, F)
      /\ Verdict(m).mismatches = {r.event_id : r \in {q \in F : Mismatched(q)}}
      /\ Verdict(m).unrecomputable = {r.event_id : r \in {q \in F : Unrecomputable(q)}}
      /\ (\A r \in F : r.event_hash # Null) =>
           Verdict(m).breaks = Ids(walk, {k \in 1 .. n : BrokenAt(walk, k)})
  BY <1>1, <1>3, WalkVerdict
<1>6. Verdict(m).mismatches = {}
  BY <1>2, <1>5
<1>7. Verdict(m).unrecomputable = {r.event_id : r \in MonthRows(rows, m)} \cap Rejected
  <2>1. \A f \in F : Unrecomputable(f) <=> f.event_id \in Rejected
    BY <1>2 DEF Unrecomputable
  <2>2. {f.event_id : f \in F} = {r.event_id : r \in MonthRows(rows, m)}
    BY <1>4, FetchedFields
  <2>3. {f.event_id : f \in {q \in F : Unrecomputable(q)}} = {f.event_id : f \in F} \cap Rejected
    BY <2>1
  <2> QED
    BY <1>5, <2>2, <2>3
<1>8. ASSUME NEW k \in DOMAIN walk, walk[k].event_id \in Verdict(m).breaks
      PROVE  \E j \in {k - 1, k} \cap DOMAIN walk : InSharedMillisecond(walk, j)
  <2> HIDE DEF n
  <2>1. Verdict(m).breaks = Ids(walk, {j \in 1 .. n : BrokenAt(walk, j)})
    BY <1>2, <1>5
  <2>2. PICK j \in 1 .. n : BrokenAt(walk, j) /\ walk[j].event_id = walk[k].event_id
    BY <1>8, <2>1 DEF Ids
  <2>3. /\ k \in 1 .. n /\ walk[j] \in F /\ walk[k] \in F
        /\ \A i \in 1 .. n : WalkOrder(walk[i], walk[j]) <=> i < j
        /\ \A i \in 1 .. n : WalkOrder(walk[i], walk[k]) <=> i < k
    BY <1>5 DEF Sorted
  <2>4. walk[j] = walk[k]
    BY <1>1, <2>2, <2>3 DEF Keyed
  <2>5. j = k
    BY <2>3, <2>4
  <2> HIDE DEF n
  <2>6. BrokenAt(walk, k) /\ Len(walk) = n
    BY <2>2, <2>5 DEF n
  <2> QED
    BY <1>5, <2>3, <2>6, BreaksShareMilliseconds DEF F, n
<1> QED
  BY <1>3, <1>6, <1>7, <1>8 DEF walk

(***************************************************************************)
(* What a verification of the trail reports at any moment, while any       *)
(* number of writers insert, abort, backfill and have their clocks         *)
(* stepped: no mismatch; exactly the rows its own normalisation rejects;   *)
(* and no break but at or after a row that shares its millisecond.         *)
(***************************************************************************)
THEOREM AlarmsAreExplained ==
  ASSUME Faults \subseteq {"abort"}
  PROVE  Spec => []AlarmsExplained
BY SpecTrailInv, TrailExplained, PTL

LEMMA AlteredIsMismatch ==
  ASSUME Faults \subseteq {"abort"}, TrailInv, NEW m \in Months, NEW f \in FetchedRows(m),
         NEW ms \in Nat, NEW p, p \notin Rejected, <<ms, p>> # <<f.ms, f.payload>>
  PROVE  verifyPartition(Walk(Altered(FetchedRows(m), f, ms, p))).mismatches = {f.event_id}
<1> DEFINE F == FetchedRows(m)
           T == Altered(F, f, ms, p)
           g == [f EXCEPT !.ms = ms, !.payload = p]
<1>1. /\ Keyed(F)
      /\ \A h \in F : ~Mismatched(h)
      /\ Checked(f) /\ f.previous_hash # PaddedError
      /\ f.event_hash = Digest(f.event_id, f.ms, f.payload, f.previous_hash)
  BY FetchedAsWritten
<1>2. T = (F \ {f}) \cup {g}
  BY DEF Altered
<1>3. /\ g.event_id = f.event_id /\ g.ms = ms /\ g.payload = p
      /\ g.event_hash = f.event_hash /\ g.previous_hash = f.previous_hash
      /\ g.canon_version = f.canon_version
  <2>1. DOMAIN f = {"event_id", "ms", "payload", "canon_version", "previous_hash", "event_hash"}
    <3>1. PICK r : f = Fetched(r)
      BY DEF FetchedRows
    <3> QED
      BY <3>1, FetchedFields
  <2> QED
    BY <2>1
<1> HIDE DEF F, T, g
<1>4. Keyed(T)
  <2>1. IsFiniteSet(T)
    <3>1. IsFiniteSet(F \ {f})
      BY <1>1, FS_RemoveElement DEF Keyed
    <3> QED
      BY <1>2, <3>1, FS_AddElement
  <2>2. f \in F
    BY DEF F
  <2> QED
    BY <1>1, <1>2, <1>3, <2>1, <2>2 DEF Keyed
<1>5. Mismatched(g)
  <2>1. recomputeHash(g) = Digest(f.event_id, ms, p, f.previous_hash)
    BY <1>1, <1>3 DEF recomputeHash, Trimmed
  <2>2. recomputeHash(g) # f.event_hash
    <3>1. \A i, s, t, u, q, r :
            Digest(i, s, q, r) = Digest(i, t, u, r) => s = t /\ q = u
      <4> SUFFICES ASSUME NEW i, NEW s, NEW t, NEW u, NEW q, NEW r,
                          Digest(i, s, q, r) = Digest(i, t, u, r)
                   PROVE  s = t /\ q = u
        OBVIOUS
      <4>1. /\ Digest(i, s, q, r).ms = s /\ Digest(i, s, q, r).payload = q
            /\ Digest(i, t, u, r).ms = t /\ Digest(i, t, u, r).payload = u
        BY DEF Digest
      <4> QED
        BY <4>1
    <3> QED
      BY <1>1, <2>1, <3>1
  <2> QED
    BY <1>1, <1>3, <2>2 DEF Mismatched, Checked
<1>6. verifyPartition(Walk(T)).mismatches = {r.event_id : r \in {q \in T : Mismatched(q)}}
  BY <1>4, VerdictIsPerRow
<1>7. {q \in T : Mismatched(q)} = {g}
  BY <1>1, <1>2, <1>5
<1> QED
  BY <1>3, <1>6, <1>7 DEF T, F

(***************************************************************************)
(* A row of the trail whose stamp, to the millisecond, or protected        *)
(* columns are altered within its month is the one mismatch a verification *)
(* reports, whichever row it is and whatever else the trail holds.         *)
(***************************************************************************)
THEOREM AlterationsAreDetected ==
  ASSUME Faults \subseteq {"abort"}
  PROVE  Spec => []AlterationDetected
<1>1. ASSUME TrailInv PROVE AlterationDetected
  <2> SUFFICES ASSUME NEW m \in Months, NEW f \in FetchedRows(m),
                      NEW t \in {u \in Instants : MonthOf[u] = m}, NEW p \in EventIds \ Rejected,
                      f.payload \notin Rejected, <<MilliOf[t], p>> # <<f.ms, f.payload>>
               PROVE  verifyPartition(Walk(Altered(FetchedRows(m), f, MilliOf[t], p))).mismatches
                        = {f.event_id}
    BY DEF AlterationDetected
  <2>1. MilliOf[t] \in Nat
    BY MilliAssumption
  <2> QED
    BY <1>1, <2>1, AlteredIsMismatch
<1> QED
  BY <1>1, SpecTrailInv, PTL
=============================================================================
