----------------------------- MODULE Retention -----------------------------
(***************************************************************************)
(* Retirement of monthly partitions of gif.audit_events by operators (the  *)
(* procedure gif.retire_partition of migration 009), against the audit     *)
(* writes, the legal holds and the assignments that go on meanwhile.       *)
(*                                                                         *)
(* A row is inserted in one step here: its trigger is AuditChain's subject *)
(* and stamps it later than the tail of its month, the month's last        *)
(* microsecond and a failing tail query apart.  Statements run at READ     *)
(* COMMITTED, each on the rows committed before it.                        *)
(***************************************************************************)
EXTENDS AuditRows, FiniteSets, FiniteSetsExt

CONSTANTS
  Months,     \* partitions audit_events_YYYY_MM
  Personas, Users,
  Holds,      \* ids of retention_holds
  Operators,  \* CALLs of retire_partition
  EventIds,   \* gen_random_uuid's values, by the order of their text: no more rows than that
  MaxRows,    \* bound on the rows a month ever gets
  MilliOf     \* occurred_at as to_char renders it, of the first row of a month, its second, ...

Nobody == "nobody"
Free == "none"

ASSUME RetentionAssumption ==
  /\ Personas \cap Users = {}
  /\ Free \notin Personas \cup Users
  /\ Nobody \notin Operators
  /\ EventIds \subseteq Nat
  /\ MaxRows \in Nat
  /\ MilliOf \in [Months -> [1 .. MaxRows -> Nat]]
  /\ \A m \in Months : \A s, t \in 1 .. MaxRows : s <= t => MilliOf[m][s] <= MilliOf[m][t]

VARIABLES
  partitions,  \* months that have a partition
  rows,        \* audit_events
  target,      \* retention_holds: whom each hold is on
  released,    \* holds with a released_at
  assigned,    \* user_persona_assignments, revoked ones included
  pc, month,   \* each CALL, and the partition it names
  found,       \* its v_persona_ids and v_row_count
  parentLock,  \* the CALL that has audit_events locked, ACCESS EXCLUSIVE
  erasure,     \* erasure_log
  dropped,     \* history: rows that went with their partition
  atCall       \* history: rows, and rows with their active holds, as of the CALL

tables == <<rows, target, released, assigned>>
vars == <<partitions, tables, pc, month, found, parentLock, erasure, dropped, atCall>>

RowsOf(S, m) == {r \in S : r.month = m}

PersonasOf(S) == {r.persona : r \in S}

\* A hold on one of these personas, or on a user ever assigned to one.
HoldsPersonas(h, P) == target[h] \in P \/ \E p \in P : <<target[h], p>> \in assigned

ActiveHolds(P) == {h \in Holds : target[h] # Free /\ h \notin released /\ HoldsPersonas(h, P)}

HeldRows(S) == {rh \in S \X Holds : rh[2] \in ActiveHolds({rh[1].persona})}

Nothing == [personas |-> {}, rows |-> 0]
NoCall == [rows |-> {}, held |-> {}]

Init ==
  /\ partitions = Months
  /\ rows = {} /\ dropped = {}
  /\ target = [h \in Holds |-> Free]
  /\ released = {} /\ assigned = {}
  /\ pc = [o \in Operators |-> "idle"]
  /\ month \in [Operators -> Months]
  /\ found = [o \in Operators |-> Nothing]
  /\ parentLock = Nobody
  /\ erasure = {}
  /\ atCall = [o \in Operators |-> NoCall]

-----------------------------------------------------------------------------
(* Everyone else. *)

Newest(m) ==
  CHOOSE r \in RowsOf(rows, m) : \A q \in RowsOf(rows, m) : q.occurred_at <= r.occurred_at

NewestHash(m) == IF RowsOf(rows, m) = {} THEN Null ELSE Newest(m).event_hash

\* Stamps are counted in the month: what matters is their order and their milliseconds.
NextStamp(m) == IF RowsOf(rows, m) = {} THEN 1 ELSE Newest(m).occurred_at + 1

UsedIds == {r.event_id : r \in rows \cup dropped}

\* The row as the trigger leaves it.
NewRow(m, p, i) ==
  [event_id |-> i, occurred_at |-> NextStamp(m), month |-> m, persona |-> p,
   previous_hash |-> NewestHash(m),
   event_hash |-> Digest(i, MilliOf[m][NextStamp(m)], p, NewestHash(m))]

\* The INSERT is routed through audit_events; with no partition it fails.
Log(m, p) ==
  /\ m \in partitions /\ parentLock = Nobody
  /\ NextStamp(m) <= MaxRows
  /\ \E i \in EventIds \ UsedIds : rows' = rows \cup {NewRow(m, p, i)}
  /\ UNCHANGED <<partitions, target, released, assigned, pc, month, found, parentLock,
                 erasure, dropped, atCall>>

PlaceHold(h, x) ==
  /\ target[h] = Free
  /\ target' = [target EXCEPT ![h] = x]
  /\ UNCHANGED <<partitions, rows, released, assigned, pc, month, found, parentLock,
                 erasure, dropped, atCall>>

ReleaseHold(h) ==
  /\ target[h] # Free
  /\ released' = released \cup {h}
  /\ UNCHANGED <<partitions, rows, target, assigned, pc, month, found, parentLock,
                 erasure, dropped, atCall>>

Assign(u, p) ==
  /\ assigned' = assigned \cup {<<u, p>>}
  /\ UNCHANGED <<partitions, rows, target, released, pc, month, found, parentLock,
                 erasure, dropped, atCall>>

-----------------------------------------------------------------------------
(* gif.retire_partition, one transaction. *)

\* It has read the partition, and holds ACCESS SHARE on it until its end.
Shares(o) == pc[o] \in {"check", "log", "drop"}

End(o, outcome) ==
  /\ pc' = [pc EXCEPT ![o] = outcome]
  /\ parentLock' = IF parentLock = o THEN Nobody ELSE parentLock
  /\ found' = [found EXCEPT ![o] = Nothing]
  /\ atCall' = [atCall EXCEPT ![o] = NoCall]
  /\ UNCHANGED <<tables, month>>

\* Step 1: the partition exists in the catalog.
Call(o) ==
  /\ pc[o] = "idle"
  /\ IF month[o] \in partitions
       THEN /\ pc' = [pc EXCEPT ![o] = "collect"]
            /\ atCall' = [atCall EXCEPT ![o] =
                 [rows |-> RowsOf(rows, month[o]), held |-> HeldRows(RowsOf(rows, month[o]))]]
            /\ UNCHANGED <<tables, month, found, parentLock>>
       ELSE End(o, "failed")
  /\ UNCHANGED <<partitions, erasure, dropped>>

\* Mutant: count(DISTINCT persona_id) where count(*) is meant.
CountPersonas(S) == [personas |-> PersonasOf(S), rows |-> Cardinality(PersonasOf(S))]

CountRows(S) == [personas |-> PersonasOf(S), rows |-> Cardinality(S)]

\* Step 2 waits behind a DROP of the partition that waits itself.
Collect(o) ==
  /\ pc[o] = "collect"
  /\ parentLock # Nobody => month[parentLock] # month[o]
  /\ IF month[o] \in partitions
       THEN /\ found' = [found EXCEPT ![o] = CountRows(RowsOf(rows, month[o]))]
            /\ pc' = [pc EXCEPT ![o] = "check"]
            /\ UNCHANGED <<partitions, tables, month, parentLock, erasure, dropped, atCall>>
       ELSE End(o, "failed") /\ UNCHANGED <<partitions, erasure, dropped>>

\* Mutant: direct persona holds only.
DirectHolds(o) == {h \in Holds : target[h] \in found[o].personas /\ h \notin released}

HoldsOn(o) == ActiveHolds(found[o].personas)

\* Mutant: wait for the release of the hold.
AwaitRelease(o) == UNCHANGED <<tables, pc, month, found, parentLock, atCall>>

\* RAISE EXCEPTION.
Refuse(o) == End(o, "blocked")

\* Step 3, skipped for a partition without rows.
CheckHolds(o) ==
  /\ pc[o] = "check"
  /\ IF HoldsOn(o) = {}
       THEN /\ pc' = [pc EXCEPT ![o] = "log"]
            /\ UNCHANGED <<tables, month, found, parentLock, atCall>>
       ELSE Refuse(o)
  /\ UNCHANGED <<partitions, erasure, dropped>>

\* Step 4, and the beginning of Step 5: DROP TABLE locks the parent first.
LockParent(o) ==
  /\ pc[o] = "log" /\ parentLock = Nobody
  /\ parentLock' = o
  /\ pc' = [pc EXCEPT ![o] = "drop"]
  /\ UNCHANGED <<partitions, tables, month, found, erasure, dropped, atCall>>

Entry(o) == [operator |-> o, personas |-> found[o].personas, rows_deleted |-> found[o].rows]

\* Step 5 and COMMIT: the partition itself is locked when nobody reads it.
Drop(o) ==
  /\ pc[o] = "drop"
  /\ \A q \in Operators \ {o} : month[q] = month[o] => ~Shares(q)
  /\ partitions' = partitions \ {month[o]}
  /\ rows' = rows \ RowsOf(rows, month[o])
  /\ dropped' = dropped \cup RowsOf(rows, month[o])
  /\ erasure' = erasure \cup {Entry(o)}
  /\ pc' = [pc EXCEPT ![o] = "retired"]
  /\ parentLock' = Nobody
  /\ UNCHANGED <<target, released, assigned, month, found, atCall>>

\* Two CALLs of one partition that wait for each other's lock: one of them fails.
DeadlockVictim(o) ==
  /\ \E q \in Operators \ {o} :
       /\ month[q] = month[o]
       /\ {pc[o], pc[q]} = {"log", "drop"}
  /\ End(o, "failed")
  /\ UNCHANGED <<partitions, erasure, dropped>>

Retire(o) ==
  \/ Collect(o) \/ CheckHolds(o) \/ LockParent(o) \/ Drop(o) \/ DeadlockVictim(o)

Next ==
  \/ \E m \in Months, p \in Personas : Log(m, p)
  \/ \E h \in Holds : ReleaseHold(h) \/ \E x \in Personas \cup Users : PlaceHold(h, x)
  \/ \E u \in Users, p \in Personas : Assign(u, p)
  \/ \E o \in Operators : Call(o) \/ Retire(o)

Spec == Init /\ [][Next]_vars

\* A backend runs a procedure to its end; the deadlock detector runs.
FairSpec == Spec /\ \A o \in Operators : WF_vars(Retire(o))

-----------------------------------------------------------------------------
Finished == {"retired", "blocked", "failed"}

\* A row on which a hold was active when retire_partition was called is dropped
\* only if that hold has been released since, whether the hold is on its persona
\* or on a user assigned to it (retire_partition, Steps 2 and 3).  A hold placed
\* after Step 3 does not stop the DROP.
HeldRowsSurvive ==
  \A o \in Operators : pc[o] = "retired" =>
    \A rh \in atCall[o].held : rh[2] \in released

\* erasure_log has exactly one entry for every partition that is gone, and none
\* for a call that was blocked or failed; the entry names the persona of every
\* row that was there at the call, counts those rows, and counts none that was
\* not dropped (rows committed between the count and the DROP go uncounted).
ErasureAccounted ==
  /\ {e.operator : e \in erasure} = {o \in Operators : pc[o] = "retired"}
  /\ \A m \in Months \ partitions : \E e \in erasure : month[e.operator] = m
  /\ \A e, f \in erasure : month[e.operator] = month[f.operator] => e = f
  /\ \A e \in erasure :
       LET gone == RowsOf(dropped, month[e.operator]) IN
         /\ atCall[e.operator].rows \subseteq gone
         /\ PersonasOf(atCall[e.operator].rows) \subseteq e.personas
         /\ e.personas \subseteq PersonasOf(gone)
         /\ e.rows_deleted \in Cardinality(atCall[e.operator].rows) .. Cardinality(gone)

\* Every CALL ends, and with it the lock under which no audit row can be written.
RetirementsEnd ==
  \A o \in Operators : pc[o] # "idle" ~> pc[o] \in Finished
=============================================================================
