----------------------------- MODULE AuditTrail -----------------------------
(***************************************************************************)
(* The audit trail: the concurrent writers of AuditChain, read at any      *)
(* moment by the verifier of ChainVerifier, and the abstract log they      *)
(* implement together.                                                     *)
(***************************************************************************)
EXTENDS AuditChain, ChainVerifier

\* to_char(t, '...SS.MS') drops the microseconds.
ASSUME MilliAssumption ==
  /\ \A t \in Instants : MilliOf[t] \in Nat
  /\ \A s, t \in Instants : s <= t => MilliOf[s] <= MilliOf[t]

(***************************************************************************)
(* fetchPartitions: the committed rows of one month, one statement, so one *)
(* snapshot.                                                               *)
(***************************************************************************)
Fetched(r) ==
  [event_id |-> r.event_id, ms |-> MilliOf[r.occurred_at], payload |-> r.event_id,
   canon_version |-> "gif-audit/2",
   previous_hash |-> r.previous_hash, event_hash |-> r.event_hash]

FetchedRows(m) == {Fetched(r) : r \in MonthRows(rows, m)}

fetchPartition(m) == Walk(FetchedRows(m))

Verdict(m) == verifyPartition(fetchPartition(m))

-----------------------------------------------------------------------------
(* What the verifier says of rows the writers wrote, at every moment,      *)
(* between any two steps of concurrent writers: every row recomputes,      *)
(* except those its normalisation rejects and the trigger does not; and a  *)
(* link is reported broken only at a row that shares its millisecond with  *)
(* another row, or right after such a row.                                 *)
InSharedMillisecond(walk, k) ==
  \E j \in DOMAIN walk : j # k /\ walk[j].ms = walk[k].ms

AlarmsExplained ==
  \A m \in Months :
    LET walk == fetchPartition(m) IN
      /\ Verdict(m).mismatches = {}
      /\ Verdict(m).unrecomputable =
           {r.event_id : r \in MonthRows(rows, m)} \cap Rejected
      /\ \A k \in DOMAIN walk :
           walk[k].event_id \in Verdict(m).breaks =>
             \E j \in {k - 1, k} \cap DOMAIN walk : InSharedMillisecond(walk, j)

(* No link between rows the writers wrote is ever reported broken, as 016  *)
(* has it: linkage order is the sort order that chain verification walks.  *)
HonestTrailLinked == \A m \in Months : Verdict(m).breaks = {}

(* A row whose protected columns or stamp (to the millisecond) are altered *)
(* after it was written is reported as a mismatch and no other row is.     *)
Altered(S, f, ms, payload) == (S \ {f}) \cup {[f EXCEPT !.ms = ms, !.payload = payload]}

AlterationDetected ==
  \A m \in Months :
    \A f \in FetchedRows(m), t \in {u \in Instants : MonthOf[u] = m},
       p \in EventIds \ Rejected :
      (f.payload \notin Rejected /\ <<MilliOf[t], p>> # <<f.ms, f.payload>>) =>
        verifyPartition(Walk(Altered(FetchedRows(m), f, MilliOf[t], p))).mismatches
          = {f.event_id}

-----------------------------------------------------------------------------
(* Refinement: the committed rows, in the order of the trigger's tail      *)
(* query, are an append-only log in which every entry names the previous   *)
(* one; locks, aborts, clock steps and floors are invisible.  The rows of  *)
(* a month's last microsecond, which 016 excepts, are not in the log; what *)
(* is in it is an append-only log all the same.                            *)
PreviousEvent(r) ==
  IF r.previous_hash = Null THEN 0 ELSE r.previous_hash.event_id

LogEntry(r) == [event_id |-> r.event_id, prev |-> PreviousEvent(r)]

\* The rows with k - 1 rows before them: one, where event_ids differ.
Ranked(S, k) == {r \in S : Cardinality({q \in S : Before(q, r)}) = k - 1}

RowAt(S, k) == CHOOSE r \in Ranked(S, k) : TRUE

InOrder(S) == [k \in 1 .. Cardinality(S) |-> LogEntry(RowAt(S, k))]

Settled(m) == {r \in MonthRows(rows, m) : ~Capped(r)}

ChainLog == [m \in Months |-> InOrder(Settled(m))]

Log == INSTANCE AuditLog WITH log <- ChainLog

ImplementsLog == Log!Spec
=============================================================================
