---------------------------- MODULE AnchorAudit ----------------------------
(***************************************************************************)
(* Anchors and the operator's verifier CLI with --check-anchors, run while *)
(* rows are inserted and partitions retired.  The CLI reads month by month *)
(* and table by table: each statement has a snapshot of its own.           *)
(***************************************************************************)
EXTENDS Retention, ChainVerifier

CONSTANTS
  MaxAnchors,  \* bound on the anchors written
  Misnamed,    \* a partition_name, free text, that does not end in YYYY_MM
  Forgeries    \* what a rewritten row may name as its persona

\* A trail whose every string the verifier's normalisation accepts; AuditTrail has the others.
ASSUME AnchorAssumption ==
  /\ Misnamed \notin Months
  /\ (Personas \cup Forgeries) \cap Rejected = {}

VARIABLES
  anchors,  \* audit_chain_anchors
  cli       \* the verifier: its place, and what it has read

auditVars == <<vars, anchors, cli>>

\* NotFound: the lookup has no entry for this event.
NotFound == [kind |-> "undefined"]

Milli(r) == MilliOf[r.month][r.occurred_at]

Fetched(r) ==
  [event_id |-> r.event_id, ms |-> Milli(r), payload |-> r.persona,
   canon_version |-> "gif-audit/2",
   previous_hash |-> r.previous_hash, event_hash |-> r.event_hash]

Fetch(S) == Walk({Fetched(r) : r \in S})

-----------------------------------------------------------------------------
(* verify-core.ts. *)

\* Mutants: the row count left out; any change of it reported; the hash left out.
AnchorStatusNoCount(anchor, liveHash, liveCount) ==
  IF liveHash = NotFound THEN "event_not_found"
  ELSE IF liveHash # anchor.anchor_hash THEN "hash_mismatch"
  ELSE "ok"

AnchorStatusExact(anchor, liveHash, liveCount) ==
  IF liveHash = NotFound THEN "event_not_found"
  ELSE IF liveHash # anchor.anchor_hash THEN "hash_mismatch"
  ELSE IF liveCount # anchor.event_count THEN "shrunk"
  ELSE "ok"

AnchorStatusNoHash(anchor, liveHash, liveCount) ==
  IF liveHash = NotFound THEN "event_not_found"
  ELSE IF liveCount < anchor.event_count THEN "shrunk"
  ELSE "ok"

AnchorStatus(anchor, liveHash, liveCount) ==
  IF liveHash = NotFound THEN "event_not_found"
  ELSE IF liveHash # anchor.anchor_hash THEN "hash_mismatch"
  ELSE IF liveCount < anchor.event_count THEN "shrunk"
  ELSE "ok"

\* The anchors that fail, given the two lookups.
verifyAnchors(A, hashes, counts) ==
  {a \in A : AnchorStatus(a, hashes[a.event_id], counts[a.partition_name]) # "ok"}

\* verifyChain's ok, which decides the CLI's exit code.
ChainOk(findings, failed) == (\A v \in findings : Ok(v)) /\ failed = {}

\* The report: a label for each partition and each anchor, and the result.
PartitionLabel(v) ==
  IF v.mismatches = {} /\ v.breaks = {} /\ v.unrecomputable = {} THEN "OK" ELSE "FAIL"

renderHuman(findings, A, hashes, counts) ==
  LET failed == verifyAnchors(A, hashes, counts) IN
    [labels |-> {PartitionLabel(v) : v \in findings}
                \cup {IF a \in failed THEN "FAIL" ELSE "OK" : a \in A},
     result |-> IF ChainOk(findings, failed) THEN "PASS" ELSE "FAIL"]

-----------------------------------------------------------------------------
(* The CLI's statements.  Each reads audit_events through the parent, and  *)
(* waits for a DROP that has it locked.                                    *)

LiveHash(S, e) ==
  IF \E r \in S : r.event_id = e THEN (CHOOSE r \in S : r.event_id = e).event_hash ELSE NotFound

LiveHashes(S) == [e \in EventIds |-> LiveHash(S, e)]

\* No row is in the partition Misnamed, and none is counted for it.
LiveCounts(S) == [name \in Months \cup {Misnamed} |-> Cardinality(RowsOf(S, name))]

Idle == [at |-> "idle", months |-> {}, findings |-> {}, anchors |-> {}, hashes |-> <<>>, counts |-> <<>>]

AuditInit == Init /\ anchors = {} /\ cli = Idle

\* The operator's INSERT: the newest row of the month, and how many there are.
WriteAnchor(m, name) ==
  /\ parentLock = Nobody
  /\ Cardinality(anchors) < MaxAnchors
  /\ RowsOf(rows, m) # {}
  /\ anchors' = anchors \cup
       {[event_id |-> Newest(m).event_id, anchor_hash |-> NewestHash(m), partition_name |-> name,
         event_count |-> Cardinality(RowsOf(rows, m))]}
  /\ UNCHANGED <<vars, cli>>

fetchMonths ==
  /\ cli.at = "idle" /\ parentLock = Nobody
  /\ cli' = [Idle EXCEPT !.at = "partitions", !.months = {r.month : r \in rows}]
  /\ UNCHANGED <<vars, anchors>>

fetchPartition(m) ==
  /\ cli.at = "partitions" /\ m \in cli.months /\ parentLock = Nobody
  /\ cli' = [cli EXCEPT !.months = @ \ {m},
                        !.findings = @ \cup {verifyPartition(Fetch(RowsOf(rows, m)))}]
  /\ UNCHANGED <<vars, anchors>>

fetchAnchors ==
  /\ cli.at = "partitions" /\ cli.months = {}
  /\ cli' = [cli EXCEPT !.at = "hashes", !.anchors = anchors]
  /\ UNCHANGED <<vars, anchors>>

fetchLiveHashLookup ==
  /\ cli.at = "hashes" /\ parentLock = Nobody
  /\ cli' = [cli EXCEPT !.at = "counts", !.hashes = LiveHashes(rows),
                        !.months = {a.partition_name : a \in cli.anchors}]
  /\ UNCHANGED <<vars, anchors>>

\* One statement for each partition name.
fetchLiveCountLookup(name) ==
  /\ cli.at = "counts" /\ name \in cli.months /\ parentLock = Nobody
  /\ cli' = [cli EXCEPT !.months = @ \ {name},
                        !.counts = [k \in DOMAIN @ \cup {name} |->
                                      IF k = name THEN LiveCounts(rows)[name] ELSE @[k]]]
  /\ UNCHANGED <<vars, anchors>>

Report ==
  /\ cli.at = "counts" /\ cli.months = {}
  /\ cli' = [cli EXCEPT !.at = "reported"]
  /\ UNCHANGED <<vars, anchors>>

AuditNext ==
  \/ Next /\ UNCHANGED <<anchors, cli>>
  \/ \E m \in Months : fetchPartition(m) \/ \E name \in {m, Misnamed} : WriteAnchor(m, name)
  \/ \E name \in Months \cup {Misnamed} : fetchLiveCountLookup(name)
  \/ fetchMonths \/ fetchAnchors \/ fetchLiveHashLookup \/ Report

AuditSpec == AuditInit /\ [][AuditNext]_auditVars

-----------------------------------------------------------------------------
(* The walk follows the milliseconds and then the event_ids, which are     *)
(* random; links follow the microseconds.                                  *)
Crossed(q, r) ==
  /\ q.month = r.month /\ q.occurred_at < r.occurred_at
  /\ Milli(q) = Milli(r) /\ r.event_id < q.event_id

InWalkOrder(S) == \A q, r \in S : ~Crossed(q, r)

EverLogged == rows \cup dropped

OutOfPlace(r) == \E q \in EverLogged : Crossed(q, r) \/ Crossed(r, q)

(* What makes an honest trail fail verification, whatever is inserted or   *)
(* dropped between two of the CLI's statements: a link is reported broken  *)
(* only at a row the walk visits out of place, or at one that names such a *)
(* row; no row is a mismatch; an anchor fails only if its partition is     *)
(* gone (the anchor of a retired month then fails for ever) or its         *)
(* partition_name is no month, which counts as no rows.  The result        *)
(* printed agrees with the labels above it.                                *)
BreakExplained(e) ==
  \E r \in EverLogged : r.event_id = e /\
    \E s \in EverLogged : OutOfPlace(s) /\ (s = r \/ r.previous_hash = s.event_hash)

AlarmsHaveCauses ==
  cli.at = "reported" =>
    /\ \A v \in cli.findings : /\ v.mismatches = {} /\ v.unrecomputable = {}
                               /\ \A e \in v.breaks : BreakExplained(e)
    /\ \A a \in verifyAnchors(cli.anchors, cli.hashes, cli.counts) :
         a.partition_name \notin partitions
    /\ LET report == renderHuman(cli.findings, cli.anchors, cli.hashes, cli.counts)
       IN  report.result = "FAIL" <=> "FAIL" \in report.labels

\* A verification of S without a pause, against the anchors there are.
QuickCheck(S) ==
  ChainOk({verifyPartition(Fetch(RowsOf(S, m))) : m \in Months},
          verifyAnchors({a \in anchors : a.partition_name \in partitions},
                        LiveHashes(S), LiveCounts(S)))

(* Rows deleted behind the server's back: the walk finds every hole, and   *)
(* the anchors find a missing tail.  What they leave unnoticed is exactly  *)
(* a cut at either end of a month that spares the anchored rows and leaves *)
(* no fewer rows than an anchor counted: rows cut at the head are hidden   *)
(* by as many inserted since.  Two rows left that the walk visits out of   *)
(* place fail it, as they do when nothing is deleted.                      *)
Contiguous(S) ==
  \A r \in rows : (\E a, b \in S : a.month = r.month /\ b.month = r.month
                     /\ a.occurred_at < r.occurred_at /\ r.occurred_at < b.occurred_at) => r \in S

AnchorsSpared(S) ==
  \A a \in anchors : a.partition_name \in partitions =>
    /\ \E r \in S : r.event_id = a.event_id
    /\ Cardinality(RowsOf(S, a.partition_name)) >= a.event_count

DeletionNoticed ==
  \A S \in SUBSET rows :
    QuickCheck(S) <=> Contiguous(S) /\ InWalkOrder(S) /\ AnchorsSpared(S)

(* A month rewritten from row f on by someone who can recompute digests: f *)
(* names another persona and every later row is sealed again, on the one   *)
(* it was linked to.  The walk finds nothing that was not there before; an *)
(* anchor on f or on a later row tells.                                    *)
Reseal(r, prev, payload) ==
  [r EXCEPT !.persona = payload, !.previous_hash = prev,
            !.event_hash = Digest(r.event_id, Milli(r), payload, prev)]

RowBefore(S, r) ==
  CHOOSE q \in S : /\ q.occurred_at < r.occurred_at
                   /\ \A s \in S : s.occurred_at < r.occurred_at => s.occurred_at <= q.occurred_at

FromOn(S, f) == {r \in S : f.occurred_at <= r.occurred_at}

\* What each of those rows becomes.
Resealed(S, f, payload) ==
  LET new[r \in FromOn(S, f)] ==
        IF r = f THEN Reseal(f, f.previous_hash, payload)
                 ELSE Reseal(r, new[RowBefore(S, r)].event_hash, r.persona)
  IN  new

Rewritten(S, f, payload) ==
  (S \ FromOn(S, f)) \cup {Resealed(S, f, payload)[r] : r \in FromOn(S, f)}

RewriteNoticed ==
  \A f \in rows : \A payload \in Forgeries \ {f.persona} :
    LET whole == RowsOf(rows, f.month)
        S == (rows \ whole) \cup Rewritten(whole, f, payload) IN
      QuickCheck(S) <=>
        /\ InWalkOrder(rows)
        /\ ~\E a \in anchors : /\ a.partition_name = f.month
                              /\ \E r \in FromOn(whole, f) : a.event_id = r.event_id
=============================================================================
