--------------------------- MODULE ChainVerifier ---------------------------
(***************************************************************************)
(* The operator's chain verifier: verify-core.ts as a function of the rows *)
(* it fetched.  A fetched row has event_id, previous_hash, event_hash,     *)
(* canon_version and                                                       *)
(*   ms       occurred_at as to_char(... 'MS') renders it                  *)
(*   payload  the other protected columns                                  *)
(***************************************************************************)
EXTENDS AuditRows, FiniteSets, SequencesExt

CONSTANT Rejected  \* payloads normalizeString refuses: control characters, over-long strings

(***************************************************************************)
(* fetchPartitions renders occurred_at to the millisecond and names the    *)
(* text occurred_at again, and event_id likewise: its ORDER BY             *)
(* occurred_at, event_id is an ordering of those output columns.           *)
(***************************************************************************)
WalkOrder(a, b) == \/ a.ms < b.ms
                   \/ a.ms = b.ms /\ a.event_id < b.event_id

\* The k-th row is the one with k - 1 rows before it.
Walk(S) ==
  [k \in 1 .. Cardinality(S) |->
     CHOOSE r \in S : Cardinality({q \in S : WalkOrder(q, r)}) = k - 1]

KnownVersions == {"gif-audit/1", "gif-audit/2"}

(***************************************************************************)
(* canonicalize trims every string it serialises, previous_hash included.  *)
(***************************************************************************)
Trimmed(h) == IF h = PaddedError THEN HashError ELSE h

recomputeHash(row) == Digest(row.event_id, row.ms, row.payload, Trimmed(row.previous_hash))

(***************************************************************************)
(* verifyPartition walks the rows with a chain pointer (the last hash      *)
(* seen) and files every row under at most one finding.  Only a row that   *)
(* is neither first nor unverifiable has its link checked.                 *)
(***************************************************************************)
NoFindings ==
  [mismatches |-> {}, breaks |-> {}, hash_errors |-> {}, uncheckable |-> {},
   unrecomputable |-> {}, legacy_null |-> 0, links_verified |-> 0,
   prevHashedHash |-> Null, isFirstHashed |-> TRUE]

File(v, field, row) ==
  [v EXCEPT ![field] = @ \cup {row.event_id},
            !.prevHashedHash = row.event_hash, !.isFirstHashed = FALSE]

Counted(v, row) ==
  [v EXCEPT !.links_verified = @ + 1,
            !.prevHashedHash = row.event_hash, !.isFirstHashed = FALSE]

LinkUnchecked(v, row) == TRUE

LinkHolds(v, row) == v.isFirstHashed \/ row.previous_hash = v.prevHashedHash

Verify(v, row) ==
  IF row.payload \in Rejected THEN File(v, "unrecomputable", row)
  ELSE IF recomputeHash(row) # row.event_hash THEN File(v, "mismatches", row)
  ELSE IF LinkHolds(v, row) THEN Counted(v, row)
  ELSE File(v, "breaks", row)

verifyRow(v, row) ==
  IF row.event_hash = Null THEN [v EXCEPT !.legacy_null = @ + 1]
  ELSE IF row.event_hash = HashError THEN File(v, "hash_errors", row)
  ELSE IF row.canon_version \notin KnownVersions THEN File(v, "uncheckable", row)
  ELSE Verify(v, row)

\* What has been found after each number of rows.
Findings(walk) ==
  LET v[k \in 0 .. Len(walk)] == IF k = 0 THEN NoFindings ELSE verifyRow(v[k - 1], walk[k])
  IN  v

verifyPartition(walk) == Findings(walk)[Len(walk)]

\* verifyChain's ok, for one partition and no anchors.
Ok(v) == v.mismatches = {} /\ v.breaks = {} /\ v.unrecomputable = {}
=============================================================================
