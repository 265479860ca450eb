--------------------------- MODULE RecordContract ---------------------------
(***************************************************************************)
(* The reference verifier of the audit record contract that the            *)
(* conformance kit carries, applied to exported rows of one month, and     *)
(* compared with the operator's verifier (ChainVerifier).  The records     *)
(* carry the caller-governance extension, and so their canonical body is   *)
(* the gif-audit/2 body.                                                   *)
(***************************************************************************)
EXTENDS ChainVerifier

CONSTANT Purposeless  \* payloads whose purpose_declared is null

CORE_REQUIRED ==
  {"event_id", "occurred_at", "principal_id", "event_type", "tool_name", "outcome",
   "previous_hash", "event_hash", "extensions"}

\* The fields each registered extension requires.
PROFILES ==
  [type \in {"caller-governance", "runtime-security", "admission-control"} |->
     CASE type = "caller-governance" -> {"purpose_declared"}
       [] type = "runtime-security" ->
            {"drift_status", "severity", "quarantine_decision", "policy_id"}
       [] type = "admission-control" -> {}]

\* A row as a record: its fields, and those of its extension that are not null.
Exported(row) ==
  [fields |-> CORE_REQUIRED,
   extensions |-> [type \in {"caller-governance"} |->
     IF row.payload \in Purposeless THEN {"flagged"} ELSE {"flagged", "purpose_declared"}]]

\* C-REC-1 and C-REC-1b.  The types validateSkeleton looks at are those of the
\* columns a row is exported from.
validateSkeleton(rec) == CORE_REQUIRED \subseteq rec.fields

validateExtensions(rec) ==
  /\ DOMAIN rec.extensions # {}
  /\ \A type \in DOMAIN rec.extensions :
       type \in DOMAIN PROFILES /\ PROFILES[type] \subseteq rec.extensions[type]

\* Every protected string can be normalized, and the record serialized.
Canonicalizable(rec) == rec.payload \notin Rejected

computeEventHash(rec) ==
  Digest(rec.event_id, rec.ms, rec.payload, Trimmed(rec.previous_hash))

\* C-REC-3; a canonicalization that throws fails the record.
verifyRecordHash(rec) == Canonicalizable(rec) /\ computeEventHash(rec) = rec.event_hash

HashFailures(segment) == {i \in DOMAIN segment : ~verifyRecordHash(segment[i])}

LinkFailures(segment) ==
  {i \in DOMAIN segment :
     segment[i].previous_hash # (IF i = 1 THEN Null ELSE segment[i - 1].event_hash)}

\* C-REC-4.
verifyChainSegment(segment) == HashFailures(segment) = {} /\ LinkFailures(segment) = {}

Conforms(segment) ==
  /\ \A i \in DOMAIN segment :
       validateSkeleton(Exported(segment[i])) /\ validateExtensions(Exported(segment[i]))
  /\ verifyChainSegment(segment)

-----------------------------------------------------------------------------
EventIds(segment, I) == {segment[i].event_id : i \in I}

\* The two verifiers agree on rows that are hashed and of a known form: the same
\* rows fail to recompute, no link is broken for one and not for the other, save
\* where the row itself has failed already, and they pass the same segments,
\* except that the reference insists that the first row links to nothing; and a
\* segment that passes conforms to the contract unless a row declares no purpose.
VerifiersAgree(segment) ==
  LET v == verifyPartition(segment)
      inner == LinkFailures(segment) \ {1}
  IN  /\ v.mismatches \cup v.unrecomputable = EventIds(segment, HashFailures(segment))
      /\ v.breaks = EventIds(segment, inner \ HashFailures(segment))
      /\ verifyChainSegment(segment) <=> Ok(v) /\ 1 \notin LinkFailures(segment)
      /\ Conforms(segment) <=>
           Ok(v) /\ 1 \notin LinkFailures(segment) /\ \A i \in DOMAIN segment : segment[i].payload \notin Purposeless
=============================================================================
