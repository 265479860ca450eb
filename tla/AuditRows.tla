----------------------------- MODULE AuditRows -----------------------------
(***************************************************************************)
(* A row of gif.audit_events as the hash chain sees it.  Writers           *)
(* (AuditChain) and the verifier (ChainVerifier) share these definitions.  *)
(*                                                                         *)
(* SHA-256 is injective here: a digest is the record of what its preimage  *)
(* holds.  The payload stands for the protected columns other than the     *)
(* ones the chain itself depends on.                                       *)
(***************************************************************************)
EXTENDS Naturals

Null           == [kind |-> "null"]
HashError      == [kind |-> "HASH_ERROR"]
PaddedError    == [kind |-> "HASH_ERROR padded to 64"]

\* The preimage of migration 006 left out purpose_declared.
DigestWithoutPayload(i, ms, payload, prev) ==
  [kind |-> "sha256", event_id |-> i, ms |-> ms, payload |-> 0, prev |-> prev]

Digest(i, ms, payload, prev) ==
  [kind |-> "sha256", event_id |-> i, ms |-> ms, payload |-> payload, prev |-> prev]

(***************************************************************************)
(* event_hash and previous_hash are CHAR(64) columns, and so is the        *)
(* trigger's prev_hash variable: what they return is 64 characters long,   *)
(* so the sentinel 'HASH_ERROR' comes back padded with blanks.             *)
(***************************************************************************)
Char64(h) == IF h = HashError THEN PaddedError ELSE h

AuditRow(i, at, prev, hash) ==
  [event_id |-> i, occurred_at |-> at, previous_hash |-> prev, event_hash |-> hash]

(***************************************************************************)
(* ORDER BY occurred_at, event_id: the order of the trigger's tail query   *)
(* (descending) and of the verifier's walk (ascending).                    *)
(***************************************************************************)
Before(q, r) == \/ q.occurred_at < r.occurred_at
                \/ q.occurred_at = r.occurred_at /\ q.event_id < r.event_id
=============================================================================
