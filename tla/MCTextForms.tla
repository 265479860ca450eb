---------------------------- MODULE MCTextForms ----------------------------
(***************************************************************************)
(* Every governed string, every allowlist and every segment of records up  *)
(* to a length, each grown by one piece at a time.                         *)
(***************************************************************************)
EXTENDS AuditText, Configuration, RecordContract

VARIABLES string, origins, segment

vars == <<string, origins, segment>>

Good == "good"
Bad  == "bad"
MCRejected == {Bad}
Quiet == "no purpose"
MCPurposeless == {Quiet}

Alphabet == {"x", "X", "8", "-", ".", ",", " ", ":", "?", "/", "*", "v6"}

\* All short texts, and longer ones of fewer characters.
OriginsBounded(s) ==
  \/ Len(s) <= 3
  \/ Len(s) <= 5 /\ \A i \in DOMAIN s : s[i] \in {"x", "8", "-", ".", ",", " "}
  \/ Len(s) <= 8 /\ \A i \in DOMAIN s : s[i] \in {"8", "."}

\* A row whose link and whose hash may both be wrong; the stored sentinel is padded.
Links(s) == {Null, PaddedError, Digest(9, 0, Good, Null)} \cup {s[i].event_hash : i \in DOMAIN s}

Row(id, payload, prev, hash) ==
  [event_id |-> id, ms |-> 0, payload |-> payload, canon_version |-> "gif-audit/2",
   previous_hash |-> prev, event_hash |-> hash]

Rows(s) ==
  {Row(Len(s) + 1, payload, prev, hash) :
     payload \in {Good, Bad, Quiet}, prev \in Links(s),
     hash \in {PaddedError} \cup {Digest(Len(s) + 1, 0, p, Trimmed(l)) : p \in {Good, Quiet}, l \in Links(s)}}

Init == string = <<>> /\ origins = <<>> /\ segment = <<>>

GrowString ==
  /\ Len(string) < ColumnLength + 1 /\ origins = <<>> /\ segment = <<>>
  /\ \E ch \in Characters : string' = Append(string, ch)
  /\ UNCHANGED <<origins, segment>>

GrowOrigins ==
  /\ string = <<>> /\ segment = <<>>
  /\ \E ch \in Alphabet : origins' = Append(origins, ch)
  /\ OriginsBounded(origins')
  /\ UNCHANGED <<string, segment>>

GrowSegment ==
  /\ Len(segment) < 3 /\ string = <<>> /\ origins = <<>>
  /\ \E row \in Rows(segment) : segment' = Append(segment, row)
  /\ UNCHANGED <<string, origins>>

Next == GrowString \/ GrowOrigins \/ GrowSegment

Spec == Init /\ [][Next]_vars

\* A governed string hashes on verification as the trigger hashed it, or cannot be
\* hashed; one the guards admit always can (HashedAlike).
StringHashedAlike == HashedAlike(string)

\* The allowlist in force is the one that was written (OriginsExact).
OriginsAsWritten == OriginsExact(origins)

\* The reference verifier of the contract and the operator's verifier find the
\* same in a segment of records (VerifiersAgree).
SegmentAgreed == VerifiersAgree(segment)
=============================================================================
