----------------------------- MODULE TextProofs -----------------------------
(***************************************************************************)
(* The pure parts, for inputs of every length: governed strings, the       *)
(* Origin allowlist and the two verifiers.                                 *)
(*                                                                         *)
(* Strings.  NFC is a fold; that it never lengthens a string and keeps     *)
(* what is not white space holds after every number of characters, by the  *)
(* least number at which it would not (NFCKeeps).  The guards leave        *)
(* nothing else to be refused on verification, and a column of n           *)
(* characters has at most 2n code units.                                   *)
(*                                                                         *)
(* Allowlists.  A split is described by the places it cuts at (Cuts), and  *)
(* so every character of a name is a dot between two labels or the p-th of *)
(* one label (Placed).  Rules about labels are then rules about            *)
(* characters (SoundAlike, NumbersAlike).                                  *)
(*                                                                         *)
(* Verifiers.  What the operator's loop has filed after every row of a     *)
(* segment is known from VerifierProofs (FiledAll); the contract's         *)
(* verifier has no loop.                                                   *)
(***************************************************************************)
EXTENDS MCTextForms, VerifierProofs, SequenceTheorems

-----------------------------------------------------------------------------
(* NFC, character by character. *)

Folded(f, s, n) ==
  f = [k \in 0 .. n |-> IF k = 0 THEN <<>> ELSE Compose(f[k - 1], s[k])]

LEMMA FoldedExists ==
  ASSUME NEW s, NEW N \in Nat
  PROVE  \E f : Folded(f, s, N)
<1> SUFFICES ASSUME ~ \E f : Folded(f, s, N) PROVE FALSE
  OBVIOUS
<1> DEFINE T == {n \in Nat : ~ \E f : Folded(f, s, n)}
<1>1. PICK n \in T : \A m \in T : ~(m < n)
  <2>1. T \subseteq Nat /\ T # {}
    OBVIOUS
  <2> HIDE DEF T
  <2> QED
    BY <2>1, LeastOf
<1>2. CASE n = 0
  <2> DEFINE f == [k \in 0 .. 0 |-> <<>>]
  <2>1. \A k \in 0 .. 0 : k = 0
    OBVIOUS
  <2>2. f = [k \in 0 .. 0 |-> IF k = 0 THEN <<>> ELSE Compose(f[k - 1], s[k])]
    BY <2>1
  <2> QED
    BY <1>1, <1>2, <2>2 DEF Folded
<1>3. CASE n # 0
  <2>1. n \in Nat /\ n - 1 \in Nat /\ n - 1 < n
    BY <1>3
  <2>2. PICK f : Folded(f, s, n - 1)
    BY <1>1, <2>1
  <2> DEFINE g == [k \in 0 .. n |-> IF k = n THEN Compose(f[n - 1], s[n]) ELSE f[k]]
  <2>3. ASSUME NEW k \in 0 .. n
        PROVE  g[k] = IF k = 0 THEN <<>> ELSE Compose(g[k - 1], s[k])
    <3>1. CASE k = n
      BY <1>3, <2>1, <3>1
    <3>2. CASE k # n
      <4>1. /\ k \in 0 .. n - 1
            /\ f[k] = IF k = 0 THEN <<>> ELSE Compose(f[k - 1], s[k])
        BY <2>1, <2>2, <3>2 DEF Folded
      <4>2. k # 0 => k - 1 \in 0 .. n /\ k - 1 # n
        BY <2>1, <4>1
      <4> QED
        BY <3>2, <4>1, <4>2
    <3> QED
      BY <3>1, <3>2
  <2>4. g = [k \in 0 .. n |-> g[k]]
    OBVIOUS
  <2> HIDE DEF g
  <2>5. Folded(g, s, n)
    BY <2>3, <2>4 DEF Folded
  <2> QED
    BY <1>1, <2>5
<1> QED
  BY <1>2, <1>3

Composed == Characters \cup {"e-acute"}

HasInk(s) == \E i \in 1 .. Len(s) : s[i] # "space"

\* One character more.
LEMMA ComposeKeeps ==
  ASSUME NEW acc \in Seq(Composed), NEW ch \in Characters
  PROVE  /\ Compose(acc, ch) \in Seq(Composed)
         /\ Len(Compose(acc, ch)) <= Len(acc) + 1
         /\ ch # "space" \/ HasInk(acc) => HasInk(Compose(acc, ch))
<1>1. ch \in Composed /\ "e-acute" \in Composed
  BY DEF Composed
<1>2. CASE ch = "acute" /\ acc # <<>> /\ Last(acc) = "e"
  <2> DEFINE rest == SubSeq(acc, 1, Len(acc) - 1)
  <2>1. Len(acc) \in Nat /\ Len(acc) # 0
    BY <1>2
  <2>2. rest \in Seq(Composed) /\ Len(rest) = Len(acc) - 1
    <3> DEFINE k == Len(acc) - 1
    <3>1. rest = SubSeq(acc, 1, k)
      OBVIOUS
    <3>2. k \in Nat /\ \A i \in 1 .. k : acc[i] \in Composed
      BY <2>1
    <3> HIDE DEF k, rest
    <3>3. rest \in Seq(Composed) /\ Len(rest) = IF 1 <= k THEN k - 1 + 1 ELSE 0
      BY <3>1, <3>2, SubSeqProperties
    <3>4. Len(rest) = k
      BY <3>2, <3>3
    <3> QED
      BY <3>3, <3>4 DEF k
  <2>3. Compose(acc, ch) = Append(rest, "e-acute")
    BY <1>2 DEF Compose, Front
  <2> HIDE DEF rest
  <2>4. /\ Append(rest, "e-acute") \in Seq(Composed)
        /\ Len(Append(rest, "e-acute")) = Len(acc)
        /\ Append(rest, "e-acute")[Len(acc)] = "e-acute"
    BY <1>1, <2>1, <2>2
  <2>5. HasInk(Append(rest, "e-acute"))
    BY <2>1, <2>4 DEF HasInk
  <2> QED
    BY <2>1, <2>3, <2>4, <2>5
<1>3. CASE ~(ch = "acute" /\ acc # <<>> /\ Last(acc) = "e")
  <2>1. Compose(acc, ch) = Append(acc, ch)
    BY <1>3 DEF Compose
  <2>2. /\ Append(acc, ch) \in Seq(Composed) /\ Len(Append(acc, ch)) = Len(acc) + 1
        /\ Append(acc, ch)[Len(acc) + 1] = ch
        /\ \A i \in 1 .. Len(acc) : Append(acc, ch)[i] = acc[i]
        /\ Len(acc) \in Nat
    BY <1>1
  <2> QED
    BY <2>1, <2>2 DEF HasInk
<1> QED
  BY <1>2, <1>3

\* The whole string: no longer than before, and blank only if it was.
LEMMA NFCKeeps ==
  ASSUME NEW s \in Seq(Characters)
  PROVE  /\ NFC(s) \in Seq(Composed) /\ Len(NFC(s)) <= Len(s)
         /\ HasInk(s) => HasInk(NFC(s))
<1> DEFINE n == Len(s)
<1>1. n \in Nat /\ \A k \in 1 .. n : s[k] \in Characters
  OBVIOUS
<1>2. PICK c : /\ Folded(c, s, n) /\ NFC(s) = c[n]
  <2> DEFINE c == CHOOSE g : Folded(g, s, n)
  <2>1. NFC(s) = c[n]
    BY DEF NFC, Folded
  <2>2. Folded(c, s, n)
    BY <1>1, FoldedExists
  <2> QED
    BY <2>1, <2>2
<1> DEFINE Keeps(k) == /\ c[k] \in Seq(Composed) /\ Len(c[k]) <= k
                       /\ (\E i \in 1 .. k : s[i] # "space") => HasInk(c[k])
           T == {k \in 0 .. n : ~Keeps(k)}
<1> HIDE DEF n
<1>3. /\ c[0] = <<>>
      /\ \A k \in 1 .. n : c[k] = Compose(c[k - 1], s[k])
  <2>1. \A k \in 0 .. n : c[k] = IF k = 0 THEN <<>> ELSE Compose(c[k - 1], s[k])
    BY <1>2 DEF Folded
  <2> QED
    BY <1>1, <2>1
<1>4. Keeps(0)
  BY <1>3
<1>5. T = {}
  <2> SUFFICES ASSUME T # {} PROVE FALSE
    OBVIOUS
  <2>1. PICK k \in T : \A m \in T : ~(m < k)
    <3>1. T \subseteq Nat
      BY <1>1
    <3> HIDE DEF T
    <3> QED
      BY <3>1, LeastOf
  <2>2. k \in 0 .. n /\ k # 0 /\ ~Keeps(k)
    BY <1>4, <2>1
  <2>3. k \in 1 .. n /\ k - 1 \in 0 .. n /\ k - 1 < k /\ s[k] \in Characters
    BY <1>1, <2>2
  <2>4. Keeps(k - 1)
    BY <2>1, <2>3
  <2> DEFINE a == c[k - 1]
  <2>5. a \in Seq(Composed) /\ Len(a) <= k - 1 /\ c[k] = Compose(a, s[k])
    BY <1>3, <2>3, <2>4
  <2>6. (\E i \in 1 .. k : s[i] # "space") => s[k] # "space" \/ HasInk(a)
    BY <2>3, <2>4
  <2> HIDE DEF a
  <2>7. /\ c[k] \in Seq(Composed) /\ Len(c[k]) <= Len(a) + 1
        /\ s[k] # "space" \/ HasInk(a) => HasInk(c[k])
    BY <2>3, <2>5, ComposeKeeps
  <2>8. Len(c[k]) <= k
    <3>1. Len(a) \in Nat /\ Len(c[k]) \in Nat
      BY <2>5, <2>7
    <3> QED
      BY <2>3, <2>5, <2>7, <3>1
  <2> QED
    BY <2>2, <2>6, <2>7, <2>8
<1>6. Keeps(n)
  BY <1>1, <1>5
<1> QED
  BY <1>2, <1>6 DEF HasInk, n

-----------------------------------------------------------------------------
(* What btrim keeps, and how long it is. *)

LEMMA StrippedKeeps ==
  ASSUME NEW X, NEW s \in Seq(X), NEW S
  PROVE  /\ Stripped(s, S) \in Seq(X) /\ Len(Stripped(s, S)) <= Len(s)
         /\ Stripped(s, S) # <<>> <=> \E i \in 1 .. Len(s) : s[i] \notin S
<1> DEFINE n == Len(s)
           kept == {i \in 1 .. n : s[i] \notin S}
<1>1. n \in Nat /\ DOMAIN s = 1 .. n
  OBVIOUS
<1>2. CASE kept = {}
  BY <1>1, <1>2 DEF Stripped
<1>3. CASE kept # {}
  <2> HIDE DEF n
  <2>1. kept \subseteq Nat
    BY <1>1
  <2>2. PICK lo \in kept : \A i \in kept : ~(i < lo)
    <3> HIDE DEF kept
    <3> QED
      BY <1>3, <2>1, LeastOf
  <2>3. {n - i : i \in kept} \subseteq Nat /\ {n - i : i \in kept} # {}
    BY <1>1, <1>3
  <2>4. PICK g \in {n - i : i \in kept} : \A h \in {n - i : i \in kept} : ~(h < g)
    <3> HIDE DEF kept
    <3> QED
      BY <2>3, LeastOf
  <2>5. PICK hi \in kept : g = n - hi
    BY <2>4
  <2>6. \A i \in kept : lo <= i /\ i <= hi
    <3> SUFFICES ASSUME NEW i \in kept PROVE lo <= i /\ i <= hi
      OBVIOUS
    <3>1. ~(i < lo) /\ ~(n - i < n - hi)
      BY <2>2, <2>4, <2>5
    <3> QED
      BY <1>1, <3>1
  <2>7. Min(kept) = lo /\ Max(kept) = hi
    <3>1. Min(kept) \in kept /\ \A i \in kept : Min(kept) <= i
      <4>1. \E x \in kept : \A y \in kept : x <= y
        BY <2>6
      <4> HIDE DEF kept
      <4> QED
        BY <4>1 DEF Min
    <3>2. Max(kept) \in kept /\ \A i \in kept : Max(kept) >= i
      <4>1. \E x \in kept : \A y \in kept : x >= y
        BY <1>1, <2>6
      <4> HIDE DEF kept
      <4> QED
        BY <4>1 DEF Max
    <3> QED
      BY <1>1, <2>6, <3>1, <3>2
  <2>8. Stripped(s, S) = SubSeq(s, lo, hi)
    BY <1>1, <1>3, <2>7 DEF Stripped
  <2>9. lo \in 1 .. n /\ hi \in 1 .. n /\ lo <= hi /\ n = Len(s)
    BY <1>1, <2>6 DEF n
  <2> HIDE DEF kept
  <2>10. SubSeq(s, lo, hi) \in Seq(X) /\ Len(SubSeq(s, lo, hi)) = hi - lo + 1
    BY <1>1, <2>9
  <2> QED
    BY <1>1, <1>3, <2>8, <2>9, <2>10 DEF kept
<1> QED
  BY <1>2, <1>3

LEMMA UnitsBound ==
  ASSUME NEW X, NEW s \in Seq(X)
  PROVE  CodeUnits(s) \in Nat /\ CodeUnits(s) <= 2 * Len(s)
<1> DEFINE astral == {i \in DOMAIN s : s[i] = "astral"}
           n == Len(s)
<1>1. n \in Nat /\ astral \in SUBSET (1 .. n)
  OBVIOUS
<1>2. IsFiniteSet(1 .. n) /\ Cardinality(1 .. n) = n
  BY <1>1, FS_Interval
<1> HIDE DEF astral, n
<1>3. Cardinality(astral) \in Nat /\ Cardinality(astral) <= n
  BY <1>1, <1>2, FS_Subset, FS_CardinalityType
<1> QED
  BY <1>1, <1>3 DEF CodeUnits, astral, n

\* A governed string of any length, admitted by the guards or stored past them,
\* is hashed by the verifier as by the trigger, or not at all; one the guards
\* admit always, and not as an empty string (nonEmptyStringArg, norm,
\* normalizeString).
THEOREM StringsHashAlike == \A s \in Seq(Characters) : HashedAlike(s)
<1> SUFFICES ASSUME NEW s \in Seq(Characters), FitsColumn(OnTheWire(s))
             PROVE  LET stored == OnTheWire(s) IN
                      /\ normalizeString(stored) \in {Unnormalizable, norm(stored)}
                      /\ nonEmptyStringArg(s) => /\ stored = s
                                                 /\ normalizeString(stored) = norm(s)
                                                 /\ norm(s) # <<>>
  BY DEF HashedAlike
<1> DEFINE stored == OnTheWire(s)
<1>1. normalizeString(stored) \in {Unnormalizable, norm(stored)}
  BY DEF normalizeString, norm
<1>2. ASSUME nonEmptyStringArg(s)
      PROVE  stored = s /\ normalizeString(stored) = norm(s) /\ norm(s) # <<>>
  <2>1. /\ trim(s) # <<>>
        /\ \A i \in DOMAIN s : s[i] \notin CategoryCc \cup {"surrogate"}
    BY <1>2 DEF nonEmptyStringArg, Has
  <2>2. stored = s
    <3>1. \A i \in DOMAIN s : stored[i] = s[i]
      BY <2>1 DEF OnTheWire
    <3>2. stored = [i \in DOMAIN s |-> stored[i]] /\ s = [i \in DOMAIN s |-> s[i]]
      BY DEF OnTheWire
    <3> HIDE DEF stored
    <3> QED
      BY <3>1, <3>2
  <2> DEFINE n == Stripped(NFC(s), {"space"})
  <2>3. NFC(s) \in Seq(Composed) /\ Len(NFC(s)) <= Len(s) /\ (HasInk(s) => HasInk(NFC(s)))
    BY NFCKeeps
  <2>4. /\ n \in Seq(Composed) /\ Len(n) <= Len(NFC(s))
        /\ n # <<>> <=> HasInk(NFC(s))
    BY <2>3, StrippedKeeps DEF HasInk
  <2>5. HasInk(s)
    <3>1. \E i \in 1 .. Len(s) : s[i] \notin {"space", "blank", "control"}
      BY <2>1, StrippedKeeps DEF trim
    <3> QED
      BY <3>1 DEF HasInk
  <2> HIDE DEF n
  <2>6. CodeUnits(n) \in Nat /\ CodeUnits(n) <= MaxFieldLen
    <3>1. CodeUnits(n) \in Nat /\ CodeUnits(n) <= 2 * Len(n)
      BY <2>4, UnitsBound
    <3>2. Len(s) <= ColumnLength
      BY <2>2 DEF FitsColumn
    <3>3. Len(n) \in Nat /\ Len(NFC(s)) \in Nat /\ Len(s) \in Nat
      BY <2>3, <2>4
    <3> QED
      BY <2>3, <2>4, <3>1, <3>2, <3>3, AuditTextAssumption
  <2>7. normalizeString(s) = n /\ norm(s) = n
    BY <2>1, <2>2, <2>6, AuditTextAssumption DEF normalizeString, norm, Has, n
  <2> HIDE DEF stored
  <2> QED
    BY <2>2, <2>3, <2>4, <2>5, <2>7
<1> QED
  BY <1>1, <1>2

\* The same of every string the run grows.
THEOREM GrownStringsHashAlike == Spec => []StringHashedAlike
<1> DEFINE Inv == string \in Seq(Characters)
<1>1. Init => Inv
  BY DEF Init
<1>2. Inv /\ [Next]_vars => Inv'
  BY DEF Next, vars, GrowString, GrowOrigins, GrowSegment
<1>3. Inv => StringHashedAlike
  BY StringsHashAlike DEF StringHashedAlike
<1> QED
  BY <1>1, <1>2, <1>3, PTL DEF Spec

-----------------------------------------------------------------------------
(* Segments. *)

\* A row the database can hold, hashed and of a known form.
HashedRow(r) == r.event_hash \notin {Null, HashError} /\ r.canon_version \in KnownVersions

\* A segment of any length, whatever links and hashes its rows claim: the
\* contract's verifier and the operator's find the same in it
\* (verifyChainSegment, verifyPartition).
THEOREM VerifiersAlwaysAgree ==
  ASSUME NEW records, Len(records) \in Nat, DOMAIN records = 1 .. Len(records),
         \A i \in DOMAIN records : HashedRow(records[i])
  PROVE  VerifiersAgree(records)
<1> DEFINE n == Len(records)
           v == verifyPartition(records)
           H == HashFailures(records)
           L == LinkFailures(records)
<1>1. FiledAt(v, records, n)
  BY FiledAll
<1>2. n \in Nat /\ DOMAIN records = 1 .. n
  OBVIOUS
<1> HIDE DEF v, n
<1>3. /\ AllHashed(records, n)
      /\ \A i \in 1 .. n : Checked(records[i])
  BY <1>2 DEF AllHashed, HashedRow, Checked
<1>4. \A i \in 1 .. n : i \in H <=> records[i].payload \in Rejected
                                     \/ recomputeHash(records[i]) # records[i].event_hash
  BY <1>2 DEF HashFailures, verifyRecordHash, Canonicalizable, computeEventHash, recomputeHash
<1>5. \A i \in 1 .. n : i \in H <=> Mismatched(records[i]) \/ Unrecomputable(records[i])
  BY <1>3, <1>4 DEF Mismatched, Unrecomputable
<1>6. \A i \in 1 .. n : i \in (L \ {1}) \ H <=> BrokenAt(records, i)
  <2>1. \A i \in 1 .. n : i \in L \ {1} <=> i # 1 /\ records[i].previous_hash # records[i - 1].event_hash
    BY <1>2 DEF LinkFailures
  <2>2. \A i \in 1 .. n : i \notin H <=> Sound(records[i])
    BY <1>3, <1>4 DEF Sound
  <2> QED
    BY <2>1, <2>2 DEF BrokenAt
<1>7. H \subseteq 1 .. n /\ L \subseteq 1 .. n
  BY <1>2 DEF HashFailures, LinkFailures
<1> HIDE DEF H, L
<1>8. /\ v.mismatches = Ids(records, {j \in 1 .. n : Mismatched(records[j])})
      /\ v.unrecomputable = Ids(records, {j \in 1 .. n : Unrecomputable(records[j])})
      /\ v.breaks = Ids(records, {j \in 1 .. n : BrokenAt(records, j)})
  BY <1>1, <1>3 DEF FiledAt
<1>9. v.mismatches \cup v.unrecomputable = EventIds(records, H)
  <2>1. H = {j \in 1 .. n : Mismatched(records[j])} \cup {j \in 1 .. n : Unrecomputable(records[j])}
    BY <1>5, <1>7
  <2> QED
    BY <1>8, <2>1 DEF Ids, EventIds
<1>10. v.breaks = EventIds(records, (L \ {1}) \ H)
  <2>1. (L \ {1}) \ H = {j \in 1 .. n : BrokenAt(records, j)}
    BY <1>6, <1>7
  <2> QED
    BY <1>8, <2>1 DEF Ids, EventIds
<1>11. verifyChainSegment(records) <=> Ok(v) /\ 1 \notin L
  <2>1. verifyChainSegment(records) <=> H = {} /\ L = {}
    BY DEF verifyChainSegment, H, L
  <2>2. \A I : EventIds(records, I) = {} <=> I = {}
    BY DEF EventIds
  <2>3. Ok(v) <=> H = {} /\ (L \ {1}) \ H = {}
    BY <1>9, <1>10, <2>2 DEF Ok
  <2> QED
    BY <2>1, <2>3
<1>12. Conforms(records) <=>
         Ok(v) /\ 1 \notin L /\ \A i \in DOMAIN records : records[i].payload \notin Purposeless
  <2>1. ASSUME NEW row
        PROVE  /\ validateSkeleton(Exported(row))
               /\ validateExtensions(Exported(row)) <=> row.payload \notin Purposeless
    <3>1. /\ Exported(row).fields = CORE_REQUIRED
          /\ DOMAIN Exported(row).extensions = {"caller-governance"}
          /\ Exported(row).extensions["caller-governance"]
               = IF row.payload \in Purposeless THEN {"flagged"} ELSE {"flagged", "purpose_declared"}
      BY DEF Exported
    <3>2. "caller-governance" \in DOMAIN PROFILES /\ PROFILES["caller-governance"] = {"purpose_declared"}
      BY DEF PROFILES
    <3> QED
      BY <3>1, <3>2 DEF validateSkeleton, validateExtensions
  <2> QED
    BY <1>11, <2>1 DEF Conforms
<1> QED
  BY <1>9, <1>10, <1>11, <1>12 DEF VerifiersAgree, v, H, L

\* The same of every segment the run grows.
THEOREM GrownSegmentsAgree == Spec => []SegmentAgreed
<1> DEFINE Grown(s) == /\ Len(s) \in Nat /\ DOMAIN s = 1 .. Len(s)
                       /\ \A i \in DOMAIN s : HashedRow(s[i])
<1>1. Init => Grown(segment)
  BY DEF Init
<1>2. Grown(segment) /\ [Next]_vars => Grown(segment)'
  <2> SUFFICES ASSUME Grown(segment), GrowSegment PROVE Grown(segment)'
    BY DEF Next, vars, GrowString, GrowOrigins
  <2>1. PICK row \in Rows(segment) : segment' = Append(segment, row)
    BY DEF GrowSegment
  <2>2. HashedRow(row)
    <3>1. \A id, payload, prev, hash :
            /\ Row(id, payload, prev, hash).event_hash = hash
            /\ Row(id, payload, prev, hash).canon_version \in KnownVersions
      BY DEF Row, KnownVersions
    <3>2. PaddedError \notin {Null, HashError}
      BY DEF PaddedError, Null, HashError
    <3>3. row.event_hash \notin {Null, HashError} /\ row.canon_version \in KnownVersions
      BY <3>1, <3>2, DigestNames DEF Rows
    <3> QED
      BY <3>3 DEF HashedRow
  <2>3. /\ DOMAIN segment' = 1 .. Len(segment) + 1 /\ Len(segment') = Len(segment) + 1
        /\ segment'[Len(segment) + 1] = row
        /\ \A i \in 1 .. Len(segment) : segment'[i] = segment[i]
    BY <2>1
  <2> QED
    BY <2>2, <2>3
<1>3. Grown(segment) => SegmentAgreed
  <2> SUFFICES ASSUME Grown(segment) PROVE VerifiersAgree(segment)
    BY DEF SegmentAgreed
  <2> QED
    BY VerifiersAlwaysAgree
<1> QED
  BY <1>1, <1>2, <1>3, PTL DEF Spec

-----------------------------------------------------------------------------
(***************************************************************************)
(* Origins.  A split is given by where it cuts: after k characters, c[j]   *)
(* is the place of the j-th separator, c[0] is 0 and the last cut is k+1.  *)
(***************************************************************************)
Parted(f, s, ch, n) ==
  f = [k \in 0 .. n |-> IF k = 0 THEN << <<>> >> ELSE Split(f[k - 1], s[k], ch)]

LEMMA PartedExists ==
  ASSUME NEW s, NEW ch, NEW N \in Nat
  PROVE  \E f : Parted(f, s, ch, N)
<1> SUFFICES ASSUME ~ \E f : Parted(f, s, ch, N) PROVE FALSE
  OBVIOUS
<1> DEFINE T == {n \in Nat : ~ \E f : Parted(f, s, ch, n)}
<1>1. PICK n \in T : \A m \in T : ~(m < n)
  <2>1. T \subseteq Nat /\ T # {}
    OBVIOUS
  <2> HIDE DEF T
  <2> QED
    BY <2>1, LeastOf
<1>2. CASE n = 0
  <2> DEFINE f == [k \in 0 .. 0 |-> << <<>> >>]
  <2>1. \A k \in 0 .. 0 : k = 0
    OBVIOUS
  <2>2. f = [k \in 0 .. 0 |-> IF k = 0 THEN << <<>> >> ELSE Split(f[k - 1], s[k], ch)]
    BY <2>1
  <2> QED
    BY <1>1, <1>2, <2>2 DEF Parted
<1>3. CASE n # 0
  <2>1. n \in Nat /\ n - 1 \in Nat /\ n - 1 < n
    BY <1>3
  <2>2. PICK f : Parted(f, s, ch, n - 1)
    BY <1>1, <2>1
  <2> DEFINE g == [k \in 0 .. n |-> IF k = n THEN Split(f[n - 1], s[n], ch) ELSE f[k]]
  <2>3. ASSUME NEW k \in 0 .. n
        PROVE  g[k] = IF k = 0 THEN << <<>> >> ELSE Split(g[k - 1], s[k], ch)
    <3>1. CASE k = n
      BY <1>3, <2>1, <3>1
    <3>2. CASE k # n
      <4>1. /\ k \in 0 .. n - 1
            /\ f[k] = IF k = 0 THEN << <<>> >> ELSE Split(f[k - 1], s[k], ch)
        BY <2>1, <2>2, <3>2 DEF Parted
      <4>2. k # 0 => k - 1 \in 0 .. n /\ k - 1 # n
        BY <2>1, <4>1
      <4> QED
        BY <3>2, <4>1, <4>2
    <3> QED
      BY <3>1, <3>2
  <2>4. g = [k \in 0 .. n |-> g[k]]
    OBVIOUS
  <2> HIDE DEF g
  <2>5. Parted(g, s, ch, n)
    BY <2>3, <2>4 DEF Parted
  <2> QED
    BY <1>1, <2>5
<1> QED
  BY <1>2, <1>3

\* Part j of a text of k characters stands between the places c[j - 1] and c[j].
Cuts(c, m, s, ch, k, L) ==
  /\ m \in Nat \ {0} /\ m = Len(L)
  /\ c \in [0 .. m -> 0 .. k + 1] /\ c[0] = 0 /\ c[m] = k + 1
  /\ \A j \in 1 .. m :
       /\ c[j - 1] < c[j] /\ Len(L[j]) = c[j] - c[j - 1] - 1
       /\ \A i \in 1 .. Len(L[j]) : L[j][i] = s[c[j - 1] + i] /\ L[j][i] # ch
  /\ \A j \in 1 .. m - 1 : s[c[j]] = ch
  /\ \A j, l \in 0 .. m : j < l => c[j] < c[l]
  /\ \A i \in 1 .. k : \E j \in 1 .. m : c[j - 1] < i /\ i <= c[j]

Pieces(X, c, m, k, L) ==
  /\ m \in Nat /\ m # 0 /\ m - 1 \in Nat /\ m = Len(L) /\ m \in 1 .. m
  /\ c \in [0 .. m -> 0 .. k + 1] /\ c[0] = 0 /\ c[m] = k + 1
  /\ \A j \in 0 .. m : c[j] \in Nat /\ c[j] <= k + 1
  /\ \A j \in 1 .. m : /\ j - 1 \in 0 .. m /\ c[j - 1] \in Nat /\ c[j - 1] < c[j]
                      /\ L[j] \in Seq(X) /\ Len(L[j]) \in Nat
                      /\ Len(L[j]) = c[j] - c[j - 1] - 1
  /\ c[m - 1] \in Nat /\ c[m - 1] < k + 1
  /\ L[m] \in Seq(X) /\ Len(L[m]) \in Nat /\ Len(L[m]) = (k + 1) - c[m - 1] - 1

LEMMA CutsAre ==
  ASSUME NEW X, NEW s, NEW ch, NEW k \in Nat, NEW L \in Seq(Seq(X)), NEW c, NEW m,
         Cuts(c, m, s, ch, k, L)
  PROVE  Pieces(X, c, m, k, L)
<1>1. m \in Nat /\ m # 0 /\ m = Len(L)
  BY DEF Cuts
<1>2. c \in [0 .. m -> 0 .. k + 1] /\ c[0] = 0 /\ c[m] = k + 1
  BY DEF Cuts
<1>3. \A j \in 1 .. m : c[j - 1] < c[j] /\ Len(L[j]) = c[j] - c[j - 1] - 1
  BY DEF Cuts
<1>4. \A j \in 0 .. m : c[j] \in Nat /\ c[j] <= k + 1
  BY <1>2
<1>5. \A j \in 1 .. m : L[j] \in Seq(X) /\ Len(L[j]) \in Nat
  BY <1>1
<1>6. m - 1 \in Nat /\ m \in 1 .. m /\ \A j \in 1 .. m : j - 1 \in 0 .. m
  BY <1>1
<1>7. c[m - 1] \in Nat /\ c[m - 1] < k + 1 /\ Len(L[m]) = (k + 1) - c[m - 1] - 1
  BY <1>1, <1>2, <1>3, <1>4, <1>6
<1> QED
  BY <1>1, <1>2, <1>3, <1>4, <1>5, <1>6, <1>7 DEF Pieces

LEMMA SplitStarts ==
  ASSUME NEW X, NEW s, NEW ch, NEW k \in Nat, NEW L \in Seq(Seq(X)), NEW c, NEW m, NEW x,
         Cuts(c, m, s, ch, k, L), x = s[k + 1], x = ch
  PROVE  /\ Append(L, <<>>) \in Seq(Seq(X))
         /\ \E d : Cuts(d, m + 1, s, ch, k + 1, Append(L, <<>>))
<1> DEFINE M == Append(L, <<>>)
           d == [j \in 0 .. m + 1 |-> IF j = m + 1 THEN k + 2 ELSE c[j]]
<1>1. /\ m \in Nat /\ m # 0 /\ m = Len(L) /\ m \in 1 .. m
      /\ c \in [0 .. m -> 0 .. k + 1] /\ c[0] = 0 /\ c[m] = k + 1
      /\ \A j \in 0 .. m : c[j] \in Nat /\ c[j] <= k + 1
      /\ c[m - 1] < k + 1
  <2>1. Pieces(X, c, m, k, L)
    BY CutsAre
  <2> QED
    BY <2>1 DEF Pieces
<1>2. /\ M \in Seq(Seq(X)) /\ Len(M) = m + 1 /\ M[m + 1] = <<>> /\ Len(M[m + 1]) = 0
      /\ \A j \in 1 .. m : M[j] = L[j]
  BY <1>1
<1>3. /\ d \in [0 .. m + 1 -> 0 .. k + 2] /\ d[m + 1] = k + 2
      /\ \A j \in 0 .. m : d[j] = c[j]
  BY <1>1
<1>4. (k + 1) + 1 = k + 2 /\ (m + 1) - 1 = m /\ m + 1 \in Nat \ {0}
  BY <1>1
<1> HIDE DEF d, M
<1>5. ASSUME NEW j \in 1 .. m + 1
      PROVE  /\ d[j - 1] < d[j] /\ Len(M[j]) = d[j] - d[j - 1] - 1
             /\ \A i \in 1 .. Len(M[j]) : M[j][i] = s[d[j - 1] + i] /\ M[j][i] # ch
  <2>1. CASE j = m + 1
    <3>1. j - 1 = m /\ d[j - 1] = k + 1 /\ d[j] = k + 2 /\ Len(M[j]) = 0
      BY <1>1, <1>2, <1>3, <2>1
    <3> QED
      BY <3>1
  <2>2. CASE j # m + 1
    <3>1. j \in 1 .. m /\ j \in 0 .. m /\ j - 1 \in 0 .. m
      BY <1>1, <2>2
    <3>2. d[j - 1] = c[j - 1] /\ d[j] = c[j] /\ M[j] = L[j]
      BY <1>2, <1>3, <3>1
    <3> QED
      BY <3>1, <3>2 DEF Cuts
  <2> QED
    BY <2>1, <2>2
<1>6. \A j \in 1 .. m : s[d[j]] = ch
  <2> SUFFICES ASSUME NEW j \in 1 .. m PROVE s[d[j]] = ch
    OBVIOUS
  <2>1. d[j] = c[j] /\ (j = m \/ j \in 1 .. m - 1)
    BY <1>1, <1>3
  <2> QED
    BY <1>1, <2>1 DEF Cuts
<1>7. ASSUME NEW j \in 0 .. m + 1, NEW l \in 0 .. m + 1, j < l
      PROVE  d[j] < d[l]
  <2>1. j \in 0 .. m /\ d[j] = c[j] /\ c[j] <= k + 1
    BY <1>1, <1>3, <1>7
  <2>2. CASE l = m + 1
    BY <1>1, <1>3, <2>1, <2>2
  <2>3. CASE l # m + 1
    <3>1. l \in 0 .. m /\ d[l] = c[l]
      BY <1>1, <1>3, <2>3
    <3> QED
      BY <1>7, <2>1, <3>1 DEF Cuts
  <2> QED
    BY <2>2, <2>3
<1>8. ASSUME NEW i \in 1 .. k + 1
      PROVE  \E j \in 1 .. m + 1 : d[j - 1] < i /\ i <= d[j]
  <2>1. PICK j \in 1 .. m : c[j - 1] < i /\ i <= c[j]
    <3>1. CASE i \in 1 .. k
      BY <3>1 DEF Cuts
    <3>2. CASE i = k + 1
      <4>1. c[m - 1] < i /\ i <= c[m] /\ m \in 1 .. m
        BY <1>1, <3>2
      <4> QED
        BY <4>1
    <3> QED
      BY <3>1, <3>2
  <2>2. j \in 1 .. m + 1 /\ j \in 0 .. m /\ j - 1 \in 0 .. m
    BY <1>1
  <2>3. d[j - 1] = c[j - 1] /\ d[j] = c[j]
    BY <1>3, <2>2
  <2> QED
    BY <2>1, <2>2, <2>3
<1>9. Cuts(d, m + 1, s, ch, k + 1, M)
  <2>1. d[0] = 0
    BY <1>1, <1>3
  <2> QED
    BY <1>2, <1>3, <1>4, <1>5, <1>6, <1>7, <1>8, <2>1 DEF Cuts
<1> QED
  BY <1>2, <1>9 DEF M

LEMMA SplitGrows ==
  ASSUME NEW X, NEW s, NEW ch, NEW k \in Nat, NEW L \in Seq(Seq(X)), NEW c, NEW m, NEW x \in X,
         Cuts(c, m, s, ch, k, L), x = s[k + 1], x # ch
  PROVE  LET M == [L EXCEPT ![m] = Append(L[m], x)] IN
           M \in Seq(Seq(X)) /\ \E d : Cuts(d, m, s, ch, k + 1, M)
<1> DEFINE w == Append(L[m], x)
           M == [L EXCEPT ![m] = w]
           d == [j \in 0 .. m |-> IF j = m THEN k + 2 ELSE c[j]]
<1>1. /\ m \in Nat /\ m # 0 /\ m = Len(L) /\ m \in 1 .. m /\ m - 1 \in 0 .. m
      /\ c \in [0 .. m -> 0 .. k + 1] /\ c[0] = 0 /\ c[m] = k + 1
      /\ \A j \in 0 .. m : c[j] \in Nat /\ c[j] <= k + 1
      /\ L[m] \in Seq(X) /\ Len(L[m]) \in Nat
      /\ c[m - 1] \in Nat /\ c[m - 1] < k + 1 /\ Len(L[m]) = (k + 1) - c[m - 1] - 1
  <2>1. Pieces(X, c, m, k, L)
    BY CutsAre
  <2> QED
    BY <2>1 DEF Pieces
<1>2. /\ w \in Seq(X) /\ Len(w) = Len(L[m]) + 1 /\ w[Len(L[m]) + 1] = x
      /\ \A i \in 1 .. Len(L[m]) : w[i] = L[m][i]
  <2> DEFINE v == L[m]
  <2>1. v \in Seq(X)
    BY <1>1
  <2> HIDE DEF v
  <2>2. /\ Append(v, x) \in Seq(X) /\ Len(Append(v, x)) = Len(v) + 1
        /\ Append(v, x)[Len(v) + 1] = x
        /\ \A i \in 1 .. Len(v) : Append(v, x)[i] = v[i]
    BY <2>1
  <2> QED
    BY <2>2 DEF v
<1> HIDE DEF w
<1>3. /\ M \in Seq(Seq(X)) /\ Len(M) = m /\ M[m] = w
      /\ \A j \in 1 .. m - 1 : M[j] = L[j]
  BY <1>1, <1>2
<1>4. /\ d \in [0 .. m -> 0 .. k + 2] /\ d[m] = k + 2
      /\ \A j \in 0 .. m - 1 : d[j] = c[j]
  <2>1. m \in Nat
    BY <1>1
  <2>2. k + 2 \in 0 .. k + 2 /\ \A j \in 0 .. k + 1 : j \in 0 .. k + 2
    OBVIOUS
  <2>3. d \in [0 .. m -> 0 .. k + 2]
    BY <1>1, <2>2
  <2>4. m \in 0 .. m /\ \A j \in 0 .. m - 1 : j \in 0 .. m /\ j # m
    BY <2>1
  <2> QED
    BY <2>2, <2>3, <2>4
<1>5. (k + 1) + 1 = k + 2
  OBVIOUS
<1> HIDE DEF d, M
<1>6. ASSUME NEW j \in 1 .. m
      PROVE  /\ d[j - 1] < d[j] /\ Len(M[j]) = d[j] - d[j - 1] - 1
             /\ \A i \in 1 .. Len(M[j]) : M[j][i] = s[d[j - 1] + i] /\ M[j][i] # ch
  <2>1. CASE j = m
    <3>1. \A i \in 1 .. Len(L[m]) : L[m][i] = s[c[m - 1] + i] /\ L[m][i] # ch
      BY <1>1 DEF Cuts
    <3>2. d[m - 1] = c[m - 1] /\ c[m - 1] \in Nat
      BY <1>1, <1>4
    <3>3. /\ Len(w) = (k + 2) - c[m - 1] - 1 /\ c[m - 1] + Len(w) = k + 1
          /\ Len(L[m]) + 1 = Len(w)
      <4> DEFINE a == Len(L[m])
                 b == c[m - 1]
      <4>1. a \in Nat /\ b \in Nat /\ a = (k + 1) - b - 1 /\ Len(w) = a + 1
        BY <1>1, <1>2
      <4> HIDE DEF a, b
      <4>2. /\ Len(w) = (k + 2) - b - 1 /\ b + Len(w) = k + 1 /\ a + 1 = Len(w)
        BY <4>1
      <4> QED
        BY <4>2 DEF a, b
    <3>4. ASSUME NEW i \in 1 .. Len(w) PROVE w[i] = s[c[m - 1] + i] /\ w[i] # ch
      <4>1. CASE i = Len(w)
        BY <1>2, <3>3, <4>1
      <4>2. CASE i # Len(w)
        <5>1. i \in 1 .. Len(L[m])
          <6> DEFINE a == Len(L[m])
                     b == Len(w)
          <6>1. a \in Nat /\ b = a + 1 /\ i \in 1 .. b /\ i # b
            BY <1>1, <1>2, <4>2
          <6> HIDE DEF a, b
          <6>2. i \in 1 .. a
            BY <6>1
          <6> QED
            BY <6>2 DEF a
        <5> QED
          BY <1>2, <3>1, <5>1
      <4> QED
        BY <4>1, <4>2
    <3>5. M[j] = w /\ d[j - 1] = c[m - 1] /\ d[j] = k + 2
      BY <1>3, <1>4, <2>1, <3>2
    <3>6. d[j - 1] < d[j] /\ Len(w) = d[j] - d[j - 1] - 1
      BY <1>1, <3>3, <3>5
    <3> QED
      BY <3>4, <3>5, <3>6
  <2>2. CASE j # m
    <3>1. j \in 1 .. m - 1 /\ j \in 0 .. m - 1 /\ j - 1 \in 0 .. m - 1
      BY <1>1, <2>2
    <3>2. d[j - 1] = c[j - 1] /\ d[j] = c[j] /\ M[j] = L[j]
      BY <1>3, <1>4, <3>1
    <3> QED
      BY <3>1, <3>2 DEF Cuts
  <2> QED
    BY <2>1, <2>2
<1>7. \A j \in 1 .. m - 1 : s[d[j]] = ch
  <2>1. \A j \in 1 .. m - 1 : j \in 0 .. m - 1
    BY <1>1
  <2>2. \A j \in 1 .. m - 1 : d[j] = c[j]
    BY <1>4, <2>1
  <2> QED
    BY <2>2 DEF Cuts
<1>8. ASSUME NEW j \in 0 .. m, NEW l \in 0 .. m, j < l
      PROVE  d[j] < d[l]
  <2>1. j \in 0 .. m - 1 /\ j \in 0 .. m
    BY <1>1, <1>8
  <2>2. d[j] = c[j] /\ c[j] \in Nat /\ c[j] <= k + 1
    BY <1>1, <1>4, <2>1
  <2>3. CASE l = m
    BY <1>4, <2>2, <2>3
  <2>4. CASE l # m
    <3>1. l \in 0 .. m /\ d[l] = c[l]
      BY <1>1, <1>4, <2>4
    <3> QED
      BY <1>8, <2>1, <2>2, <3>1 DEF Cuts
  <2> QED
    BY <2>3, <2>4
<1>9. ASSUME NEW i \in 1 .. k + 1
      PROVE  \E j \in 1 .. m : d[j - 1] < i /\ i <= d[j]
  <2>1. PICK j \in 1 .. m : c[j - 1] < i /\ i <= c[j]
    <3>1. CASE i \in 1 .. k
      BY <3>1 DEF Cuts
    <3>2. CASE i = k + 1
      <4>1. c[m - 1] < i /\ i <= c[m] /\ m \in 1 .. m
        BY <1>1, <3>2
      <4> QED
        BY <4>1
    <3> QED
      BY <3>1, <3>2
  <2>2. j - 1 \in 0 .. m - 1 /\ d[j - 1] = c[j - 1]
    BY <1>1, <1>4
  <2>3. i <= d[j]
    <3>1. CASE j = m
      BY <1>4, <3>1
    <3>2. CASE j # m
      <4>1. d[j] = c[j]
        BY <1>1, <1>4, <3>2
      <4> QED
        BY <2>1, <4>1
    <3> QED
      BY <3>1, <3>2
  <2> QED
    BY <2>1, <2>2, <2>3
<1>10. Cuts(d, m, s, ch, k + 1, M)
  <2>1. d[0] = 0
    BY <1>1, <1>4
  <2> QED
    BY <1>1, <1>3, <1>4, <1>5, <1>6, <1>7, <1>8, <1>9, <2>1 DEF Cuts
<1> QED
  BY <1>3, <1>10 DEF M, w

LEMMA SplitCuts ==
  ASSUME NEW X, NEW s, NEW ch, NEW k \in Nat, NEW L \in Seq(Seq(X)), NEW c, NEW m,
         Cuts(c, m, s, ch, k, L), s[k + 1] \in X
  PROVE  LET M == Split(L, s[k + 1], ch) IN
           M \in Seq(Seq(X)) /\ \E d, r : Cuts(d, r, s, ch, k + 1, M)
<1>1. CASE s[k + 1] = ch
  <2>1. Split(L, s[k + 1], ch) = Append(L, <<>>)
    BY <1>1 DEF Split
  <2> QED
    BY <1>1, <2>1, SplitStarts
<1>2. CASE s[k + 1] # ch
  <2>1. m = Len(L) /\ Split(L, s[k + 1], ch) = [L EXCEPT ![m] = Append(L[m], s[k + 1])]
    BY <1>2 DEF Split, Cuts
  <2> DEFINE x == s[k + 1]
  <2>2. x \in X /\ x = s[k + 1] /\ x # ch
    BY <1>2
  <2> HIDE DEF x
  <2>3. LET M == [L EXCEPT ![m] = Append(L[m], x)] IN
          M \in Seq(Seq(X)) /\ \E d : Cuts(d, m, s, ch, k + 1, M)
    BY <2>2, SplitGrows
  <2> QED
    BY <2>1, <2>2, <2>3
<1> QED
  BY <1>1, <1>2

LEMMA SplitIs ==
  ASSUME NEW X, NEW s \in Seq(X), NEW ch
  PROVE  /\ SplitAt(s, ch) \in Seq(Seq(X))
         /\ \E c, m : Cuts(c, m, s, ch, Len(s), SplitAt(s, ch))
<1> DEFINE n == Len(s)
<1>1. n \in Nat /\ \A k \in 1 .. n : s[k] \in X
  OBVIOUS
<1>2. PICK p : Parted(p, s, ch, n) /\ SplitAt(s, ch) = p[n]
  <2> DEFINE p == CHOOSE g : Parted(g, s, ch, n)
  <2>1. SplitAt(s, ch) = p[n]
    BY DEF SplitAt, Parted
  <2>2. Parted(p, s, ch, n)
    BY <1>1, PartedExists
  <2> QED
    BY <2>1, <2>2
<1> DEFINE Cut(k) == p[k] \in Seq(Seq(X)) /\ \E c, m : Cuts(c, m, s, ch, k, p[k])
           T == {k \in 0 .. n : ~Cut(k)}
<1> HIDE DEF n
<1>3. p[0] = << <<>> >> /\ \A k \in 1 .. n : p[k] = Split(p[k - 1], s[k], ch)
  <2>1. \A k \in 0 .. n : p[k] = IF k = 0 THEN << <<>> >> ELSE Split(p[k - 1], s[k], ch)
    BY <1>2 DEF Parted
  <2> QED
    BY <1>1, <2>1
<1>4. Cut(0)
  <2> DEFINE c == [j \in 0 .. 1 |-> j]
  <2>1. /\ << <<>> >> \in Seq(Seq(X)) /\ Len(<< <<>> >>) = 1 /\ << <<>> >>[1] = <<>>
        /\ Len(<<>>) = 0
    OBVIOUS
  <2>2. c \in [0 .. 1 -> 0 .. 1] /\ c[0] = 0 /\ c[1] = 1
    OBVIOUS
  <2> HIDE DEF c
  <2>3. Cuts(c, 1, s, ch, 0, << <<>> >>)
    BY <2>1, <2>2 DEF Cuts
  <2> QED
    BY <1>3, <2>1, <2>3
<1>5. T = {}
  <2> SUFFICES ASSUME T # {} PROVE FALSE
    OBVIOUS
  <2>1. PICK k \in T : \A j \in T : ~(j < k)
    <3>1. T \subseteq Nat
      BY <1>1
    <3> HIDE DEF T
    <3> QED
      BY <3>1, LeastOf
  <2>2. k \in 0 .. n /\ k # 0 /\ ~Cut(k)
    BY <1>4, <2>1
  <2>3. k \in 1 .. n /\ k - 1 \in 0 .. n /\ k - 1 \in Nat /\ k - 1 < k /\ (k - 1) + 1 = k /\ s[k] \in X
    BY <1>1, <2>2
  <2>4. Cut(k - 1)
    BY <2>1, <2>3
  <2>5. PICK c, m : Cuts(c, m, s, ch, k - 1, p[k - 1])
    BY <2>4
  <2> DEFINE i == k - 1
  <2>6. i \in Nat /\ p[i] \in Seq(Seq(X)) /\ Cuts(c, m, s, ch, i, p[i]) /\ s[i + 1] \in X
    BY <2>3, <2>4, <2>5
  <2>7. p[k] = Split(p[i], s[i + 1], ch) /\ i + 1 = k
    BY <1>3, <2>3
  <2> HIDE DEF i
  <2>8. /\ Split(p[i], s[i + 1], ch) \in Seq(Seq(X))
        /\ \E d, r : Cuts(d, r, s, ch, i + 1, Split(p[i], s[i + 1], ch))
    BY <2>6, SplitCuts
  <2> QED
    BY <2>2, <2>7, <2>8
<1>6. Cut(n)
  BY <1>1, <1>5
<1> QED
  BY <1>2, <1>6 DEF n

\* Where the labels of a text w of n characters stand.
Labelled(w, n, c, m, L) ==
  /\ n \in Nat /\ m \in Nat \ {0} /\ Len(L) = m /\ DOMAIN L = 1 .. m
  /\ c \in [0 .. m -> 0 .. n + 1] /\ c[0] = 0 /\ c[m] = n + 1
  /\ \A j \in 1 .. m :
       /\ Len(L[j]) \in Nat /\ DOMAIN L[j] = 1 .. Len(L[j])
       /\ L[j] = <<>> <=> Len(L[j]) = 0
       /\ j - 1 \in 0 .. m /\ c[j - 1] + Len(L[j]) + 1 = c[j]
       /\ \A p \in 1 .. Len(L[j]) :
            /\ c[j - 1] + p \in 1 .. n
            /\ w[c[j - 1] + p] = L[j][p] /\ L[j][p] # "."
  /\ \A j \in 1 .. m - 1 : c[j] \in 1 .. n /\ w[c[j]] = "."
  /\ \A j, l \in 0 .. m : j < l => c[j] < c[l]
  /\ \A i \in 1 .. n : w[i] = "." => \E j \in 1 .. m - 1 : i = c[j]
  /\ \A i \in 1 .. n : w[i] # "." => \E j \in 1 .. m : c[j - 1] < i /\ i < c[j]

LEMMA LabelledIs ==
  ASSUME NEW X, NEW w \in Seq(X)
  PROVE  \E c, m : Labelled(w, Len(w), c, m, SplitAt(w, "."))
<1> DEFINE n == Len(w)
           L == SplitAt(w, ".")
<1>1. n \in Nat /\ L \in Seq(Seq(X)) /\ \E c, m : Cuts(c, m, w, ".", n, L)
  <2>1. L \in Seq(Seq(X))
    BY SplitIs
  <2>2. \E c, m : Cuts(c, m, w, ".", n, L)
    BY SplitIs
  <2> QED
    BY <2>1, <2>2
<1> HIDE DEF n, L
<1>2. PICK c, m : Cuts(c, m, w, ".", n, L)
  BY <1>1
<1>3. Pieces(X, c, m, n, L)
  BY <1>1, <1>2, CutsAre
<1>4. /\ m \in Nat /\ m # 0 /\ m = Len(L)
      /\ c \in [0 .. m -> 0 .. n + 1] /\ c[0] = 0 /\ c[m] = n + 1
      /\ \A j \in 0 .. m : c[j] \in Nat /\ c[j] <= n + 1
      /\ \A j \in 1 .. m : /\ j - 1 \in 0 .. m /\ c[j - 1] \in Nat /\ c[j - 1] < c[j]
                          /\ L[j] \in Seq(X) /\ Len(L[j]) \in Nat
                          /\ Len(L[j]) = c[j] - c[j - 1] - 1
  BY <1>3 DEF Pieces
<1>5. /\ \A j \in 1 .. m : \A p \in 1 .. Len(L[j]) : L[j][p] = w[c[j - 1] + p] /\ L[j][p] # "."
      /\ \A j \in 1 .. m - 1 : w[c[j]] = "."
      /\ \A j, l \in 0 .. m : j < l => c[j] < c[l]
      /\ \A i \in 1 .. n : \E j \in 1 .. m : c[j - 1] < i /\ i <= c[j]
  BY <1>2 DEF Cuts
<1>6. ASSUME NEW j \in 1 .. m
      PROVE  /\ Len(L[j]) \in Nat /\ DOMAIN L[j] = 1 .. Len(L[j])
             /\ L[j] = <<>> <=> Len(L[j]) = 0
             /\ j - 1 \in 0 .. m /\ c[j - 1] + Len(L[j]) + 1 = c[j]
             /\ \A p \in 1 .. Len(L[j]) :
                  /\ c[j - 1] + p \in 1 .. n
                  /\ w[c[j - 1] + p] = L[j][p] /\ L[j][p] # "."
  <2> DEFINE a == c[j - 1]
             b == c[j]
             e == Len(L[j])
  <2>1. /\ a \in Nat /\ b \in Nat /\ e \in Nat /\ e = b - a - 1 /\ b <= n + 1
        /\ DOMAIN L[j] = 1 .. e /\ j - 1 \in 0 .. m /\ L[j] \in Seq(X)
    BY <1>4
  <2>2. \A p \in 1 .. e : L[j][p] = w[a + p] /\ L[j][p] # "."
    BY <1>5
  <2> HIDE DEF a, b, e
  <2>3. a + e + 1 = b /\ \A p \in 1 .. e : a + p \in 1 .. n
    BY <1>1, <2>1
  <2>4. L[j] = <<>> <=> Len(L[j]) = 0
    BY <2>1
  <2> QED
    BY <2>1, <2>2, <2>3, <2>4 DEF a, b, e
<1>7. ASSUME NEW j \in 1 .. m - 1
      PROVE  c[j] \in 1 .. n /\ w[c[j]] = "."
  <2>1. j \in 0 .. m /\ 0 \in 0 .. m /\ m \in 0 .. m /\ 0 < j /\ j < m
    BY <1>4
  <2>2. c[0] < c[j] /\ c[j] < c[m] /\ c[j] \in Nat
    BY <1>4, <1>5, <2>1
  <2>3. /\ c[0] = 0 /\ c[m] = n + 1 /\ n \in Nat
    BY <1>1, <1>4
  <2>4. c[j] \in 1 .. n
    <3> DEFINE b == c[j]
    <3>1. 0 < b /\ b < n + 1 /\ b \in Nat
      BY <2>2, <2>3
    <3> HIDE DEF b
    <3>2. b \in 1 .. n
      BY <2>3, <3>1
    <3> QED
      BY <3>2 DEF b
  <2> QED
    BY <1>5, <2>4
<1>8. ASSUME NEW i \in 1 .. n, NEW j \in 1 .. m, c[j - 1] < i, i < c[j]
      PROVE  w[i] # "."
  <2> DEFINE p == i - c[j - 1]
  <2>1. p \in 1 .. Len(L[j]) /\ c[j - 1] + p = i
    <3> DEFINE a == c[j - 1]
               b == c[j]
               e == Len(L[j])
    <3>1. a \in Nat /\ b \in Nat /\ e \in Nat /\ e = b - a - 1 /\ a < i /\ i < b /\ i \in Nat
      BY <1>1, <1>4, <1>8
    <3> HIDE DEF a, b, e
    <3>2. i - a \in 1 .. e /\ a + (i - a) = i
      BY <3>1
    <3> QED
      BY <3>2 DEF a, e
  <2> HIDE DEF p
  <2> QED
    BY <1>5, <2>1
<1>9. ASSUME NEW i \in 1 .. n
      PROVE  /\ w[i] = "." => \E j \in 1 .. m - 1 : i = c[j]
             /\ w[i] # "." => \E j \in 1 .. m : c[j - 1] < i /\ i < c[j]
  <2>1. PICK j \in 1 .. m : c[j - 1] < i /\ i <= c[j]
    BY <1>5
  <2>2. CASE i < c[j]
    BY <1>8, <2>1, <2>2
  <2>3. CASE i = c[j]
    <3>1. j # m
      BY <1>1, <1>4, <2>3
    <3>2. j \in 1 .. m - 1
      BY <1>4, <3>1
    <3> QED
      BY <1>7, <2>3, <3>2
  <2>4. c[j] \in Nat /\ i \in Nat
    BY <1>1, <1>4
  <2> QED
    BY <2>1, <2>2, <2>3, <2>4
<1>10. Labelled(w, n, c, m, L)
  <2>1. m \in Nat \ {0} /\ Len(L) = m /\ DOMAIN L = 1 .. m
    BY <1>1, <1>4
  <2> QED
    BY <1>1, <1>4, <1>5, <1>6, <1>7, <1>9, <2>1 DEF Labelled
<1> QED
  BY <1>10 DEF n, L

\* The rules of a name, by its labels and by its characters.
SoundLabel(label, e) ==
  /\ e # 0
  /\ \A p \in 1 .. e : label[p] \in LabelChars
  /\ label[1] # "-" /\ label[e] # "-"

SoundText(w, n) ==
  /\ n > 0
  /\ \A i \in 1 .. n : w[i] \in LabelChars \cup {"."}
  /\ \A i \in {1, n} : w[i] \in {"x", "8"}
  /\ \A i \in {d \in 1 .. n : w[d] = "."} : w[i - 1] \in {"x", "8"} /\ w[i + 1] \in {"x", "8"}

LEMMA SoundAlike ==
  ASSUME NEW w, NEW n, NEW c, NEW m, NEW L, Labelled(w, n, c, m, L)
  PROVE  (\A j \in 1 .. m : SoundLabel(L[j], Len(L[j]))) <=> SoundText(w, n)
<1>1. /\ n \in Nat /\ m \in Nat /\ m # 0 /\ m \in 1 .. m /\ 1 \in 1 .. m
      /\ c[0] = 0 /\ c[m] = n + 1 /\ \A j \in 0 .. m : c[j] \in Nat
      /\ \A j \in 1 .. m - 1 : c[j] \in 1 .. n /\ w[c[j]] = "." /\ j + 1 \in 1 .. m
      /\ \A j \in 2 .. m : j - 1 \in 1 .. m - 1
  <2>1. n \in Nat /\ m \in Nat /\ m # 0 /\ c \in [0 .. m -> 0 .. n + 1]
    BY DEF Labelled
  <2>2. c[0] = 0 /\ c[m] = n + 1 /\ \A j \in 1 .. m - 1 : c[j] \in 1 .. n /\ w[c[j]] = "."
    BY DEF Labelled
  <2>3. \A j \in 0 .. m : c[j] \in Nat
    BY <2>1
  <2>4. /\ m \in 1 .. m /\ 1 \in 1 .. m /\ \A j \in 1 .. m - 1 : j + 1 \in 1 .. m
        /\ \A j \in 2 .. m : j - 1 \in 1 .. m - 1
    BY <2>1
  <2> QED
    BY <2>1, <2>2, <2>3, <2>4
<1>2. \A j \in 1 .. m : /\ Len(L[j]) \in Nat /\ c[j - 1] \in Nat
                       /\ c[j - 1] + Len(L[j]) + 1 = c[j]
                       /\ \A p \in 1 .. Len(L[j]) :
                            /\ c[j - 1] + p \in 1 .. n
                            /\ w[c[j - 1] + p] = L[j][p] /\ L[j][p] # "."
  <2>1. \A j \in 1 .. m : j - 1 \in 0 .. m
    BY DEF Labelled
  <2>2. \A j \in 1 .. m : /\ Len(L[j]) \in Nat
                         /\ c[j - 1] + Len(L[j]) + 1 = c[j]
                         /\ \A p \in 1 .. Len(L[j]) :
                              /\ c[j - 1] + p \in 1 .. n
                              /\ w[c[j - 1] + p] = L[j][p] /\ L[j][p] # "."
    BY DEF Labelled
  <2> QED
    BY <1>1, <2>1, <2>2
<1>3. /\ \A i \in 1 .. n : w[i] = "." => \E j \in 1 .. m - 1 : i = c[j]
      /\ \A i \in 1 .. n : w[i] # "." => \E j \in 1 .. m : c[j - 1] < i /\ i < c[j]
  BY DEF Labelled
<1>4. \A ch : ch \in {"x", "8"} <=> ch \in LabelChars /\ ch # "-"
  BY DEF LabelChars
\* The first and the last character of label j.
<1>5. ASSUME NEW j \in 1 .. m, Len(L[j]) # 0
      PROVE  /\ 1 \in 1 .. Len(L[j]) /\ Len(L[j]) \in 1 .. Len(L[j])
             /\ c[j - 1] + 1 \in 1 .. n /\ w[c[j - 1] + 1] = L[j][1]
             /\ c[j] - 1 \in 1 .. n /\ w[c[j] - 1] = L[j][Len(L[j])]
  <2> DEFINE a == c[j - 1]
             b == c[j]
             e == Len(L[j])
  <2>1. a \in Nat /\ b \in Nat /\ e \in Nat /\ e # 0 /\ a + e + 1 = b
    BY <1>1, <1>2, <1>5
  <2>2. \A p \in 1 .. e : a + p \in 1 .. n /\ w[a + p] = L[j][p]
    BY <1>2
  <2> HIDE DEF a, b, e
  <2>3. 1 \in 1 .. e /\ e \in 1 .. e /\ a + e = b - 1
    BY <2>1
  <2> QED
    BY <2>2, <2>3 DEF a, b, e
<1>6. ASSUME \A j \in 1 .. m : SoundLabel(L[j], Len(L[j]))
      PROVE  SoundText(w, n)
  <2>1. \A j \in 1 .. m : /\ Len(L[j]) # 0
                         /\ \A p \in 1 .. Len(L[j]) : L[j][p] \in LabelChars
                         /\ L[j][1] # "-" /\ L[j][Len(L[j])] # "-"
    BY <1>6 DEF SoundLabel
  <2>2. ASSUME NEW j \in 1 .. m
        PROVE  /\ c[j - 1] + 1 \in 1 .. n /\ w[c[j - 1] + 1] \in {"x", "8"}
               /\ c[j] - 1 \in 1 .. n /\ w[c[j] - 1] \in {"x", "8"}
    BY <1>4, <1>5, <2>1
  <2>3. n > 0 /\ w[1] \in {"x", "8"} /\ w[n] \in {"x", "8"}
    <3>1. c[1 - 1] + 1 = 1 /\ c[m] - 1 = n
      BY <1>1
    <3> QED
      BY <1>1, <2>2, <3>1
  <2>4. ASSUME NEW i \in 1 .. n
        PROVE  /\ w[i] \in LabelChars \cup {"."}
               /\ w[i] = "." => w[i - 1] \in {"x", "8"} /\ w[i + 1] \in {"x", "8"}
    <3>1. CASE w[i] = "."
      <4>1. PICK j \in 1 .. m - 1 : i = c[j]
        BY <1>3, <3>1
      <4>2. j \in 1 .. m /\ j + 1 \in 1 .. m /\ (j + 1) - 1 = j
        BY <1>1
      <4>3. w[c[j] - 1] \in {"x", "8"} /\ w[c[(j + 1) - 1] + 1] \in {"x", "8"}
        BY <2>2, <4>2
      <4> QED
        BY <3>1, <4>1, <4>2, <4>3
    <3>2. CASE w[i] # "."
      <4>1. PICK j \in 1 .. m : c[j - 1] < i /\ i < c[j]
        BY <1>3, <3>2
      <4> DEFINE a == c[j - 1]
                 b == c[j]
                 e == Len(L[j])
      <4>2. a \in Nat /\ b \in Nat /\ e \in Nat /\ a + e + 1 = b /\ a < i /\ i < b
        BY <1>1, <1>2, <4>1
      <4>3. \A p \in 1 .. e : w[a + p] = L[j][p] /\ L[j][p] \in LabelChars
        BY <1>2, <2>1
      <4> HIDE DEF a, b, e
      <4>4. i - a \in 1 .. e /\ a + (i - a) = i
        BY <1>1, <4>2
      <4> QED
        BY <3>2, <4>3, <4>4
    <3> QED
      BY <3>1, <3>2
  <2> QED
    BY <2>3, <2>4 DEF SoundText
<1>7. ASSUME SoundText(w, n), NEW j \in 1 .. m
      PROVE  SoundLabel(L[j], Len(L[j]))
  <2>1. /\ n > 0 /\ \A i \in 1 .. n : w[i] \in LabelChars \cup {"."}
        /\ w[1] \in {"x", "8"} /\ w[n] \in {"x", "8"}
        /\ \A i \in 1 .. n : w[i] = "." => w[i - 1] \in {"x", "8"} /\ w[i + 1] \in {"x", "8"}
    BY <1>7 DEF SoundText
  <2>2. w[c[j - 1] + 1] \in {"x", "8"}
    <3>1. CASE j = 1
      <4>1. c[j - 1] + 1 = 1
        BY <1>1, <3>1
      <4> QED
        BY <2>1, <4>1
    <3>2. CASE j # 1
      <4>1. j - 1 \in 1 .. m - 1
        BY <1>1, <3>2
      <4>2. c[j - 1] \in 1 .. n /\ w[c[j - 1]] = "."
        BY <1>1, <4>1
      <4> QED
        BY <2>1, <4>2
    <3> QED
      BY <3>1, <3>2
  <2>3. w[c[j] - 1] \in {"x", "8"}
    <3>1. CASE j = m
      <4>1. c[j] - 1 = n
        BY <1>1, <3>1
      <4> QED
        BY <2>1, <4>1
    <3>2. CASE j # m
      <4>1. j \in 1 .. m - 1
        BY <1>1, <3>2
      <4>2. c[j] \in 1 .. n /\ w[c[j]] = "."
        BY <1>1, <4>1
      <4> QED
        BY <2>1, <4>2
    <3> QED
      BY <3>1, <3>2
  <2>4. Len(L[j]) # 0
    <3> SUFFICES ASSUME Len(L[j]) = 0 PROVE FALSE
      OBVIOUS
    <3>1. c[j] = c[j - 1] + 1
      BY <1>1, <1>2
    <3>2. CASE j = m
      <4>1. c[j - 1] + 1 = n + 1 /\ c[j - 1] = n
        BY <1>1, <1>2, <3>1, <3>2
      <4>2. j = 1 \/ j - 1 \in 1 .. m - 1
        BY <1>1
      <4>3. CASE j = 1
        BY <1>1, <2>1, <4>1, <4>3
      <4>4. CASE j - 1 \in 1 .. m - 1
        <5>1. w[n] = "."
          BY <1>1, <4>1, <4>4
        <5> QED
          BY <2>1, <5>1
      <4> QED
        BY <4>2, <4>3, <4>4
    <3>3. CASE j # m
      <4>1. j \in 1 .. m - 1
        BY <1>1, <3>3
      <4>2. w[c[j]] = "."
        BY <1>1, <4>1
      <4> QED
        BY <2>2, <3>1, <4>2
    <3> QED
      BY <3>2, <3>3
  <2>5. \A p \in 1 .. Len(L[j]) : L[j][p] \in LabelChars
    <3> SUFFICES ASSUME NEW p \in 1 .. Len(L[j]) PROVE L[j][p] \in LabelChars
      OBVIOUS
    <3>1. c[j - 1] + p \in 1 .. n /\ w[c[j - 1] + p] = L[j][p] /\ L[j][p] # "."
      BY <1>2
    <3>2. w[c[j - 1] + p] \in LabelChars \cup {"."}
      BY <2>1, <3>1
    <3> QED
      BY <3>1, <3>2
  <2>6. L[j][1] # "-" /\ L[j][Len(L[j])] # "-"
    BY <1>5, <2>2, <2>3, <2>4
  <2> QED
    BY <2>4, <2>5, <2>6 DEF SoundLabel
<1> QED
  BY <1>6, <1>7

Dots(w, n) == {i \in 1 .. n : w[i] = "."}
Words(w, n) == {i \in 1 .. n : w[i] \in {"x", "-"}}

LEMMA DotsCounted ==
  ASSUME NEW w, NEW n, NEW c, NEW m, NEW L, Labelled(w, n, c, m, L)
  PROVE  Cardinality(Dots(w, n)) = m - 1
<1> DEFINE D == Dots(w, n)
           f == [j \in 1 .. m - 1 |-> c[j]]
<1>1. /\ n \in Nat /\ m \in Nat /\ m # 0
      /\ \A j \in 1 .. m - 1 : c[j] \in 1 .. n /\ w[c[j]] = "."
      /\ \A j, l \in 0 .. m : j < l => c[j] < c[l]
      /\ \A i \in 1 .. n : w[i] = "." => \E j \in 1 .. m - 1 : i = c[j]
  BY DEF Labelled
<1>2. f \in [1 .. m - 1 -> D] /\ \A j \in 1 .. m - 1 : f[j] = c[j]
  BY <1>1 DEF Dots
<1>3. \A i \in D : \E j \in 1 .. m - 1 : f[j] = i
  BY <1>1 DEF Dots
<1>4. \A j, l \in 1 .. m - 1 : f[j] = f[l] => j = l
  <2> SUFFICES ASSUME NEW j \in 1 .. m - 1, NEW l \in 1 .. m - 1, c[j] = c[l], j # l PROVE FALSE
    BY <1>2
  <2>1. j \in 0 .. m /\ l \in 0 .. m /\ (j < l \/ l < j) /\ c[j] \in Nat /\ c[l] \in Nat
    BY <1>1
  <2>2. c[j] < c[l] \/ c[l] < c[j]
    BY <1>1, <2>1
  <2> QED
    BY <2>1, <2>2
<1> HIDE DEF f, D
<1>5. ExistsBijection(1 .. m - 1, D)
  <2> DEFINE S == 1 .. m - 1
  <2>1. f \in [S -> D] /\ \A i \in D : \E j \in S : f[j] = i
    BY <1>2, <1>3
  <2>2. \A j, l \in S : f[j] = f[l] => j = l
    BY <1>4
  <2> HIDE DEF S
  <2>3. f \in Injection(S, D)
    BY <2>1, <2>2 DEF Injection, IsInjective
  <2>4. f \in Surjection(S, D)
    BY <2>1 DEF Surjection
  <2> QED
    BY <2>3, <2>4 DEF ExistsBijection, Bijection, S
<1>6. m - 1 \in Nat
  BY <1>1
<1> DEFINE k == m - 1
<1>7. k \in Nat /\ ExistsBijection(1 .. k, D)
  BY <1>5, <1>6
<1> HIDE DEF k
<1>8. Cardinality(D) = k
  BY <1>7, FS_CountingElements
<1> QED
  BY <1>8 DEF k, D

\* Where a character of a label stands, and which label a character is in.
Placed(w, n, c, m, L) ==
  /\ n \in Nat /\ m \in Nat /\ m # 0 /\ m \in 1 .. m /\ c[m] = n + 1
  /\ \A j \in 1 .. m : /\ Len(L[j]) \in Nat /\ c[j - 1] \in Nat /\ c[j] \in Nat
                      /\ c[j - 1] + Len(L[j]) + 1 = c[j]
                      /\ \A p \in 1 .. Len(L[j]) :
                           /\ c[j - 1] + p \in 1 .. n
                           /\ w[c[j - 1] + p] = L[j][p] /\ L[j][p] # "."
  /\ \A j \in 1 .. m - 1 : c[j] \in Dots(w, n) /\ j \in 1 .. m
  /\ \A d \in Dots(w, n) : d \in 1 .. n /\ d <= c[m - 1]
  /\ \A i \in (1 .. n) \ Dots(w, n) :
       \E j \in 1 .. m, p \in Nat : p \in 1 .. Len(L[j]) /\ i = c[j - 1] + p /\ w[i] = L[j][p]

LEMMA CharactersPlaced ==
  ASSUME NEW w, NEW n, NEW c, NEW m, NEW L, Labelled(w, n, c, m, L)
  PROVE  Placed(w, n, c, m, L)
<1>1. n \in Nat /\ m \in Nat /\ m # 0 /\ c \in [0 .. m -> 0 .. n + 1] /\ c[m] = n + 1
  BY DEF Labelled
<1>2. \A j \in 0 .. m : c[j] \in Nat
  BY <1>1
<1>3. m \in 1 .. m /\ \A j \in 1 .. m : j - 1 \in 0 .. m
  BY <1>1
<1>4. \A j \in 1 .. m : /\ Len(L[j]) \in Nat
                       /\ c[j - 1] + Len(L[j]) + 1 = c[j]
                       /\ \A p \in 1 .. Len(L[j]) :
                            /\ c[j - 1] + p \in 1 .. n
                            /\ w[c[j - 1] + p] = L[j][p] /\ L[j][p] # "."
  BY DEF Labelled
<1>5. \A j \in 1 .. m - 1 : c[j] \in Dots(w, n) /\ j \in 1 .. m
  <2>1. \A j \in 1 .. m - 1 : c[j] \in 1 .. n /\ w[c[j]] = "."
    BY DEF Labelled
  <2> QED
    BY <1>1, <2>1 DEF Dots
<1>6. \A d \in Dots(w, n) : d \in 1 .. n /\ d <= c[m - 1]
  <2> SUFFICES ASSUME NEW d \in Dots(w, n) PROVE d \in 1 .. n /\ d <= c[m - 1]
    OBVIOUS
  <2>1. d \in 1 .. n /\ \E j \in 1 .. m - 1 : d = c[j]
    BY DEF Dots, Labelled
  <2>2. PICK j \in 1 .. m - 1 : d = c[j]
    BY <2>1
  <2>3. CASE j = m - 1
    BY <1>1, <2>1, <2>2, <2>3
  <2>4. CASE j # m - 1
    <3>1. j \in 0 .. m /\ m - 1 \in 0 .. m /\ j < m - 1
      BY <1>1, <2>4
    <3>2. c[j] < c[m - 1]
      BY <3>1 DEF Labelled
    <3> QED
      BY <1>2, <2>1, <2>2, <3>1, <3>2
  <2> QED
    BY <2>3, <2>4
<1>7. ASSUME NEW i \in (1 .. n) \ Dots(w, n)
      PROVE  \E j \in 1 .. m, p \in Nat : p \in 1 .. Len(L[j]) /\ i = c[j - 1] + p /\ w[i] = L[j][p]
  <2>1. PICK j \in 1 .. m : c[j - 1] < i /\ i < c[j]
    BY DEF Dots, Labelled
  <2> DEFINE a == c[j - 1]
             b == c[j]
             e == Len(L[j])
  <2>2. a \in Nat /\ b \in Nat /\ e \in Nat /\ a + e + 1 = b /\ a < i /\ i < b /\ i \in Nat
    <3>1. j - 1 \in 0 .. m /\ j \in 0 .. m /\ i \in Nat
      BY <1>1, <1>3
    <3>2. a \in Nat /\ b \in Nat
      BY <1>2, <3>1
    <3>3. e \in Nat /\ a + e + 1 = b
      BY <1>4
    <3> HIDE DEF e
    <3> QED
      BY <2>1, <3>1, <3>2, <3>3
  <2>3. \A p \in 1 .. e : w[a + p] = L[j][p]
    BY <1>4
  <2> HIDE DEF a, b, e
  <2>4. i - a \in Nat /\ i - a \in 1 .. e /\ i = a + (i - a)
    BY <2>2
  <2>5. w[i] = L[j][i - a]
    BY <2>3, <2>4
  <2> QED
    BY <2>4, <2>5 DEF a, e
<1> QED
  BY <1>1, <1>2, <1>3, <1>4, <1>5, <1>6, <1>7 DEF Placed

\* A name whose last label is not a number, and one in four numbers.
LEMMA NumbersAlike ==
  ASSUME NEW w, NEW n, NEW c, NEW m, NEW L, Labelled(w, n, c, m, L), SoundText(w, n)
  PROVE  /\ NumericLabel(L[m]) <=> ~ \E i \in Words(w, n) : \A j \in Dots(w, n) : j < i
         /\ (m = 4 /\ \A j \in 1 .. m : NumericLabel(L[j]) /\ Len(L[j]) <= 2)
              <=> /\ Words(w, n) = {} /\ Cardinality(Dots(w, n)) = 3
                  /\ \A i \in 1 .. n - 2 : \E j \in i .. i + 2 : j \in Dots(w, n)
<1> DEFINE D == Dots(w, n)
           W == Words(w, n)
<1>1. /\ n \in Nat /\ m \in Nat /\ m # 0 /\ m \in 1 .. m /\ c[m] = n + 1
      /\ \A j \in 1 .. m : /\ Len(L[j]) \in Nat /\ c[j - 1] \in Nat /\ c[j] \in Nat
                          /\ c[j - 1] + Len(L[j]) + 1 = c[j]
                          /\ \A p \in 1 .. Len(L[j]) :
                               /\ c[j - 1] + p \in 1 .. n
                               /\ w[c[j - 1] + p] = L[j][p] /\ L[j][p] # "."
      /\ \A j \in 1 .. m - 1 : c[j] \in D /\ j \in 1 .. m
      /\ \A d \in D : d \in 1 .. n /\ d <= c[m - 1]
      /\ \A i \in (1 .. n) \ D :
           \E j \in 1 .. m, p \in Nat : p \in 1 .. Len(L[j]) /\ i = c[j - 1] + p /\ w[i] = L[j][p]
  <2>1. Placed(w, n, c, m, L)
    BY CharactersPlaced
  <2> QED
    BY <2>1 DEF Placed
<1>2. /\ \A i \in 1 .. n : i \in D <=> w[i] = "."
      /\ \A i \in 1 .. n : i \in W <=> w[i] \in {"x", "-"}
      /\ W \subseteq 1 .. n /\ D \subseteq 1 .. n /\ \A i \in W : i \notin D
  BY DEF Dots, Words
<1>3. \A j \in 1 .. m : SoundLabel(L[j], Len(L[j]))
  BY SoundAlike
<1>4. \A j \in 1 .. m : NumericLabel(L[j]) <=> \A p \in 1 .. Len(L[j]) : L[j][p] \notin {"x", "-"}
  <2> SUFFICES ASSUME NEW j \in 1 .. m
               PROVE  NumericLabel(L[j]) <=> \A p \in 1 .. Len(L[j]) : L[j][p] \notin {"x", "-"}
    OBVIOUS
  <2>1. Len(L[j]) # 0 /\ \A p \in 1 .. Len(L[j]) : L[j][p] \in LabelChars
    BY <1>3 DEF SoundLabel
  <2>2. L[j] # <<>> /\ DOMAIN L[j] = 1 .. Len(L[j])
    BY <2>1 DEF Labelled
  <2> QED
    BY <2>1, <2>2 DEF NumericLabel, LabelChars
<1> HIDE DEF D, W
<1>5. NumericLabel(L[m]) <=> ~ \E i \in W : \A d \in D : d < i
  <2>1. ASSUME ~NumericLabel(L[m]) PROVE \E i \in W : \A d \in D : d < i
    <3>1. PICK p \in 1 .. Len(L[m]) : L[m][p] \in {"x", "-"}
      BY <1>1, <1>4, <2>1
    <3>2. c[m - 1] + p \in W
      <4>1. c[m - 1] + p \in 1 .. n /\ w[c[m - 1] + p] = L[m][p]
        BY <1>1
      <4> QED
        BY <1>2, <3>1, <4>1
    <3>3. \A d \in D : d < c[m - 1] + p
      <4>1. c[m - 1] \in Nat /\ p \in Nat /\ p > 0
        BY <1>1
      <4> DEFINE a == c[m - 1]
      <4>2. \A d \in D : d \in 1 .. n /\ d <= a
        BY <1>1
      <4> HIDE DEF a
      <4>3. \A d \in D : d < a + p
        BY <4>1, <4>2 DEF a
      <4> QED
        BY <4>3 DEF a
    <3> QED
      BY <3>2, <3>3
  <2>2. ASSUME NumericLabel(L[m]), NEW i \in W, \A d \in D : d < i PROVE FALSE
    <3>1. i \in (1 .. n) \ D
      BY <1>2
    <3>2. PICK j \in 1 .. m, p \in Nat : p \in 1 .. Len(L[j]) /\ i = c[j - 1] + p /\ w[i] = L[j][p]
      BY <1>1, <3>1
    <3>3. j # m
      BY <1>1, <1>2, <1>4, <2>2, <3>1, <3>2
    <3>4. c[j] \in D
      <4>1. j \in 1 .. m - 1
        BY <1>1, <3>3
      <4> QED
        BY <1>1, <4>1
    <3>5. c[j] < i
      BY <2>2, <3>4
    <3> DEFINE a == c[j - 1]
               b == c[j]
               e == Len(L[j])
    <3>6. a \in Nat /\ b \in Nat /\ e \in Nat /\ a + e + 1 = b /\ b < i /\ i = a + p /\ p \in 1 .. e
      BY <1>1, <3>2, <3>5
    <3> HIDE DEF a, b, e
    <3> QED
      BY <3>6
  <2> QED
    BY <2>1, <2>2
<1>6. (\A j \in 1 .. m : NumericLabel(L[j])) <=> W = {}
  <2>1. ASSUME NEW j \in 1 .. m, ~NumericLabel(L[j]) PROVE W # {}
    <3>1. PICK p \in 1 .. Len(L[j]) : L[j][p] \in {"x", "-"}
      BY <1>4, <2>1
    <3>2. c[j - 1] + p \in W
      <4>1. c[j - 1] + p \in 1 .. n /\ w[c[j - 1] + p] = L[j][p]
        BY <1>1
      <4> QED
        BY <1>2, <3>1, <4>1
    <3> QED
      BY <3>2
  <2>2. ASSUME \A j \in 1 .. m : NumericLabel(L[j]), NEW i \in W PROVE FALSE
    <3>1. i \in (1 .. n) \ D /\ w[i] \in {"x", "-"}
      BY <1>2
    <3>2. PICK j \in 1 .. m, p \in Nat : p \in 1 .. Len(L[j]) /\ i = c[j - 1] + p /\ w[i] = L[j][p]
      BY <1>1, <3>1
    <3> QED
      BY <1>4, <2>2, <3>1, <3>2
  <2> QED
    BY <2>1, <2>2
<1>7. Cardinality(D) = m - 1
  BY DotsCounted DEF D
<1>8. (\A j \in 1 .. m : Len(L[j]) <= 2) <=> \A i \in 1 .. n - 2 : \E j \in i .. i + 2 : j \in D
  <2>1. ASSUME NEW j \in 1 .. m, ~(Len(L[j]) <= 2)
        PROVE  \E i \in 1 .. n - 2 : \A d \in i .. i + 2 : d \notin D
    <3> DEFINE a == c[j - 1]
               e == Len(L[j])
               i == a + 1
    <3>1. a \in Nat /\ e \in Nat /\ e > 2
      <4>1. a \in Nat /\ e \in Nat /\ ~(e <= 2)
        BY <1>1, <2>1
      <4> HIDE DEF a, e
      <4> QED
        BY <4>1
    <3>2. \A p \in 1 .. e : a + p \in 1 .. n /\ a + p \notin D
      <4>1. \A p \in 1 .. e : /\ a + p \in 1 .. n
                               /\ w[a + p] = L[j][p] /\ L[j][p] # "."
        BY <1>1
      <4> HIDE DEF a, e
      <4> QED
        BY <1>2, <4>1
    <3> HIDE DEF a, e
    <3>3. i \in 1 .. n - 2
      <4>1. 1 \in 1 .. e /\ 3 \in 1 .. e
        BY <3>1
      <4>2. a + 1 \in 1 .. n /\ a + 3 \in 1 .. n
        BY <3>2, <4>1
      <4> QED
        BY <1>1, <3>1, <4>2
    <3>4. ASSUME NEW d \in i .. i + 2 PROVE d \notin D
      <4>1. d - a \in 1 .. e /\ a + (d - a) = d
        BY <3>1
      <4> QED
        BY <3>2, <4>1
    <3> HIDE DEF i
    <3> QED
      BY <3>3, <3>4
  <2>2. ASSUME \A j \in 1 .. m : Len(L[j]) <= 2,
               NEW i \in 1 .. n - 2, \A d \in i .. i + 2 : d \notin D
        PROVE  FALSE
    <3>1. i \in Nat /\ i \in (1 .. n) \ D /\ i + 1 \notin D /\ i + 2 \notin D /\ i + 2 <= n
      <4>1. i \in Nat /\ i \in i .. i + 2 /\ i + 1 \in i .. i + 2 /\ i + 2 \in i .. i + 2
        BY <1>1
      <4> QED
        BY <1>1, <2>2, <4>1
    <3>2. PICK j \in 1 .. m, p \in Nat : p \in 1 .. Len(L[j]) /\ i = c[j - 1] + p /\ w[i] = L[j][p]
      BY <1>1, <3>1
    <3>3. c[j] # i + 1 /\ c[j] # i + 2
      <4>1. CASE j = m
        BY <1>1, <3>1, <4>1
      <4>2. CASE j # m
        <5>1. j \in 1 .. m - 1
          BY <1>1, <4>2
        <5> QED
          BY <1>1, <3>1, <5>1
      <4> QED
        BY <4>1, <4>2
    <3> DEFINE a == c[j - 1]
               b == c[j]
               e == Len(L[j])
    <3>4. /\ a \in Nat /\ b \in Nat /\ e \in Nat /\ a + e + 1 = b /\ e <= 2
          /\ i = a + p /\ p \in 1 .. e /\ b # i + 1 /\ b # i + 2
      BY <1>1, <2>2, <3>2, <3>3
    <3> HIDE DEF a, b, e
    <3> QED
      BY <3>1, <3>4
  <2> QED
    BY <2>1, <2>2
<1>9. m = 4 <=> m - 1 = 3
  BY <1>1
<1> QED
  BY <1>5, <1>6, <1>7, <1>8, <1>9 DEF D, W

\* A configured item and what the URL parser leaves of it.
LEMMA HostPartIs ==
  ASSUME NEW X, NEW item \in Seq(X), item # <<>>
  PROVE  HostPart(item) = item <=> \A i \in 1 .. Len(item) : item[i] \notin {":", "?"}
<1> DEFINE n == Len(item)
           ends == {i \in DOMAIN item : item[i] \in {":", "?"}}
           query == {i \in DOMAIN item : item[i] = "?"}
           at == Min(ends)
           port == SubSeq(item, at + 1, IF query = {} THEN Len(item) ELSE Min(query) - 1)
           numeric == \A i \in DOMAIN port : port[i] = "8"
<1>1. n \in Nat /\ n # 0 /\ DOMAIN item = 1 .. n
  OBVIOUS
<1>2. CASE ends = {}
  <2>1. HostPart(item) = item
    BY <1>2 DEF HostPart
  <2> QED
    BY <1>1, <1>2, <2>1
<1>3. CASE ends # {}
  <2>1. at \in 1 .. n
    <3>1. ends \subseteq Nat /\ ends \subseteq 1 .. n
      BY <1>1
    <3> DEFINE E == ends
    <3>2. E \subseteq Nat /\ E # {}
      BY <1>3, <3>1
    <3> HIDE DEF E
    <3>3. PICK lo \in E : \A i \in E : ~(i < lo)
      BY <3>2, LeastOf
    <3>4. \E x \in E : \A y \in E : x <= y
      BY <3>2, <3>3
    <3>5. Min(E) \in E
      BY <3>4 DEF Min
    <3> QED
      BY <3>1, <3>5 DEF E
  <2>2. HostPart(item) = IF numeric THEN SubSeq(item, 1, at - 1) ELSE <<>>
    BY <1>3 DEF HostPart
  <2> HIDE DEF at, numeric
  <2>3. Len(SubSeq(item, 1, at - 1)) = at - 1
    BY <1>1, <2>1
  <2>4. SubSeq(item, 1, at - 1) # item
    BY <1>1, <2>1, <2>3
  <2>5. HostPart(item) # item
    BY <2>2, <2>4
  <2> QED
    BY <1>1, <1>3, <2>5
<1> QED
  BY <1>2, <1>3

\* An item is accepted exactly when it is a host name.
LEMMA ItemsAlike ==
  ASSUME NEW item \in Seq(Alphabet)
  PROVE  ItemOk(item) <=> Hostname(item)
<1> DEFINE n == Len(item)
           L == SplitAt(item, ".")
<1>1. n \in Nat /\ DOMAIN item = 1 .. n /\ \A i \in 1 .. n : item[i] \in Alphabet
  OBVIOUS
<1>2. \E c, m : Labelled(item, n, c, m, L)
  BY LabelledIs
<1> HIDE DEF L
<1>3. PICK c, m : Labelled(item, n, c, m, L)
  BY <1>2
<1>4. /\ m \in Nat /\ m # 0 /\ m \in 1 .. m /\ Len(L) = m /\ DOMAIN L = 1 .. m
      /\ \A j \in 1 .. m : /\ Len(L[j]) \in Nat /\ DOMAIN L[j] = 1 .. Len(L[j])
                          /\ L[j] = <<>> <=> Len(L[j]) = 0
  <2> HIDE DEF n
  <2>1. m \in Nat /\ m # 0 /\ Len(L) = m /\ DOMAIN L = 1 .. m
    BY <1>3 DEF Labelled
  <2>2. \A j \in 1 .. m : /\ Len(L[j]) \in Nat /\ DOMAIN L[j] = 1 .. Len(L[j])
                         /\ L[j] = <<>> <=> Len(L[j]) = 0
    BY <1>3 DEF Labelled
  <2>3. m \in 1 .. m
    BY <2>1
  <2> QED
    BY <2>1, <2>2, <2>3
<1>5. item # <<>> <=> n > 0
  BY <1>1
<1>6. CASE item = <<"v6">>
  <2>1. n = 1 /\ item[1] = "v6"
    BY <1>6
  <2>2. Hostname(item)
    BY <1>6 DEF Hostname
  <2>3. ~Includes(item, {"/", "*"} \cup {" "}) /\ HostPart(item) = item
    <3>1. \A i \in 1 .. n : item[i] = "v6"
      BY <2>1
    <3>2. ~Includes(item, {"/", "*"} \cup {" "})
      BY <1>1, <3>1 DEF Includes
    <3>3. item # <<>> /\ \A i \in 1 .. n : item[i] \notin {":", "?"}
      BY <1>5, <2>1, <3>1
    <3> QED
      BY <3>2, <3>3, HostPartIs
  <2>4. ~EndsInNumber(item)
    <3>1. PICK j \in 1 .. m, p \in Nat : p \in 1 .. Len(L[j]) /\ 1 = c[j - 1] + p /\ item[1] = L[j][p]
      <4>1. 1 \in (1 .. n) \ Dots(item, n)
        BY <2>1 DEF Dots
      <4>2. \A i \in (1 .. n) \ Dots(item, n) :
              \E j \in 1 .. m, p \in Nat : p \in 1 .. Len(L[j]) /\ i = c[j - 1] + p /\ item[i] = L[j][p]
        <5> HIDE DEF n
        <5>1. Placed(item, n, c, m, L)
          BY <1>3, CharactersPlaced
        <5> QED
          BY <5>1 DEF Placed
      <4> QED
        BY <4>1, <4>2
    <3>2. m = 1
      <4>1. Cardinality(Dots(item, n)) = m - 1
        BY <1>3, DotsCounted
      <4>2. Dots(item, n) = {}
        BY <2>1 DEF Dots
      <4> QED
        BY <1>4, <4>1, <4>2, FS_EmptySet
    <3>3. Last(L) = L[1] /\ ~NumericLabel(L[1])
      BY <1>4, <2>1, <3>1, <3>2 DEF Last, NumericLabel
    <3>4. EndsInNumber(item) <=> NumericLabel(Last(L))
      <4>1. ~(Len(L) > 1)
        BY <1>4, <3>2
      <4> QED
        BY <4>1 DEF EndsInNumber, L
    <3> QED
      BY <3>3, <3>4
  <2>5. UrlHostname(item) = item /\ WellFormedLabels(item)
    BY <1>5, <1>6, <2>1, <2>3, <2>4 DEF UrlHostname, WellFormedLabels
  <2>6. ItemOk(item)
    <3>1. item # <<>>
      BY <1>5, <2>1
    <3> HIDE DEF n
    <3> QED
      BY <2>3, <2>5, <3>1 DEF ItemOk
  <2> QED
    BY <2>2, <2>6
<1>7. CASE item # <<"v6">>
  <2>1. WellFormedLabels(item) <=> \A j \in 1 .. m : SoundLabel(L[j], Len(L[j]))
    <3>1. WellFormedLabels(item) <=>
            \A k \in 1 .. m : /\ L[k] # <<>> /\ \A i \in DOMAIN L[k] : L[k][i] \in LabelChars
                              /\ L[k][1] # "-" /\ Last(L[k]) # "-"
      BY <1>4, <1>7 DEF WellFormedLabels, L
    <3>2. \A k \in 1 .. m : (L[k] # <<>> <=> Len(L[k]) # 0) /\ Last(L[k]) = L[k][Len(L[k])]
      BY <1>4 DEF Last
    <3> QED
      BY <1>4, <3>1, <3>2 DEF SoundLabel
  <2>2. WellFormedLabels(item) <=> SoundText(item, n)
    BY <1>3, <2>1, SoundAlike
  <2> DEFINE Named == \E i \in Words(item, n) : \A j \in Dots(item, n) : j < i
             InFour == /\ Words(item, n) = {} /\ Cardinality(Dots(item, n)) = 3
                       /\ \A i \in 1 .. n - 2 : \E j \in i .. i + 2 : j \in Dots(item, n)
  <2>3. Hostname(item) <=> SoundText(item, n) /\ (Named \/ InFour)
    BY <1>7 DEF Hostname, SoundText, Words, Dots
  <2>4. SoundText(item, n) => /\ ~EndsInNumber(item) <=> Named
                              /\ IsIPv4(item) <=> InFour
    <3> SUFFICES ASSUME SoundText(item, n)
                 PROVE  (~EndsInNumber(item) <=> Named) /\ (IsIPv4(item) <=> InFour)
      OBVIOUS
    <3>1. \A j \in 1 .. m : Len(L[j]) # 0 /\ L[j] # <<>>
      BY <1>3, <1>4, SoundAlike DEF SoundLabel
    <3>2. Last(L) = L[m] /\ Last(L) # <<>>
      BY <1>4, <3>1 DEF Last
    <3>3. EndsInNumber(item) <=> NumericLabel(L[m])
      BY <3>2 DEF EndsInNumber, L
    <3>4. IsIPv4(item) <=> m = 4 /\ \A j \in 1 .. m : NumericLabel(L[j]) /\ Len(L[j]) <= 2
      BY <1>4 DEF IsIPv4, L
    <3>5. /\ NumericLabel(L[m]) <=> ~Named
          /\ (m = 4 /\ \A j \in 1 .. m : NumericLabel(L[j]) /\ Len(L[j]) <= 2) <=> InFour
      BY <1>3, NumbersAlike
    <3> QED
      BY <3>3, <3>4, <3>5
  <2> HIDE DEF Named, InFour
  <2>5. ASSUME ItemOk(item) PROVE Hostname(item)
    <3>1. item # <<>> /\ UrlHostname(item) = item /\ SoundText(item, n)
      BY <2>2, <2>5 DEF ItemOk
    <3>2. item # Invalid
      <4>1. 1 \in 1 .. n /\ item[1] \in Alphabet
        BY <1>1, <1>5, <3>1
      <4>2. Invalid[1] \notin Alphabet
        BY DEF Invalid, Alphabet
      <4> QED
        BY <4>1, <4>2
    <3>3. HostPart(item) = item /\ ~(EndsInNumber(item) /\ ~IsIPv4(item))
      BY <3>1, <3>2 DEF UrlHostname
    <3> QED
      BY <2>3, <2>4, <3>1, <3>3
  <2>6. ASSUME Hostname(item) PROVE ItemOk(item)
    <3>1. SoundText(item, n) /\ (~EndsInNumber(item) \/ IsIPv4(item))
      BY <2>3, <2>4, <2>6
    <3>2. n > 0 /\ \A i \in 1 .. n : item[i] \in LabelChars \cup {"."}
      BY <3>1 DEF SoundText
    <3>3. \A i \in 1 .. n : item[i] \notin {"/", "*", " ", ":", "?", "v6"}
      BY <3>2 DEF LabelChars
    <3>4. item # <<>> /\ HostPart(item) = item
      <4>1. item # <<>>
        BY <1>5, <3>2
      <4> QED
        BY <3>3, <4>1, HostPartIs
    <3>5. ~Includes(item, {"/", "*"} \cup {" "}) /\ ~Includes(item, {"v6"})
      BY <1>1, <3>3 DEF Includes
    <3>6. UrlHostname(item) = item
      BY <3>1, <3>4, <3>5 DEF UrlHostname
    <3> QED
      BY <2>2, <3>1, <3>4, <3>5, <3>6 DEF ItemOk
  <2> QED
    BY <2>5, <2>6
<1> QED
  BY <1>6, <1>7

\* What is left of each item, in small letters.
LEMMA ItemsAre ==
  ASSUME NEW raw \in Seq(Alphabet)
  PROVE  /\ DOMAIN Items(raw) = 1 .. Len(Items(raw)) /\ Len(Items(raw)) \in Nat \ {0}
         /\ \A k \in DOMAIN Items(raw) : Items(raw)[k] \in Seq(Alphabet)
<1> DEFINE parts == SplitAt(raw, ",")
<1>1. parts \in Seq(Seq(Alphabet)) /\ Len(parts) # 0
  <2>1. parts \in Seq(Seq(Alphabet))
    BY SplitIs
  <2>2. PICK c, m : Cuts(c, m, raw, ",", Len(raw), parts)
    BY SplitIs
  <2> QED
    BY <2>1, <2>2 DEF Cuts
<1>2. Items(raw) = [k \in DOMAIN parts |-> lowered(trimmed(parts[k]))]
  BY DEF Items
<1> HIDE DEF parts
<1>3. ASSUME NEW s \in Seq(Alphabet)
      PROVE  lowered(trimmed(s)) \in Seq(Alphabet)
  <2> DEFINE t == Stripped(s, {" "})
  <2>1. trimmed(s) = t
    BY DEF trimmed, Stripped
  <2>2. t \in Seq(Alphabet)
    BY StrippedKeeps
  <2> HIDE DEF t
  <2>3. "x" \in Alphabet
    BY DEF Alphabet
  <2>4. lowered(t) = [i \in 1 .. Len(t) |-> IF t[i] = "X" THEN "x" ELSE t[i]]
    BY <2>2 DEF lowered
  <2>5. lowered(t) \in Seq(Alphabet)
    BY <2>2, <2>3, <2>4
  <2> QED
    BY <2>1, <2>5
<1>4. \A k \in 1 .. Len(parts) : parts[k] \in Seq(Alphabet) /\ DOMAIN parts = 1 .. Len(parts)
  BY <1>1
<1>5. DOMAIN Items(raw) = 1 .. Len(parts) /\ Len(parts) \in Nat /\ Len(Items(raw)) = Len(parts)
  BY <1>1, <1>2
<1>6. \A k \in 1 .. Len(parts) : Items(raw)[k] \in Seq(Alphabet)
  BY <1>2, <1>3, <1>4
<1> QED
  BY <1>1, <1>5, <1>6

\* An allowlist of any length, spelled any way: the hosts in force are those
\* that were written, the three defaults, or none (parseAllowedOrigins).
THEOREM AllowlistsAreExact == \A raw \in Seq(Alphabet) : OriginsExact(raw)
<1> SUFFICES ASSUME NEW raw \in Seq(Alphabet) PROVE OriginsExact(raw)
  OBVIOUS
<1> DEFINE its == Items(raw)
           written == {its[k] : k \in DOMAIN its}
           Default == {Localhost[k] : k \in DOMAIN Localhost}
           allowed == parseAllowedOrigins(raw)
           blank == \A i \in DOMAIN raw : raw[i] = " "
<1>1. trimmed(raw) = <<>> <=> blank
  <2>1. trimmed(raw) = Stripped(raw, {" "})
    BY DEF trimmed, Stripped
  <2>2. Stripped(raw, {" "}) # <<>> <=> \E i \in 1 .. Len(raw) : raw[i] \notin {" "}
    BY StrippedKeeps
  <2>3. DOMAIN raw = 1 .. Len(raw) /\ \A i \in 1 .. Len(raw) : raw[i] \notin {" "} <=> raw[i] # " "
    OBVIOUS
  <2>4. Stripped(raw, {" "}) = <<>> <=> blank
    BY <2>2, <2>3
  <2> QED
    BY <2>1, <2>4
<1>2. /\ its # <<>>
      /\ \A k \in DOMAIN its : ItemOk(its[k]) <=> Hostname(its[k])
  <2>1. its # <<>>
    BY ItemsAre
  <2>2. \A k \in DOMAIN its : its[k] \in Seq(Alphabet)
    BY ItemsAre
  <2> HIDE DEF its
  <2> QED
    BY <2>1, <2>2, ItemsAlike
<1>3. allowed = IF blank THEN Localhost
                ELSE IF \A k \in DOMAIN its : ItemOk(its[k]) THEN its ELSE Refused
  BY <1>1 DEF parseAllowedOrigins
<1>4. \A h, list : validateOriginHeader(h, list) <=> \E k \in DOMAIN list : list[k] = h
  BY DEF validateOriginHeader
<1>5. OriginsExact(raw) <=>
        IF blank
          THEN \A h \in Default \cup written : validateOriginHeader(h, allowed) <=> h \in Default
        ELSE /\ allowed # Refused <=> \A item \in written : Hostname(item)
             /\ \A h \in Default \cup written :
                  validateOriginHeader(h, allowed) <=> h \in written /\ allowed # Refused
  BY DEF OriginsExact
<1> HIDE DEF its, allowed
<1>6. CASE blank
  BY <1>3, <1>4, <1>5, <1>6
<1>7. CASE ~blank
  <2>1. CASE \A k \in DOMAIN its : ItemOk(its[k])
    <3>1. allowed = its /\ allowed # Refused /\ \A item \in written : Hostname(item)
      BY <1>2, <1>3, <1>7, <2>1 DEF Refused
    <3>2. \A h : validateOriginHeader(h, allowed) <=> h \in written
      BY <1>4, <3>1
    <3> QED
      BY <1>5, <1>7, <3>1, <3>2
  <2>2. CASE ~ \A k \in DOMAIN its : ItemOk(its[k])
    <3>1. allowed = Refused /\ ~ \A item \in written : Hostname(item)
      BY <1>2, <1>3, <1>7, <2>2
    <3>2. \A h : ~validateOriginHeader(h, allowed)
      BY <1>4, <3>1 DEF Refused
    <3> QED
      BY <1>5, <1>7, <3>1, <3>2
  <2> QED
    BY <2>1, <2>2
<1> QED
  BY <1>6, <1>7

\* The same of every allowlist the run grows.
THEOREM GrownAllowlistsAreExact == Spec => []OriginsAsWritten
<1> DEFINE Inv == origins \in Seq(Alphabet)
<1>1. Init => Inv
  BY DEF Init
<1>2. Inv /\ [Next]_vars => Inv'
  BY DEF Next, vars, GrowString, GrowOrigins, GrowSegment
<1>3. Inv => OriginsAsWritten
  BY AllowlistsAreExact DEF OriginsAsWritten
<1> QED
  BY <1>1, <1>2, <1>3, PTL DEF Spec

=============================================================================
