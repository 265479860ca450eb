--------------------------- MODULE VerifierProofs ---------------------------
(***************************************************************************)
(* What verifyPartition finds in any finite set of fetched rows, as a      *)
(* definition without a loop: a row is a mismatch, unrecomputable or       *)
(* broken by what it holds and what the row before it holds.               *)
(*                                                                         *)
(* The argument: ranks put the rows in order (WalkSorts); the loop is a    *)
(* function of the number of rows walked, which exists for every number    *)
(* (WalkedExists); and what it has filed after k rows is what the first    *)
(* k rows deserve, by the least k at which it would not be (FiledAll).     *)
(***************************************************************************)
EXTENDS ChainVerifier, FiniteSetTheorems, WellFoundedInduction, TLAPS

\* Rows of the database: their keys are numbers and their event_ids differ.
Keyed(S) ==
  /\ IsFiniteSet(S)
  /\ \A r \in S : r.ms \in Nat /\ r.event_id \in Nat
  /\ \A q, r \in S : q.event_id = r.event_id => q = r

-----------------------------------------------------------------------------
(***************************************************************************)
(* The walk visits every row once, in the order of the query.              *)
(***************************************************************************)
Sorted(w, S) ==
  /\ w \in [1 .. Cardinality(S) -> S]
  /\ \A r \in S : \E k \in 1 .. Cardinality(S) : w[k] = r
  /\ \A j, k \in 1 .. Cardinality(S) : WalkOrder(w[j], w[k]) <=> j < k

LEMMA WalkSorts ==
  ASSUME NEW S, Keyed(S)
  PROVE  /\ Cardinality(S) \in Nat
         /\ Len(Walk(S)) = Cardinality(S)
         /\ Sorted(Walk(S), S)
<1> DEFINE n == Cardinality(S)
           under(r) == {q \in S : WalkOrder(q, r)}
           rank == [r \in S |-> Cardinality(under(r)) + 1]
           w == Walk(S)
<1>1. n \in Nat
  BY FS_CardinalityType DEF Keyed
<1>2. \A q, r, s \in S : /\ ~WalkOrder(r, r)
                         /\ WalkOrder(q, r) /\ WalkOrder(r, s) => WalkOrder(q, s)
                         /\ q # r => WalkOrder(q, r) \/ WalkOrder(r, q)
  BY DEF Keyed, WalkOrder
<1>3. ASSUME NEW r \in S PROVE /\ IsFiniteSet(under(r)) /\ Cardinality(under(r)) \in Nat
                               /\ Cardinality(under(r)) < n
  <2>1. under(r) \in SUBSET S /\ under(r) # S
    BY <1>2
  <2> HIDE DEF under
  <2>2. /\ IsFiniteSet(under(r)) /\ Cardinality(under(r)) <= n
        /\ n = Cardinality(under(r)) => S = under(r)
    BY <2>1, FS_Subset DEF Keyed
  <2>3. Cardinality(under(r)) \in Nat
    BY <2>2, FS_CardinalityType
  <2> HIDE DEF n
  <2> QED
    BY <1>1, <2>1, <2>2, <2>3
<1>4. ASSUME NEW q \in S, NEW r \in S, WalkOrder(q, r)
      PROVE  Cardinality(under(q)) < Cardinality(under(r))
  <2>1. under(q) \in SUBSET under(r) /\ under(q) # under(r)
    <3>1. q \in under(r) /\ q \notin under(q)
      BY <1>2, <1>4
    <3>2. \A s \in under(q) : s \in under(r)
      BY <1>2, <1>4
    <3> QED
      BY <3>1, <3>2
  <2>2. IsFiniteSet(under(r)) /\ Cardinality(under(r)) \in Nat /\ Cardinality(under(q)) \in Nat
    BY <1>3
  <2> HIDE DEF under
  <2>3. /\ Cardinality(under(q)) <= Cardinality(under(r))
        /\ Cardinality(under(r)) = Cardinality(under(q)) => under(r) = under(q)
    BY <2>1, <2>2, FS_Subset
  <2> QED
    BY <2>1, <2>2, <2>3
<1>5. \A q, r \in S : WalkOrder(q, r) <=> rank[q] < rank[r]
  <2> SUFFICES ASSUME NEW q \in S, NEW r \in S PROVE WalkOrder(q, r) <=> rank[q] < rank[r]
    OBVIOUS
  <2>1. rank[q] = Cardinality(under(q)) + 1 /\ rank[r] = Cardinality(under(r)) + 1
    OBVIOUS
  <2>2. Cardinality(under(q)) \in Nat /\ Cardinality(under(r)) \in Nat
    BY <1>3
  <2> HIDE DEF rank, under
  <2> QED
    BY <1>2, <1>4, <2>1, <2>2
<1>6. rank \in [S -> 1 .. n]
  <2>1. ASSUME NEW r \in S PROVE Cardinality(under(r)) + 1 \in 1 .. n
    <3> HIDE DEF n, under
    <3> QED
      BY <1>1, <1>3
  <2> QED
    BY <2>1
<1> HIDE DEF rank
<1>7. rank \in Injection(S, 1 .. n)
  <2>1. ASSUME NEW q \in S, NEW r \in S, rank[q] = rank[r] PROVE q = r
    <3>1. rank[q] \in Nat
      BY <1>1, <1>6
    <3> QED
      BY <1>2, <1>5, <2>1, <3>1
  <2> QED
    BY <1>6, <2>1 DEF Injection, IsInjective
<1>8. rank \in Surjection(S, 1 .. n)
  <2>1. IsFiniteSet(1 .. n) /\ Cardinality(1 .. n) = n
    BY <1>1, FS_Interval
  <2> QED
    BY <1>7, <2>1, FS_Injection
<1>9. \A k \in 1 .. n : \E r \in S : rank[r] = k
  BY <1>8 DEF Surjection
<1>10. \A k \in 1 .. n : w[k] \in S /\ rank[w[k]] = k
  <2> SUFFICES ASSUME NEW k \in 1 .. n PROVE w[k] \in S /\ rank[w[k]] = k
    OBVIOUS
  <2>1. w[k] = CHOOSE r \in S : Cardinality(under(r)) = k - 1
    BY DEF Walk
  <2>2. \A r \in S : rank[r] = k <=> Cardinality(under(r)) = k - 1
    <3> SUFFICES ASSUME NEW r \in S PROVE rank[r] = k <=> Cardinality(under(r)) = k - 1
      OBVIOUS
    <3>1. Cardinality(under(r)) \in Nat /\ rank[r] = Cardinality(under(r)) + 1
      BY <1>3 DEF rank
    <3> HIDE DEF under
    <3> QED
      BY <1>1, <3>1
  <2>3. \E r \in S : Cardinality(under(r)) = k - 1
    BY <1>9, <2>2
  <2> HIDE DEF under
  <2> QED
    BY <2>1, <2>2, <2>3
<1>11. w = [k \in 1 .. n |-> CHOOSE r \in S : Cardinality(under(r)) = k - 1]
  BY DEF Walk
<1> HIDE DEF w, n, under
<1>12. w \in [1 .. n -> S]
  BY <1>10, <1>11
<1>13. Len(w) = n
  BY <1>1, <1>11
<1>14. \A r \in S : rank[r] \in 1 .. n /\ w[rank[r]] = r
  <2> SUFFICES ASSUME NEW r \in S PROVE rank[r] \in 1 .. n /\ w[rank[r]] = r
    OBVIOUS
  <2>1. rank[r] \in 1 .. n
    BY <1>6
  <2>2. w[rank[r]] \in S /\ rank[w[rank[r]]] = rank[r]
    BY <1>10, <2>1
  <2> QED
    BY <1>7, <2>1, <2>2 DEF Injection, IsInjective
<1>15. \A j, k \in 1 .. n : WalkOrder(w[j], w[k]) <=> j < k
  BY <1>5, <1>10
<1> QED
  BY <1>1, <1>12, <1>13, <1>14, <1>15 DEF Sorted, w, n

-----------------------------------------------------------------------------
(***************************************************************************)
(* The loop.  Findings exists for a walk of any length: by the least       *)
(* number of rows for which it would not.                                  *)
(***************************************************************************)
LEMMA LeastOf ==
  ASSUME NEW N, N \subseteq Nat, N # {}
  PROVE  \E n \in N : \A m \in N : ~(m < n)
<1>1. PICK n \in N : \A m \in N : <<m, n>> \notin OpToRel(<, Nat)
  BY NatLessThanWellFounded, WFMin
<1>2. \A m \in N : ~(m < n)
  BY <1>1 DEF OpToRel
<1> QED
  BY <1>2

Walked(f, w, n) ==
  f = [k \in 0 .. n |-> IF k = 0 THEN NoFindings ELSE verifyRow(f[k - 1], w[k])]

LEMMA WalkedExists ==
  ASSUME NEW w, NEW N \in Nat
  PROVE  \E f : Walked(f, w, N)
<1> SUFFICES ASSUME ~ \E f : Walked(f, w, N) PROVE FALSE
  OBVIOUS
<1> DEFINE T == {n \in Nat : ~ \E f : Walked(f, w, n)}
<1>1. PICK n \in T : \A m \in T : ~(m < n)
  <2>1. T \subseteq Nat /\ T # {}
    OBVIOUS
  <2> HIDE DEF T
  <2> QED
    BY <2>1, LeastOf
<1>2. CASE n = 0
  <2> DEFINE f == [k \in 0 .. 0 |-> NoFindings]
  <2>1. \A k \in 0 .. 0 : k = 0
    OBVIOUS
  <2>2. f = [k \in 0 .. 0 |-> IF k = 0 THEN NoFindings ELSE verifyRow(f[k - 1], w[k])]
    BY <2>1
  <2> QED
    BY <1>1, <1>2, <2>2 DEF Walked
<1>3. CASE n # 0
  <2>1. n \in Nat /\ n - 1 \in Nat /\ n - 1 < n
    BY <1>3
  <2>2. n - 1 \notin T
    BY <1>1, <2>1
  <2>3. PICK f : Walked(f, w, n - 1)
    BY <2>1, <2>2
  <2> DEFINE g == [k \in 0 .. n |-> IF k = n THEN verifyRow(f[n - 1], w[n]) ELSE f[k]]
  <2>4. ASSUME NEW k \in 0 .. n
        PROVE  g[k] = IF k = 0 THEN NoFindings ELSE verifyRow(g[k - 1], w[k])
    <3>1. CASE k = n
      BY <1>3, <2>1, <3>1
    <3>2. CASE k # n
      <4>1. /\ k \in 0 .. n - 1
            /\ f[k] = IF k = 0 THEN NoFindings ELSE verifyRow(f[k - 1], w[k])
        BY <2>1, <2>3, <3>2 DEF Walked
      <4>2. k # 0 => k - 1 \in 0 .. n /\ k - 1 # n
        BY <2>1, <4>1
      <4> QED
        BY <3>2, <4>1, <4>2
    <3> QED
      BY <3>1, <3>2
  <2>5. g = [k \in 0 .. n |-> g[k]]
    OBVIOUS
  <2> HIDE DEF g
  <2>6. Walked(g, w, n)
    BY <2>4, <2>5 DEF Walked
  <2> QED
    BY <1>1, <2>6
<1> QED
  BY <1>2, <1>3

LEMMA FindingsStep ==
  ASSUME NEW w, Len(w) \in Nat
  PROVE  /\ Findings(w)[0] = NoFindings
         /\ \A k \in 1 .. Len(w) : Findings(w)[k] = verifyRow(Findings(w)[k - 1], w[k])
<1> DEFINE n == Len(w)
           v == Findings(w)
<1>1. v = CHOOSE f : Walked(f, w, n)
  BY DEF Findings, Walked
<1>2. Walked(v, w, n)
  BY <1>1, WalkedExists
<1> HIDE DEF n, v
<1>3. v = [k \in 0 .. n |-> IF k = 0 THEN NoFindings ELSE verifyRow(v[k - 1], w[k])]
  BY <1>2 DEF Walked
<1>4. n \in Nat
  BY DEF n
<1>5. v[0] = NoFindings /\ \A k \in 1 .. n : v[k] = verifyRow(v[k - 1], w[k])
  BY <1>3, <1>4
<1> QED
  BY <1>5 DEF n, v

-----------------------------------------------------------------------------
(***************************************************************************)
(* What a row deserves, by itself.                                         *)
(***************************************************************************)
Checked(r) == r.event_hash \notin {Null, HashError} /\ r.canon_version \in KnownVersions

Unrecomputable(r) == Checked(r) /\ r.payload \in Rejected

Mismatched(r) == Checked(r) /\ r.payload \notin Rejected /\ recomputeHash(r) # r.event_hash

Sound(r) == Checked(r) /\ r.payload \notin Rejected /\ recomputeHash(r) = r.event_hash

\* A digest tells its row, and no sentinel is one.
LEMMA DigestNames ==
  ASSUME NEW i, NEW ms, NEW payload, NEW prev
  PROVE  /\ Digest(i, ms, payload, prev).event_id = i
         /\ Digest(i, ms, payload, prev) \notin {Null, HashError, PaddedError}
<1>1. Digest(i, ms, payload, prev).event_id = i /\ "event_id" \in DOMAIN Digest(i, ms, payload, prev)
  BY DEF Digest
<1>2. /\ "event_id" \notin DOMAIN Null
      /\ "event_id" \notin DOMAIN HashError
      /\ "event_id" \notin DOMAIN PaddedError
  BY DEF Null, HashError, PaddedError
<1>3. QED
  BY <1>1, <1>2

Filed(set, condition, r) == IF condition THEN set \cup {r.event_id} ELSE set

LEMMA RowFiled ==
  ASSUME NEW v, DOMAIN v = DOMAIN NoFindings, NEW r
  PROVE  LET u == verifyRow(v, r) IN
           /\ DOMAIN u = DOMAIN NoFindings
           /\ u.mismatches = Filed(v.mismatches, Mismatched(r), r)
           /\ u.unrecomputable = Filed(v.unrecomputable, Unrecomputable(r), r)
           /\ u.breaks = Filed(v.breaks, Sound(r) /\ ~LinkHolds(v, r), r)
           /\ r.event_hash # Null => u.prevHashedHash = r.event_hash /\ u.isFirstHashed = FALSE
<1> DEFINE u == verifyRow(v, r)
<1>1. DOMAIN v = {"mismatches", "breaks", "hash_errors", "uncheckable", "unrecomputable",
                  "legacy_null", "links_verified", "prevHashedHash", "isFirstHashed"}
  BY DEF NoFindings
<1>2. ASSUME NEW field \in {"mismatches", "breaks", "hash_errors", "uncheckable", "unrecomputable"}
      PROVE  LET f == File(v, field, r) IN
               /\ DOMAIN f = DOMAIN v
               /\ f.mismatches = Filed(v.mismatches, field = "mismatches", r)
               /\ f.unrecomputable = Filed(v.unrecomputable, field = "unrecomputable", r)
               /\ f.breaks = Filed(v.breaks, field = "breaks", r)
               /\ f.prevHashedHash = r.event_hash /\ f.isFirstHashed = FALSE
  BY <1>1 DEF File, Filed
<1>3. LET f == Counted(v, r) IN
        /\ DOMAIN f = DOMAIN v
        /\ f.mismatches = v.mismatches /\ f.unrecomputable = v.unrecomputable
        /\ f.breaks = v.breaks
        /\ f.prevHashedHash = r.event_hash /\ f.isFirstHashed = FALSE
  BY <1>1 DEF Counted
<1>4. CASE r.event_hash = Null
  BY <1>1, <1>4 DEF verifyRow, Checked, Mismatched, Unrecomputable, Sound, Filed
<1>5. CASE r.event_hash # Null /\ ~Checked(r)
  <2>1. u = File(v, "hash_errors", r) \/ u = File(v, "uncheckable", r)
    BY <1>5 DEF verifyRow, Checked
  <2> QED
    BY <1>2, <1>5, <2>1 DEF Mismatched, Unrecomputable, Sound, Filed
<1>6. CASE Unrecomputable(r)
  <2>1. u = File(v, "unrecomputable", r) /\ ~Mismatched(r) /\ ~Sound(r)
    BY <1>6 DEF verifyRow, Verify, Checked, Unrecomputable, Mismatched, Sound
  <2> QED
    BY <1>2, <1>6, <2>1 DEF Filed
<1>7. CASE Mismatched(r)
  <2>1. u = File(v, "mismatches", r) /\ ~Unrecomputable(r) /\ ~Sound(r)
    BY <1>7 DEF verifyRow, Verify, Checked, Unrecomputable, Mismatched, Sound
  <2> QED
    BY <1>2, <1>7, <2>1 DEF Filed
<1>8. CASE Sound(r)
  <2>1. /\ u = IF LinkHolds(v, r) THEN Counted(v, r) ELSE File(v, "breaks", r)
        /\ ~Unrecomputable(r) /\ ~Mismatched(r)
    BY <1>8 DEF verifyRow, Verify, Checked, Unrecomputable, Mismatched, Sound
  <2>2. CASE LinkHolds(v, r)
    BY <1>3, <1>8, <2>1, <2>2 DEF Filed
  <2>3. CASE ~LinkHolds(v, r)
    BY <1>2, <1>8, <2>1, <2>3 DEF Filed
  <2> QED
    BY <2>2, <2>3
<1> QED
  BY <1>4, <1>5, <1>6, <1>7, <1>8 DEF Unrecomputable, Mismatched, Sound

-----------------------------------------------------------------------------
(***************************************************************************)
(* What is filed after k rows.  The pointer is the row before, as long as  *)
(* every row has a hash.                                                   *)
(***************************************************************************)
AllHashed(w, k) == \A j \in 1 .. k : w[j].event_hash # Null

BrokenAt(w, k) == Sound(w[k]) /\ k # 1 /\ w[k].previous_hash # w[k - 1].event_hash

Ids(w, K) == {w[j].event_id : j \in K}

FiledAt(v, w, k) ==
  /\ DOMAIN v = DOMAIN NoFindings
  /\ v.mismatches = Ids(w, {j \in 1 .. k : Mismatched(w[j])})
  /\ v.unrecomputable = Ids(w, {j \in 1 .. k : Unrecomputable(w[j])})
  /\ AllHashed(w, k) =>
       /\ v.breaks = Ids(w, {j \in 1 .. k : BrokenAt(w, j)})
       /\ v.isFirstHashed = (k = 0)
       /\ k # 0 => v.prevHashedHash = w[k].event_hash

LEMMA FiledNext ==
  ASSUME NEW v, NEW w, NEW k \in Nat, FiledAt(v, w, k)
  PROVE  FiledAt(verifyRow(v, w[k + 1]), w, k + 1)
<1> DEFINE r == w[k + 1]
           u == verifyRow(v, r)
<1>1. /\ DOMAIN u = DOMAIN NoFindings
      /\ u.mismatches = Filed(v.mismatches, Mismatched(r), r)
      /\ u.unrecomputable = Filed(v.unrecomputable, Unrecomputable(r), r)
      /\ u.breaks = Filed(v.breaks, Sound(r) /\ ~LinkHolds(v, r), r)
      /\ r.event_hash # Null => u.prevHashedHash = r.event_hash /\ u.isFirstHashed = FALSE
  <2>1. DOMAIN v = DOMAIN NoFindings
    BY DEF FiledAt
  <2> HIDE DEF r
  <2> QED
    BY <2>1, RowFiled
<1>2. 1 .. k + 1 = (1 .. k) \cup {k + 1} /\ k + 1 # 0 /\ (k + 1) - 1 = k /\ (k + 1 = 1 <=> k = 0)
  OBVIOUS
<1>3. u.mismatches = Ids(w, {j \in 1 .. k + 1 : Mismatched(w[j])})
  <2>1. v.mismatches = Ids(w, {j \in 1 .. k : Mismatched(w[j])})
    BY DEF FiledAt
  <2>2. {j \in 1 .. k + 1 : Mismatched(w[j])}
          = {j \in 1 .. k : Mismatched(w[j])} \cup {j \in {k + 1} : Mismatched(w[j])}
    BY <1>2
  <2> QED
    BY <1>1, <2>1, <2>2 DEF Filed, Ids
<1>4. u.unrecomputable = Ids(w, {j \in 1 .. k + 1 : Unrecomputable(w[j])})
  <2>1. v.unrecomputable = Ids(w, {j \in 1 .. k : Unrecomputable(w[j])})
    BY DEF FiledAt
  <2>2. {j \in 1 .. k + 1 : Unrecomputable(w[j])}
          = {j \in 1 .. k : Unrecomputable(w[j])} \cup {j \in {k + 1} : Unrecomputable(w[j])}
    BY <1>2
  <2> QED
    BY <1>1, <2>1, <2>2 DEF Filed, Ids
<1>5. ASSUME AllHashed(w, k + 1)
      PROVE  /\ u.breaks = Ids(w, {j \in 1 .. k + 1 : BrokenAt(w, j)})
             /\ u.isFirstHashed = (k + 1 = 0)
             /\ u.prevHashedHash = w[k + 1].event_hash
  <2>1. AllHashed(w, k) /\ r.event_hash # Null
    BY <1>2, <1>5 DEF AllHashed
  <2>2. /\ v.breaks = Ids(w, {j \in 1 .. k : BrokenAt(w, j)})
        /\ v.isFirstHashed = (k = 0)
        /\ k # 0 => v.prevHashedHash = w[k].event_hash
    BY <2>1 DEF FiledAt
  <2>3. Sound(r) /\ ~LinkHolds(v, r) <=> BrokenAt(w, k + 1)
    BY <1>2, <2>2 DEF LinkHolds, BrokenAt
  <2>4. {j \in 1 .. k + 1 : BrokenAt(w, j)}
          = {j \in 1 .. k : BrokenAt(w, j)} \cup {j \in {k + 1} : BrokenAt(w, j)}
    BY <1>2
  <2>5. u.breaks = Filed(v.breaks, BrokenAt(w, k + 1), r)
    BY <1>1, <2>3 DEF Filed
  <2>6. u.breaks = Ids(w, {j \in 1 .. k + 1 : BrokenAt(w, j)})
    BY <2>2, <2>4, <2>5 DEF Filed, Ids
  <2> QED
    BY <1>1, <1>2, <2>1, <2>6
<1> HIDE DEF u
<1>6. FiledAt(u, w, k + 1)
  BY <1>1, <1>3, <1>4, <1>5 DEF FiledAt
<1> QED
  BY <1>6 DEF u

LEMMA FiledAll ==
  ASSUME NEW w, Len(w) \in Nat
  PROVE  FiledAt(verifyPartition(w), w, Len(w))
<1> DEFINE n == Len(w)
           v == Findings(w)
           T == {k \in 0 .. n : ~FiledAt(v[k], w, k)}
<1>1. n \in Nat /\ v[0] = NoFindings /\ \A k \in 1 .. n : v[k] = verifyRow(v[k - 1], w[k])
  BY FindingsStep
<1>2. FiledAt(v[0], w, 0)
  <2>1. \A K : K = {} => Ids(w, K) = {}
    BY DEF Ids
  <2>2. 1 .. 0 = {}
    OBVIOUS
  <2>3. FiledAt(NoFindings, w, 0)
    BY <2>1, <2>2 DEF FiledAt, NoFindings
  <2> QED
    BY <1>1, <2>3
<1> HIDE DEF v
<1>3. T = {}
  <2> SUFFICES ASSUME T # {} PROVE FALSE
    OBVIOUS
  <2>1. PICK k \in T : \A m \in T : ~(m < k)
    <3>1. T \subseteq Nat
      BY <1>1
    <3> HIDE DEF T
    <3> QED
      BY <3>1, LeastOf
  <2>2. k \in 0 .. n /\ k # 0 /\ ~FiledAt(v[k], w, k)
    BY <1>2, <2>1
  <2> HIDE DEF n
  <2>3. k - 1 \in 0 .. n /\ k - 1 \in Nat /\ k - 1 < k /\ (k - 1) + 1 = k /\ k \in 1 .. n
    BY <1>1, <2>2
  <2>4. FiledAt(v[k - 1], w, k - 1)
    BY <2>1, <2>3
  <2>5. FiledAt(verifyRow(v[k - 1], w[(k - 1) + 1]), w, (k - 1) + 1)
    BY <2>3, <2>4, FiledNext
  <2> QED
    BY <1>1, <2>2, <2>3, <2>5
<1>4. FiledAt(v[n], w, n)
  <2>1. n \in 0 .. n
    BY <1>1
  <2> QED
    BY <1>3, <2>1
<1> QED
  BY <1>4 DEF v, verifyPartition

\* The same in terms of the walk of a set of rows.
LEMMA WalkVerdict ==
  ASSUME NEW S, Keyed(S)
  PROVE  LET w == Walk(S)
             v == verifyPartition(w)
         IN  /\ Len(w) = Cardinality(S) /\ Len(w) \in Nat
             /\ Sorted(w, S)
             /\ v.mismatches = {r.event_id : r \in {q \in S : Mismatched(q)}}
             /\ v.unrecomputable = {r.event_id : r \in {q \in S : Unrecomputable(q)}}
             /\ (\A r \in S : r.event_hash # Null) =>
                  v.breaks = Ids(w, {k \in 1 .. Len(w) : BrokenAt(w, k)})
<1> DEFINE w == Walk(S)
           v == verifyPartition(w)
           n == Len(w)
<1>1. n = Cardinality(S) /\ n \in Nat /\ Sorted(w, S)
  BY WalkSorts
<1> HIDE DEF w
<1>2. FiledAt(v, w, n)
  BY <1>1, FiledAll
<1> HIDE DEF v, n
<1>3. (\A k \in 1 .. n : w[k] \in S) /\ \A r \in S : \E k \in 1 .. n : w[k] = r
  BY <1>1 DEF Sorted
<1>4. v.mismatches = {r.event_id : r \in {q \in S : Mismatched(q)}}
  <2>1. v.mismatches = Ids(w, {j \in 1 .. n : Mismatched(w[j])})
    BY <1>2 DEF FiledAt
  <2> QED
    BY <1>3, <2>1 DEF Ids
<1>5. v.unrecomputable = {r.event_id : r \in {q \in S : Unrecomputable(q)}}
  <2>1. v.unrecomputable = Ids(w, {j \in 1 .. n : Unrecomputable(w[j])})
    BY <1>2 DEF FiledAt
  <2> QED
    BY <1>3, <2>1 DEF Ids
<1>6. (\A r \in S : r.event_hash # Null) => v.breaks = Ids(w, {k \in 1 .. n : BrokenAt(w, k)})
  BY <1>2, <1>3 DEF FiledAt, AllHashed
<1> QED
  BY <1>1, <1>4, <1>5, <1>6 DEF w, v, n

-----------------------------------------------------------------------------
\* q is the row right before r in the order of the walk.
RightBefore(q, r, S) ==
  WalkOrder(q, r) /\ \A s \in S : ~(WalkOrder(q, s) /\ WalkOrder(s, r))

LEMMA WalkNeighbours ==
  ASSUME NEW S, NEW w, NEW n \in Nat, n = Cardinality(S), Sorted(w, S), NEW k \in 1 .. n
  PROVE  /\ k # 1 => k - 1 \in 1 .. n /\ RightBefore(w[k - 1], w[k], S)
         /\ \A q \in S : RightBefore(q, w[k], S) => k # 1 /\ q = w[k - 1]
<1>1. /\ \A j \in 1 .. n : w[j] \in S
      /\ \A r \in S : \E j \in 1 .. n : w[j] = r
      /\ \A i, j \in 1 .. n : WalkOrder(w[i], w[j]) <=> i < j
  BY DEF Sorted
<1>2. ASSUME k # 1 PROVE k - 1 \in 1 .. n /\ RightBefore(w[k - 1], w[k], S)
  <2>1. k - 1 \in 1 .. n /\ k - 1 < k
    BY <1>2
  <2>2. ASSUME NEW s \in S, WalkOrder(w[k - 1], s), WalkOrder(s, w[k]) PROVE FALSE
    <3>1. PICK j \in 1 .. n : w[j] = s
      BY <1>1
    <3>2. k - 1 < j /\ j < k
      BY <1>1, <2>1, <2>2, <3>1
    <3> QED
      BY <3>2
  <2> QED
    BY <1>1, <2>1, <2>2 DEF RightBefore
<1>3. ASSUME NEW q \in S, RightBefore(q, w[k], S) PROVE k # 1 /\ q = w[k - 1]
  <2>1. PICK j \in 1 .. n : w[j] = q
    BY <1>1
  <2>2. j < k
    BY <1>1, <1>3, <2>1 DEF RightBefore
  <2>3. ~(j < k - 1)
    <3> SUFFICES ASSUME j < k - 1 PROVE FALSE
      OBVIOUS
    <3>1. k - 1 \in 1 .. n /\ k - 1 < k
      BY <2>2
    <3>2. WalkOrder(q, w[k - 1]) /\ WalkOrder(w[k - 1], w[k]) /\ w[k - 1] \in S
      BY <1>1, <2>1, <3>1
    <3> QED
      BY <1>3, <3>2 DEF RightBefore
  <2>4. j = k - 1 /\ k # 1
    BY <2>2, <2>3
  <2> QED
    BY <2>1, <2>4
<1> QED
  BY <1>2, <1>3

(***************************************************************************)
(* The verdict on a month, row by row: a row is reported as a mismatch or  *)
(* as unrecomputable by what it holds, whatever the other rows are; where  *)
(* every row has a hash, a sound row is a break exactly when it does not   *)
(* name the hash of the row right before it (verifyPartition).             *)
(***************************************************************************)
THEOREM VerdictIsPerRow ==
  ASSUME NEW S, Keyed(S)
  PROVE  LET v == verifyPartition(Walk(S)) IN
           /\ v.mismatches = {r.event_id : r \in {q \in S : Mismatched(q)}}
           /\ v.unrecomputable = {r.event_id : r \in {q \in S : Unrecomputable(q)}}
           /\ (\A r \in S : r.event_hash # Null) =>
                v.breaks = {r.event_id : r \in {s \in S : Sound(s) /\
                  \E q \in S : RightBefore(q, s, S) /\ s.previous_hash # q.event_hash}}
<1> DEFINE w == Walk(S)
           v == verifyPartition(w)
           n == Len(w)
           Broken(s) == Sound(s) /\ \E q \in S : RightBefore(q, s, S)
                                                  /\ s.previous_hash # q.event_hash
<1>1. /\ n = Cardinality(S) /\ n \in Nat
      /\ Sorted(w, S)
      /\ v.mismatches = {r.event_id : r \in {q \in S : Mismatched(q)}}
      /\ v.unrecomputable = {r.event_id : r \in {q \in S : Unrecomputable(q)}}
      /\ (\A r \in S : r.event_hash # Null) => v.breaks = Ids(w, {k \in 1 .. n : BrokenAt(w, k)})
  BY WalkVerdict
<1> HIDE DEF w, v, n
<1>2. (\A k \in 1 .. n : w[k] \in S) /\ \A r \in S : \E k \in 1 .. n : w[k] = r
  BY <1>1 DEF Sorted
<1>3. ASSUME NEW k \in 1 .. n PROVE BrokenAt(w, k) <=> Broken(w[k])
  <2>1. /\ k # 1 => k - 1 \in 1 .. n /\ RightBefore(w[k - 1], w[k], S)
        /\ \A q \in S : RightBefore(q, w[k], S) => k # 1 /\ q = w[k - 1]
    BY <1>1, WalkNeighbours
  <2> QED
    BY <1>2, <2>1 DEF BrokenAt
<1> HIDE DEF Broken
<1>4. (\A r \in S : r.event_hash # Null) => v.breaks = {r.event_id : r \in {s \in S : Broken(s)}}
  BY <1>1, <1>2, <1>3 DEF Ids
<1> QED
  BY <1>1, <1>4 DEF w, v, Broken

=============================================================================
