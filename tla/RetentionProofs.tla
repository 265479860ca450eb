-------------------------- MODULE RetentionProofs ---------------------------
(***************************************************************************)
(* Holds and the erasure log, and the anchors against the verifier, for    *)
(* any number of partitions, holds, rows, anchors and operators.           *)
(*                                                                         *)
(* Retirement.  CallOf says what a CALL knows at each of its steps: until  *)
(* it has read the partition, the rows that were there at the CALL still   *)
(* are, if the partition is; afterwards its lock keeps the partition, so   *)
(* that what it found covers those rows; past Step 3 every hold that was   *)
(* on one of them has been released.                                       *)
(*                                                                         *)
(* Anchors.  On rows the trigger has sealed the verifier finds nothing but *)
(* breaks, at neighbours of its walk that are not linked (VerdictOf, from  *)
(* VerdictIsPerRow).  Each row of a month names the one before it and the  *)
(* first names none (RowsInv), whatever is inserted or retired; so the     *)
(* walk finds nothing exactly if what it visits is linked and no two rows  *)
(* are visited out of place (WalkLinkedIs), and a break leads to such rows *)
(* (BreakHasCause).  The row of each anchor is in place while its          *)
(* partition is there (AnchorInv), so what the CLI has read of a partition *)
(* that is still there agrees with the anchors on it, whenever it read it  *)
(* (CliInv).                                                               *)
(***************************************************************************)
EXTENDS AnchorAudit, VerifierProofs

Typed ==
  /\ partitions \subseteq Months
  /\ IsFiniteSet(rows) /\ IsFiniteSet(dropped)
  /\ target \in [Holds -> Personas \cup Users \cup {Free}]
  /\ pc \in [Operators -> {"idle", "collect", "check", "log", "drop"} \cup Finished]
  /\ month \in [Operators -> Months]
  /\ DOMAIN found = Operators /\ DOMAIN atCall = Operators
  /\ \A o \in Operators : atCall[o].rows = {} \/ IsFiniteSet(atCall[o].rows)

HeldThen(o) ==
  \A rh \in atCall[o].held :
    /\ rh[1] \in atCall[o].rows /\ rh[2] \in Holds
    /\ target[rh[2]] # Free /\ HoldsPersonas(rh[2], {rh[1].persona})

\* What was found accounts for the rows of the CALL, and for no more than S.
Covers(f, call, S) ==
  /\ call.rows \subseteq S
  /\ PersonasOf(call.rows) \subseteq f.personas /\ f.personas \subseteq PersonasOf(S)
  /\ f.rows \in Cardinality(call.rows) .. Cardinality(S)

Released(o) == \A rh \in atCall[o].held : rh[2] \in released

CallOf(o) ==
  /\ HeldThen(o)
  /\ pc[o] = "collect" /\ month[o] \in partitions => atCall[o].rows \subseteq RowsOf(rows, month[o])
  /\ Shares(o) => month[o] \in partitions /\ Covers(found[o], atCall[o], RowsOf(rows, month[o]))
  /\ pc[o] \in {"log", "drop", "retired"} => Released(o)
  /\ pc[o] = "retired" => month[o] \notin partitions /\ Covers(found[o], atCall[o], RowsOf(dropped, month[o]))

CallInv == \A o \in Operators : CallOf(o)

ErasureInv ==
  /\ {e.operator : e \in erasure} = {o \in Operators : pc[o] = "retired"}
  /\ \A e \in erasure : e = Entry(e.operator)
  /\ \A m \in Months \ partitions : \E e \in erasure : month[e.operator] = m
  /\ \A e, f \in erasure : month[e.operator] = month[f.operator] => e = f

RetentionInv == Typed /\ CallInv /\ ErasureInv

-----------------------------------------------------------------------------
LEMMA InitEstablishes == Init => RetentionInv
<1> SUFFICES ASSUME Init PROVE RetentionInv
  OBVIOUS
<1> USE DEF Init
<1>1. IsFiniteSet({})
  BY FS_EmptySet
<1>2. \A o \in Operators : atCall[o].rows = {} /\ atCall[o].held = {}
  BY DEF NoCall
<1>3. Typed
  BY <1>1, <1>2 DEF Typed
<1>4. CallInv
  BY <1>2 DEF CallInv, CallOf, HeldThen, Shares
<1>5. ErasureInv
  BY DEF ErasureInv
<1> QED
  BY <1>3, <1>4, <1>5 DEF RetentionInv

LEMMA RowsFinite ==
  ASSUME NEW S, IsFiniteSet(S), NEW m
  PROVE  /\ RowsOf(S, m) \subseteq S /\ IsFiniteSet(RowsOf(S, m))
         /\ \A T \in SUBSET RowsOf(S, m) : Cardinality(T) \in Nat /\ Cardinality(T) <= Cardinality(RowsOf(S, m))
<1>1. RowsOf(S, m) \in SUBSET S
  BY DEF RowsOf
<1>2. IsFiniteSet(RowsOf(S, m))
  BY <1>1, FS_Subset
<1> QED
  BY <1>1, <1>2, FS_Subset, FS_CardinalityType

\* What was found covers still if the rows it was found among have only grown.
LEMMA CoversMore ==
  ASSUME NEW f, NEW call, NEW S, NEW R, S \subseteq R, IsFiniteSet(R), Covers(f, call, S)
  PROVE  Covers(f, call, R)
<1>1. IsFiniteSet(S) /\ Cardinality(S) <= Cardinality(R) /\ Cardinality(R) \in Nat /\ Cardinality(S) \in Nat
  BY FS_Subset, FS_CardinalityType
<1>2. Cardinality(call.rows) \in Nat
  BY <1>1, FS_Subset, FS_CardinalityType DEF Covers
<1>3. PersonasOf(S) \subseteq PersonasOf(R)
  BY DEF PersonasOf
<1> QED
  BY <1>1, <1>2, <1>3 DEF Covers

\* A count covers the rows of the CALL that are among those counted.
LEMMA CountCovers ==
  ASSUME NEW call, NEW S, IsFiniteSet(S), call.rows \subseteq S
  PROVE  Covers(CountRows(S), call, S)
<1>1. Cardinality(call.rows) <= Cardinality(S) /\ Cardinality(S) \in Nat /\ Cardinality(call.rows) \in Nat
  BY FS_Subset, FS_CardinalityType
<1>2. PersonasOf(call.rows) \subseteq PersonasOf(S)
  BY DEF PersonasOf
<1> QED
  BY <1>1, <1>2 DEF Covers, CountRows

-----------------------------------------------------------------------------
\* What no step undoes: a hold stays on whom it was placed, and a dropped
\* partition stays away.
Onwards ==
  /\ month' = month
  /\ partitions' \subseteq partitions /\ dropped \subseteq dropped'
  /\ released \subseteq released' /\ assigned \subseteq assigned'
  /\ \A h \in Holds : target[h] # Free => target'[h] = target[h]
  /\ IsFiniteSet(rows') /\ IsFiniteSet(dropped')
  /\ \A m \in partitions' : RowsOf(rows, m) \subseteq RowsOf(rows', m)

LEMMA HeldStays ==
  ASSUME NEW o, Onwards, HeldThen(o), atCall'[o] = atCall[o]
  PROVE  HeldThen(o)'
<1>1. \A h \in Holds : \A P : target[h] # Free /\ HoldsPersonas(h, P) => HoldsPersonas(h, P)'
  BY DEF Onwards, HoldsPersonas
<1> QED
  BY <1>1 DEF HeldThen, Onwards

\* Nothing that others do takes from a CALL what it stands on, as long as its
\* partition stays while it has it locked.
LEMMA OthersCall ==
  ASSUME NEW o, Onwards, CallOf(o), month[o] \in partitions /\ Shares(o) => month[o] \in partitions',
         pc'[o] = pc[o], found'[o] = found[o], atCall'[o] = atCall[o]
  PROVE  CallOf(o)'
<1>1. HeldThen(o)'
  BY HeldStays DEF CallOf
<1>2. /\ month'[o] = month[o] /\ Shares(o)' = Shares(o)
      /\ Released(o) => Released(o)'
  BY DEF Onwards, Shares, Released
<1>3. month[o] \in partitions' => month[o] \in partitions /\ RowsOf(rows, month[o]) \subseteq RowsOf(rows', month[o])
  BY DEF Onwards
<1>4. IsFiniteSet(RowsOf(rows', month[o])) /\ IsFiniteSet(RowsOf(dropped', month[o]))
  BY RowsFinite DEF Onwards
<1>5. RowsOf(dropped, month[o]) \subseteq RowsOf(dropped', month[o])
  BY DEF Onwards, RowsOf
<1>6. CASE Shares(o)
  <2>1. month[o] \in partitions' /\ Covers(found[o], atCall[o], RowsOf(rows, month[o]))
    BY <1>6 DEF CallOf
  <2>2. Covers(found[o], atCall[o], RowsOf(rows', month[o]))
    BY <1>3, <1>4, <2>1, CoversMore
  <2>3. pc[o] \notin {"collect", "retired"}
    BY <1>6 DEF Shares
  <2> QED
    BY <1>1, <1>2, <2>1, <2>2, <2>3 DEF CallOf
<1>7. CASE pc[o] = "retired"
  <2>1. month[o] \notin partitions /\ Covers(found[o], atCall[o], RowsOf(dropped, month[o]))
    BY <1>7 DEF CallOf
  <2>2. Covers(found[o], atCall[o], RowsOf(dropped', month[o]))
    BY <1>4, <1>5, <2>1, CoversMore
  <2> QED
    BY <1>1, <1>2, <1>3, <1>7, <2>1, <2>2 DEF CallOf, Shares
<1>8. CASE ~Shares(o) /\ pc[o] # "retired"
  <2>1. pc[o] \notin {"log", "drop", "retired"}
    BY <1>8 DEF Shares
  <2>2. pc[o] = "collect" /\ month[o] \in partitions' => atCall[o].rows \subseteq RowsOf(rows', month[o])
    BY <1>3 DEF CallOf
  <2> QED
    BY <1>1, <1>2, <1>8, <2>1, <2>2 DEF CallOf
<1> QED
  BY <1>6, <1>7, <1>8

\* Everyone else's steps.
Elsewhere ==
  \/ \E m \in Months, p \in Personas : Log(m, p)
  \/ \E h \in Holds : ReleaseHold(h) \/ \E x \in Personas \cup Users : PlaceHold(h, x)
  \/ \E u \in Users, p \in Personas : Assign(u, p)
  \/ UNCHANGED vars

LEMMA ElsewhereGoes ==
  ASSUME Typed, Elsewhere
  PROVE  /\ Onwards /\ UNCHANGED <<partitions, dropped, pc, found, atCall, erasure>>
         /\ target' \in [Holds -> Personas \cup Users \cup {Free}]
<1>1. UNCHANGED <<partitions, dropped, pc, month, found, atCall, erasure>>
  BY DEF Elsewhere, Log, ReleaseHold, PlaceHold, Assign, vars, tables
<1>2. /\ released \subseteq released' /\ assigned \subseteq assigned'
      /\ \A h \in Holds : target[h] # Free => target'[h] = target[h]
      /\ target' \in [Holds -> Personas \cup Users \cup {Free}]
  BY DEF Elsewhere, Log, ReleaseHold, PlaceHold, Assign, vars, tables, Typed
<1>3. rows \subseteq rows' /\ IsFiniteSet(rows')
  <2>1. \/ UNCHANGED rows
        \/ \E r : rows' = rows \cup {r}
    BY DEF Elsewhere, Log, ReleaseHold, PlaceHold, Assign, vars, tables
  <2> QED
    BY <2>1, FS_AddElement DEF Typed
<1>4. \A m : RowsOf(rows, m) \subseteq RowsOf(rows', m)
  BY <1>3 DEF RowsOf
<1> QED
  BY <1>1, <1>2, <1>3, <1>4 DEF Onwards, Typed

LEMMA ElsewhereKeeps ==
  ASSUME RetentionInv, Elsewhere
  PROVE  RetentionInv'
<1> USE DEF RetentionInv
<1>1. /\ Onwards /\ UNCHANGED <<partitions, dropped, pc, found, atCall, erasure>>
      /\ target' \in [Holds -> Personas \cup Users \cup {Free}]
  BY ElsewhereGoes
<1>2. Typed'
  BY <1>1 DEF Typed, Onwards
<1>3. CallInv'
  BY <1>1, OthersCall DEF CallInv
<1>4. ErasureInv'
  BY <1>1 DEF ErasureInv, Entry, Onwards
<1> QED
  BY <1>2, <1>3, <1>4

-----------------------------------------------------------------------------
(* The steps of gif.retire_partition. *)

Step(o) == Call(o) \/ Retire(o)

\* A CALL that is over without having retired anything.
LEMMA EndKeeps ==
  ASSUME Typed, NEW o \in Operators, pc[o] # "retired",
         NEW outcome \in {"blocked", "failed"}, End(o, outcome), UNCHANGED <<partitions, dropped>>
  PROVE  /\ Typed' /\ Onwards /\ CallOf(o)' /\ pc'[o] = outcome
         /\ \A q \in Operators \ {o} : pc'[q] = pc[q] /\ found'[q] = found[q] /\ atCall'[q] = atCall[q]
<1>1. /\ pc' = [pc EXCEPT ![o] = outcome] /\ found' = [found EXCEPT ![o] = Nothing]
      /\ atCall' = [atCall EXCEPT ![o] = NoCall] /\ UNCHANGED <<rows, target, released, assigned, month>>
  BY DEF End, tables
<1>2. /\ pc'[o] = outcome /\ atCall'[o] = NoCall /\ DOMAIN found' = Operators /\ DOMAIN atCall' = Operators
      /\ pc' \in [Operators -> {"idle", "collect", "check", "log", "drop"} \cup Finished]
      /\ \A q \in Operators \ {o} : pc'[q] = pc[q] /\ found'[q] = found[q] /\ atCall'[q] = atCall[q]
  BY <1>1 DEF Typed, Finished
<1>3. NoCall.rows = {} /\ NoCall.held = {}
  BY DEF NoCall
<1>4. Typed'
  BY <1>1, <1>2, <1>3 DEF Typed
<1>5. Onwards
  BY <1>1 DEF Onwards, Typed
<1>6. CallOf(o)'
  BY <1>2, <1>3 DEF CallOf, HeldThen, Shares
<1> QED
  BY <1>2, <1>4, <1>5, <1>6

\* A CALL that goes on within its transaction.
LEMMA WithinKeeps ==
  ASSUME Typed, NEW o \in Operators, NEW where \in {"collect", "check", "log", "drop"},
         pc' = [pc EXCEPT ![o] = where], UNCHANGED <<partitions, tables, month, dropped>>,
         DOMAIN found' = Operators, DOMAIN atCall' = Operators,
         \A q \in Operators \ {o} : found'[q] = found[q] /\ atCall'[q] = atCall[q],
         atCall'[o].rows = {} \/ IsFiniteSet(atCall'[o].rows)
  PROVE  /\ Typed' /\ Onwards /\ pc'[o] = where
         /\ \A q \in Operators \ {o} : pc'[q] = pc[q]
<1>1. UNCHANGED <<rows, target, released, assigned>>
  BY DEF tables
<1>2. /\ pc'[o] = where /\ \A q \in Operators \ {o} : pc'[q] = pc[q]
      /\ pc' \in [Operators -> {"idle", "collect", "check", "log", "drop"} \cup Finished]
  BY DEF Typed
<1>3. \A q \in Operators : atCall'[q].rows = {} \/ IsFiniteSet(atCall'[q].rows)
  BY DEF Typed
<1>4. Typed'
  BY <1>1, <1>2, <1>3 DEF Typed
<1>5. Onwards
  BY <1>1 DEF Onwards, Typed
<1> QED
  BY <1>2, <1>4, <1>5

\* Of the six steps all but the DROP leave partitions and erasure log as they are.
LEMMA StepGoes ==
  ASSUME Typed, NEW o \in Operators, CallOf(o), Step(o), ~Drop(o)
  PROVE  /\ Typed' /\ Onwards /\ CallOf(o)' /\ UNCHANGED <<partitions, dropped, erasure>>
         /\ pc[o] # "retired" /\ pc'[o] # "retired"
         /\ \A q \in Operators \ {o} : pc'[q] = pc[q] /\ found'[q] = found[q] /\ atCall'[q] = atCall[q]
<1> DEFINE m == month[o]
<1>1. CASE Call(o)
  <2>1. pc[o] = "idle" /\ UNCHANGED <<partitions, erasure, dropped>>
    BY <1>1 DEF Call
  <2>2. CASE m \in partitions
    <3>1. /\ pc' = [pc EXCEPT ![o] = "collect"] /\ UNCHANGED <<tables, month, found>>
          /\ atCall' = [atCall EXCEPT ![o] = [rows |-> RowsOf(rows, m), held |-> HeldRows(RowsOf(rows, m))]]
      BY <1>1, <2>2 DEF Call
    <3>2. /\ atCall'[o] = [rows |-> RowsOf(rows, m), held |-> HeldRows(RowsOf(rows, m))]
          /\ DOMAIN atCall' = Operators /\ DOMAIN found' = Operators
          /\ \A q \in Operators \ {o} : found'[q] = found[q] /\ atCall'[q] = atCall[q]
      BY <3>1 DEF Typed
    <3>3. IsFiniteSet(atCall'[o].rows)
      BY <3>2, RowsFinite DEF Typed
    <3>4. /\ Typed' /\ Onwards /\ pc'[o] = "collect"
          /\ \A q \in Operators \ {o} : pc'[q] = pc[q]
      BY <2>1, <3>1, <3>2, <3>3, WithinKeeps
    <3>5. UNCHANGED <<rows, target, released, assigned>>
      BY <3>1 DEF tables
    <3>6. HeldThen(o)'
      <4>1. \A rh \in HeldRows(RowsOf(rows, m)) :
              /\ rh[1] \in RowsOf(rows, m) /\ rh[2] \in Holds
              /\ target[rh[2]] # Free /\ HoldsPersonas(rh[2], {rh[1].persona})
        BY DEF HeldRows, ActiveHolds
      <4>2. \A h, P : HoldsPersonas(h, P)' = HoldsPersonas(h, P)
        BY <3>5 DEF HoldsPersonas
      <4> QED
        BY <3>2, <3>5, <4>1, <4>2 DEF HeldThen
    <3>7. CallOf(o)'
      BY <3>1, <3>2, <3>4, <3>5, <3>6 DEF CallOf, Shares
    <3> QED
      BY <2>1, <3>2, <3>4, <3>7
  <2>3. CASE m \notin partitions
    <3>1. End(o, "failed")
      BY <1>1, <2>3 DEF Call
    <3> QED
      BY <2>1, <3>1, EndKeeps
  <2> QED
    BY <2>2, <2>3
<1>2. CASE Collect(o)
  <2>1. pc[o] = "collect" /\ UNCHANGED <<partitions, erasure, dropped>>
    BY <1>2 DEF Collect
  <2>2. CASE m \in partitions
    <3>1. /\ found' = [found EXCEPT ![o] = CountRows(RowsOf(rows, m))]
          /\ pc' = [pc EXCEPT ![o] = "check"] /\ UNCHANGED <<tables, month, atCall>>
      BY <1>2, <2>2 DEF Collect
    <3>2. /\ found'[o] = CountRows(RowsOf(rows, m)) /\ DOMAIN found' = Operators /\ DOMAIN atCall' = Operators
          /\ \A q \in Operators \ {o} : found'[q] = found[q] /\ atCall'[q] = atCall[q]
          /\ atCall'[o].rows = {} \/ IsFiniteSet(atCall'[o].rows)
      BY <3>1 DEF Typed
    <3>3. /\ Typed' /\ Onwards /\ pc'[o] = "check"
          /\ \A q \in Operators \ {o} : pc'[q] = pc[q]
      BY <2>1, <3>1, <3>2, WithinKeeps
    <3>4. Covers(CountRows(RowsOf(rows, m)), atCall[o], RowsOf(rows, m))
      <4>1. atCall[o].rows \subseteq RowsOf(rows, m)
        BY <2>1, <2>2 DEF CallOf
      <4> QED
        BY <4>1, CountCovers, RowsFinite DEF Typed
    <3>5. HeldThen(o)'
      BY <3>1, <3>3, HeldStays DEF CallOf
    <3>6. CallOf(o)'
      BY <2>1, <2>2, <3>1, <3>2, <3>3, <3>4, <3>5 DEF CallOf, tables
    <3> QED
      BY <2>1, <3>2, <3>3, <3>6
  <2>3. CASE m \notin partitions
    <3>1. End(o, "failed")
      BY <1>2, <2>3 DEF Collect
    <3> QED
      BY <2>1, <3>1, EndKeeps
  <2> QED
    BY <2>2, <2>3
<1>3. CASE CheckHolds(o)
  <2>1. pc[o] = "check" /\ UNCHANGED <<partitions, erasure, dropped>>
    BY <1>3 DEF CheckHolds
  <2>2. CASE HoldsOn(o) = {}
    <3>1. pc' = [pc EXCEPT ![o] = "log"] /\ UNCHANGED <<tables, month, found, atCall>>
      BY <1>3, <2>2 DEF CheckHolds
    <3>2. /\ Typed' /\ Onwards /\ pc'[o] = "log"
          /\ \A q \in Operators \ {o} : pc'[q] = pc[q]
      BY <2>1, <3>1, WithinKeeps DEF Typed
    <3>3. m \in partitions /\ Covers(found[o], atCall[o], RowsOf(rows, m)) /\ HeldThen(o)
      BY <2>1 DEF CallOf, Shares
    <3>4. Released(o)
      <4> SUFFICES ASSUME NEW rh \in atCall[o].held PROVE rh[2] \in released
        BY DEF Released
      <4>1. rh[1] \in atCall[o].rows /\ rh[2] \in Holds /\ target[rh[2]] # Free /\ HoldsPersonas(rh[2], {rh[1].persona})
        BY <3>3 DEF HeldThen
      <4>2. rh[1].persona \in found[o].personas
        BY <3>3, <4>1 DEF Covers, PersonasOf
      <4>3. HoldsPersonas(rh[2], found[o].personas)
        BY <4>1, <4>2 DEF HoldsPersonas
      <4> QED
        BY <2>2, <4>1, <4>3 DEF HoldsOn, ActiveHolds
    <3>5. HeldThen(o)'
      BY <3>1, <3>2, <3>3, HeldStays
    <3>6. CallOf(o)'
      BY <2>1, <3>1, <3>2, <3>3, <3>4, <3>5 DEF CallOf, Released, tables
    <3> QED
      BY <2>1, <3>1, <3>2, <3>6
  <2>3. CASE HoldsOn(o) # {}
    <3>1. End(o, "blocked")
      BY <1>3, <2>3 DEF CheckHolds, Refuse
    <3> QED
      BY <2>1, <3>1, EndKeeps
  <2> QED
    BY <2>2, <2>3
<1>4. CASE LockParent(o)
  <2>1. /\ pc[o] = "log" /\ pc' = [pc EXCEPT ![o] = "drop"]
        /\ UNCHANGED <<partitions, tables, month, found, erasure, dropped, atCall>>
    BY <1>4 DEF LockParent
  <2>2. /\ Typed' /\ Onwards /\ pc'[o] = "drop"
        /\ \A q \in Operators \ {o} : pc'[q] = pc[q]
    BY <2>1, WithinKeeps DEF Typed
  <2>3. m \in partitions /\ Covers(found[o], atCall[o], RowsOf(rows, m)) /\ HeldThen(o) /\ Released(o)
    BY <2>1 DEF CallOf, Shares
  <2>4. HeldThen(o)'
    BY <2>1, <2>2, <2>3, HeldStays
  <2>5. CallOf(o)'
    BY <2>1, <2>2, <2>3, <2>4 DEF CallOf, Released, tables
  <2> QED
    BY <2>1, <2>2, <2>5
<1>5. CASE DeadlockVictim(o)
  <2>1. /\ pc[o] \in {"log", "drop"} /\ End(o, "failed") /\ UNCHANGED <<partitions, dropped, erasure>>
    BY <1>5 DEF DeadlockVictim
  <2> QED
    BY <2>1, EndKeeps
<1> QED
  BY <1>1, <1>2, <1>3, <1>4, <1>5 DEF Step, Retire

LEMMA StepKeeps ==
  ASSUME RetentionInv, NEW o \in Operators, Step(o), ~Drop(o)
  PROVE  RetentionInv'
<1> USE DEF RetentionInv
<1>1. /\ Typed' /\ Onwards /\ CallOf(o)' /\ UNCHANGED <<partitions, dropped, erasure>>
      /\ pc[o] # "retired" /\ pc'[o] # "retired"
      /\ \A q \in Operators \ {o} : pc'[q] = pc[q] /\ found'[q] = found[q] /\ atCall'[q] = atCall[q]
  BY StepGoes DEF CallInv
<1>2. \A q \in Operators \ {o} : CallOf(q)'
  BY <1>1, OthersCall DEF CallInv
<1>3. CallInv'
  BY <1>1, <1>2 DEF CallInv
<1>4. {q \in Operators : pc'[q] = "retired"} = {q \in Operators : pc[q] = "retired"}
  BY <1>1
<1>5. \A e \in erasure : e = Entry(e.operator)'
  <2> SUFFICES ASSUME NEW e \in erasure PROVE e = Entry(e.operator)'
    OBVIOUS
  <2>1. e.operator \in Operators \ {o} /\ e = Entry(e.operator)
    BY <1>1 DEF ErasureInv
  <2> QED
    BY <1>1, <2>1 DEF Entry
<1>6. ErasureInv'
  BY <1>1, <1>4, <1>5 DEF ErasureInv, Onwards
<1> QED
  BY <1>1, <1>3, <1>6

LEMMA DropKeeps ==
  ASSUME RetentionInv, NEW o \in Operators, Drop(o)
  PROVE  RetentionInv'
<1> USE DEF RetentionInv
<1> DEFINE m == month[o]
<1>1. /\ pc[o] = "drop" /\ \A q \in Operators \ {o} : month[q] = m => ~Shares(q)
      /\ partitions' = partitions \ {m}
      /\ rows' = rows \ RowsOf(rows, m) /\ dropped' = dropped \cup RowsOf(rows, m)
      /\ erasure' = erasure \cup {Entry(o)}
      /\ pc' = [pc EXCEPT ![o] = "retired"]
      /\ UNCHANGED <<target, released, assigned, month, found, atCall>>
  BY DEF Drop
<1>2. /\ pc'[o] = "retired" /\ \A q \in Operators \ {o} : pc'[q] = pc[q]
      /\ pc' \in [Operators -> {"idle", "collect", "check", "log", "drop"} \cup Finished]
  BY <1>1 DEF Typed, Finished
<1>3. IsFiniteSet(rows') /\ IsFiniteSet(dropped') /\ IsFiniteSet(RowsOf(dropped', m))
  <2>1. rows' \in SUBSET rows /\ IsFiniteSet(RowsOf(rows, m))
    BY <1>1, RowsFinite DEF Typed
  <2>2. IsFiniteSet(dropped')
    BY <1>1, <2>1, FS_Union DEF Typed
  <2> QED
    BY <2>1, <2>2, FS_Subset, RowsFinite DEF Typed
<1>4. Typed'
  BY <1>1, <1>2, <1>3 DEF Typed
<1>5. Onwards
  <2>1. \A n \in partitions' : RowsOf(rows, n) \subseteq RowsOf(rows', n)
    BY <1>1 DEF RowsOf
  <2> QED
    BY <1>1, <1>3, <2>1 DEF Onwards
<1>6. m \in partitions /\ Covers(found[o], atCall[o], RowsOf(rows, m)) /\ HeldThen(o) /\ Released(o)
  BY <1>1 DEF CallInv, CallOf, Shares
<1>7. CallOf(o)'
  <2>1. RowsOf(rows, m) \subseteq RowsOf(dropped', m)
    BY <1>1 DEF RowsOf
  <2>2. Covers(found[o], atCall[o], RowsOf(dropped', m))
    BY <1>3, <1>6, <2>1, CoversMore
  <2>3. HeldThen(o)'
    BY <1>1, <1>5, <1>6, HeldStays
  <2> QED
    BY <1>1, <1>2, <1>6, <2>2, <2>3 DEF CallOf, Shares, Released
<1>8. \A q \in Operators \ {o} : CallOf(q)'
  <2> SUFFICES ASSUME NEW q \in Operators \ {o} PROVE CallOf(q)'
    OBVIOUS
  <2>1. month[q] \in partitions /\ Shares(q) => month[q] \in partitions'
    BY <1>1
  <2> QED
    BY <1>1, <1>2, <1>5, <2>1, OthersCall DEF CallInv
<1>9. CallInv'
  BY <1>7, <1>8 DEF CallInv
<1>10. Entry(o).operator = o /\ \A q : Entry(q)' = Entry(q)
  BY <1>1 DEF Entry
<1>11. \A e \in erasure : e.operator \in Operators /\ pc[e.operator] = "retired" /\ month[e.operator] \notin partitions
  BY DEF ErasureInv, CallInv, CallOf
<1>12. {e.operator : e \in erasure'} = {q \in Operators : pc'[q] = "retired"}
  <2>1. {e.operator : e \in erasure'} = {e.operator : e \in erasure} \cup {o}
    BY <1>1, <1>10
  <2> QED
    BY <1>1, <1>2, <2>1 DEF ErasureInv
<1>13. \A e \in erasure' : e = Entry(e.operator)'
  BY <1>1, <1>10 DEF ErasureInv
<1>14. \A n \in Months \ partitions' : \E e \in erasure' : month'[e.operator] = n
  BY <1>1, <1>10 DEF ErasureInv
<1>15. \A e, f \in erasure' : month'[e.operator] = month'[f.operator] => e = f
  BY <1>1, <1>6, <1>10, <1>11 DEF ErasureInv
<1>16. ErasureInv'
  BY <1>12, <1>13, <1>14, <1>15 DEF ErasureInv
<1> QED
  BY <1>4, <1>9, <1>16

LEMMA RetentionInvariant == Spec => []RetentionInv
<1>1. RetentionInv /\ [Next]_vars => RetentionInv'
  <2> SUFFICES ASSUME RetentionInv, [Next]_vars PROVE RetentionInv'
    OBVIOUS
  <2>1. Elsewhere \/ \E o \in Operators : Step(o)
    BY DEF Next, Elsewhere, Step
  <2> QED
    BY <2>1, ElsewhereKeeps, StepKeeps, DropKeeps
<1> QED
  BY <1>1, InitEstablishes, PTL DEF Spec

-----------------------------------------------------------------------------
\* A legal hold that was on a row when retire_partition was called has been
\* released by the time the row is gone, on a persona or on a user assigned to
\* it, for any number of concurrent operators.
THEOREM HoldsSurvive == Spec => []HeldRowsSurvive
<1>1. RetentionInv => HeldRowsSurvive
  BY DEF RetentionInv, CallInv, CallOf, Released, HeldRowsSurvive
<1> QED
  BY <1>1, RetentionInvariant, PTL

\* Each partition that is gone has its one entry in erasure_log, and the entry's
\* count and personas cover what was there when the operator called.
THEOREM ErasuresAccounted == Spec => []ErasureAccounted
<1>1. RetentionInv => ErasureAccounted
  <2> SUFFICES ASSUME RetentionInv PROVE ErasureAccounted
    OBVIOUS
  <2> USE DEF RetentionInv
  <2>1. ASSUME NEW e \in erasure
        PROVE  LET gone == RowsOf(dropped, month[e.operator]) IN
                 /\ atCall[e.operator].rows \subseteq gone
                 /\ PersonasOf(atCall[e.operator].rows) \subseteq e.personas
                 /\ e.personas \subseteq PersonasOf(gone)
                 /\ e.rows_deleted \in Cardinality(atCall[e.operator].rows) .. Cardinality(gone)
    <3>1. e.operator \in Operators /\ pc[e.operator] = "retired" /\ e = Entry(e.operator)
      BY DEF ErasureInv
    <3>2. Covers(found[e.operator], atCall[e.operator], RowsOf(dropped, month[e.operator]))
      BY <3>1 DEF CallInv, CallOf
    <3>3. e.personas = found[e.operator].personas /\ e.rows_deleted = found[e.operator].rows
      BY <3>1 DEF Entry
    <3> QED
      BY <3>2, <3>3 DEF Covers
  <2> QED
    BY <2>1 DEF ErasureInv, ErasureAccounted
<1> QED
  BY <1>1, RetentionInvariant, PTL

-----------------------------------------------------------------------------
(***************************************************************************)
(* Rows as the trigger seals them, and months in which each names the one  *)
(* before.                                                                 *)
(***************************************************************************)
Sealed(r) ==
  /\ DOMAIN r = {"event_id", "occurred_at", "month", "persona", "previous_hash", "event_hash"}
  /\ r.event_id \in EventIds /\ r.month \in Months /\ r.occurred_at \in 1 .. MaxRows
  /\ r.persona \notin Rejected
  /\ r.previous_hash # PaddedError
  /\ r.event_hash = Digest(r.event_id, Milli(r), r.persona, r.previous_hash)

LEMMA SealedKeys ==
  ASSUME NEW r, Sealed(r)
  PROVE  r.event_id \in Nat /\ r.occurred_at \in Nat /\ Milli(r) \in Nat
<1>1. r.event_id \in Nat
  BY RetentionAssumption DEF Sealed
<1>2. r.occurred_at \in Nat
  BY RetentionAssumption DEF Sealed
<1>3. MilliOf[r.month][r.occurred_at] \in Nat
  BY RetentionAssumption DEF Sealed
<1> QED
  BY <1>1, <1>2, <1>3 DEF Milli

Distinct(T) == \A q, r \in T : q.event_id = r.event_id => q = r

\* Of one month, in which no two rows have one stamp.
OneMonth(T) ==
  \A q, r \in T : q.month = r.month /\ (q.occurred_at = r.occurred_at => q = r)

Trail(T) == IsFiniteSet(T) /\ Distinct(T) /\ OneMonth(T) /\ \A r \in T : Sealed(r)

Adjacent(q, r, T) ==
  /\ q.occurred_at < r.occurred_at
  /\ \A s \in T : ~(q.occurred_at < s.occurred_at /\ s.occurred_at < r.occurred_at)

Linked(T) == \A q, r \in T : Adjacent(q, r, T) => r.previous_hash = q.event_hash

\* The first row of the month names none.
Rooted(T) ==
  \A r \in T : (\A q \in T : ~(q.occurred_at < r.occurred_at)) => r.previous_hash = Null

LEMMA DigestsDiffer ==
  /\ \A i, j, x, y, p, q, b, c :
       Digest(i, x, p, b) = Digest(j, y, q, c) => i = j /\ x = y /\ p = q /\ b = c
  /\ \A i, x, p, b : Digest(i, x, p, b) \notin {Null, HashError, PaddedError, NotFound}
<1>1. ASSUME NEW i, NEW j, NEW x, NEW y, NEW p, NEW q, NEW b, NEW c,
             Digest(i, x, p, b) = Digest(j, y, q, c)
      PROVE  i = j /\ x = y /\ p = q /\ b = c
  <2>1. /\ Digest(i, x, p, b).event_id = i /\ Digest(i, x, p, b).ms = x
        /\ Digest(i, x, p, b).payload = p /\ Digest(i, x, p, b).prev = b
        /\ Digest(j, y, q, c).event_id = j /\ Digest(j, y, q, c).ms = y
        /\ Digest(j, y, q, c).payload = q /\ Digest(j, y, q, c).prev = c
    BY DEF Digest
  <2> QED
    BY <1>1, <2>1
<1>2. ASSUME NEW i, NEW x, NEW p, NEW b
      PROVE  Digest(i, x, p, b) \notin {Null, HashError, PaddedError, NotFound}
  <2>1. "ms" \in DOMAIN Digest(i, x, p, b)
    BY DEF Digest
  <2>2. /\ "ms" \notin DOMAIN Null /\ "ms" \notin DOMAIN HashError
        /\ "ms" \notin DOMAIN PaddedError /\ "ms" \notin DOMAIN NotFound
    BY DEF Null, HashError, PaddedError, NotFound
  <2> QED
    BY <2>1, <2>2
<1> QED
  BY <1>1, <1>2

LEMMA FetchedSealed ==
  ASSUME NEW r, Sealed(r)
  PROVE  LET f == Fetched(r) IN
           /\ f.event_id = r.event_id /\ f.ms = Milli(r)
           /\ f.previous_hash = r.previous_hash /\ f.event_hash = r.event_hash
           /\ Sound(f) /\ ~Mismatched(f) /\ ~Unrecomputable(f) /\ f.event_hash # Null
<1> DEFINE f == Fetched(r)
<1>1. /\ f.event_id = r.event_id /\ f.ms = Milli(r) /\ f.payload = r.persona
      /\ f.canon_version \in KnownVersions
      /\ f.previous_hash = r.previous_hash /\ f.event_hash = r.event_hash
  BY DEF Fetched, KnownVersions
<1> HIDE DEF f
<1>2. f.event_hash \notin {Null, HashError}
  BY <1>1, DigestsDiffer DEF Sealed
<1>3. recomputeHash(f) = f.event_hash
  BY <1>1 DEF Sealed, recomputeHash, Trimmed
<1>4. f.payload \notin Rejected
  BY <1>1 DEF Sealed
<1> QED
  BY <1>1, <1>2, <1>3, <1>4 DEF Checked, Sound, Mismatched, Unrecomputable, f

(***************************************************************************)
(* The order of the walk, and what the verifier makes of sealed rows: it   *)
(* checks the links of neighbours in that order, and nothing else can fail.*)
(***************************************************************************)
Visits(q, r) == WalkOrder(Fetched(q), Fetched(r))

NextVisit(q, r, T) == Visits(q, r) /\ \A s \in T : ~(Visits(q, s) /\ Visits(s, r))

WalkLinked(T) == \A q, r \in T : NextVisit(q, r, T) => r.previous_hash = q.event_hash

LEMMA VisitsAre ==
  ASSUME NEW q, NEW r, Sealed(q), Sealed(r)
  PROVE  Visits(q, r) <=> \/ Milli(q) < Milli(r)
                          \/ Milli(q) = Milli(r) /\ q.event_id < r.event_id
  BY FetchedSealed DEF Visits, WalkOrder

\* Two rows that are not crossed are visited in the order of their stamps.
LEMMA VisitsInOrder ==
  ASSUME NEW T, Trail(T), NEW q \in T, NEW r \in T, ~Crossed(q, r), ~Crossed(r, q)
  PROVE  Visits(q, r) <=> q.occurred_at < r.occurred_at
<1>1. /\ Sealed(q) /\ Sealed(r) /\ q.month = r.month
      /\ q.event_id = r.event_id => q = r
      /\ q.occurred_at = r.occurred_at => q = r
  BY DEF Trail, Distinct, OneMonth
<1> DEFINE i == q.event_id
           j == r.event_id
           s == q.occurred_at
           t == r.occurred_at
           a == Milli(q)
           b == Milli(r)
<1>2. /\ i \in Nat /\ j \in Nat /\ s \in Nat /\ t \in Nat /\ a \in Nat /\ b \in Nat
  BY <1>1, SealedKeys
<1>3. s <= t => a <= b
  BY <1>1, RetentionAssumption DEF Sealed, Milli
<1>4. t <= s => b <= a
  BY <1>1, RetentionAssumption DEF Sealed, Milli
<1>5. /\ ~(s < t /\ a = b /\ j < i) /\ ~(t < s /\ b = a /\ i < j)
  BY <1>1 DEF Crossed
<1>6. Visits(q, r) <=> a < b \/ (a = b /\ i < j)
  BY <1>1, VisitsAre
<1>7. (i = j => q = r) /\ (s = t => q = r) /\ (q = r => i = j /\ s = t)
  BY <1>1
<1> HIDE DEF i, j, s, t, a, b
<1>8. CASE i = j
  <2>1. s = t /\ a <= b /\ b <= a
    BY <1>2, <1>3, <1>4, <1>7, <1>8
  <2>2. ~(a < b) /\ ~(i < j) /\ ~(s < t)
    BY <1>2, <1>8, <2>1
  <2> QED
    BY <1>6, <2>2 DEF s, t
<1>9. CASE i # j
  <2>1. s # t
    BY <1>7, <1>9
  <2>2. (a < b \/ (a = b /\ i < j)) <=> s < t
    BY <1>2, <1>3, <1>4, <1>5, <1>9, <2>1
  <2> QED
    BY <1>6, <2>2 DEF s, t
<1> QED
  BY <1>8, <1>9

LEMMA VerdictOf ==
  ASSUME NEW T, Trail(T)
  PROVE  LET F == {Fetched(r) : r \in T}
             v == verifyPartition(Fetch(T))
         IN  /\ Keyed(F)
             /\ v.mismatches = {} /\ v.unrecomputable = {}
             /\ v.breaks = {s.event_id : s \in {r \in T : \E q \in T :
                              NextVisit(q, r, T) /\ r.previous_hash # q.event_hash}}
             /\ \A q, r \in T : RightBefore(Fetched(q), Fetched(r), F) <=> NextVisit(q, r, T)
<1> DEFINE F == {Fetched(r) : r \in T}
           v == verifyPartition(Walk(F))
<1>1. \A r \in T : /\ Fetched(r).event_id = r.event_id /\ Fetched(r).ms = Milli(r)
                   /\ Fetched(r).previous_hash = r.previous_hash
                   /\ Fetched(r).event_hash = r.event_hash
                   /\ Sound(Fetched(r)) /\ ~Mismatched(Fetched(r))
                   /\ ~Unrecomputable(Fetched(r)) /\ Fetched(r).event_hash # Null
                   /\ r.event_id \in Nat /\ Milli(r) \in Nat
  BY FetchedSealed, SealedKeys DEF Trail
<1>2. \A x : x \in F <=> \E r \in T : x = Fetched(r)
  OBVIOUS
<1>3. IsFiniteSet(F)
  <2> DEFINE fetch == [r \in T |-> Fetched(r)]
  <2>1. fetch \in Surjection(T, F)
    BY DEF Surjection
  <2> HIDE DEF fetch, F
  <2> QED
    BY <2>1, FS_Surjection DEF Trail
<1>4. v = verifyPartition(Fetch(T))
  BY DEF Fetch
<1> HIDE DEF F, v
<1>5. Keyed(F)
  <2>1. \A q, r \in T : Fetched(q).event_id = Fetched(r).event_id => Fetched(q) = Fetched(r)
    BY <1>1 DEF Trail, Distinct
  <2> QED
    BY <1>1, <1>2, <1>3, <2>1 DEF Keyed
<1>6. /\ v.mismatches = {r.event_id : r \in {q \in F : Mismatched(q)}}
      /\ v.unrecomputable = {r.event_id : r \in {q \in F : Unrecomputable(q)}}
      /\ (\A r \in F : r.event_hash # Null) =>
           v.breaks = {r.event_id : r \in {s \in F : Sound(s) /\
             \E q \in F : RightBefore(q, s, F) /\ s.previous_hash # q.event_hash}}
  BY <1>5, VerdictIsPerRow DEF v
<1>7. v.mismatches = {} /\ v.unrecomputable = {}
  BY <1>1, <1>2, <1>6
<1>8. \A q, r \in T : RightBefore(Fetched(q), Fetched(r), F) <=> NextVisit(q, r, T)
  BY <1>2 DEF RightBefore, NextVisit, Visits
<1>9. v.breaks = {r.event_id : r \in {s \in F :
                   \E q \in F : RightBefore(q, s, F) /\ s.previous_hash # q.event_hash}}
  BY <1>1, <1>2, <1>6
<1>10. v.breaks = {s.event_id : s \in {r \in T : \E q \in T :
                    NextVisit(q, r, T) /\ r.previous_hash # q.event_hash}}
  <2> DEFINE B == {s.event_id : s \in {r \in T : \E q \in T :
                    NextVisit(q, r, T) /\ r.previous_hash # q.event_hash}}
  <2>1. ASSUME NEW e \in v.breaks PROVE e \in B
    <3>1. PICK x \in F, y \in F : e = x.event_id /\ RightBefore(y, x, F) /\ x.previous_hash # y.event_hash
      BY <1>9, <2>1
    <3>2. PICK r \in T, q \in T : x = Fetched(r) /\ y = Fetched(q)
      BY <1>2
    <3> QED
      BY <1>1, <1>8, <3>1, <3>2
  <2>2. ASSUME NEW e \in B PROVE e \in v.breaks
    <3>1. PICK r \in T, q \in T : e = r.event_id /\ NextVisit(q, r, T) /\ r.previous_hash # q.event_hash
      BY <2>2
    <3>2. Fetched(r) \in F /\ Fetched(q) \in F
      BY <1>2
    <3> QED
      BY <1>1, <1>8, <1>9, <3>1, <3>2
  <2> QED
    BY <2>1, <2>2
<1> QED
  BY <1>4, <1>5, <1>7, <1>8, <1>10 DEF F

LEMMA OkIsLinked ==
  ASSUME NEW T, Trail(T)
  PROVE  Ok(verifyPartition(Fetch(T))) <=> WalkLinked(T)
<1> DEFINE v == verifyPartition(Fetch(T))
<1>1. /\ v.mismatches = {} /\ v.unrecomputable = {}
      /\ v.breaks = {s.event_id : s \in {r \in T : \E q \in T :
                       NextVisit(q, r, T) /\ r.previous_hash # q.event_hash}}
  BY VerdictOf
<1> HIDE DEF v
<1>2. v.breaks = {} <=> WalkLinked(T)
  BY <1>1 DEF WalkLinked
<1> QED
  BY <1>1, <1>2 DEF Ok, v

\* A row that is not the first has a row right before it.
LEMMA RowRightBefore ==
  ASSUME NEW T, \A q \in T : q.occurred_at \in Nat, NEW r \in T,
         NEW a \in T, a.occurred_at < r.occurred_at
  PROVE  \E q \in T : Adjacent(q, r, T)
<1> DEFINE gaps == {r.occurred_at - q.occurred_at : q \in {s \in T : s.occurred_at < r.occurred_at}}
<1>1. gaps \subseteq Nat /\ gaps # {}
  OBVIOUS
<1>2. PICK g \in gaps : \A h \in gaps : ~(h < g)
  <2> HIDE DEF gaps
  <2> QED
    BY <1>1, LeastOf
<1>3. PICK q \in T : q.occurred_at < r.occurred_at /\ g = r.occurred_at - q.occurred_at
  BY <1>2
<1>4. ASSUME NEW s \in T, q.occurred_at < s.occurred_at, s.occurred_at < r.occurred_at PROVE FALSE
  <2>1. r.occurred_at - s.occurred_at \in gaps
    BY <1>4
  <2>2. r.occurred_at - s.occurred_at < r.occurred_at - q.occurred_at
    BY <1>4
  <2> QED
    BY <1>2, <1>3, <2>1, <2>2
<1> QED
  BY <1>3, <1>4 DEF Adjacent

(***************************************************************************)
(* The walk against the links.  Each row of a month names the one before   *)
(* it, so the walk finds nothing exactly if what it visits is linked and   *)
(* it visits no two rows out of place.                                     *)
(***************************************************************************)
LEMMA PartOfTrail ==
  ASSUME NEW T, Trail(T), NEW U, U \subseteq T
  PROVE  Trail(U)
BY FS_Subset DEF Trail, Distinct, OneMonth

\* A row names the hash of none but the one right before it.
LEMMA NamesAdjacent ==
  ASSUME NEW T, Trail(T), Linked(T), Rooted(T), NEW q \in T, NEW r \in T,
         r.previous_hash = q.event_hash
  PROVE  Adjacent(q, r, T)
<1>1. \A s \in T : /\ s.occurred_at \in Nat
                   /\ s.event_hash = Digest(s.event_id, Milli(s), s.persona, s.previous_hash)
  BY SealedKeys DEF Trail, Sealed
<1>2. PICK a \in T : a.occurred_at < r.occurred_at
  <2>1. r.previous_hash # Null
    BY <1>1, DigestsDiffer
  <2> QED
    BY <2>1 DEF Rooted
<1>3. PICK p \in T : Adjacent(p, r, T)
  BY <1>1, <1>2, RowRightBefore
<1>4. p.event_hash = q.event_hash
  BY <1>3 DEF Linked
<1>5. p = q
  BY <1>1, <1>4, DigestsDiffer DEF Trail, Distinct
<1> QED
  BY <1>3, <1>5

LEMMA WalkLinkedInOrder ==
  ASSUME NEW T, Trail(T), Linked(T), Rooted(T), NEW U, U \subseteq T, WalkLinked(U),
         NEW a \in U, NEW b \in U, Visits(a, b)
  PROVE  a.occurred_at < b.occurred_at
<1> DEFINE F == {Fetched(r) : r \in U}
           w == Walk(F)
           n == Cardinality(F)
           Early(q, r) == Visits(q, r) /\ ~(q.occurred_at < r.occurred_at)
           bad == {k \in 1 .. n : \E q, r \in U : w[k] = Fetched(r) /\ Early(q, r)}
<1>1. Trail(U)
  BY PartOfTrail
<1>2. Keyed(F) /\ \A q, r \in U : RightBefore(Fetched(q), Fetched(r), F) <=> NextVisit(q, r, U)
  BY <1>1, VerdictOf
<1>3. /\ \A r \in U : Fetched(r) \in F /\ r.occurred_at \in Nat
      /\ \A x \in F : \E r \in U : x = Fetched(r)
      /\ \A q, r \in U : Fetched(q) = Fetched(r) => q = r
  <2>1. \A r \in U : Fetched(r).event_id = r.event_id /\ r.occurred_at \in Nat
    BY <1>1, FetchedSealed, SealedKeys DEF Trail
  <2> QED
    BY <1>1, <2>1 DEF Trail, Distinct
<1> HIDE DEF F, w
<1>4. n \in Nat /\ Sorted(w, F)
  BY <1>2, WalkSorts DEF w
<1> HIDE DEF n
<1> SUFFICES ASSUME bad # {} PROVE FALSE
  <2> SUFFICES ASSUME Early(a, b) PROVE bad # {}
    OBVIOUS
  <2>1. PICK k \in 1 .. n : w[k] = Fetched(b)
    BY <1>3, <1>4 DEF Sorted, n
  <2> QED
    BY <2>1
<1>5. PICK k \in bad : \A j \in bad : ~(j < k)
  <2>1. bad \subseteq Nat
    BY <1>4
  <2> HIDE DEF bad
  <2> QED
    BY <2>1, LeastOf
<1>6. PICK q \in U, r \in U : w[k] = Fetched(r) /\ Early(q, r)
  BY <1>5
<1>7. PICK i \in 1 .. n : w[i] = Fetched(q)
  BY <1>3, <1>4 DEF Sorted, n
<1>8. k \in 1 .. n /\ i < k
  BY <1>4, <1>5, <1>6, <1>7 DEF Sorted, n, Visits
<1>9. k # 1 /\ k - 1 \in 1 .. n /\ RightBefore(w[k - 1], w[k], F)
  BY <1>4, <1>7, <1>8, WalkNeighbours DEF n
<1>10. PICK p \in U : w[k - 1] = Fetched(p)
  BY <1>3, <1>4, <1>9 DEF Sorted, n
<1>11. p.occurred_at < r.occurred_at
  <2>1. NextVisit(p, r, U)
    BY <1>2, <1>6, <1>9, <1>10
  <2>2. Adjacent(p, r, T)
    BY <2>1, NamesAdjacent DEF WalkLinked
  <2> QED
    BY <2>2 DEF Adjacent
<1>12. CASE i = k - 1
  <2>1. q = p
    BY <1>3, <1>7, <1>10, <1>12
  <2> QED
    BY <1>6, <1>11, <2>1
<1>13. CASE i # k - 1
  <2>1. i < k - 1
    BY <1>4, <1>7, <1>8, <1>13
  <2>2. Visits(q, p)
    BY <1>4, <1>7, <1>9, <1>10, <2>1 DEF Sorted, n, Visits
  <2>3. k - 1 \notin bad
    BY <1>4, <1>5, <1>8
  <2>4. q.occurred_at < p.occurred_at
    BY <1>9, <1>10, <2>2, <2>3
  <2> QED
    BY <1>3, <1>6, <1>11, <2>4
<1> QED
  BY <1>12, <1>13

LEMMA WalkLinkedIs ==
  ASSUME NEW T, Trail(T), Linked(T), Rooted(T), NEW U, U \subseteq T
  PROVE  WalkLinked(U) <=> Linked(U) /\ InWalkOrder(U)
<1>1. Trail(U)
  BY PartOfTrail
<1>2. InWalkOrder(U) => \A q, r \in U : NextVisit(q, r, U) <=> Adjacent(q, r, U)
  <2>1. InWalkOrder(U) => \A q, r \in U : Visits(q, r) <=> q.occurred_at < r.occurred_at
    BY <1>1, VisitsInOrder DEF InWalkOrder
  <2> QED
    BY <2>1 DEF NextVisit, Adjacent
<1>3. ASSUME WalkLinked(U), NEW q \in U, NEW r \in U, Crossed(q, r) PROVE FALSE
  <2>1. Sealed(q) /\ Sealed(r)
    BY <1>1 DEF Trail
  <2>2. Visits(r, q)
    BY <1>3, <2>1, VisitsAre DEF Crossed
  <2>3. r.occurred_at < q.occurred_at /\ q.occurred_at < r.occurred_at
    BY <1>3, <2>2, WalkLinkedInOrder DEF Crossed
  <2>4. q.occurred_at \in Nat /\ r.occurred_at \in Nat
    BY <2>1, SealedKeys
  <2> QED
    BY <2>3, <2>4
<1>4. WalkLinked(U) => InWalkOrder(U)
  BY <1>3 DEF InWalkOrder
<1> QED
  BY <1>2, <1>4 DEF WalkLinked, Linked

\* A link reported broken leads to a row that is crossed with another.
LEMMA BreakHasCause ==
  ASSUME NEW T, Trail(T), Linked(T), NEW q \in T, NEW r \in T,
         NextVisit(q, r, T), r.previous_hash # q.event_hash
  PROVE  \E s, x \in T : /\ Crossed(s, x) \/ Crossed(x, s)
                         /\ s = r \/ r.previous_hash = s.event_hash
<1> DEFINE Placed(s) == \A x \in T : ~Crossed(s, x) /\ ~Crossed(x, s)
<1> SUFFICES ASSUME \A s \in T : s = r \/ r.previous_hash = s.event_hash => Placed(s) PROVE FALSE
  OBVIOUS
<1>1. \A s \in T : s.occurred_at \in Nat
  BY SealedKeys DEF Trail
<1>2. \A s \in T : Placed(s) => \A x \in T :
        /\ Visits(x, s) <=> x.occurred_at < s.occurred_at
        /\ Visits(s, x) <=> s.occurred_at < x.occurred_at
  BY VisitsInOrder
<1>3. q.occurred_at < r.occurred_at
  BY <1>2 DEF NextVisit
<1>4. PICK p \in T : Adjacent(p, r, T)
  BY <1>1, <1>3, RowRightBefore
<1>5. r.previous_hash = p.event_hash /\ Placed(p)
  BY <1>4 DEF Linked
<1>6. p.occurred_at # q.occurred_at
  BY <1>5 DEF Trail, OneMonth
<1>7. Visits(p, r)
  BY <1>2, <1>4, <1>5 DEF Adjacent
<1>8. ~Visits(q, p)
  BY <1>7 DEF NextVisit
<1>9. ~(q.occurred_at < p.occurred_at)
  BY <1>2, <1>5, <1>8
<1> QED
  BY <1>1, <1>3, <1>4, <1>6, <1>9 DEF Adjacent

-----------------------------------------------------------------------------
(***************************************************************************)
(* Deletions.  What is left of a month is linked unless a hole is left.    *)
(***************************************************************************)
HoleFree(T, U) ==
  \A r \in T : (\E a, b \in U : a.occurred_at < r.occurred_at /\ r.occurred_at < b.occurred_at) => r \in U

LEMMA LinkedIsHoleFree ==
  ASSUME NEW T, Trail(T), Linked(T), NEW U, U \subseteq T
  PROVE  Linked(U) <=> HoleFree(T, U)
<1>1. \A r \in T : /\ r.occurred_at \in Nat
                   /\ r.event_hash = Digest(r.event_id, Milli(r), r.persona, r.previous_hash)
  BY SealedKeys DEF Trail, Sealed
<1>2. ASSUME HoleFree(T, U) PROVE Linked(U)
  <2>1. \A q, r \in U : Adjacent(q, r, U) => Adjacent(q, r, T)
    BY <1>2 DEF HoleFree, Adjacent
  <2> QED
    BY <2>1 DEF Linked
<1>3. ASSUME Linked(U), NEW r \in T, NEW a \in U, NEW b \in U,
             a.occurred_at < r.occurred_at, r.occurred_at < b.occurred_at, r \notin U
      PROVE  FALSE
  <2> DEFINE above == {s.occurred_at : s \in {u \in U : r.occurred_at < u.occurred_at}}
  <2>1. above \subseteq Nat /\ above # {}
    BY <1>1, <1>3
  <2>2. PICK e \in above : \A i \in above : ~(i < e)
    <3> HIDE DEF above
    <3> QED
      BY <2>1, LeastOf
  <2>3. PICK s \in U : r.occurred_at < s.occurred_at /\ e = s.occurred_at
    BY <2>2
  <2>4. a.occurred_at < s.occurred_at
    BY <1>1, <1>3, <2>3
  <2>5. PICK q \in U : Adjacent(q, s, U)
    BY <1>1, <1>3, <2>4, RowRightBefore
  <2>6. PICK p \in T : Adjacent(p, s, T)
    BY <1>1, <1>3, <2>3, <2>4, RowRightBefore
  <2>7. q.occurred_at < r.occurred_at
    <3>1. ~(r.occurred_at < q.occurred_at)
      <4> SUFFICES ASSUME r.occurred_at < q.occurred_at PROVE FALSE
        OBVIOUS
      <4>1. q.occurred_at \in above /\ q.occurred_at < e
        BY <2>3, <2>5 DEF Adjacent
      <4> QED
        BY <2>2, <4>1
    <3>2. q.occurred_at # r.occurred_at
      BY <1>3 DEF Trail, OneMonth
    <3> QED
      BY <1>1, <3>1, <3>2
  <2>8. ~(p.occurred_at < r.occurred_at)
    BY <2>3, <2>6 DEF Adjacent
  <2>9. q.event_hash = p.event_hash
    BY <1>3, <2>5, <2>6 DEF Linked
  <2>10. q.event_id = p.event_id
    BY <1>1, <2>9, DigestsDiffer
  <2>11. q = p
    BY <2>10 DEF Trail, Distinct
  <2> QED
    BY <2>7, <2>8, <2>11
<1> QED
  BY <1>2, <1>3 DEF HoleFree

-----------------------------------------------------------------------------
(***************************************************************************)
(* The anchors, against a set of rows.                                     *)
(***************************************************************************)
IsAnchor(a) ==
  /\ a.event_id \in EventIds
  /\ a.partition_name \in Months \cup {Misnamed}
  /\ a.event_count \in Nat
  /\ a.anchor_hash # NotFound

Anchored(a, S) == \E r \in S : r.event_id = a.event_id /\ r.event_hash = a.anchor_hash

LEMMA LiveHashOf ==
  ASSUME NEW S, Distinct(S), NEW r \in S
  PROVE  LiveHash(S, r.event_id) = r.event_hash
<1>1. PICK q : q = CHOOSE s \in S : s.event_id = r.event_id
  OBVIOUS
<1>2. q \in S /\ q.event_id = r.event_id
  BY <1>1
<1>3. q = r
  BY <1>2 DEF Distinct
<1> QED
  BY <1>1, <1>3 DEF LiveHash

LEMMA AnchorHolds ==
  ASSUME NEW S, Distinct(S), NEW a, IsAnchor(a)
  PROVE  AnchorStatus(a, LiveHashes(S)[a.event_id], LiveCounts(S)[a.partition_name]) = "ok"
           <=> /\ Anchored(a, S)
               /\ ~(Cardinality(RowsOf(S, a.partition_name)) < a.event_count)
<1>1. /\ LiveHashes(S)[a.event_id] = LiveHash(S, a.event_id)
      /\ LiveCounts(S)[a.partition_name] = Cardinality(RowsOf(S, a.partition_name))
  BY DEF LiveHashes, LiveCounts, IsAnchor
<1>2. a.anchor_hash # NotFound
  BY DEF IsAnchor
<1>3. CASE ~ \E r \in S : r.event_id = a.event_id
  BY <1>1, <1>3 DEF LiveHash, AnchorStatus, Anchored
<1>4. ASSUME NEW r \in S, r.event_id = a.event_id
      PROVE  /\ LiveHash(S, a.event_id) = r.event_hash
             /\ Anchored(a, S) <=> r.event_hash = a.anchor_hash
  BY <1>4, LiveHashOf DEF Distinct, Anchored
<1> QED
  BY <1>1, <1>2, <1>3, <1>4 DEF AnchorStatus

AnchorsHold(S) ==
  \A a \in anchors : a.partition_name \in partitions =>
    /\ Anchored(a, S)
    /\ ~(Cardinality(RowsOf(S, a.partition_name)) < a.event_count)

\* A verification without a pause: every month linked as it is walked, and every
\* anchor held.
LEMMA QuickCheckIs ==
  ASSUME NEW S, Distinct(S), \A m \in Months : Trail(RowsOf(S, m)),
         \A a \in anchors : IsAnchor(a)
  PROVE  QuickCheck(S) <=> (\A m \in Months : WalkLinked(RowsOf(S, m))) /\ AnchorsHold(S)
<1> DEFINE live == {a \in anchors : a.partition_name \in partitions}
<1>1. verifyAnchors(live, LiveHashes(S), LiveCounts(S)) = {} <=> AnchorsHold(S)
  <2>1. \A a \in live :
          AnchorStatus(a, LiveHashes(S)[a.event_id], LiveCounts(S)[a.partition_name]) = "ok"
            <=> /\ Anchored(a, S)
                /\ ~(Cardinality(RowsOf(S, a.partition_name)) < a.event_count)
    BY AnchorHolds
  <2> QED
    BY <2>1 DEF verifyAnchors, AnchorsHold
<1>2. \A m \in Months : Ok(verifyPartition(Fetch(RowsOf(S, m)))) <=> WalkLinked(RowsOf(S, m))
  BY OkIsLinked
<1>3. QuickCheck(S) <=> /\ \A m \in Months : Ok(verifyPartition(Fetch(RowsOf(S, m))))
                        /\ verifyAnchors(live, LiveHashes(S), LiveCounts(S)) = {}
  BY DEF QuickCheck, ChainOk
<1> QED
  BY <1>1, <1>2, <1>3

-----------------------------------------------------------------------------
(***************************************************************************)
(* The rows: what is left of a month is all of it.                         *)
(***************************************************************************)
RowsInv ==
  /\ \A r \in EverLogged : Sealed(r)
  /\ Distinct(EverLogged)
  /\ \A r \in rows : r.month \in partitions
  /\ \A q, r \in rows : q.month = r.month /\ q.occurred_at = r.occurred_at => q = r
  /\ \A m \in Months : Linked(RowsOf(rows, m)) /\ Rooted(RowsOf(rows, m))

LEMMA MonthTrail ==
  ASSUME Typed, RowsInv, NEW S \in SUBSET rows
  PROVE  /\ Distinct(S)
         /\ \A m : Trail(RowsOf(S, m)) /\ RowsOf(S, m) \subseteq RowsOf(rows, m)
<1>1. \A m : RowsOf(S, m) \in SUBSET rows /\ RowsOf(S, m) \subseteq RowsOf(rows, m)
  BY DEF RowsOf
<1>2. \A m : IsFiniteSet(RowsOf(S, m))
  BY <1>1, FS_Subset DEF Typed
<1>3. \A m : OneMonth(RowsOf(S, m))
  BY DEF RowsInv, RowsOf, OneMonth
<1>4. Distinct(S) /\ (\A m : Distinct(RowsOf(S, m))) /\ \A m : \A r \in RowsOf(S, m) : Sealed(r)
  BY <1>1 DEF RowsInv, Distinct, EverLogged
<1> QED
  BY <1>1, <1>2, <1>3, <1>4 DEF Trail

\* The newest row of a month.
LEMMA NewestOf ==
  ASSUME RowsInv, NEW m, RowsOf(rows, m) # {}
  PROVE  /\ Newest(m) \in RowsOf(rows, m)
         /\ \A q \in RowsOf(rows, m) : q.occurred_at <= Newest(m).occurred_at
<1> DEFINE R == RowsOf(rows, m)
           gaps == {MaxRows - r.occurred_at : r \in R}
           NoneAfter(r) == \A q \in R : q.occurred_at <= r.occurred_at
<1>1. MaxRows \in Nat /\ \A r \in R : r.occurred_at \in 1 .. MaxRows
  BY RetentionAssumption DEF RowsInv, RowsOf, EverLogged, Sealed
<1>2. gaps \subseteq Nat /\ gaps # {}
  BY <1>1
<1>3. PICK g \in gaps : \A h \in gaps : ~(h < g)
  <2> HIDE DEF gaps
  <2> QED
    BY <1>2, LeastOf
<1>4. PICK r \in R : g = MaxRows - r.occurred_at
  BY <1>3
<1>5. NoneAfter(r)
  <2> SUFFICES ASSUME NEW q \in R PROVE q.occurred_at <= r.occurred_at
    OBVIOUS
  <2>1. ~(MaxRows - q.occurred_at < MaxRows - r.occurred_at)
    BY <1>3, <1>4
  <2> QED
    BY <1>1, <2>1
<1>6. Newest(m) = CHOOSE q \in R : NoneAfter(q)
  BY DEF Newest
<1> HIDE DEF NoneAfter
<1>7. Newest(m) \in R /\ NoneAfter(Newest(m))
  BY <1>5, <1>6
<1> QED
  BY <1>7 DEF NoneAfter

LEMMA LogKeepsRows ==
  ASSUME Typed, RowsInv, NEW m \in Months, NEW p \in Personas, Log(m, p)
  PROVE  RowsInv' /\ EverLogged \subseteq EverLogged'
<1> DEFINE R == RowsOf(rows, m)
<1>1. PICK i \in EventIds \ UsedIds : rows' = rows \cup {NewRow(m, p, i)}
  BY DEF Log
<1>2. UNCHANGED <<partitions, dropped>> /\ m \in partitions /\ NextStamp(m) <= MaxRows
  BY DEF Log
<1> DEFINE x == NewRow(m, p, i)
<1>3. /\ x.event_id = i /\ x.occurred_at = NextStamp(m) /\ x.month = m /\ x.persona = p
      /\ x.previous_hash = NewestHash(m)
      /\ x.event_hash = Digest(i, MilliOf[m][NextStamp(m)], p, NewestHash(m))
      /\ DOMAIN x = {"event_id", "occurred_at", "month", "persona", "previous_hash", "event_hash"}
  BY DEF NewRow
<1> HIDE DEF x
<1>4. \A r \in R : Sealed(r) /\ r \in rows /\ r.month = m
  BY DEF RowsInv, RowsOf, EverLogged
<1>5. /\ NextStamp(m) \in 1 .. MaxRows
      /\ \A q \in R : q.occurred_at \in Nat /\ q.occurred_at < NextStamp(m)
  <2>1. CASE R = {}
    BY <1>2, <2>1, RetentionAssumption DEF NextStamp
  <2>2. CASE R # {}
    <3>1. Newest(m) \in R /\ \A q \in R : q.occurred_at <= Newest(m).occurred_at
      BY <2>2, NewestOf
    <3>2. \A q \in R : q.occurred_at \in Nat /\ q.occurred_at >= 1
      BY <1>4, SealedKeys, RetentionAssumption DEF Sealed
    <3>3. NextStamp(m) = Newest(m).occurred_at + 1
      BY <2>2 DEF NextStamp
    <3> QED
      BY <1>2, <3>1, <3>2, <3>3, RetentionAssumption
  <2> QED
    BY <2>1, <2>2
<1>6. NewestHash(m) # PaddedError
  <2>1. \A r \in R : r.event_hash # PaddedError
    BY <1>4, DigestsDiffer DEF Sealed
  <2>2. Null # PaddedError
    BY DEF Null, PaddedError
  <2> QED
    BY <2>1, <2>2, NewestOf DEF NewestHash
<1>7. Sealed(x)
  BY <1>3, <1>5, <1>6, AnchorAssumption DEF Sealed, Milli
<1>8. EverLogged' = EverLogged \cup {x} /\ rows' = rows \cup {x}
  BY <1>1, <1>2 DEF EverLogged, x
<1>9. \A r \in EverLogged : r.event_id # x.event_id
  BY <1>1, <1>3 DEF UsedIds, EverLogged
<1>10. Distinct(EverLogged') /\ \A r \in EverLogged' : Sealed(r)
  BY <1>7, <1>8, <1>9 DEF RowsInv, Distinct
<1>11. /\ \A r \in rows' : r.month \in partitions'
       /\ \A q, r \in rows' : q.month = r.month /\ q.occurred_at = r.occurred_at => q = r
  <2>1. \A r \in rows : r.month = m => r.occurred_at # x.occurred_at
    BY <1>3, <1>5 DEF RowsOf
  <2> QED
    BY <1>2, <1>3, <1>8, <2>1 DEF RowsInv
<1>12. ASSUME NEW k \in Months PROVE Linked(RowsOf(rows', k)) /\ Rooted(RowsOf(rows', k))
  <2>1. CASE k # m
    <3>1. RowsOf(rows', k) = RowsOf(rows, k)
      BY <1>3, <1>8, <2>1 DEF RowsOf
    <3> QED
      BY <3>1 DEF RowsInv
  <2>2. CASE k = m
    <3>1. RowsOf(rows', k) = R \cup {x}
      BY <1>3, <1>8, <2>2 DEF RowsOf
    <3>2. /\ \A q \in R : q.occurred_at \in Nat /\ q.occurred_at < x.occurred_at
          /\ x.occurred_at \in Nat
      BY <1>3, <1>5
    <3>3. ASSUME NEW q \in R \cup {x}, NEW r \in R \cup {x}, Adjacent(q, r, R \cup {x})
          PROVE  r.previous_hash = q.event_hash
      <4>1. CASE r # x
        <5>1. q \in R /\ r \in R
          BY <3>2, <3>3, <4>1 DEF Adjacent
        <5>2. Adjacent(q, r, R)
          BY <3>3 DEF Adjacent
        <5> QED
          BY <5>1, <5>2 DEF RowsInv, Linked
      <4>2. CASE r = x
        <5>1. q \in R
          BY <3>2, <3>3, <4>2 DEF Adjacent
        <5>2. Newest(m) \in R /\ q.occurred_at <= Newest(m).occurred_at
          BY <5>1, NewestOf
        <5>3. ~(q.occurred_at < Newest(m).occurred_at)
          BY <3>2, <3>3, <4>2, <5>2 DEF Adjacent
        <5>4. q = Newest(m)
          BY <1>4, <3>2, <5>1, <5>2, <5>3 DEF RowsInv
        <5> QED
          BY <1>3, <4>2, <5>1, <5>4 DEF NewestHash
      <4> QED
        BY <4>1, <4>2
    <3>4. ASSUME NEW r \in R \cup {x}, \A q \in R \cup {x} : ~(q.occurred_at < r.occurred_at)
          PROVE  r.previous_hash = Null
      <4>1. CASE r \in R
        BY <3>4, <4>1 DEF RowsInv, Rooted
      <4>2. CASE r = x
        <5>1. R = {}
          BY <3>2, <3>4, <4>2
        <5> QED
          BY <1>3, <4>2, <5>1 DEF NewestHash
      <4> QED
        BY <4>1, <4>2
    <3> QED
      BY <3>1, <3>3, <3>4 DEF Linked, Rooted
  <2> QED
    BY <2>1, <2>2
<1>13. RowsInv'
  BY <1>10, <1>11, <1>12 DEF RowsInv
<1> QED
  BY <1>8, <1>13

LEMMA DropKeepsRows ==
  ASSUME RowsInv, NEW o \in Operators, Drop(o)
  PROVE  RowsInv' /\ EverLogged' = EverLogged
<1> DEFINE D == RowsOf(rows, month[o])
<1>1. /\ rows' = rows \ D /\ dropped' = dropped \cup D
      /\ partitions' = partitions \ {month[o]}
  BY DEF Drop
<1>2. D \in SUBSET rows /\ \A r \in rows : r \in D <=> r.month = month[o]
  BY DEF RowsOf
<1> HIDE DEF D
<1>3. EverLogged' = EverLogged
  BY <1>1, <1>2 DEF EverLogged
<1>4. \A r \in rows' : r.month \in partitions' /\ r \in rows
  BY <1>1, <1>2 DEF RowsInv
<1>5. ASSUME NEW k \in Months PROVE Linked(RowsOf(rows', k)) /\ Rooted(RowsOf(rows', k))
  <2>1. CASE k # month[o]
    <3>1. RowsOf(rows', k) = RowsOf(rows, k)
      BY <1>1, <1>2, <2>1 DEF RowsOf
    <3> QED
      BY <3>1 DEF RowsInv
  <2>2. CASE k = month[o]
    <3>1. RowsOf(rows', k) = {}
      BY <1>1, <1>2, <2>2 DEF RowsOf
    <3> QED
      BY <3>1 DEF Linked, Rooted
  <2> QED
    BY <2>1, <2>2
<1> QED
  BY <1>3, <1>4, <1>5 DEF RowsInv

LEMMA NextRows ==
  ASSUME RetentionInv, RowsInv, [Next]_vars
  PROVE  /\ RowsInv' /\ RetentionInv'
         /\ partitions' \subseteq partitions /\ EverLogged \subseteq EverLogged'
         /\ \A m \in partitions' : RowsOf(rows, m) \subseteq RowsOf(rows', m)
<1>1. Elsewhere \/ \E o \in Operators : Step(o)
  BY DEF Next, Elsewhere, Step
<1>2. RetentionInv'
  BY <1>1, ElsewhereKeeps, StepKeeps, DropKeeps
<1>3. Typed
  BY DEF RetentionInv
<1>4. CASE UNCHANGED <<rows, dropped, partitions>>
  BY <1>2, <1>4 DEF RowsInv, EverLogged
<1>5. ASSUME NEW m \in Months, NEW p \in Personas, Log(m, p)
      PROVE  /\ RowsInv' /\ partitions' \subseteq partitions /\ EverLogged \subseteq EverLogged'
             /\ \A k \in partitions' : RowsOf(rows, k) \subseteq RowsOf(rows', k)
  <2>1. RowsInv' /\ EverLogged \subseteq EverLogged'
    BY <1>3, <1>5, LogKeepsRows
  <2>2. rows \subseteq rows' /\ partitions' = partitions
    <3>1. (\E x : rows' = rows \cup {x}) /\ partitions' = partitions
      BY <1>5 DEF Log
    <3> QED
      BY <3>1
  <2> QED
    BY <2>1, <2>2 DEF RowsOf
<1>6. ASSUME NEW o \in Operators, Drop(o)
      PROVE  /\ RowsInv' /\ partitions' \subseteq partitions /\ EverLogged \subseteq EverLogged'
             /\ \A k \in partitions' : RowsOf(rows, k) \subseteq RowsOf(rows', k)
  <2>1. RowsInv' /\ EverLogged' = EverLogged
    BY <1>6, DropKeepsRows
  <2>2. rows' = rows \ RowsOf(rows, month[o]) /\ partitions' = partitions \ {month[o]}
    BY <1>6 DEF Drop
  <2> QED
    BY <2>1, <2>2 DEF RowsOf
<1>7. ASSUME NEW o \in Operators, Step(o), ~Drop(o)
      PROVE  UNCHANGED <<rows, dropped, partitions>>
  BY <1>7 DEF Step, Retire, Call, Collect, CheckHolds, Refuse, LockParent, DeadlockVictim, End, tables
<1>8. CASE Elsewhere
  BY <1>2, <1>4, <1>5, <1>8 DEF Elsewhere, ReleaseHold, PlaceHold, Assign, vars, tables
<1> QED
  BY <1>1, <1>2, <1>4, <1>6, <1>7, <1>8

(***************************************************************************)
(* The anchors name rows that are there as long as their partition is.     *)
(***************************************************************************)
Honoured(a) ==
  a.partition_name \in partitions =>
    LET R == RowsOf(rows, a.partition_name) IN
      Anchored(a, R) /\ a.event_count <= Cardinality(R)

AnchorInv == \A a \in anchors : IsAnchor(a) /\ Honoured(a)

LEMMA AnchorsKept ==
  ASSUME Typed', partitions' \subseteq partitions, anchors' = anchors, AnchorInv,
         \A m \in partitions' : RowsOf(rows, m) \subseteq RowsOf(rows', m)
  PROVE  AnchorInv'
<1> SUFFICES ASSUME NEW a \in anchors, a.partition_name \in partitions'
             PROVE  LET R == RowsOf(rows', a.partition_name) IN
                      Anchored(a, R) /\ a.event_count <= Cardinality(R)
  BY DEF AnchorInv, IsAnchor, Honoured
<1> DEFINE Q == RowsOf(rows, a.partition_name)
           R == RowsOf(rows', a.partition_name)
<1>1. Q \subseteq R /\ Anchored(a, Q) /\ a.event_count <= Cardinality(Q) /\ a.event_count \in Nat
  BY DEF AnchorInv, Honoured, IsAnchor
<1>2. R \in SUBSET rows' /\ IsFiniteSet(rows')
  BY DEF RowsOf, Typed
<1> HIDE DEF Q, R
<1>3. /\ IsFiniteSet(R) /\ Cardinality(R) \in Nat
      /\ Cardinality(Q) \in Nat /\ Cardinality(Q) <= Cardinality(R)
  BY <1>1, <1>2, FS_Subset, FS_CardinalityType
<1>4. Anchored(a, R) /\ a.event_count <= Cardinality(R)
  BY <1>1, <1>3 DEF Anchored
<1> QED
  BY <1>4 DEF R

LEMMA WriteKeepsAnchors ==
  ASSUME Typed, RowsInv, AnchorInv, NEW m \in Months, NEW name \in {m, Misnamed},
         WriteAnchor(m, name)
  PROVE  AnchorInv'
<1> DEFINE R == RowsOf(rows, m)
           r == Newest(m)
           a == [event_id |-> r.event_id, anchor_hash |-> NewestHash(m),
                 partition_name |-> name, event_count |-> Cardinality(R)]
<1>1. anchors' = anchors \cup {a} /\ rows' = rows /\ partitions' = partitions /\ R # {}
  BY DEF WriteAnchor, vars, tables
<1>2. r \in R /\ r.event_hash = NewestHash(m)
  BY <1>1, NewestOf DEF NewestHash
<1>3. Cardinality(R) \in Nat
  <2>1. R \in SUBSET rows
    BY DEF RowsOf
  <2> HIDE DEF R
  <2> QED
    BY <2>1, FS_Subset, FS_CardinalityType DEF Typed
<1>4. /\ a.event_id = r.event_id /\ a.anchor_hash = r.event_hash
      /\ a.partition_name = name /\ a.event_count = Cardinality(R)
  BY <1>2
<1>5. Sealed(r)
  BY <1>2 DEF RowsInv, RowsOf, EverLogged
<1> HIDE DEF a, r
<1>6. IsAnchor(a)
  BY <1>3, <1>4, <1>5, DigestsDiffer DEF IsAnchor, Sealed
<1>7. Honoured(a)
  <2>1. a.partition_name \in partitions => a.partition_name = m
    BY <1>4, AnchorAssumption DEF Typed
  <2>2. Anchored(a, R) /\ a.event_count <= Cardinality(R)
    BY <1>2, <1>3, <1>4 DEF Anchored
  <2> QED
    BY <2>1, <2>2 DEF Honoured
<1> QED
  BY <1>1, <1>6, <1>7 DEF AnchorInv, Honoured

-----------------------------------------------------------------------------
(***************************************************************************)
(* The CLI.  What it has read of a partition that is still there agrees    *)
(* with the anchors on it, whenever it read it: the row of an anchor goes  *)
(* only with its partition, and a partition only grows until it goes.      *)
(***************************************************************************)
Agrees(a) ==
  /\ a.partition_name \in partitions => cli.hashes[a.event_id] = a.anchor_hash
  /\ a.partition_name \in cli.months \cup DOMAIN cli.counts
  /\ a.partition_name \in partitions /\ a.partition_name \in DOMAIN cli.counts =>
       ~(cli.counts[a.partition_name] < a.event_count)

HasCauses(v) ==
  v.mismatches = {} /\ v.unrecomputable = {} /\ \A e \in v.breaks : BreakExplained(e)

CliInv ==
  /\ DOMAIN cli = DOMAIN Idle
  /\ cli.at \in {"idle", "partitions", "hashes", "counts", "reported"}
  /\ cli.anchors \subseteq anchors
  /\ \A v \in cli.findings : HasCauses(v)
  /\ IF cli.at \in {"counts", "reported"}
       THEN /\ \A a \in cli.anchors : Agrees(a)
            /\ DOMAIN cli.counts \cap cli.months = {}
       ELSE DOMAIN cli.counts = {}
  /\ cli.at = "reported" => cli.months = {}

AuditInv == RetentionInv /\ RowsInv /\ AnchorInv /\ CliInv

LEMMA CliKept ==
  ASSUME CliInv, cli' = cli, anchors \subseteq anchors', partitions' \subseteq partitions,
         EverLogged \subseteq EverLogged'
  PROVE  CliInv'
<1>1. \A s : OutOfPlace(s) => OutOfPlace(s)'
  BY DEF OutOfPlace, Crossed, Milli
<1>2. \A e : BreakExplained(e) => BreakExplained(e)'
  BY <1>1 DEF BreakExplained
<1>3. \A v : HasCauses(v) => HasCauses(v)'
  BY <1>2 DEF HasCauses
<1> QED
  BY <1>3 DEF CliInv, Agrees

\* What is found in a month of an honest trail.
LEMMA MonthHasCauses ==
  ASSUME Typed, RowsInv, NEW m \in Months
  PROVE  HasCauses(verifyPartition(Fetch(RowsOf(rows, m))))
<1> DEFINE T == RowsOf(rows, m)
           v == verifyPartition(Fetch(T))
<1>1. Trail(T) /\ Linked(T) /\ \A r \in T : r \in EverLogged
  BY MonthTrail DEF RowsInv, RowsOf, EverLogged
<1> HIDE DEF T
<1>2. /\ v.mismatches = {} /\ v.unrecomputable = {}
      /\ v.breaks = {s.event_id : s \in {r \in T : \E q \in T :
                       NextVisit(q, r, T) /\ r.previous_hash # q.event_hash}}
  BY <1>1, VerdictOf
<1> HIDE DEF v
<1>3. ASSUME NEW e \in v.breaks PROVE BreakExplained(e)
  <2>1. PICK r \in T, q \in T :
          e = r.event_id /\ NextVisit(q, r, T) /\ r.previous_hash # q.event_hash
    BY <1>2, <1>3
  <2>2. PICK s \in T, x \in T : /\ Crossed(s, x) \/ Crossed(x, s)
                                /\ s = r \/ r.previous_hash = s.event_hash
    BY <1>1, <2>1, BreakHasCause
  <2>3. r \in EverLogged /\ s \in EverLogged /\ OutOfPlace(s)
    BY <1>1, <2>2 DEF OutOfPlace
  <2> QED
    BY <2>1, <2>2, <2>3 DEF BreakExplained
<1> QED
  BY <1>2, <1>3 DEF HasCauses, v, T

LEMMA CliMoves ==
  ASSUME RetentionInv, RowsInv, AnchorInv, CliInv, UNCHANGED <<vars, anchors>>,
         \/ fetchMonths \/ fetchAnchors \/ fetchLiveHashLookup \/ Report
         \/ \E m \in Months : fetchPartition(m)
         \/ \E name \in Months \cup {Misnamed} : fetchLiveCountLookup(name)
  PROVE  CliInv'
<1>1. DOMAIN cli = {"at", "months", "findings", "anchors", "hashes", "counts"}
  BY DEF CliInv, Idle
<1>2. partitions' = partitions /\ rows' = rows /\ anchors' = anchors /\ Typed
  BY DEF vars, tables, RetentionInv
<1>3. Distinct(rows)
  BY DEF RowsInv, Distinct, EverLogged
<1>4. \A v : HasCauses(v)' <=> HasCauses(v)
  <2>1. EverLogged' = EverLogged
    BY DEF EverLogged, vars, tables
  <2> QED
    BY <2>1 DEF HasCauses, BreakExplained, OutOfPlace, Crossed, Milli
<1>5. CASE fetchMonths
  <2>1. /\ DOMAIN cli' = DOMAIN Idle /\ cli'.at = "partitions" /\ cli'.findings = {}
        /\ cli'.anchors = {} /\ DOMAIN cli'.counts = {}
    BY <1>5 DEF fetchMonths, Idle
  <2> QED
    BY <1>4, <2>1 DEF CliInv
<1>6. CASE fetchAnchors
  <2>1. /\ DOMAIN cli' = DOMAIN Idle /\ cli'.at = "hashes" /\ cli'.findings = cli.findings
        /\ cli'.anchors = anchors /\ cli'.counts = cli.counts
    BY <1>1, <1>6 DEF fetchAnchors, Idle
  <2>2. DOMAIN cli.counts = {}
    BY <1>6 DEF fetchAnchors, CliInv
  <2> QED
    BY <1>2, <1>4, <2>1, <2>2 DEF CliInv
<1>7. ASSUME NEW m \in Months, fetchPartition(m) PROVE CliInv'
  <2>1. /\ DOMAIN cli' = DOMAIN Idle /\ cli'.at = "partitions"
        /\ cli'.findings = cli.findings \cup {verifyPartition(Fetch(RowsOf(rows, m)))}
        /\ cli'.anchors = cli.anchors /\ cli'.counts = cli.counts
    BY <1>1, <1>7 DEF fetchPartition, Idle
  <2>2. DOMAIN cli.counts = {}
    BY <1>7 DEF fetchPartition, CliInv
  <2>3. \A v \in cli'.findings : HasCauses(v)
    BY <1>2, <2>1, MonthHasCauses DEF CliInv
  <2> QED
    BY <1>2, <1>4, <2>1, <2>2, <2>3 DEF CliInv
<1>8. CASE fetchLiveHashLookup
  <2>1. /\ DOMAIN cli' = DOMAIN Idle /\ cli'.at = "counts" /\ cli'.findings = cli.findings
        /\ cli'.anchors = cli.anchors /\ cli'.counts = cli.counts
        /\ cli'.hashes = LiveHashes(rows)
        /\ cli'.months = {a.partition_name : a \in cli.anchors}
    BY <1>1, <1>8 DEF fetchLiveHashLookup, Idle
  <2>2. DOMAIN cli.counts = {}
    BY <1>8 DEF fetchLiveHashLookup, CliInv
  <2>3. ASSUME NEW a \in cli.anchors, a.partition_name \in partitions
        PROVE  LiveHashes(rows)[a.event_id] = a.anchor_hash
    <3>1. IsAnchor(a) /\ Honoured(a)
      BY DEF CliInv, AnchorInv
    <3>2. PICK r \in rows : r.event_id = a.event_id /\ r.event_hash = a.anchor_hash
      BY <2>3, <3>1 DEF Honoured, Anchored, RowsOf
    <3>3. LiveHash(rows, r.event_id) = r.event_hash
      BY <1>3, LiveHashOf
    <3> QED
      BY <3>1, <3>2, <3>3 DEF LiveHashes, IsAnchor
  <2>4. \A a \in cli.anchors : Agrees(a)'
    BY <1>2, <2>1, <2>2, <2>3 DEF Agrees
  <2> QED
    BY <1>2, <1>4, <2>1, <2>2, <2>4 DEF CliInv
<1>9. ASSUME NEW name \in Months \cup {Misnamed}, fetchLiveCountLookup(name) PROVE CliInv'
  <2> DEFINE n == LiveCounts(rows)[name]
  <2>1. /\ DOMAIN cli' = DOMAIN Idle /\ cli'.at = "counts" /\ cli'.findings = cli.findings
        /\ cli'.anchors = cli.anchors /\ cli'.hashes = cli.hashes
        /\ cli'.months = cli.months \ {name}
        /\ cli'.counts = [k \in DOMAIN cli.counts \cup {name} |->
                            IF k = name THEN n ELSE cli.counts[k]]
    BY <1>1, <1>9 DEF fetchLiveCountLookup, Idle
  <2>2. name \in cli.months /\ cli.at = "counts"
    BY <1>9 DEF fetchLiveCountLookup
  <2>3. /\ \A a \in cli.anchors : Agrees(a)
        /\ DOMAIN cli.counts \cap cli.months = {}
    BY <2>2 DEF CliInv
  <2>4. n = Cardinality(RowsOf(rows, name))
    BY DEF LiveCounts
  <2> HIDE DEF n
  <2>5. /\ DOMAIN cli'.counts = DOMAIN cli.counts \cup {name}
        /\ cli'.counts[name] = n
        /\ \A k \in DOMAIN cli.counts : cli'.counts[k] = cli.counts[k]
    BY <2>1, <2>2, <2>3
  <2>6. ASSUME NEW a \in cli.anchors PROVE Agrees(a)'
    <3>1. IsAnchor(a) /\ Honoured(a) /\ Agrees(a)
      BY <2>3 DEF CliInv, AnchorInv
    <3>2. a.partition_name = name /\ name \in partitions => ~(n < a.event_count)
      <4> SUFFICES ASSUME a.partition_name = name, name \in partitions PROVE ~(n < a.event_count)
        OBVIOUS
      <4>1. a.event_count <= n /\ a.event_count \in Nat
        BY <2>4, <3>1 DEF Honoured, IsAnchor
      <4>2. n \in Nat
        <5>1. RowsOf(rows, name) \in SUBSET rows /\ IsFiniteSet(rows)
          BY <1>2 DEF RowsOf, Typed
        <5> QED
          BY <2>4, <5>1, FS_Subset, FS_CardinalityType
      <4> QED
        BY <4>1, <4>2
    <3>3. a.partition_name \in cli'.months \cup DOMAIN cli'.counts
      BY <2>1, <2>5, <3>1 DEF Agrees
    <3> QED
      BY <1>2, <2>1, <2>5, <3>1, <3>2, <3>3 DEF Agrees
  <2>7. DOMAIN cli'.counts \cap cli'.months = {}
    BY <2>1, <2>3, <2>5
  <2> QED
    BY <1>2, <1>4, <2>1, <2>6, <2>7 DEF CliInv
<1>10. CASE Report
  <2>1. /\ DOMAIN cli' = DOMAIN Idle /\ cli'.at = "reported" /\ cli'.findings = cli.findings
        /\ cli'.anchors = cli.anchors /\ cli'.hashes = cli.hashes
        /\ cli'.months = cli.months /\ cli'.counts = cli.counts
        /\ cli.at = "counts" /\ cli.months = {}
    BY <1>1, <1>10 DEF Report, Idle
  <2>2. \A a \in cli.anchors : Agrees(a)'
    BY <1>2, <2>1 DEF CliInv, Agrees
  <2> QED
    BY <1>2, <1>4, <2>1, <2>2 DEF CliInv
<1> QED
  BY <1>5, <1>6, <1>7, <1>8, <1>9, <1>10

LEMMA AuditInvariant == AuditSpec => []AuditInv
<1>1. AuditInit => AuditInv
  <2> SUFFICES ASSUME AuditInit PROVE AuditInv
    OBVIOUS
  <2>1. RetentionInv
    BY InitEstablishes DEF AuditInit
  <2>2. RowsInv
    <3>1. rows = {} /\ dropped = {}
      BY DEF AuditInit, Init
    <3> QED
      BY <3>1 DEF RowsInv, EverLogged, Distinct, RowsOf, Linked, Rooted
  <2>3. AnchorInv /\ CliInv
    <3>1. DOMAIN Idle.counts = {} /\ Idle.at = "idle" /\ Idle.findings = {} /\ Idle.anchors = {}
      BY DEF Idle
    <3> QED
      BY <3>1 DEF AuditInit, AnchorInv, CliInv
  <2> QED
    BY <2>1, <2>2, <2>3 DEF AuditInv
<1>2. AuditInv /\ [AuditNext]_auditVars => AuditInv'
  <2> SUFFICES ASSUME AuditInv, [AuditNext]_auditVars PROVE AuditInv'
    OBVIOUS
  <2> USE DEF AuditInv
  <2>1. CASE [Next]_vars /\ UNCHANGED <<anchors, cli>>
    <3>1. /\ RowsInv' /\ RetentionInv' /\ partitions' \subseteq partitions
          /\ EverLogged \subseteq EverLogged'
          /\ \A m \in partitions' : RowsOf(rows, m) \subseteq RowsOf(rows', m)
      BY <2>1, NextRows
    <3>2. AnchorInv'
      BY <2>1, <3>1, AnchorsKept DEF RetentionInv
    <3>3. CliInv'
      BY <2>1, <3>1, CliKept
    <3> QED
      BY <3>1, <3>2, <3>3
  <2>2. ASSUME UNCHANGED vars
        PROVE  RetentionInv' /\ RowsInv' /\ partitions' = partitions /\ EverLogged' = EverLogged
    <3>1. [Next]_vars
      BY <2>2
    <3>2. partitions' = partitions /\ EverLogged' = EverLogged
      BY <2>2 DEF vars, tables, EverLogged
    <3> QED
      BY <3>1, <3>2, NextRows
  <2>3. ASSUME NEW m \in Months, NEW name \in {m, Misnamed}, WriteAnchor(m, name)
        PROVE  AuditInv'
    <3>1. AnchorInv'
      BY <2>3, WriteKeepsAnchors DEF RetentionInv
    <3>2. UNCHANGED vars /\ cli' = cli /\ anchors \subseteq anchors'
      BY <2>3 DEF WriteAnchor
    <3> QED
      BY <2>2, <3>1, <3>2, CliKept
  <2>4. ASSUME UNCHANGED <<vars, anchors>>,
               \/ fetchMonths \/ fetchAnchors \/ fetchLiveHashLookup \/ Report
               \/ \E m \in Months : fetchPartition(m)
               \/ \E name \in Months \cup {Misnamed} : fetchLiveCountLookup(name)
        PROVE  AuditInv'
    <3>1. CliInv'
      BY <2>4, CliMoves
    <3>2. AnchorInv'
      BY <2>4 DEF AnchorInv, Honoured, vars, tables
    <3> QED
      BY <2>2, <2>4, <3>1, <3>2
  <2>5. ASSUME NEW m \in Months, fetchPartition(m) PROVE UNCHANGED <<vars, anchors>>
    BY <2>5 DEF fetchPartition
  <2>6. ASSUME NEW name \in Months \cup {Misnamed}, fetchLiveCountLookup(name)
        PROVE  UNCHANGED <<vars, anchors>>
    BY <2>6 DEF fetchLiveCountLookup
  <2>7. ASSUME fetchMonths \/ fetchAnchors \/ fetchLiveHashLookup \/ Report
        PROVE  UNCHANGED <<vars, anchors>>
    BY <2>7 DEF fetchMonths, fetchAnchors, fetchLiveHashLookup, Report
  <2> QED
    BY <2>1, <2>3, <2>4, <2>5, <2>6, <2>7 DEF AuditNext, auditVars
<1> QED
  BY <1>1, <1>2, PTL DEF AuditSpec

\* Whatever is inserted or retired between two statements of the verifier, on an
\* honest trail a row is reported only if the walk visits it, or the row it names,
\* out of place, and only as a break; an anchor fails only if its partition is gone
\* or its partition_name is no month.
THEOREM AlarmsHaveTheirCauses == AuditSpec => []AlarmsHaveCauses
<1>1. ASSUME AuditInv PROVE AlarmsHaveCauses
  <2> SUFFICES ASSUME cli.at = "reported" PROVE
        /\ \A v \in cli.findings : HasCauses(v)
        /\ \A a \in verifyAnchors(cli.anchors, cli.hashes, cli.counts) :
             a.partition_name \notin partitions
        /\ LET report == renderHuman(cli.findings, cli.anchors, cli.hashes, cli.counts)
           IN  report.result = "FAIL" <=> "FAIL" \in report.labels
    BY DEF AlarmsHaveCauses, HasCauses
  <2>1. \A v \in cli.findings : HasCauses(v)
    BY <1>1 DEF AuditInv, CliInv
  <2>2. ASSUME NEW a \in cli.anchors, a.partition_name \in partitions
        PROVE  AnchorStatus(a, cli.hashes[a.event_id], cli.counts[a.partition_name]) = "ok"
    <3>1. /\ IsAnchor(a) /\ Agrees(a) /\ cli.months = {}
      BY <1>1 DEF AuditInv, CliInv, AnchorInv
    <3>2. cli.hashes[a.event_id] = a.anchor_hash /\ a.anchor_hash # NotFound
      BY <2>2, <3>1 DEF Agrees, IsAnchor
    <3>3. ~(cli.counts[a.partition_name] < a.event_count)
      BY <2>2, <3>1 DEF Agrees
    <3> QED
      BY <3>2, <3>3 DEF AnchorStatus
  <2>3. \A a \in verifyAnchors(cli.anchors, cli.hashes, cli.counts) : a.partition_name \notin partitions
    BY <2>2 DEF verifyAnchors
  <2>4. LET report == renderHuman(cli.findings, cli.anchors, cli.hashes, cli.counts)
        IN  report.result = "FAIL" <=> "FAIL" \in report.labels
    <3> DEFINE failed == verifyAnchors(cli.anchors, cli.hashes, cli.counts)
               labels == {PartitionLabel(v) : v \in cli.findings}
                           \cup {IF a \in failed THEN "FAIL" ELSE "OK" : a \in cli.anchors}
    <3>1. failed \subseteq cli.anchors
      BY DEF verifyAnchors
    <3> HIDE DEF failed
    <3>2. \A v \in cli.findings : PartitionLabel(v) = "FAIL" <=> ~Ok(v)
      BY DEF PartitionLabel, Ok
    <3>3. "FAIL" \in labels <=> (\E v \in cli.findings : ~Ok(v)) \/ failed # {}
      BY <3>1, <3>2
    <3>4. ChainOk(cli.findings, failed) <=> ~((\E v \in cli.findings : ~Ok(v)) \/ failed # {})
      BY DEF ChainOk
    <3> QED
      BY <3>3, <3>4 DEF renderHuman, failed
  <2> QED
    BY <2>1, <2>3, <2>4
<1> QED
  BY <1>1, AuditInvariant, PTL

\* The deletions a verification without a pause leaves unnoticed, whatever the
\* trail and the anchors: cuts at the ends of months that spare the anchors, if
\* no two rows left are visited out of place.
THEOREM DeletionsAreNoticed == AuditSpec => []DeletionNoticed
<1>1. ASSUME AuditInv, NEW S \in SUBSET rows
      PROVE  QuickCheck(S) <=> Contiguous(S) /\ InWalkOrder(S) /\ AnchorsSpared(S)
  <2>1. Typed /\ RowsInv /\ AnchorInv
    BY <1>1 DEF AuditInv, RetentionInv
  <2>2. /\ Distinct(S) /\ \A m : Trail(RowsOf(S, m)) /\ RowsOf(S, m) \subseteq RowsOf(rows, m)
        /\ \A r \in rows : r.month \in Months
    BY <2>1, MonthTrail DEF RowsInv, EverLogged, Sealed
  <2>3. QuickCheck(S) <=> (\A m \in Months : WalkLinked(RowsOf(S, m))) /\ AnchorsHold(S)
    BY <2>1, <2>2, QuickCheckIs DEF AnchorInv
  <2>4. ASSUME NEW m \in Months
        PROVE  WalkLinked(RowsOf(S, m))
                 <=> HoleFree(RowsOf(rows, m), RowsOf(S, m)) /\ InWalkOrder(RowsOf(S, m))
    <3>1. Trail(RowsOf(rows, m)) /\ Linked(RowsOf(rows, m)) /\ Rooted(RowsOf(rows, m))
      BY <2>1, MonthTrail DEF RowsInv
    <3>2. Linked(RowsOf(S, m)) <=> HoleFree(RowsOf(rows, m), RowsOf(S, m))
      BY <2>2, <3>1, LinkedIsHoleFree
    <3> QED
      BY <2>2, <3>1, <3>2, WalkLinkedIs
  <2>5. Contiguous(S) <=> \A m \in Months : HoleFree(RowsOf(rows, m), RowsOf(S, m))
    BY <2>2 DEF Contiguous, HoleFree, RowsOf
  <2>6. InWalkOrder(S) <=> \A m \in Months : InWalkOrder(RowsOf(S, m))
    BY <2>2 DEF InWalkOrder, Crossed, RowsOf
  <2>7. ASSUME NEW a \in anchors, a.partition_name \in partitions
        PROVE  /\ Anchored(a, S)
               /\ ~(Cardinality(RowsOf(S, a.partition_name)) < a.event_count)
               <=> /\ \E r \in S : r.event_id = a.event_id
                   /\ Cardinality(RowsOf(S, a.partition_name)) >= a.event_count
    <3>1. IsAnchor(a) /\ Anchored(a, RowsOf(rows, a.partition_name))
      BY <2>1, <2>7 DEF AnchorInv, Honoured
    <3>2. PICK r \in rows : r.event_id = a.event_id /\ r.event_hash = a.anchor_hash
      BY <3>1 DEF Anchored, RowsOf
    <3>3. \A q \in S : q.event_id = a.event_id => q = r
      BY <2>1, <3>2 DEF RowsInv, Distinct, EverLogged
    <3>4. Anchored(a, S) <=> \E q \in S : q.event_id = a.event_id
      BY <3>2, <3>3 DEF Anchored
    <3>5. Cardinality(RowsOf(S, a.partition_name)) \in Nat /\ a.event_count \in Nat
      BY <2>2, <3>1, FS_CardinalityType DEF Trail, IsAnchor
    <3> QED
      BY <3>4, <3>5
  <2>8. AnchorsHold(S) <=> AnchorsSpared(S)
    BY <2>7 DEF AnchorsHold, AnchorsSpared
  <2> QED
    BY <2>3, <2>4, <2>5, <2>6, <2>8
<1>2. AuditInv => DeletionNoticed
  BY <1>1 DEF DeletionNoticed
<1> QED
  BY <1>2, AuditInvariant, PTL

-----------------------------------------------------------------------------
(***************************************************************************)
(* Rewriting a month from row f on.  What each row becomes exists, by the  *)
(* least stamp for which it would not, and differs from what it was.       *)
(***************************************************************************)
LEMMA Predecessor ==
  ASSUME NEW T, Trail(T), NEW r \in T, NEW f \in T, f.occurred_at < r.occurred_at
  PROVE  /\ RowBefore(T, r) \in FromOn(T, f)
         /\ RowBefore(T, r).occurred_at < r.occurred_at
         /\ \A q \in T : Adjacent(q, r, T) <=> q = RowBefore(T, r)
<1> DEFINE p == RowBefore(T, r)
           Latest(q) == q.occurred_at < r.occurred_at
                        /\ \A s \in T : s.occurred_at < r.occurred_at => s.occurred_at <= q.occurred_at
<1>1. \A q \in T : q.occurred_at \in Nat
  BY SealedKeys DEF Trail
<1>2. PICK q \in T : Adjacent(q, r, T)
  BY <1>1, RowRightBefore
<1>3. \A s \in T : Adjacent(s, r, T) => Latest(s)
  BY <1>1 DEF Adjacent
<1>4. p = CHOOSE s \in T : Latest(s)
  BY DEF RowBefore
<1> HIDE DEF p
<1>5. p \in T /\ Latest(p)
  <2> HIDE DEF Latest
  <2> QED
    BY <1>2, <1>3, <1>4
<1>6. f.occurred_at <= p.occurred_at
  BY <1>5
<1>7. ASSUME NEW s \in T, Adjacent(s, r, T) PROVE s = p
  <2>1. s.occurred_at <= p.occurred_at /\ p.occurred_at <= s.occurred_at
    BY <1>3, <1>5, <1>7
  <2> QED
    BY <1>1, <1>5, <2>1 DEF Trail, OneMonth
<1>8. Adjacent(p, r, T)
  BY <1>2, <1>7
<1> QED
  BY <1>5, <1>6, <1>7, <1>8 DEF FromOn, p

\* What sealing a row again leaves as it was.
Keys(x, r) ==
  x.event_id = r.event_id /\ x.month = r.month /\ x.occurred_at = r.occurred_at

ResealedBy(new, X, T, f, payload) ==
  new = [r \in X |-> IF r = f THEN Reseal(f, f.previous_hash, payload)
                              ELSE Reseal(r, new[RowBefore(T, r)].event_hash, r.persona)]

LEMMA ResealedExists ==
  ASSUME NEW T, Trail(T), NEW f \in T, NEW payload,
         NEW N \in Nat, \A r \in T : r.occurred_at < N
  PROVE  \E new : ResealedBy(new, FromOn(T, f), T, f, payload)
<1> DEFINE X(n) == {r \in FromOn(T, f) : r.occurred_at < n}
           none == {n \in Nat : ~ \E g : ResealedBy(g, X(n), T, f, payload)}
<1>1. \A r \in T : r.occurred_at \in Nat
  BY SealedKeys DEF Trail
<1>2. X(N) = FromOn(T, f)
  BY DEF FromOn
<1>3. none = {}
  <2> SUFFICES ASSUME none # {} PROVE FALSE
    OBVIOUS
  <2>1. PICK n \in none : \A m \in none : ~(m < n)
    <3>1. none \subseteq Nat
      OBVIOUS
    <3> HIDE DEF none
    <3> QED
      BY <3>1, LeastOf
  <2>2. n # 0
    <3> SUFFICES ASSUME n = 0 PROVE FALSE
      OBVIOUS
    <3>1. X(0) = {}
      BY <1>1 DEF FromOn
    <3> DEFINE g == [r \in {} |-> r]
    <3>2. ResealedBy(g, {}, T, f, payload)
      BY DEF ResealedBy
    <3> QED
      BY <2>1, <3>1, <3>2
  <2>3. n \in Nat /\ n - 1 \in Nat /\ n - 1 < n
    BY <2>1, <2>2
  <2>4. PICK g : ResealedBy(g, X(n - 1), T, f, payload)
    BY <2>1, <2>3
  <2> DEFINE hash(r) == g[RowBefore(T, r)].event_hash
             h == [r \in X(n) |-> IF r = f THEN Reseal(f, f.previous_hash, payload)
                                           ELSE Reseal(r, hash(r), r.persona)]
  <2>5. \A r \in X(n - 1) : r \in X(n) /\ h[r] = g[r]
    BY <1>1, <2>3, <2>4 DEF ResealedBy, FromOn
  <2>6. ASSUME NEW r \in X(n), r # f PROVE RowBefore(T, r) \in X(n - 1)
    <3>1. f.occurred_at < r.occurred_at
      BY <1>1, <2>6 DEF FromOn, Trail, OneMonth
    <3>2. RowBefore(T, r) \in FromOn(T, f) /\ RowBefore(T, r).occurred_at < r.occurred_at
      BY <3>1, Predecessor DEF FromOn
    <3> QED
      BY <1>1, <2>3, <3>2 DEF FromOn
  <2>7. \A r \in X(n) : r # f => hash(r) = h[RowBefore(T, r)].event_hash
    BY <2>5, <2>6
  <2>8. h = [r \in X(n) |-> IF r = f THEN Reseal(f, f.previous_hash, payload)
                                     ELSE Reseal(r, h[RowBefore(T, r)].event_hash, r.persona)]
    <3> DEFINE new(r) == IF r = f THEN Reseal(f, f.previous_hash, payload)
                                  ELSE Reseal(r, h[RowBefore(T, r)].event_hash, r.persona)
    <3>1. \A r \in X(n) : h[r] = new(r)
      BY <2>7
    <3>2. h = [r \in X(n) |-> h[r]]
      OBVIOUS
    <3> HIDE DEF h, new
    <3>3. h = [r \in X(n) |-> new(r)]
      BY <3>1, <3>2
    <3> QED
      BY <3>3 DEF new
  <2> HIDE DEF h
  <2>9. ResealedBy(h, X(n), T, f, payload)
    BY <2>8 DEF ResealedBy
  <2> QED
    BY <2>1, <2>9
<1>4. \E g : ResealedBy(g, X(N), T, f, payload)
  BY <1>3
<1> QED
  BY <1>2, <1>4

LEMMA ResealedIs ==
  ASSUME NEW T, Trail(T), Linked(T), NEW f \in T, NEW payload, payload \notin Rejected,
         NEW N \in Nat, \A r \in T : r.occurred_at < N
  PROVE  LET new == Resealed(T, f, payload) IN
           /\ new[f].previous_hash = f.previous_hash
           /\ \A r \in FromOn(T, f) :
                /\ Sealed(new[r]) /\ Keys(new[r], r)
                /\ r # f => new[r].previous_hash = new[RowBefore(T, r)].event_hash
                /\ payload # f.persona => new[r].event_hash # r.event_hash
<1> DEFINE new == Resealed(T, f, payload)
           F == FromOn(T, f)
<1>1. new = CHOOSE g : ResealedBy(g, F, T, f, payload)
  BY DEF Resealed, ResealedBy
<1>2. ResealedBy(new, F, T, f, payload)
  BY <1>1, ResealedExists
<1> HIDE DEF new
<1>3. f \in F /\ \A r \in F : r \in T /\ Sealed(r) /\ r.occurred_at \in Nat
  BY SealedKeys DEF FromOn, Trail
<1>4. /\ new[f] = Reseal(f, f.previous_hash, payload)
      /\ \A r \in F : r # f => new[r] = Reseal(r, new[RowBefore(T, r)].event_hash, r.persona)
  BY <1>2, <1>3 DEF ResealedBy
<1>5. ASSUME NEW r \in F, NEW prev, NEW p
      PROVE  LET x == Reseal(r, prev, p) IN
               /\ DOMAIN x = DOMAIN r /\ Keys(x, r)
               /\ x.persona = p /\ x.previous_hash = prev
               /\ x.event_hash = Digest(r.event_id, Milli(r), p, prev)
  BY <1>3 DEF Sealed, Reseal, Keys
<1>6. \A r \in F : r # f => RowBefore(T, r) \in F /\ Adjacent(RowBefore(T, r), r, T)
  <2> SUFFICES ASSUME NEW r \in F, r # f
               PROVE  RowBefore(T, r) \in F /\ Adjacent(RowBefore(T, r), r, T)
    OBVIOUS
  <2>1. r \in T /\ f.occurred_at < r.occurred_at
    BY <1>3 DEF Trail, OneMonth, FromOn
  <2>2. RowBefore(T, r) \in F /\ \A q \in T : Adjacent(q, r, T) <=> q = RowBefore(T, r)
    BY <2>1, Predecessor
  <2> QED
    BY <1>3, <2>2
<1>7. \A r \in F : \E p, prev : new[r].event_hash = Digest(r.event_id, Milli(r), p, prev)
  <2>1. \A r \in F : \E p, prev : new[r] = Reseal(r, prev, p)
    BY <1>4
  <2> QED
    BY <1>5, <2>1
<1>8. ASSUME NEW r \in F
      PROVE  Sealed(new[r]) /\ Keys(new[r], r)
  <2>1. CASE r = f
    BY <1>3, <1>4, <1>5, <2>1 DEF Sealed, Keys, Milli
  <2>2. CASE r # f
    <3>1. new[RowBefore(T, r)].event_hash # PaddedError
      BY <1>6, <1>7, <2>2, DigestsDiffer
    <3> DEFINE prev == new[RowBefore(T, r)].event_hash
    <3>2. new[r] = Reseal(r, prev, r.persona) /\ prev # PaddedError
      BY <1>4, <2>2, <3>1
    <3> HIDE DEF prev
    <3> QED
      BY <1>3, <1>5, <3>2 DEF Sealed, Keys, Milli
  <2> QED
    BY <2>1, <2>2
<1>9. \A r \in F : r # f => new[r].previous_hash = new[RowBefore(T, r)].event_hash
  BY <1>4, <1>5
<1>10. new[f].previous_hash = f.previous_hash
  BY <1>3, <1>4, <1>5
<1>11. ASSUME payload # f.persona, NEW r \in F PROVE new[r].event_hash # r.event_hash
  <2> SUFFICES ASSUME new[r].event_hash = r.event_hash PROVE FALSE
    OBVIOUS
  <2> DEFINE same == {q.occurred_at : q \in {s \in F : new[s].event_hash = s.event_hash}}
  <2>1. same \subseteq Nat /\ same # {}
    BY <1>3
  <2>2. PICK e \in same : \A i \in same : ~(i < e)
    <3> HIDE DEF same
    <3> QED
      BY <2>1, LeastOf
  <2>3. PICK q \in F : new[q].event_hash = q.event_hash /\ e = q.occurred_at
    BY <2>2
  <2>4. q.event_hash = Digest(q.event_id, Milli(q), q.persona, q.previous_hash)
    BY <1>3 DEF Sealed
  <2>5. CASE q = f
    <3>1. new[f].event_hash = Digest(f.event_id, Milli(f), payload, f.previous_hash)
      BY <1>3, <1>4, <1>5
    <3>2. payload = f.persona
      BY <2>3, <2>4, <2>5, <3>1, DigestsDiffer
    <3> QED
      BY <1>11, <3>2
  <2>6. CASE q # f
    <3> DEFINE p == RowBefore(T, q)
    <3>1. p \in F /\ Adjacent(p, q, T)
      BY <1>6, <2>6
    <3>2. new[q].event_hash = Digest(q.event_id, Milli(q), q.persona, new[p].event_hash)
      BY <1>4, <1>5, <2>6
    <3> HIDE DEF p
    <3>3. q.previous_hash = new[p].event_hash
      BY <2>3, <2>4, <3>2, DigestsDiffer
    <3>4. q.previous_hash = p.event_hash
      BY <1>3, <3>1 DEF Linked
    <3>5. p.occurred_at \in same
      BY <3>1, <3>3, <3>4
    <3>6. p.occurred_at < e
      BY <2>3, <3>1 DEF Adjacent
    <3> QED
      BY <2>2, <3>5, <3>6
  <2> QED
    BY <2>5, <2>6
<1> QED
  BY <1>8, <1>9, <1>10, <1>11 DEF new

\* A month rewritten from f on is a trail again, linked and as long as it was.
\* It has the rows before f, and none that an anchor on a later row would find.
LEMMA RewrittenIs ==
  ASSUME NEW T, Trail(T), Linked(T), Rooted(T), NEW f \in T,
         NEW payload, payload \notin Rejected, payload # f.persona,
         NEW N \in Nat, \A r \in T : r.occurred_at < N
  PROVE  LET U == Rewritten(T, f, payload) IN
           /\ Trail(U) /\ Linked(U) /\ Rooted(U) /\ Cardinality(U) = Cardinality(T)
           /\ \A u \in U : \E r \in T : Keys(u, r)
           /\ \A r \in T : \E u \in U : Keys(u, r)
           /\ \A r \in T : r.occurred_at < f.occurred_at => r \in U
           /\ \A r \in T : f.occurred_at <= r.occurred_at =>
                ~ \E u \in U : u.event_id = r.event_id /\ u.event_hash = r.event_hash
<1> DEFINE F == FromOn(T, f)
           new == Resealed(T, f, payload)
           b == [r \in T |-> IF r \in F THEN new[r] ELSE r]
           U == Rewritten(T, f, payload)
<1>1. /\ new[f].previous_hash = f.previous_hash
      /\ \A r \in F :
           /\ Sealed(new[r]) /\ Keys(new[r], r)
           /\ r # f => new[r].previous_hash = new[RowBefore(T, r)].event_hash
           /\ new[r].event_hash # r.event_hash
  BY ResealedIs
<1>2. /\ \A r \in T : r.occurred_at \in Nat /\ Sealed(r) /\ Keys(r, r)
      /\ \A r \in T : r \in F <=> f.occurred_at <= r.occurred_at
      /\ F \subseteq T
  BY SealedKeys DEF Trail, FromOn, Keys
<1>3. U = (T \ F) \cup {new[r] : r \in F}
  BY DEF Rewritten
<1> HIDE DEF F, new, U
<1>4. /\ \A r \in T : b[r] \in U /\ Keys(b[r], r) /\ Sealed(b[r])
      /\ \A u \in U : \E r \in T : u = b[r]
      /\ \A r \in F : b[r] = new[r]
      /\ \A r \in T \ F : b[r] = r
      /\ b \in [T -> U]
  BY <1>1, <1>2, <1>3
<1> HIDE DEF b
<1>5. \A q, r \in T : b[q].event_id = b[r].event_id => q = r
  BY <1>4 DEF Trail, Distinct, Keys
<1>6. IsFiniteSet(U) /\ Cardinality(U) = Cardinality(T)
  <2>1. b \in Surjection(T, U)
    BY <1>4 DEF Surjection
  <2>2. b \in Injection(T, U)
    BY <1>4, <1>5 DEF Injection, IsInjective
  <2> QED
    BY <2>1, <2>2, FS_Surjection DEF Trail
<1>7. Trail(U)
  <2>1. OneMonth(U)
    BY <1>4 DEF Trail, OneMonth, Keys
  <2> QED
    BY <1>4, <1>5, <1>6, <2>1 DEF Trail, Distinct
<1>8. \A q, r \in T : Adjacent(b[q], b[r], U) <=> Adjacent(q, r, T)
  BY <1>4 DEF Adjacent, Keys
<1>9. ASSUME NEW q \in T, NEW r \in T, Adjacent(q, r, T)
      PROVE  b[r].previous_hash = b[q].event_hash
  <2>1. r.previous_hash = q.event_hash /\ q.occurred_at < r.occurred_at
    BY <1>9 DEF Linked, Adjacent
  <2>2. CASE r \notin F
    <3>1. q \notin F
      BY <1>2, <2>1, <2>2
    <3> QED
      BY <1>4, <2>1, <2>2, <3>1
  <2>3. CASE r = f
    <3>1. q \notin F /\ r \in F
      BY <1>2, <2>1, <2>3
    <3> QED
      BY <1>1, <1>4, <2>1, <2>3, <3>1
  <2>4. CASE r \in F /\ r # f
    <3>1. f.occurred_at < r.occurred_at
      BY <1>2, <2>4 DEF Trail, OneMonth
    <3>2. q = RowBefore(T, r) /\ q \in F
      BY <1>9, <3>1, Predecessor DEF F
    <3> QED
      BY <1>1, <1>4, <2>4, <3>2
  <2> QED
    BY <2>2, <2>3, <2>4
<1>10. Linked(U)
  BY <1>4, <1>8, <1>9 DEF Linked
<1>11. Rooted(U)
  <2> SUFFICES ASSUME NEW r \in T, \A q \in T : ~(b[q].occurred_at < b[r].occurred_at)
               PROVE  b[r].previous_hash = Null
    BY <1>4 DEF Rooted
  <2>1. \A q \in T : ~(q.occurred_at < r.occurred_at)
    BY <1>4 DEF Keys
  <2>2. r.previous_hash = Null /\ (r \in F => r = f)
    <3>1. r \in F => ~(f.occurred_at < r.occurred_at) /\ f.occurred_at <= r.occurred_at
      BY <1>2, <2>1
    <3> QED
      BY <1>2, <2>1, <3>1 DEF Rooted, Trail, OneMonth
  <2> QED
    BY <1>1, <1>4, <2>2
<1>12. ASSUME NEW r \in T, r.occurred_at < f.occurred_at PROVE r \in U
  BY <1>2, <1>4, <1>12
<1>13. ASSUME NEW r \in T, f.occurred_at <= r.occurred_at, NEW u \in U,
              u.event_id = r.event_id, u.event_hash = r.event_hash
       PROVE  FALSE
  <2>1. PICK q \in T : u = b[q]
    BY <1>4
  <2>2. q = r
    BY <1>4, <1>5, <1>13, <2>1 DEF Keys
  <2> QED
    BY <1>1, <1>2, <1>4, <1>13, <2>1, <2>2
<1>14. (\A u \in U : \E r \in T : Keys(u, r)) /\ \A r \in T : \E u \in U : Keys(u, r)
  BY <1>4
<1> QED
  BY <1>6, <1>7, <1>10, <1>11, <1>12, <1>13, <1>14 DEF U

\* A month rewritten and sealed again from a row on passes a verification without a
\* pause exactly if no two rows are visited out of place and no anchor is on that
\* row or on a later one.
THEOREM RewritesAreNoticed == AuditSpec => []RewriteNoticed
<1>1. ASSUME AuditInv, NEW f \in rows, NEW payload \in Forgeries \ {f.persona}
      PROVE  LET whole == RowsOf(rows, f.month)
                 S == (rows \ whole) \cup Rewritten(whole, f, payload) IN
               QuickCheck(S) <=>
                 /\ InWalkOrder(rows)
                 /\ ~\E a \in anchors : /\ a.partition_name = f.month
                                       /\ \E r \in FromOn(whole, f) : a.event_id = r.event_id
  <2> DEFINE T == RowsOf(rows, f.month)
             U == Rewritten(T, f, payload)
             S == (rows \ T) \cup U
             N == MaxRows + 1
             OnRewritten(a) == a.partition_name = f.month
                               /\ \E r \in FromOn(T, f) : a.event_id = r.event_id
  <2>1. Typed /\ RowsInv /\ AnchorInv
    BY <1>1 DEF AuditInv, RetentionInv
  <2>2. /\ \A k : Trail(RowsOf(rows, k)) /\ Distinct(rows)
        /\ \A k \in Months : Linked(RowsOf(rows, k)) /\ Rooted(RowsOf(rows, k))
        /\ f.month \in partitions /\ f.month \in Months
        /\ \A r \in rows : Sealed(r) /\ r.month \in Months
    BY <2>1, MonthTrail DEF RowsInv, EverLogged, Sealed
  <2>3. /\ f \in T /\ \A r \in rows : r \in T <=> r.month = f.month
        /\ T \subseteq rows
    BY DEF RowsOf
  <2>4. N \in Nat /\ \A r \in T : r.occurred_at < N
    BY <2>2, <2>3, RetentionAssumption DEF Sealed
  <2>5. payload \notin Rejected /\ payload # f.persona
    BY AnchorAssumption
  <2>6. Trail(T) /\ Linked(T) /\ Rooted(T) /\ \A r \in T : r.occurred_at \in Nat
    BY <2>2, <2>3, SealedKeys
  <2>7. \A r \in T : r \in FromOn(T, f) <=> f.occurred_at <= r.occurred_at
    BY DEF FromOn
  <2>8. FromOn(T, f) \subseteq T
    BY DEF FromOn
  <2> HIDE DEF T, N
  <2>9. /\ Trail(U) /\ Linked(U) /\ Rooted(U) /\ Cardinality(U) = Cardinality(T)
        /\ \A u \in U : \E r \in T : Keys(u, r)
        /\ \A r \in T : \E u \in U : Keys(u, r)
        /\ \A r \in T : r.occurred_at < f.occurred_at => r \in U
        /\ \A r \in T : f.occurred_at <= r.occurred_at =>
             ~ \E u \in U : u.event_id = r.event_id /\ u.event_hash = r.event_hash
    BY <2>3, <2>4, <2>5, <2>6, RewrittenIs
  <2> HIDE DEF U
  <2>10. RowsOf(S, f.month) = U /\ \A k : k # f.month => RowsOf(S, k) = RowsOf(rows, k)
    BY <2>3, <2>9 DEF RowsOf, Keys
  <2>11. Distinct(S)
    <3>1. \A q \in rows \ T, u \in U : q.event_id # u.event_id
      BY <2>2, <2>3, <2>9 DEF Distinct, Keys
    <3> QED
      BY <2>2, <2>9, <3>1 DEF Distinct, Trail
  <2>12. InWalkOrder(S) <=> InWalkOrder(rows)
    <3>1. \A s \in S : \E r \in rows : Keys(s, r)
      BY <2>3, <2>9 DEF Keys
    <3>2. \A r \in rows : \E s \in S : Keys(s, r)
      BY <2>3, <2>9 DEF Keys
    <3>3. \A q, r, s, t : Keys(s, q) /\ Keys(t, r) => (Crossed(s, t) <=> Crossed(q, r))
      BY DEF Keys, Crossed, Milli
    <3> HIDE DEF S
    <3> QED
      BY <3>1, <3>2, <3>3 DEF InWalkOrder
  <2> HIDE DEF S
  <2>13. \A k \in Months : /\ Trail(RowsOf(S, k))
                           /\ WalkLinked(RowsOf(S, k)) <=> InWalkOrder(RowsOf(S, k))
    <3> SUFFICES ASSUME NEW k \in Months
                 PROVE  /\ Trail(RowsOf(S, k))
                        /\ WalkLinked(RowsOf(S, k)) <=> InWalkOrder(RowsOf(S, k))
      OBVIOUS
    <3>1. Trail(RowsOf(S, k)) /\ Linked(RowsOf(S, k)) /\ Rooted(RowsOf(S, k))
      BY <2>2, <2>9, <2>10
    <3> QED
      BY <3>1, WalkLinkedIs
  <2>14. InWalkOrder(S) <=> \A k \in Months : InWalkOrder(RowsOf(S, k))
    <3>1. \A s \in S : s.month \in Months
      BY <2>2, <2>3, <2>9 DEF S, Keys
    <3> QED
      BY <3>1 DEF InWalkOrder, Crossed, RowsOf
  <2>15. QuickCheck(S) <=> InWalkOrder(rows) /\ AnchorsHold(S)
    <3>1. QuickCheck(S) <=> (\A k \in Months : WalkLinked(RowsOf(S, k))) /\ AnchorsHold(S)
      BY <2>1, <2>11, <2>13, QuickCheckIs DEF AnchorInv
    <3> QED
      BY <2>12, <2>13, <2>14, <3>1
  <2>16. ASSUME NEW a \in anchors, a.partition_name \in partitions
         PROVE  /\ ~(Cardinality(RowsOf(S, a.partition_name)) < a.event_count)
                /\ Anchored(a, S) <=> ~OnRewritten(a)
    <3> DEFINE k == a.partition_name
    <3>1. /\ IsAnchor(a) /\ Anchored(a, RowsOf(rows, k))
          /\ a.event_count <= Cardinality(RowsOf(rows, k)) /\ a.event_count \in Nat
      BY <2>1, <2>16 DEF AnchorInv, Honoured, IsAnchor
    <3>2. Cardinality(RowsOf(rows, k)) \in Nat
      BY <2>2, FS_CardinalityType DEF Trail
    <3>3. Cardinality(RowsOf(S, k)) = Cardinality(RowsOf(rows, k))
      BY <2>9, <2>10 DEF T
    <3>4. ~(Cardinality(RowsOf(S, k)) < a.event_count)
      BY <3>1, <3>2, <3>3
    <3>5. PICK r \in rows : r.event_id = a.event_id /\ r.event_hash = a.anchor_hash /\ r.month = k
      BY <3>1 DEF Anchored, RowsOf
    <3>6. CASE k # f.month
      BY <2>3, <3>4, <3>5, <3>6 DEF Anchored, S
    <3>7. CASE k = f.month /\ r.occurred_at < f.occurred_at
      <4>1. r \in T /\ r \in S
        BY <2>3, <2>9, <3>5, <3>7 DEF S
      <4>2. r \notin FromOn(T, f)
        BY <2>3, <2>6, <2>7, <3>7, <4>1
      <4>3. \A q \in T : q.event_id = a.event_id => q = r
        BY <2>2, <2>3, <3>5 DEF Distinct
      <4>4. ~OnRewritten(a)
        BY <2>8, <4>2, <4>3
      <4> QED
        BY <3>4, <3>5, <4>1, <4>4 DEF Anchored
    <3>8. CASE k = f.month /\ ~(r.occurred_at < f.occurred_at)
      <4>1. r \in T /\ f.occurred_at <= r.occurred_at
        BY <2>3, <2>6, <3>5, <3>8
      <4>2. OnRewritten(a)
        BY <2>7, <3>5, <3>8, <4>1
      <4>3. ASSUME NEW s \in S, s.event_id = a.event_id, s.event_hash = a.anchor_hash
            PROVE  FALSE
        <5>1. s \in U
          BY <2>2, <2>3, <3>5, <4>1, <4>3 DEF S, Distinct
        <5> QED
          BY <2>9, <3>5, <4>1, <4>3, <5>1
      <4> QED
        BY <3>4, <4>2, <4>3 DEF Anchored
    <3> QED
      BY <3>6, <3>7, <3>8
  <2>17. AnchorsHold(S) <=> ~\E a \in anchors : OnRewritten(a)
    BY <2>2, <2>16 DEF AnchorsHold
  <2> QED
    BY <2>15, <2>17 DEF S, U, T
<1>2. AuditInv => RewriteNoticed
  BY <1>1 DEF RewriteNoticed
<1> QED
  BY <1>2, AuditInvariant, PTL
=============================================================================
