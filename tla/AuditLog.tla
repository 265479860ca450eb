------------------------------ MODULE AuditLog ------------------------------
(***************************************************************************)
(* What the audit trail promises, with no locks, transactions or clocks:   *)
(* one append-only log per month, each entry naming the entry before it.   *)
(***************************************************************************)
EXTENDS Naturals, Sequences

CONSTANTS Months, EventIds

VARIABLE log  \* log[m]: the entries of month m, oldest first

NoEntry == 0

Entry(i, prev) == [event_id |-> i, prev |-> prev]

Newest(s) == IF s = <<>> THEN NoEntry ELSE s[Len(s)].event_id

Logged == UNION {{log[m][k].event_id : k \in DOMAIN log[m]} : m \in Months}

Init == log = [m \in Months |-> <<>>]

Record(m, i) ==
  /\ i \notin Logged
  /\ log' = [log EXCEPT ![m] = Append(@, Entry(i, Newest(@)))]

Next == \E m \in Months, i \in EventIds : Record(m, i)

Spec == Init /\ [][Next]_log
=============================================================================
