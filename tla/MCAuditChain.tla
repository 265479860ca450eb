---------------------------- MODULE MCAuditChain ----------------------------
(***************************************************************************)
(* Small instances of AuditChain for TLC.  A month is a few microseconds   *)
(* long, so that its last microsecond, the floor and the cap, a rollover   *)
(* during a lock wait and a clock step all happen.                         *)
(***************************************************************************)
EXTENDS AuditChain, TLC

CONSTANT MonthLengths  \* MonthLengths[m]: how many instants month m has

LongerMonth == <<3, 2>>

\* Months are numbered from 1; month m's first instant.
Start(lengths, m) == IF m = 1 THEN 0 ELSE lengths[1]

AllMonths == DOMAIN MonthLengths

Ends == [m \in AllMonths |-> Start(MonthLengths, m) + MonthLengths[m] - 1]

AllInstants == 0 .. Ends[Cardinality(AllMonths)]

MonthTable == [t \in AllInstants |-> IF t <= Ends[1] THEN 1 ELSE 2]

\* Two microseconds of the model make one millisecond; rendering knows no last instant.
MilliTable == [t \in 0 .. Ends[Cardinality(AllMonths)] + 1 |-> t \div 2]

\* Writers are interchangeable.
WriterSymmetry == Permutations(Writers)
=============================================================================
