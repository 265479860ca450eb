---------------------------- MODULE MCAuditTrail ----------------------------
(***************************************************************************)
(* AuditTrail on months as small as MCAuditChain's: three writers are a    *)
(* holder, a waiter and a newcomer.                                        *)
(***************************************************************************)
EXTENDS AuditTrail, MCAuditChain

TwoMonths == <<4, 2>>
LongMonths == <<6, 2>>

\* The first two instants have a millisecond each; then two share one.
Millis == [t \in 0 .. Ends[2] + 1 |-> IF t < 2 THEN t ELSE 1 + t \div 2]
=============================================================================
