--------------------------- MODULE MCAnchorAudit ---------------------------
(***************************************************************************)
(* AnchorAudit on a small instance: enough rows for a head, a middle and a *)
(* tail, and one retirement to race the verifier.                          *)
(***************************************************************************)
EXTENDS AnchorAudit, TLC

CONSTANTS m1, m2

\* Two rows share a millisecond: the first two of m1, the last two of m2.
SharedMillis == (m1 :> <<0, 0, 1>>) @@ (m2 :> <<0, 1, 1>>)
=============================================================================
