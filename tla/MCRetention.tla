---------------------------- MODULE MCRetention ----------------------------
(***************************************************************************)
(* Retention on a small instance.  Two operators may name one partition or *)
(* two; a persona can be held directly or through its user.                *)
(***************************************************************************)
EXTENDS Retention

\* Milliseconds do not matter here.
OneMilli == [m \in Months |-> [k \in 1 .. MaxRows |-> 0]]
=============================================================================
