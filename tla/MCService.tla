----------------------------- MODULE MCService -----------------------------
(***************************************************************************)
(* A small server for TLC: CallCount calls, so that the pool can have      *)
(* fewer clients than there are calls in flight, and a connection can      *)
(* carry a second request after its first.                                 *)
(***************************************************************************)
EXTENDS Service

CONSTANT CallCount

CallNumbers == 1 .. CallCount
=============================================================================
