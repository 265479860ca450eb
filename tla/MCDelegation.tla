---------------------------- MODULE MCDelegation ----------------------------
(***************************************************************************)
(* Small instances of Delegation for TLC: two tokens of one assignment,    *)
(* one of which is issued later, and a token of another.                   *)
(***************************************************************************)
EXTENDS Delegation, TLC

CONSTANTS a1, a2, t1, t2, t3

Manage == "manage_personas"

FullScope == {Manage, "read"}
ScopeChoices == {{"read"}, {Manage, "read"}}

TokenAssignments == (t1 :> a1) @@ (t2 :> a1) @@ (t3 :> a2)
IssueTimes == (t1 :> 0) @@ (t2 :> 1) @@ (t3 :> 0)

Symmetry == Permutations(Calls) \cup Permutations(Ids \ Roots)
=============================================================================
