---------------------------- MODULE MCDispatcher ----------------------------
(***************************************************************************)
(* Small instances of Dispatcher for TLC: a persona that may revoke and    *)
(* outlives the run, and one that expires at AgentUntil.                   *)
(***************************************************************************)
EXTENDS Dispatcher, TLC

CONSTANTS admin, agent, AgentUntil

Expiry == [p \in Personas |-> IF p = agent THEN AgentUntil ELSE MaxTime]

CallSymmetry == Permutations(Calls)
=============================================================================
