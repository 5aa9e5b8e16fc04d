------------------------------ MODULE MCTaskPool ------------------------------
(* Agents and capabilities for model checking module TaskPool: both agents  *)
(* can take the first task, only a1 the others.                             *)
EXTENDS TaskPool, TLC

CONSTANTS a1, a2, h1, h2

TwoAgents == {a1, a2}
Overlap == a1 :> TaskIds @@ a2 :> TaskIds \cap {1}

Symmetric == Permutations(Handlers)
===============================================================================
