----------------------------- MODULE MCWorkerQueue ----------------------------
(* Messages of each kind for model checking module WorkerQueue.             *)
EXTENDS WorkerQueue, TLC

CONSTANTS m1, m2, m3, m4

Kinds == m1 :> "good" @@ m2 :> "good" @@ m3 :> "stray" @@ m4 :> "malformed"
===============================================================================
