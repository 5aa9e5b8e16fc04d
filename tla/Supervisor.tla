------------------------------ MODULE Supervisor ------------------------------
(***************************************************************************)
(* The supervisor's map of workers and the worker processes themselves.     *)
(* A process is                                                             *)
(*   boot   forked, its handler for SIGTERM not installed yet,              *)
(*   up     installed: at work or waiting in Worker.Start,                  *)
(*   deaf   got SIGTERM: its context is cancelled, but Start waits for      *)
(*          shutdownCh, which only the deferred Stop closes, so it stays,   *)
(*   dead   gone.                                                           *)
(* Every worker has a process group of its own and outlives the             *)
(* orchestrator.                                                            *)
(***************************************************************************)
EXTENDS Naturals, FiniteSets

CONSTANTS
    Instances,   \* bound on workflow instances ever created
    Pids,        \* bound on processes ever forked
    NoPid

ASSUME SupervisorAssumption == NoPid \notin Pids

VARIABLES
    workers,     \* s.workers: the process of each instance, or NoPid
    proc,        \* the processes
    monitored    \* those a goroutine of monitorWorker waits for

supervisorVars == <<workers, proc, monitored>>

(* `named' is whether tenant and definition id, two of its arguments, are   *)
(* both given.                                                              *)
Processes == [state : {"free", "boot", "up", "deaf", "dead"},
              inst : Instances, named : BOOLEAN]

SupervisorTypeOK ==
    /\ workers \in [Instances -> Pids \cup {NoPid}]
    /\ proc \in [Pids -> Processes]
    /\ monitored \subseteq Pids

NewSupervisor ==
    /\ workers = [i \in Instances |-> NoPid]
    /\ monitored = {}

SupervisorInit ==
    /\ NewSupervisor
    /\ \E i \in Instances :
         proc = [p \in Pids |-> [state |-> "free", inst |-> i, named |-> FALSE]]

Alive(p) == proc[p].state \in {"boot", "up", "deaf"}

-------------------------------------------------------------------------------
(* Operations of the supervisor.                                            *)

\* The map has no entry and the fork succeeds.
StartWorker(i, named) ==
    /\ workers[i] = NoPid
    /\ \E p \in Pids :
         /\ proc[p].state = "free"
         /\ proc' = [proc EXCEPT ![p] = [state |-> "boot", inst |-> i, named |-> named]]
         /\ workers' = [workers EXCEPT ![i] = p]
         /\ monitored' = monitored \cup {p}

\* The entry exists, or the binary cannot be started.
StartWorkerFails == UNCHANGED supervisorVars

(* StopWorker: the entry is taken out under the lock, ...                   *)
TakeEntry(i) ==
    /\ workers[i] # NoPid
    /\ workers' = [workers EXCEPT ![i] = NoPid]
    /\ UNCHANGED <<proc, monitored>>

\* SIGTERM ends a process that has not installed its handler.
Terminated(r) ==
    [r EXCEPT !.state = IF r.state = "boot" THEN "dead"
                        ELSE IF r.state = "up" THEN "deaf" ELSE r.state]

\* ... SIGTERM is sent, ...
Terminate(p) ==
    /\ proc' = [proc EXCEPT ![p] = Terminated(proc[p])]
    /\ UNCHANGED <<workers, monitored>>

\* A seeded bug: the wait ends and nobody is killed.
GiveUp(p) == UNCHANGED supervisorVars

(* ... and after ten seconds SIGKILL, for which nobody waits: the process   *)
(* executes nothing more of its own from then on, and monitorWorker reaps   *)
(* it in a later step.                                                      *)
ForceKill(p) ==
    /\ proc' = [proc EXCEPT ![p].state = "dead"]
    /\ UNCHANGED <<workers, monitored>>

\* A seeded bug: the map is emptied and no signal sent.
StopAllForgets == workers' = [i \in Instances |-> NoPid] /\ UNCHANGED <<proc, monitored>>

\* SIGTERM to every worker of the map, which is then empty; nobody waits.
StopAll ==
    /\ proc' = [p \in Pids |-> IF \E i \in Instances : workers[i] = p
                               THEN Terminated(proc[p]) ELSE proc[p]]
    /\ workers' = [i \in Instances |-> NoPid]
    /\ UNCHANGED monitored

\* A seeded bug: a worker that exits normally keeps its entry.
MonitorWorkerKeeps(p) ==
    /\ p \in monitored
    /\ proc[p].state = "dead"
    /\ monitored' = monitored \ {p}
    /\ UNCHANGED <<workers, proc>>

(* monitorWorker: Wait returns; an entry of the instance is removed, and no *)
(* worker is started in its place.                                          *)
MonitorWorker(p) ==
    /\ p \in monitored
    /\ proc[p].state = "dead"
    /\ monitored' = monitored \ {p}
    /\ workers' = [workers EXCEPT ![proc[p].inst] = NoPid]
    /\ UNCHANGED proc

-------------------------------------------------------------------------------
(* The life of a worker process.                                            *)

\* New succeeded and signal.Notify was called.
WorkerReady(p) ==
    /\ proc[p].state = "boot"
    /\ proc[p].named
    /\ proc' = [proc EXCEPT ![p].state = "up"]
    /\ UNCHANGED <<workers, monitored>>

\* log.Fatal for a missing argument, a failed New or Consume, or a crash.
WorkerExits(p) ==
    /\ Alive(p)
    /\ proc' = [proc EXCEPT ![p].state = "dead"]
    /\ UNCHANGED <<workers, monitored>>
===============================================================================
