----------------------------- MODULE PublicServer -----------------------------
(***************************************************************************)
(* The orchestrator process around its supervisor: the calls of the public  *)
(* service that start and end instances, the start-up with its recovery,    *)
(* the shutdown and crashes.                                                *)
(*                                                                         *)
(* A handler runs one call; each database statement and each operation of   *)
(* the supervisor is a step.  The context of a call ends when its deadline  *)
(* passes or its client goes away; a statement fails from then on.          *)
(***************************************************************************)
EXTENDS Supervisor

CONSTANTS
    Handlers,    \* bound on calls in progress
    MaxBoots     \* bound on starts of the orchestrator

ASSUME BootAssumption == MaxBoots \in Nat

VARIABLES
    status,      \* workflow_instances.status, "NONE" before the row exists
    named,       \* whether tenant and workflow_definition_id of the row are given
    h,           \* the handlers
    orch,        \* the orchestrator process
    todo,        \* instances the start-up has still to recover
    agent,       \* whether an agent holds a Connect or WatchTask stream open
    canceled,    \* instances whose CancelWorkflow was answered with Accepted
    boots

processVars == <<orch, todo, agent, boots>>
vars == <<supervisorVars, status, named, h, processVars, canceled>>

Statuses == {"NONE", "RUNNING", "DEGRADED", "COMPLETED", "FAILED",
             "CANCELED", "STOPPED", "ARCHIVED"}

-------------------------------------------------------------------------------
(* Messages.  A string is given or empty; the idempotency key, the input    *)
(* and the scheduled time of a start are read by no code and left out.      *)

StartWorkflowRequest == [workflow_definition_id : {"def", "anonymous"}, tenant : {"tenant", ""}]

DeployWorkflowRequest == [workflow_definition_id : {"def", "anonymous"}]

CancelWorkflowRequest == [workflow_instance_id : Instances]

StopInstanceRequest == [id : Instances, archive : BOOLEAN]

\* The definition's own id, which the YAML of an anonymous one does not give.
DefinitionNamed(req) == req.workflow_definition_id # "anonymous"

-------------------------------------------------------------------------------

Calls == [pc : {"idle", "append", "fork", "degrade", "terminate", "wait", "update"},
          inst : Instances, pid : Pids \cup {NoPid},
          becomes : {"RUNNING", "CANCELED", "STOPPED", "ARCHIVED"}, ctx : BOOLEAN]

\* The type invariant.
TypeOK ==
    /\ SupervisorTypeOK
    /\ status \in [Instances -> Statuses]
    /\ named \in [Instances -> BOOLEAN]
    /\ h \in [Handlers -> Calls]
    /\ orch \in {"down", "recovering", "up", "stopping", "draining"}
    /\ todo \subseteq Instances
    /\ agent \in BOOLEAN
    /\ canceled \subseteq Instances
    /\ boots \in 0 .. MaxBoots

IdleCall == [pc |-> "idle", inst |-> CHOOSE i \in Instances : TRUE, pid |-> NoPid,
             becomes |-> "RUNNING", ctx |-> TRUE]

Init ==
    /\ SupervisorInit
    /\ status = [i \in Instances |-> "NONE"]
    /\ named = [i \in Instances |-> FALSE]
    /\ h = [c \in Handlers |-> IdleCall]
    /\ orch = "down" /\ todo = {} /\ agent = FALSE /\ boots = 0
    /\ canceled = {}

At(c, pc) == h[c].pc = pc

Goto(c, pc) == h' = [h EXCEPT ![c].pc = pc]

\* The handler returns, with a result or an error.
Return(c) == h' = [h EXCEPT ![c] = IdleCall]

Serving == orch \in {"up", "stopping"}

\* The gRPC server decodes a request and runs its handler.
Handle(c, pc, i, pid, becomes) ==
    /\ Serving
    /\ At(c, "idle")
    /\ h' = [h EXCEPT ![c] = [pc |-> pc, inst |-> i, pid |-> pid,
                              becomes |-> becomes, ctx |-> TRUE]]

\* The client's deadline passes, or it goes away.
ContextEnds(c) ==
    /\ ~At(c, "idle")
    /\ h' = [h EXCEPT ![c].ctx = FALSE]
    /\ UNCHANGED <<supervisorVars, status, named, processVars, canceled>>

-------------------------------------------------------------------------------
(* StartWorkflow and DeployWorkflow.                                        *)

CreateInstance(c, i, isNamed) ==
    /\ status[i] = "NONE"
    /\ Handle(c, "append", i, NoPid, "RUNNING")
    /\ status' = [status EXCEPT ![i] = "RUNNING"]
    /\ named' = [named EXCEPT ![i] = isNamed]
    /\ UNCHANGED <<supervisorVars, processVars, canceled>>

StartWorkflow(c, i, req) == CreateInstance(c, i, DefinitionNamed(req) /\ req.tenant # "")

\* The registry returns definitions without a tenant.
DeployWorkflow(c, i, req) == CreateInstance(c, i, FALSE)

(* The append of WorkflowStarted fails without a context and when a signal  *)
(* came first; the row stays RUNNING.                                       *)
AppendStarted(c) ==
    /\ At(c, "append")
    /\ (h[c].ctx /\ Goto(c, "fork")) \/ Return(c)
    /\ UNCHANGED <<supervisorVars, status, named, processVars, canceled>>

ForkWorker(c) ==
    /\ At(c, "fork")
    /\ \/ StartWorker(h[c].inst, named[h[c].inst]) /\ Return(c)
       \/ StartWorkerFails /\ Goto(c, "degrade")
    /\ UNCHANGED <<status, named, processVars, canceled>>

\* A seeded bug: a status no reader knows.
UpdatedMisspelt(c, s) ==
    IF h[c].ctx /\ status[h[c].inst] # "NONE"
    THEN [status EXCEPT ![h[c].inst] = "CANCELLED"] ELSE status

\* UPDATE ... SET status finds the row of an instance that exists.
Updated(c, s) ==
    IF h[c].ctx /\ status[h[c].inst] # "NONE" THEN [status EXCEPT ![h[c].inst] = s] ELSE status

MarkDegraded(c) ==
    /\ At(c, "degrade")
    /\ status' = Updated(c, "DEGRADED")
    /\ Return(c)
    /\ UNCHANGED <<supervisorVars, named, processVars, canceled>>

-------------------------------------------------------------------------------
(* CancelWorkflow and StopInstance.                                         *)

\* Without an entry the call fails before it changed anything.
CancelWorkflow(c, req) ==
    LET i == req.workflow_instance_id
    IN /\ TakeEntry(i)
       /\ Handle(c, "terminate", i, workers[i], "CANCELED")
       /\ UNCHANGED <<status, named, processVars, canceled>>

\* Without an entry the status is written all the same.
StopInstance(c, req) ==
    LET s == IF req.archive THEN "ARCHIVED" ELSE "STOPPED"
    IN /\ \/ TakeEntry(req.id) /\ Handle(c, "terminate", req.id, workers[req.id], s)
          \/ /\ workers[req.id] = NoPid
             /\ Handle(c, "update", req.id, NoPid, s)
             /\ UNCHANGED supervisorVars
       /\ UNCHANGED <<status, named, processVars, canceled>>

SendTerm(c) ==
    /\ At(c, "terminate")
    /\ Terminate(h[c].pid)
    /\ Goto(c, "wait")
    /\ UNCHANGED <<status, named, processVars, canceled>>

AwaitExit(c) ==
    /\ At(c, "wait")
    /\ proc[h[c].pid].state = "dead"
    /\ Goto(c, "update")
    /\ UNCHANGED <<supervisorVars, status, named, processVars, canceled>>

\* A seeded bug: the wait has no limit.
AwaitForEver(c) == AwaitExit(c)

TenSecondsPass(c) ==
    /\ At(c, "wait")
    /\ ForceKill(h[c].pid)
    /\ Goto(c, "update")
    /\ UNCHANGED <<status, named, processVars, canceled>>

\* An UPDATE that finds no row is not an error.
WriteFinalStatus(c) ==
    /\ At(c, "update")
    /\ status' = Updated(c, h[c].becomes)
    /\ canceled' = IF h[c].ctx /\ h[c].becomes = "CANCELED"
                   THEN canceled \cup {h[c].inst} ELSE canceled
    /\ Return(c)
    /\ UNCHANGED <<supervisorVars, named, processVars>>

\* A goroutine of the engine, here or in a worker, ends the instance.
EngineEnds(i) ==
    /\ status[i] # "NONE"
    /\ orch # "down" \/ \E p \in Pids : proc[p].inst = i /\ proc[p].state \in {"up", "deaf"}
    /\ \E s \in {"COMPLETED", "FAILED"} : status' = [status EXCEPT ![i] = s]
    /\ UNCHANGED <<supervisorVars, named, h, processVars, canceled>>

-------------------------------------------------------------------------------
(* The orchestrator process.                                                *)

\* Agents open and close streams.
Connect ==
    /\ Serving
    /\ agent' = TRUE
    /\ UNCHANGED <<supervisorVars, status, named, h, orch, todo, boots, canceled>>

Disconnect ==
    /\ agent' = FALSE
    /\ UNCHANGED <<supervisorVars, status, named, h, orch, todo, boots, canceled>>

(* A new process, with an empty map; ListActiveInstances, or a warning that *)
(* it failed.                                                               *)
Boot ==
    /\ orch = "down"
    /\ boots < MaxBoots /\ boots' = boots + 1
    /\ orch' = "recovering"
    /\ todo' \in {{}, {i \in Instances : status[i] = "RUNNING"}}
    /\ UNCHANGED <<supervisorVars, status, named, h, agent, canceled>>

Recover(i) ==
    /\ orch = "recovering"
    /\ i \in todo
    /\ todo' = todo \ {i}
    /\ StartWorker(i, named[i]) \/ StartWorkerFails
    /\ UNCHANGED <<status, named, h, orch, agent, boots, canceled>>

Serve ==
    /\ orch = "recovering"
    /\ todo = {}
    /\ orch' = "up"
    /\ UNCHANGED <<supervisorVars, status, named, h, todo, agent, boots, canceled>>

\* SIGTERM or SIGINT: StopAll while calls are still accepted, ...
Shutdown ==
    /\ orch = "up"
    /\ StopAll
    /\ orch' = "stopping"
    /\ UNCHANGED <<status, named, h, todo, agent, boots, canceled>>

\* ... then GracefulStop, which refuses new calls ...
GracefulStop ==
    /\ orch = "stopping"
    /\ orch' = "draining"
    /\ UNCHANGED <<supervisorVars, status, named, h, todo, agent, boots, canceled>>

\* The process is gone, with its map, its goroutines and its calls.
Gone ==
    /\ orch' = "down"
    /\ todo' = {} /\ agent' = FALSE
    /\ h' = [c \in Handlers |-> IdleCall]
    /\ workers' = [i \in Instances |-> NoPid]
    /\ monitored' = {}
    /\ UNCHANGED <<proc, status, named, boots, canceled>>

\* ... and waits for every call and stream in progress.
Exit ==
    /\ orch = "draining"
    /\ \A c \in Handlers : At(c, "idle")
    /\ ~agent
    /\ Gone

Crash == orch # "down" /\ Gone

-------------------------------------------------------------------------------

\* A step of a call in progress.
Step(c) ==
    \/ AppendStarted(c) \/ ForkWorker(c) \/ MarkDegraded(c)
    \/ SendTerm(c) \/ AwaitExit(c) \/ TenSecondsPass(c) \/ WriteFinalStatus(c)

NewCall(c) ==
    \/ \E i \in Instances :
         \/ \E req \in StartWorkflowRequest : StartWorkflow(c, i, req)
         \/ \E req \in DeployWorkflowRequest : DeployWorkflow(c, i, req)
    \/ \E req \in CancelWorkflowRequest : CancelWorkflow(c, req)
    \/ \E req \in StopInstanceRequest : StopInstance(c, req)

WorkerStep(p) ==
    \/ WorkerReady(p) /\ UNCHANGED <<status, named, h, processVars, canceled>>
    \/ WorkerExits(p) /\ UNCHANGED <<status, named, h, processVars, canceled>>

Monitor(p) == MonitorWorker(p) /\ UNCHANGED <<status, named, h, processVars, canceled>>

Next ==
    \/ \E c \in Handlers : NewCall(c) \/ Step(c) \/ ContextEnds(c)
    \/ \E p \in Pids : WorkerStep(p) \/ Monitor(p)
    \/ \E i \in Instances : EngineEnds(i) \/ Recover(i)
    \/ Connect \/ Disconnect
    \/ Boot \/ Serve \/ Shutdown \/ GracefulStop \/ Exit \/ Crash

Spec == Init /\ [][Next]_vars

(* Goroutines are scheduled and statements return; a timeout passes.        *)
Fairness ==
    /\ \A c \in Handlers : WF_vars(Step(c))
    /\ \A p \in Pids : WF_vars(Monitor(p))
    /\ \A i \in Instances : WF_vars(Recover(i))
    /\ WF_vars(Serve) /\ WF_vars(GracefulStop) /\ WF_vars(Exit)

FairSpec == Spec /\ Fairness

-------------------------------------------------------------------------------
(* No worker escapes: a running process that this orchestrator forked and   *)
(* did not signal is in the map, where StopWorker and StopAll find it, or   *)
(* in the hands of a StopWorker about to signal it.  monitorWorker removes  *)
(* whatever entry its instance has, so this needs that no instance gets a   *)
(* second worker from the same orchestrator.                                *)
NoWorkerEscapes ==
    \A p \in monitored :
        proc[p].state \in {"boot", "up"} =>
            \/ workers[proc[p].inst] = p
            \/ \E c \in Handlers : At(c, "terminate") /\ h[c].pid = p

(* An accepted cancellation is effective: no process of the instance that   *)
(* this orchestrator forked is alive, and no later start-up recovers it.    *)
CancelEffective ==
    \A i \in canceled :
        /\ status[i] # "RUNNING"
        /\ i \notin todo
        /\ \A p \in monitored : proc[p].inst = i => ~Alive(p)

(* A shutdown ends once the agents have hung up, whatever calls it finds    *)
(* and however deaf their workers are to SIGTERM.                           *)
ShutdownEnds == <>[]~agent => (orch = "stopping" ~> orch = "down")

(* The entry of a worker that died does not stay in the map.                *)
DeadEntryRemoved ==
    \A i \in Instances, p \in Pids :
        (workers[i] = p /\ proc[p].state = "dead") ~> (workers[i] # p)
===============================================================================
