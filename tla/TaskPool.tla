------------------------------- MODULE TaskPool -------------------------------
(***************************************************************************)
(* The tasks table as agents see it through the Orchestrator service: tasks *)
(* are handed out (PollTask, Connect, ClaimTask), given back (ReleaseTask,  *)
(* ReassignTask) and resolved (CompleteTask, FailTask, SubmitTaskResult,    *)
(* SubmitTaskFailure), with an audit log written by some of these calls     *)
(* and streamed by WatchTask.                                               *)
(*                                                                         *)
(* A handler runs one call; each of its database statements is a step.      *)
(* What the client knows is part of the state: `hands' holds <<agent, task>> *)
(* while that agent believes the task to be its own.  A reply can be lost.  *)
(* Deadlines are stored but no code reads them back, so of a deadline only  *)
(* its origin is kept: the assignment's own, or asked for by a client.      *)
(***************************************************************************)
EXTENDS Integers, Sequences, FiniteSets

CONSTANTS
    Agents,
    Nobody,      \* the NULL of assigned_agent_id and of output
    MaxTasks,    \* bound on tasks; tasks are numbered by created_at
    Matching,    \* tasks whose capabilities overlap an agent's
    Handlers,    \* bound on calls in progress
    MaxCalls,    \* bound on calls that write the audit log
    Ops          \* the calls that clients of this instance make

TaskIds == 1 .. MaxTasks

AllOps == {"poll", "connect", "claim", "release", "complete", "fail", "submit",
           "submitFailure", "stream", "progress", "reassign", "extend", "listMine",
           "watch", "crash"}

ASSUME PoolAssumption ==
    /\ Nobody \notin Agents
    /\ MaxTasks \in Nat
    /\ Matching \in [Agents -> SUBSET TaskIds]
    /\ MaxCalls \in Nat
    /\ Ops \subseteq AllOps

VARIABLES
    row,       \* the tasks table
    audit,     \* the task_audit_log of each task
    h,         \* the handlers
    watcher,   \* one WatchTask stream per task
    hands,     \* who believes to hold which task
    calls

vars == <<row, audit, h, watcher, hands, calls>>

Rows == [status : {"NONE", "PENDING", "ASSIGNED", "COMPLETED", "FAILED"},
         agent : Agents \cup {Nobody}, deadline : {"none", "set", "asked"},
         output : Agents \cup {Nobody}]

AuditTypes == {"CLAIMED", "RELEASED", "PROGRESS", "COMPLETED", "FAILED", "REASSIGNED"}

Calls == [pc : {"idle", "assign", "audit", "reply"}, agent : Agents \cup {Nobody},
          task : 0 .. MaxTasks, entry : AuditTypes \cup {"none"}]

IdleCall == [pc |-> "idle", agent |-> Nobody, task |-> 0, entry |-> "none"]

\* The type invariant.
TypeOK ==
    /\ row \in [TaskIds -> Rows]
    /\ audit \in [TaskIds -> Seq(AuditTypes)]
    /\ h \in [Handlers -> Calls]
    /\ watcher \in [TaskIds -> [pc : {"off", "read", "check", "ended"}, seen : Nat]]
    /\ hands \subseteq Agents \X TaskIds
    /\ calls \in 0 .. MaxCalls

Init ==
    /\ row = [t \in TaskIds |-> [status |-> "NONE", agent |-> Nobody,
                                 deadline |-> "none", output |-> Nobody]]
    /\ audit = [t \in TaskIds |-> << >>]
    /\ h = [p \in Handlers |-> IdleCall]
    /\ watcher = [t \in TaskIds |-> [pc |-> "off", seen |-> 0]]
    /\ hands = {}
    /\ calls = 0

-------------------------------------------------------------------------------
(* Messages.  A result is named for the agent who computed it, capabilities *)
(* for the tasks they overlap (all of them where none are given).  Reasons, *)
(* texts, labels, tenants, `retryable' and `max_concurrent_tasks' are read  *)
(* by no code that decides anything.                                        *)

PollTaskRequest == [agent_id : Agents]
RegisterAgent == {[agent_id |-> a, capabilities |-> Matching[a]] : a \in Agents}
TaskResult == [task_id : TaskIds, outcome : {"success", "error"}]
TaskAssignment == [task_id : TaskIds]
ClaimTaskRequest == [task_id : TaskIds, agent_id : Agents]
ReleaseTaskRequest == [task_id : TaskIds, agent_id : Agents]
CompleteTaskRequest == [task_id : TaskIds, result : Agents]
FailTaskRequest == [task_id : TaskIds]
TaskEvidence == [data : Agents]
SubmitTaskResultRequest == [task_id : TaskIds, agent_id : Agents, evidence : TaskEvidence]
SubmitTaskFailureRequest == [task_id : TaskIds, agent_id : Agents]
UpdateTaskProgressRequest == [task_id : TaskIds, agent_id : Agents]
ReassignTaskRequest ==
    [task_id : TaskIds, from_agent_id : Agents, to_agent_id : Agents \cup {Nobody}]
ExtendTaskLeaseRequest == [task_id : TaskIds]
ListMyTasksRequest == [agent_id : Agents]
WatchTaskRequest == [task_id : TaskIds]
TaskStatusEvent == [task_id : TaskIds, status : AuditTypes]

-------------------------------------------------------------------------------
(* The statements on the tasks table.                                       *)

Assigned(t, a) == [row EXCEPT ![t] = [@ EXCEPT !.status = "ASSIGNED", !.agent = a,
                                               !.deadline = "set"]]

\* Seeded bugs: only the status is reset; the whole row is reset.
UnassignedStatusOnly(t) == [row EXCEPT ![t].status = "PENDING"]

UnassignedWholeRow(t) == [row EXCEPT ![t] = [status |-> "PENDING", agent |-> Nobody,
                                             deadline |-> "none", output |-> Nobody]]

Unassigned(t) == [row EXCEPT ![t] = [@ EXCEPT !.status = "PENDING", !.agent = Nobody,
                                              !.deadline = "none"]]

Completed(t, a) == [row EXCEPT ![t] = [@ EXCEPT !.status = "COMPLETED", !.output = a]]

\* A seeded bug: a status no reader knows.
FailedMisspelt(t) == [row EXCEPT ![t].status = "FAILURE"]

Failed(t) == [row EXCEPT ![t].status = "FAILED"]

Pending == {t \in TaskIds : row[t].status = "PENDING"}

Holds(a, t) == <<a, t>> \in hands

-------------------------------------------------------------------------------
(* Calls.                                                                   *)

Begin(p, pc, a, t, entry) ==
    /\ h[p].pc = "idle"
    /\ h' = [h EXCEPT ![p] = [pc |-> pc, agent |-> a, task |-> t, entry |-> entry]]

\* A call that goes on to AppendTaskAudit.
BeginAudited(p, a, t, entry) ==
    /\ Begin(p, "audit", a, t, entry)
    /\ calls < MaxCalls /\ calls' = calls + 1

End(p) == h' = [h EXCEPT ![p] = IdleCall]

\* The reply tells the agent to stop working on t, or is lost.
LetGo(a, t) == hands' \in {hands, hands \ {<<a, t>>}}

\* The engine inserts tasks in the order of their numbers.
CreateTask(t) ==
    /\ row[t].status = "NONE"
    /\ \A u \in TaskIds : u < t => row[u].status # "NONE"
    /\ row' = [row EXCEPT ![t].status = "PENDING"]
    /\ UNCHANGED <<audit, h, watcher, hands, calls>>

(* ClaimPendingTask reads the oldest pending task (PollTask passes no       *)
(* capabilities, Connect the agent's), ...                                  *)
GetPendingTasks(p, a, op, candidates) ==
    /\ op \in Ops
    /\ \E t \in candidates : /\ \A u \in candidates : t <= u
                             /\ Begin(p, "assign", a, t, "none")
    /\ UNCHANGED <<row, audit, watcher, hands, calls>>

\* A seeded bug: the UPDATE does not ask for status = 'PENDING'.
AssignTaskAnyStatus(p) ==
    /\ h[p].pc = "assign"
    /\ row' = Assigned(h[p].task, h[p].agent)
    /\ h' = [h EXCEPT ![p].pc = "reply"]
    /\ UNCHANGED <<audit, watcher, hands, calls>>

(* ... assigns it in a second statement, whose row count nobody looks at,   *)
(* and hands out the task it read in any case.                              *)
AssignTask(p) ==
    /\ h[p].pc = "assign"
    /\ row' = IF h[p].task \in Pending THEN Assigned(h[p].task, h[p].agent) ELSE row
    /\ h' = [h EXCEPT ![p].pc = "reply"]
    /\ UNCHANGED <<audit, watcher, hands, calls>>

\* The assignment arrives, or the connection is gone and nothing is undone.
Reply(p) ==
    /\ h[p].pc = "reply"
    /\ \E assignment \in TaskAssignment :
         /\ assignment.task_id = h[p].task
         /\ hands' \in {hands, hands \cup {<<h[p].agent, assignment.task_id>>}}
    /\ End(p)
    /\ UNCHANGED <<row, audit, watcher, calls>>

ClaimTask(p, req) ==
    /\ "claim" \in Ops
    /\ req.task_id \in Pending
    /\ row' = Assigned(req.task_id, req.agent_id)
    /\ BeginAudited(p, req.agent_id, req.task_id, "CLAIMED")
    /\ UNCHANGED <<audit, watcher, hands>>

ReleaseTask(p, req) ==
    /\ "release" \in Ops
    /\ row[req.task_id].agent = req.agent_id /\ row[req.task_id].status = "ASSIGNED"
    /\ row' = Unassigned(req.task_id)
    /\ LetGo(req.agent_id, req.task_id)
    /\ BeginAudited(p, req.agent_id, req.task_id, "RELEASED")
    /\ UNCHANGED <<audit, watcher>>

(* Results come from agents who believe to hold the task.  Neither the row's *)
(* agent nor its status is looked at.                                       *)
CompleteTask(a, req) ==
    /\ "complete" \in Ops
    /\ Holds(a, req.task_id) /\ req.result = a
    /\ row' = Completed(req.task_id, req.result)
    /\ LetGo(a, req.task_id)
    /\ UNCHANGED <<audit, h, watcher, calls>>

FailTask(a, req) ==
    /\ "fail" \in Ops
    /\ Holds(a, req.task_id)
    /\ row' = Failed(req.task_id)
    /\ LetGo(a, req.task_id)
    /\ UNCHANGED <<audit, h, watcher, calls>>

\* A result on the stream of Connect; nothing is sent back.
StreamResult(a, msg) ==
    /\ "stream" \in Ops
    /\ Holds(a, msg.task_id)
    /\ row' = IF msg.outcome = "success" THEN Completed(msg.task_id, a) ELSE Failed(msg.task_id)
    /\ hands' = hands \ {<<a, msg.task_id>>}
    /\ UNCHANGED <<audit, h, watcher, calls>>

SubmitTaskResult(p, req) ==
    /\ "submit" \in Ops
    /\ Holds(req.agent_id, req.task_id) /\ req.evidence.data = req.agent_id
    /\ row' = Completed(req.task_id, req.evidence.data)
    /\ LetGo(req.agent_id, req.task_id)
    /\ BeginAudited(p, req.agent_id, req.task_id, "COMPLETED")
    /\ UNCHANGED <<audit, watcher>>

SubmitTaskFailure(p, req) ==
    /\ "submitFailure" \in Ops
    /\ Holds(req.agent_id, req.task_id)
    /\ row' = Failed(req.task_id)
    /\ LetGo(req.agent_id, req.task_id)
    /\ BeginAudited(p, req.agent_id, req.task_id, "FAILED")
    /\ UNCHANGED <<audit, watcher>>

UpdateTaskProgress(p, req) ==
    /\ "progress" \in Ops
    /\ Holds(req.agent_id, req.task_id)
    /\ BeginAudited(p, req.agent_id, req.task_id, "PROGRESS")
    /\ UNCHANGED <<row, audit, watcher, hands>>

(* An operator moves a task from the agent its row names to another one, or *)
(* back to the pool; the status is not looked at.                           *)
ReassignTask(p, req) ==
    /\ "reassign" \in Ops
    /\ row[req.task_id].agent = req.from_agent_id
    /\ row' = IF req.to_agent_id = Nobody THEN Unassigned(req.task_id)
              ELSE [row EXCEPT ![req.task_id].agent = req.to_agent_id]
    /\ BeginAudited(p, req.from_agent_id, req.task_id, "REASSIGNED")
    /\ UNCHANGED <<audit, watcher, hands>>

(* Whoever asks: the request does not name the agent.  The new deadline is  *)
(* not compared with the old one, so it may just as well be an earlier one. *)
ExtendTaskLease(req) ==
    /\ "extend" \in Ops
    /\ row[req.task_id].status = "ASSIGNED"
    /\ row' = [row EXCEPT ![req.task_id].deadline = "asked"]
    /\ UNCHANGED <<audit, h, watcher, hands, calls>>

\* An agent finds out which tasks are assigned to it.
ListMyTasks(req) ==
    /\ "listMine" \in Ops
    /\ hands' = hands \cup
          {<<req.agent_id, t>> : t \in {u \in TaskIds : row[u].agent = req.agent_id
                                                      /\ row[u].status = "ASSIGNED"}}
    /\ UNCHANGED <<row, audit, h, watcher, calls>>

\* The error of AppendTaskAudit is dropped; only ClaimTask has more to say.
AppendTaskAudit(p) ==
    /\ h[p].pc = "audit"
    /\ audit' \in {audit, [audit EXCEPT ![h[p].task] = Append(@, h[p].entry)]}
    /\ IF h[p].entry = "CLAIMED" THEN h' = [h EXCEPT ![p].pc = "reply"] ELSE End(p)
    /\ UNCHANGED <<row, watcher, hands, calls>>

-------------------------------------------------------------------------------
(* WatchTask: send the audit entries not sent yet, then stop if the task is *)
(* resolved, else start over after two seconds.                             *)

Watch(req) ==
    /\ "watch" \in Ops
    /\ watcher[req.task_id].pc = "off"
    /\ row[req.task_id].status # "NONE"
    /\ watcher' = [watcher EXCEPT ![req.task_id].pc = "read"]
    /\ UNCHANGED <<row, audit, h, hands, calls>>

WatchSend(t) ==
    /\ watcher[t].pc = "read"
    /\ watcher' = [watcher EXCEPT ![t] = [pc |-> "check", seen |-> Len(audit[t])]]
    /\ UNCHANGED <<row, audit, h, hands, calls>>

WatchCheck(t) ==
    /\ watcher[t].pc = "check"
    /\ watcher' = [watcher EXCEPT ![t].pc =
                     IF row[t].status \in {"COMPLETED", "FAILED"} THEN "ended" ELSE "read"]
    /\ UNCHANGED <<row, audit, h, hands, calls>>

\* The events the stream has sent.
Told(t) == {e \in TaskStatusEvent :
              e.task_id = t /\ \E i \in 1 .. watcher[t].seen : audit[t][i] = e.status}

\* The orchestrator stops: calls and streams in progress are gone.
Crash ==
    /\ "crash" \in Ops
    /\ h' = [p \in Handlers |-> IdleCall]
    /\ watcher' = [t \in TaskIds |-> [pc |-> "off", seen |-> 0]]
    /\ UNCHANGED <<row, audit, hands, calls>>

-------------------------------------------------------------------------------

Claim(p) ==
    \/ \E req \in PollTaskRequest : GetPendingTasks(p, req.agent_id, "poll", Pending)
    \/ \E msg \in RegisterAgent :
         GetPendingTasks(p, msg.agent_id, "connect", Pending \cap msg.capabilities)
    \/ \E req \in ClaimTaskRequest : ClaimTask(p, req)

AuditedCall(p) ==
    \/ \E req \in ReleaseTaskRequest : ReleaseTask(p, req)
    \/ \E req \in SubmitTaskResultRequest : SubmitTaskResult(p, req)
    \/ \E req \in SubmitTaskFailureRequest : SubmitTaskFailure(p, req)
    \/ \E req \in UpdateTaskProgressRequest : UpdateTaskProgress(p, req)
    \/ \E req \in ReassignTaskRequest : ReassignTask(p, req)

SimpleCall(a) ==
    \/ \E req \in CompleteTaskRequest : CompleteTask(a, req)
    \/ \E req \in FailTaskRequest : FailTask(a, req)
    \/ \E msg \in TaskResult : StreamResult(a, msg)

Next ==
    \/ \E t \in TaskIds : CreateTask(t) \/ WatchSend(t) \/ WatchCheck(t)
    \/ \E req \in WatchTaskRequest : Watch(req)
    \/ \E p \in Handlers : Claim(p) \/ AuditedCall(p)
    \/ \E p \in Handlers : AssignTask(p) \/ Reply(p) \/ AppendTaskAudit(p)
    \/ \E a \in Agents : SimpleCall(a)
    \/ \E req \in ListMyTasksRequest : ListMyTasks(req)
    \/ \E req \in ExtendTaskLeaseRequest : ExtendTaskLease(req)
    \/ Crash

Spec == Init /\ [][Next]_vars

-------------------------------------------------------------------------------

(* The columns of a row agree with its status through every mix of calls:   *)
(* a task in the pool has no agent and no deadline, an assigned one has     *)
(* both, a completed one has an output.                                     *)
RowShape ==
    \A t \in TaskIds :
        /\ row[t].status \in {"NONE", "PENDING"} => row[t].agent = Nobody /\ row[t].deadline = "none"
        /\ row[t].status = "ASSIGNED" => row[t].agent # Nobody /\ row[t].deadline # "none"
        /\ row[t].status = "COMPLETED" => row[t].output # Nobody

(* A poller that read a task as pending and comes late takes nothing from   *)
(* the agent who got it: an assigned task changes hands only by going back  *)
(* to the pool or by an operator's ReassignTask.  Once ExtendTaskLease has  *)
(* written its deadline, earlier or later than the first, the poller does   *)
(* not put the deadline of its own assignment in its place.                 *)
AssigneeStable ==
    [][\A t \in TaskIds :
          row[t].status = "ASSIGNED" =>
             \/ row'[t].status = "PENDING"
             \/ /\ \/ row'[t].agent = row[t].agent
                   \/ \E p \in Handlers : h'[p] # h[p] /\ h'[p].entry = "REASSIGNED"
                /\ row[t].deadline = "asked" => row'[t].deadline = "asked"]_vars

(* A task is in the hands of one agent: "each step is executed by whoever   *)
(* the task is assigned to".                                                *)
OneHolder ==
    \A t \in TaskIds, a, b \in Agents : (Holds(a, t) /\ Holds(b, t)) => a = b

(* Whoever was told on a WatchTask stream that a task is COMPLETED can read *)
(* its output from then on, even if the task is failed, reopened or         *)
(* reassigned later: the entry is written after the output, and no call     *)
(* takes an output away.                                                    *)
ToldCompletedHasOutput ==
    \A t \in TaskIds :
        [task_id |-> t, status |-> "COMPLETED"] \in Told(t) => row[t].output # Nobody
===============================================================================
