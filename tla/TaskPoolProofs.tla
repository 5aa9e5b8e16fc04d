---------------------------- MODULE TaskPoolProofs ----------------------------
(***************************************************************************)
(* Theorems about module TaskPool for any number of agents, tasks, calls in *)
(* progress and audited calls, and any set of calls that clients make.      *)
(*                                                                         *)
(* A step touches the tasks table by at most one statement.  RowMove lists  *)
(* those statements with the condition under which each is executed; types, *)
(* the shape of the rows, the stability of assignments and the fact that an *)
(* output is never taken away all follow from it.                           *)
(***************************************************************************)
EXTENDS TaskPool, TLAPS

-------------------------------------------------------------------------------
(* What a step does to the tasks table.                                     *)

RowMove ==
    \/ row' = row
    \/ \E t \in TaskIds : row[t].status = "NONE" /\ row' = [row EXCEPT ![t].status = "PENDING"]
    \/ \E t \in Pending, a \in Agents : row' = Assigned(t, a)
    \/ \E t \in TaskIds : row' = Unassigned(t)
    \/ \E t \in TaskIds, a \in Agents : row' = Completed(t, a)
    \/ \E t \in TaskIds : row' = Failed(t)
    \/ /\ \E t \in TaskIds, a \in Agents :
             row[t].agent \in Agents /\ row' = [row EXCEPT ![t].agent = a]
       /\ \E p \in Handlers : h'[p] # h[p] /\ h'[p].entry = "REASSIGNED"
    \/ \E t \in TaskIds :
          row[t].status = "ASSIGNED" /\ row' = [row EXCEPT ![t].deadline = "asked"]

(* A call in progress knows its agent and its task, and one that is about   *)
(* to write the audit log what it will write.                               *)
CallKnown(r) ==
    /\ r.pc # "idle" => r.agent \in Agents /\ r.task \in TaskIds
    /\ r.pc = "audit" => r.entry \in AuditTypes

TypeInv == TypeOK /\ \A p \in Handlers : CallKnown(h[p])

\* What Begin leaves behind.
LEMMA BeginEffect ==
  ASSUME h \in [Handlers -> Calls], NEW p \in Handlers, NEW pc \in {"assign", "audit", "reply"},
         NEW a \in Agents, NEW t \in TaskIds, NEW entry \in AuditTypes \cup {"none"},
         pc = "audit" => entry \in AuditTypes, Begin(p, pc, a, t, entry)
  PROVE  /\ h' \in [Handlers -> Calls] /\ h'[p] # h[p] /\ CallKnown(h'[p])
         /\ h'[p].pc = pc /\ h'[p].entry = entry /\ h'[p].task = t
         /\ \A q \in Handlers \ {p} : h'[q] = h[q]
  BY PoolAssumption DEF Begin, Calls, CallKnown, TaskIds

\* What End leaves behind.
LEMMA EndEffect ==
  ASSUME h \in [Handlers -> Calls], NEW p \in Handlers, End(p)
  PROVE  /\ h' \in [Handlers -> Calls] /\ CallKnown(h'[p]) /\ h'[p].pc = "idle"
         /\ \A q \in Handlers \ {p} : h'[q] = h[q]
  BY PoolAssumption DEF End, IdleCall, Calls, CallKnown

\* The calls that write the audit log.
LEMMA AuditedRow ==
  ASSUME TypeInv, NEW p \in Handlers, AuditedCall(p)
  PROVE  RowMove
<1>t. h \in [Handlers -> Calls] /\ {"RELEASED", "REASSIGNED"} \subseteq AuditTypes
  BY DEF TypeInv, TypeOK, AuditTypes
<1>1. ASSUME NEW req \in ReleaseTaskRequest, ReleaseTask(p, req) PROVE RowMove
  BY <1>1 DEF ReleaseTaskRequest, ReleaseTask, RowMove
<1>2. ASSUME NEW req \in SubmitTaskResultRequest, SubmitTaskResult(p, req) PROVE RowMove
  BY <1>2 DEF SubmitTaskResultRequest, TaskEvidence, SubmitTaskResult, RowMove
<1>3. ASSUME NEW req \in SubmitTaskFailureRequest, SubmitTaskFailure(p, req) PROVE RowMove
  BY <1>3 DEF SubmitTaskFailureRequest, SubmitTaskFailure, RowMove
<1>4. ASSUME NEW req \in UpdateTaskProgressRequest, UpdateTaskProgress(p, req) PROVE RowMove
  BY <1>4 DEF UpdateTaskProgress, RowMove
<1>5. ASSUME NEW req \in ReassignTaskRequest, ReassignTask(p, req) PROVE RowMove
  <2>1. req.task_id \in TaskIds /\ req.from_agent_id \in Agents /\ req.to_agent_id \in Agents \cup {Nobody}
    BY DEF ReassignTaskRequest
  <2>2. CASE req.to_agent_id = Nobody
    BY <1>5, <2>1, <2>2 DEF ReassignTask, RowMove
  <2>3. CASE req.to_agent_id # Nobody
    <3>1. h'[p] # h[p] /\ h'[p].entry = "REASSIGNED"
      BY <1>5, <1>t, <2>1, BeginEffect DEF ReassignTask, BeginAudited
    <3> QED BY <1>5, <2>1, <2>3, <3>1 DEF ReassignTask, RowMove
  <2> QED BY <2>2, <2>3
<1> QED BY <1>1, <1>2, <1>3, <1>4, <1>5 DEF AuditedCall

\* The calls that take a task.
LEMMA ClaimRow ==
  ASSUME TypeInv, NEW p \in Handlers, Claim(p) \/ AssignTask(p)
  PROVE  RowMove
<1>1. CASE AssignTask(p)
  <2>1. h[p].agent \in Agents
    BY <1>1 DEF TypeInv, CallKnown, AssignTask
  <2> QED BY <1>1, <2>1 DEF AssignTask, RowMove
<1>2. ASSUME NEW req \in ClaimTaskRequest, ClaimTask(p, req) PROVE RowMove
  BY <1>2 DEF ClaimTaskRequest, ClaimTask, RowMove
<1>3. CASE row' = row
  BY <1>3 DEF RowMove
<1> QED BY <1>1, <1>2, <1>3 DEF Claim, GetPendingTasks

\* The results that write no audit entry.
LEMMA SimpleRow ==
  ASSUME NEW a \in Agents, SimpleCall(a)
  PROVE  RowMove
<1>1. ASSUME NEW req \in CompleteTaskRequest, CompleteTask(a, req) PROVE RowMove
  BY <1>1 DEF CompleteTaskRequest, CompleteTask, RowMove
<1>2. ASSUME NEW req \in FailTaskRequest, FailTask(a, req) PROVE RowMove
  BY <1>2 DEF FailTaskRequest, FailTask, RowMove
<1>3. ASSUME NEW msg \in TaskResult, StreamResult(a, msg) PROVE RowMove
  BY <1>3 DEF TaskResult, StreamResult, RowMove
<1> QED BY <1>1, <1>2, <1>3 DEF SimpleCall

\* Every step executes at most one statement on the tasks table.
LEMMA NextRow ==
  ASSUME TypeInv, [Next]_vars
  PROVE  RowMove
<1>1. ASSUME NEW t \in TaskIds, CreateTask(t) \/ WatchSend(t) \/ WatchCheck(t) PROVE RowMove
  BY <1>1 DEF CreateTask, WatchSend, WatchCheck, RowMove
<1>2. ASSUME NEW p \in Handlers, Claim(p) \/ AuditedCall(p) \/ AssignTask(p) PROVE RowMove
  BY <1>2, AuditedRow, ClaimRow
<1>3. ASSUME NEW p \in Handlers, Reply(p) \/ AppendTaskAudit(p) PROVE RowMove
  BY <1>3 DEF Reply, AppendTaskAudit, RowMove
<1>4. ASSUME NEW a \in Agents, SimpleCall(a) PROVE RowMove
  BY <1>4, SimpleRow
<1>5. ASSUME NEW req \in ExtendTaskLeaseRequest, ExtendTaskLease(req) PROVE RowMove
  BY <1>5 DEF ExtendTaskLeaseRequest, ExtendTaskLease, RowMove
<1>6. ASSUME \/ \E req \in WatchTaskRequest : Watch(req)
             \/ \E req \in ListMyTasksRequest : ListMyTasks(req)
             \/ Crash \/ UNCHANGED vars
      PROVE  RowMove
  BY <1>6 DEF Watch, ListMyTasks, Crash, vars, RowMove
<1> QED BY <1>1, <1>2, <1>3, <1>4, <1>5, <1>6 DEF Next

-------------------------------------------------------------------------------
(* What follows from RowMove alone.                                         *)

\* The table stays well typed, its rows in shape, and no output is lost.
Kept ==
    /\ row' \in [TaskIds -> Rows]
    /\ RowShape => RowShape'
    /\ \A t \in TaskIds : row[t].output # Nobody => row'[t].output # Nobody

\* Every statement does this.
LEMMA RowMoveEffect ==
  ASSUME row \in [TaskIds -> Rows], RowMove
  PROVE  Kept
<1>a. Nobody \notin Agents
  BY PoolAssumption
<1>1. CASE row' = row
  BY <1>1 DEF RowShape, Kept
<1>2. ASSUME NEW t \in TaskIds, row[t].status = "NONE", row' = [row EXCEPT ![t].status = "PENDING"]
      PROVE  Kept
  BY <1>2, <1>a DEF Rows, Kept, RowShape
<1>3. ASSUME NEW t \in Pending, NEW a \in Agents, row' = Assigned(t, a)
      PROVE  Kept
  BY <1>3, <1>a DEF Rows, Kept, RowShape, Pending, Assigned
<1>4. ASSUME NEW t \in TaskIds, row' = Unassigned(t)
      PROVE  Kept
  <2>1. row' \in [TaskIds -> Rows]
    BY <1>4 DEF Rows, Unassigned
  <2>2. \A u \in TaskIds : row[u].output # Nobody => row'[u].output # Nobody
    BY <1>4 DEF Rows, Unassigned
  <2>3. ASSUME RowShape PROVE RowShape'
    BY <2>3, <1>4 DEF Rows, RowShape, Unassigned
  <2> QED BY <2>1, <2>2, <2>3 DEF Kept
<1>5. ASSUME NEW t \in TaskIds, NEW a \in Agents, row' = Completed(t, a)
      PROVE  Kept
  <2>1. row' \in [TaskIds -> Rows]
    BY <1>5 DEF Rows, Completed
  <2>2. \A u \in TaskIds : row[u].output # Nobody => row'[u].output # Nobody
    BY <1>5, <1>a DEF Rows, Completed
  <2>3. ASSUME RowShape PROVE RowShape'
    BY <2>3, <1>5, <1>a DEF Rows, RowShape, Completed
  <2> QED BY <2>1, <2>2, <2>3 DEF Kept
<1>6. ASSUME NEW t \in TaskIds, row' = Failed(t)
      PROVE  Kept
  BY <1>6, <1>a DEF Rows, Kept, RowShape, Failed
<1>7. ASSUME NEW t \in TaskIds, NEW a \in Agents, row[t].agent \in Agents,
             row' = [row EXCEPT ![t].agent = a]
      PROVE  Kept
  BY <1>7, <1>a DEF Rows, Kept, RowShape
<1>8. ASSUME NEW t \in TaskIds, row[t].status = "ASSIGNED",
             row' = [row EXCEPT ![t].deadline = "asked"]
      PROVE  Kept
  BY <1>8, <1>a DEF Rows, Kept, RowShape
<1> QED BY <1>1, <1>2, <1>3, <1>4, <1>5, <1>6, <1>7, <1>8 DEF RowMove

-------------------------------------------------------------------------------
(* What a step does to the calls in progress.                               *)

\* A call that is about to announce a completion has written the output.
Announces(r) == r.pc = "audit" /\ r.entry = "COMPLETED"

CallsMove ==
    /\ h' \in [Handlers -> Calls]
    /\ \A q \in Handlers :
         \/ h'[q] = h[q]
         \/ /\ CallKnown(h'[q])
            /\ Announces(h'[q]) => row'[h'[q].task].output # Nobody

\* A call begins that announces no completion.
LEMMA BeginMove ==
  ASSUME h \in [Handlers -> Calls], NEW p \in Handlers, NEW pc \in {"assign", "audit", "reply"},
         NEW a \in Agents, NEW t \in TaskIds, NEW entry \in AuditTypes \cup {"none"},
         pc = "audit" => entry \in AuditTypes, Begin(p, pc, a, t, entry),
         entry = "COMPLETED" => row'[t].output # Nobody
  PROVE  CallsMove
<1>1. /\ h' \in [Handlers -> Calls] /\ CallKnown(h'[p])
      /\ h'[p].entry = entry /\ h'[p].task = t
      /\ \A q \in Handlers \ {p} : h'[q] = h[q]
  BY BeginEffect
<1> QED BY <1>1 DEF CallsMove, Announces

\* Calls that begin.
LEMMA BeginningMove ==
  ASSUME TypeInv, NEW p \in Handlers, Claim(p) \/ AuditedCall(p)
  PROVE  CallsMove
<1>t. /\ h \in [Handlers -> Calls] /\ row \in [TaskIds -> Rows] /\ Nobody \notin Agents
      /\ {"CLAIMED", "RELEASED", "PROGRESS", "COMPLETED", "FAILED", "REASSIGNED"} \subseteq AuditTypes
  BY PoolAssumption DEF TypeInv, TypeOK, AuditTypes
<1>1. ASSUME NEW a \in Agents, NEW op, NEW c \in SUBSET Pending, GetPendingTasks(p, a, op, c)
      PROVE  CallsMove
  <2>1. PICK t \in c : Begin(p, "assign", a, t, "none")
    BY <1>1 DEF GetPendingTasks
  <2>2. t \in TaskIds
    BY DEF Pending
  <2> QED BY <1>t, <2>1, <2>2, BeginMove
<1>2. ASSUME NEW req \in ClaimTaskRequest, ClaimTask(p, req) PROVE CallsMove
  BY <1>2, <1>t, BeginMove DEF ClaimTaskRequest, ClaimTask, BeginAudited
<1>3. ASSUME NEW req \in ReleaseTaskRequest, ReleaseTask(p, req) PROVE CallsMove
  BY <1>3, <1>t, BeginMove DEF ReleaseTaskRequest, ReleaseTask, BeginAudited
<1>4. ASSUME NEW req \in SubmitTaskResultRequest, SubmitTaskResult(p, req) PROVE CallsMove
  <2>1. req.task_id \in TaskIds /\ req.agent_id \in Agents /\ req.evidence.data \in Agents
    BY DEF SubmitTaskResultRequest, TaskEvidence
  <2>2. row'[req.task_id].output # Nobody
    BY <1>4, <1>t, <2>1 DEF SubmitTaskResult, Completed, Rows
  <2> QED BY <1>4, <1>t, <2>1, <2>2, BeginMove DEF SubmitTaskResult, BeginAudited
<1>5. ASSUME NEW req \in SubmitTaskFailureRequest, SubmitTaskFailure(p, req) PROVE CallsMove
  BY <1>5, <1>t, BeginMove DEF SubmitTaskFailureRequest, SubmitTaskFailure, BeginAudited
<1>6. ASSUME NEW req \in UpdateTaskProgressRequest, UpdateTaskProgress(p, req) PROVE CallsMove
  BY <1>6, <1>t, BeginMove DEF UpdateTaskProgressRequest, UpdateTaskProgress, BeginAudited
<1>7. ASSUME NEW req \in ReassignTaskRequest, ReassignTask(p, req) PROVE CallsMove
  BY <1>7, <1>t, BeginMove DEF ReassignTaskRequest, ReassignTask, BeginAudited
<1>8. CASE Claim(p)
  <2>1. ASSUME NEW req \in PollTaskRequest, GetPendingTasks(p, req.agent_id, "poll", Pending)
        PROVE  CallsMove
    BY <2>1, <1>1 DEF PollTaskRequest
  <2>2. ASSUME NEW msg \in RegisterAgent,
               GetPendingTasks(p, msg.agent_id, "connect", Pending \cap msg.capabilities)
        PROVE  CallsMove
    BY <2>2, <1>1 DEF RegisterAgent
  <2> QED BY <1>8, <1>2, <2>1, <2>2 DEF Claim
<1>9. CASE AuditedCall(p)
  BY <1>9, <1>3, <1>4, <1>5, <1>6, <1>7 DEF AuditedCall
<1> QED BY <1>8, <1>9

\* Calls that go on or end.
LEMMA GoingMove ==
  ASSUME TypeInv, NEW p \in Handlers, AssignTask(p) \/ Reply(p) \/ AppendTaskAudit(p)
  PROVE  CallsMove
<1>t. h \in [Handlers -> Calls] /\ h[p] \in Calls /\ CallKnown(h[p])
  BY DEF TypeInv, TypeOK
<1>1. CASE End(p)
  BY <1>1, <1>t, EndEffect DEF CallsMove, Announces
<1>2. CASE h' = [h EXCEPT ![p].pc = "reply"] /\ h[p].pc # "idle"
  <2>1. /\ h' \in [Handlers -> Calls] /\ h'[p].pc = "reply"
        /\ h'[p].agent = h[p].agent /\ h'[p].task = h[p].task
        /\ \A q \in Handlers \ {p} : h'[q] = h[q]
    BY <1>2, <1>t DEF Calls
  <2> QED BY <1>2, <1>t, <2>1 DEF CallsMove, CallKnown, Announces
<1> QED BY <1>1, <1>2 DEF AssignTask, Reply, AppendTaskAudit

\* Every step does this to the calls.
LEMMA NextCalls ==
  ASSUME TypeInv, [Next]_vars
  PROVE  CallsMove
<1>t. h \in [Handlers -> Calls]
  BY DEF TypeInv, TypeOK
<1>1. ASSUME NEW p \in Handlers, Claim(p) \/ AuditedCall(p) PROVE CallsMove
  BY <1>1, BeginningMove
<1>2. ASSUME NEW p \in Handlers, AssignTask(p) \/ Reply(p) \/ AppendTaskAudit(p) PROVE CallsMove
  BY <1>2, GoingMove
<1>3. CASE Crash
  BY <1>3, PoolAssumption DEF Crash, CallsMove, IdleCall, Calls, CallKnown, Announces
<1>4. ASSUME \/ \E t \in TaskIds : CreateTask(t) \/ WatchSend(t) \/ WatchCheck(t)
             \/ \E req \in WatchTaskRequest : Watch(req)
             \/ \E a \in Agents : SimpleCall(a)
             \/ \E req \in ListMyTasksRequest : ListMyTasks(req)
             \/ \E req \in ExtendTaskLeaseRequest : ExtendTaskLease(req)
             \/ UNCHANGED vars
      PROVE  CallsMove
  <2>1. h' = h
    BY <1>4 DEF CreateTask, WatchSend, WatchCheck, Watch, SimpleCall, CompleteTask, FailTask,
       StreamResult, ListMyTasks, ExtendTaskLease, vars
  <2> QED BY <1>t, <2>1 DEF CallsMove
<1> QED BY <1>1, <1>2, <1>3, <1>4 DEF Next

-------------------------------------------------------------------------------
(* What a step does to the audit log, the streams and the agents.           *)

AuditMove ==
    \/ audit' = audit /\ (\A t \in TaskIds : watcher'[t].seen \in {0, watcher[t].seen, Len(audit[t])})
    \/ /\ watcher' = watcher
       /\ \E p \in Handlers :
             /\ h[p].pc = "audit"
             /\ audit' = [audit EXCEPT ![h[p].task] = Append(@, h[p].entry)]

\* Every step does this to the audit log and to the streams.
LEMMA NextAudit ==
  ASSUME TypeInv, [Next]_vars
  PROVE  AuditMove /\ watcher' \in [TaskIds -> [pc : {"off", "read", "check", "ended"}, seen : Nat]]
<1>t. /\ watcher \in [TaskIds -> [pc : {"off", "read", "check", "ended"}, seen : Nat]]
      /\ \A t \in TaskIds : Len(audit[t]) \in Nat
  BY DEF TypeInv, TypeOK
<1> DEFINE Goal == AuditMove /\ watcher' \in [TaskIds -> [pc : {"off", "read", "check", "ended"}, seen : Nat]]
<1>1. ASSUME NEW p \in Handlers, AppendTaskAudit(p) PROVE Goal
  BY <1>1, <1>t DEF AppendTaskAudit, AuditMove
<1>2. ASSUME NEW t \in TaskIds, WatchSend(t) \/ WatchCheck(t) PROVE Goal
  <2>1. CASE WatchSend(t)
    BY <2>1, <1>t DEF WatchSend, AuditMove
  <2>2. CASE WatchCheck(t)
    <3>1. \A u \in TaskIds : watcher'[u].seen = watcher[u].seen
      BY <2>2, <1>t DEF WatchCheck
    <3>2. watcher' \in [TaskIds -> [pc : {"off", "read", "check", "ended"}, seen : Nat]]
      BY <2>2, <1>t DEF WatchCheck
    <3> QED BY <2>2, <3>1, <3>2 DEF WatchCheck, AuditMove
  <2> QED BY <1>2, <2>1, <2>2
<1>3. ASSUME NEW req \in WatchTaskRequest, Watch(req) PROVE Goal
  BY <1>3, <1>t DEF WatchTaskRequest, Watch, AuditMove
<1>4. CASE Crash
  BY <1>4, <1>t DEF Crash, AuditMove
<1>5. ASSUME \/ \E t \in TaskIds : CreateTask(t)
             \/ \E p \in Handlers : Claim(p) \/ AuditedCall(p) \/ AssignTask(p) \/ Reply(p)
             \/ \E a \in Agents : SimpleCall(a)
             \/ \E req \in ListMyTasksRequest : ListMyTasks(req)
             \/ \E req \in ExtendTaskLeaseRequest : ExtendTaskLease(req)
             \/ UNCHANGED vars
      PROVE  Goal
  <2>1. audit' = audit /\ watcher' = watcher
    BY <1>5 DEF CreateTask, Claim, GetPendingTasks, ClaimTask, AuditedCall, ReleaseTask,
       SubmitTaskResult, SubmitTaskFailure, UpdateTaskProgress, ReassignTask, AssignTask, Reply,
       SimpleCall, CompleteTask, FailTask, StreamResult, ListMyTasks, ExtendTaskLease, vars
  <2> QED BY <1>t, <2>1 DEF AuditMove
<1> QED BY <1>1, <1>2, <1>3, <1>4, <1>5 DEF Next

\* Nobody comes to hold what is not a task, and calls are counted up to the bound.
LEMMA NextHands ==
  ASSUME TypeInv, [Next]_vars
  PROVE  hands' \subseteq Agents \X TaskIds /\ calls' \in 0 .. MaxCalls
<1>t. hands \subseteq Agents \X TaskIds /\ calls \in 0 .. MaxCalls /\ MaxCalls \in Nat
  BY PoolAssumption DEF TypeInv, TypeOK
<1> DEFINE Goal == hands' \subseteq Agents \X TaskIds /\ calls' \in 0 .. MaxCalls
<1>1. ASSUME NEW p \in Handlers, Claim(p) PROVE Goal
  BY <1>1, <1>t DEF Claim, GetPendingTasks, ClaimTask, BeginAudited
<1>2. ASSUME NEW p \in Handlers, AuditedCall(p) PROVE Goal
  <2>1. hands' \subseteq hands
    BY <1>2 DEF AuditedCall, ReleaseTask, SubmitTaskResult, SubmitTaskFailure, UpdateTaskProgress,
       ReassignTask, LetGo
  <2>2. calls < MaxCalls /\ calls' = calls + 1
    BY <1>2 DEF AuditedCall, ReleaseTask, SubmitTaskResult, SubmitTaskFailure, UpdateTaskProgress,
       ReassignTask, BeginAudited
  <2> QED BY <1>t, <2>1, <2>2
<1>3. ASSUME NEW p \in Handlers, Reply(p) PROVE Goal
  <2>1. h[p].agent \in Agents /\ h[p].task \in TaskIds
    BY <1>3 DEF TypeInv, CallKnown, Reply
  <2>2. hands' \subseteq hands \cup {<<h[p].agent, h[p].task>>} /\ calls' = calls
    BY <1>3 DEF Reply
  <2> QED BY <1>t, <2>1, <2>2
<1>4. ASSUME NEW a \in Agents, SimpleCall(a) PROVE Goal
  <2>1. hands' \subseteq hands /\ calls' = calls
    BY <1>4 DEF SimpleCall, CompleteTask, FailTask, StreamResult, LetGo
  <2> QED BY <1>t, <2>1
<1>5. ASSUME NEW req \in ListMyTasksRequest, ListMyTasks(req) PROVE Goal
  BY <1>5, <1>t DEF ListMyTasksRequest, ListMyTasks
<1>6. ASSUME \/ \E t \in TaskIds : CreateTask(t) \/ WatchSend(t) \/ WatchCheck(t)
             \/ \E req \in WatchTaskRequest : Watch(req)
             \/ \E p \in Handlers : AssignTask(p) \/ AppendTaskAudit(p)
             \/ \E req \in ExtendTaskLeaseRequest : ExtendTaskLease(req)
             \/ Crash \/ UNCHANGED vars
      PROVE  Goal
  <2>1. hands' = hands /\ calls' = calls
    BY <1>6 DEF CreateTask, WatchSend, WatchCheck, Watch, AssignTask, AppendTaskAudit,
       ExtendTaskLease, Crash, vars
  <2> QED BY <1>t, <2>1
<1> QED BY <1>1, <1>2, <1>3, <1>4, <1>5, <1>6 DEF Next

-------------------------------------------------------------------------------
(* The theorems.                                                            *)

\* TypeInv is inductive.
LEMMA TypeInductive ==
  ASSUME TypeInv, [Next]_vars
  PROVE  TypeInv'
<1>1. row' \in [TaskIds -> Rows]
  BY NextRow, RowMoveEffect DEF TypeInv, TypeOK, Kept
<1>2. h' \in [Handlers -> Calls] /\ \A q \in Handlers : CallKnown(h'[q])
  BY NextCalls DEF CallsMove, TypeInv
<1>3. audit' \in [TaskIds -> Seq(AuditTypes)]
  <2>1. audit \in [TaskIds -> Seq(AuditTypes)]
    BY DEF TypeInv, TypeOK
  <2>2. ASSUME NEW p \in Handlers, h[p].pc = "audit",
               audit' = [audit EXCEPT ![h[p].task] = Append(@, h[p].entry)]
        PROVE  audit' \in [TaskIds -> Seq(AuditTypes)]
    <3>1. h[p].task \in TaskIds /\ h[p].entry \in AuditTypes
      BY <2>2 DEF TypeInv, CallKnown
    <3>2. Append(audit[h[p].task], h[p].entry) \in Seq(AuditTypes)
      BY <2>1, <3>1
    <3> QED BY <2>1, <2>2, <3>1, <3>2
  <2> QED BY <2>1, <2>2, NextAudit DEF AuditMove
<1> QED BY <1>1, <1>2, <1>3, NextAudit, NextHands DEF TypeInv, TypeOK

\* TypeInv and RowShape hold initially.
LEMMA PoolInitial == Init => TypeInv /\ RowShape
  BY PoolAssumption DEF Init, TypeInv, TypeOK, Rows, Calls, IdleCall, CallKnown, RowShape

(* Every reachable state of the pool is well typed, whatever calls clients  *)
(* make and however many are in progress.                                   *)
THEOREM PoolTypeCorrect == Spec => []TypeOK
<1>1. TypeInv => TypeOK
  BY DEF TypeInv
<1> QED BY <1>1, PoolInitial, TypeInductive, PTL DEF Spec

(* The columns of a row agree with its status through every mix of the      *)
(* calls that take, return, resolve, reassign and extend a task.            *)
THEOREM RowsKeepShape == Spec => []RowShape
<1>1. TypeInv /\ RowShape /\ [Next]_vars => (TypeInv /\ RowShape)'
  BY TypeInductive, NextRow, RowMoveEffect DEF TypeInv, TypeOK, Kept
<1> QED BY <1>1, PoolInitial, PTL DEF Spec

(* An assigned task changes hands only by going back to the pool or by      *)
(* ReassignTask, and keeps a deadline that ExtendTaskLease wrote: a poller   *)
(* that read the task as pending and comes late changes neither.            *)
THEOREM AssigneesAreStable == Spec => AssigneeStable
<1> DEFINE Stable(t) ==
      row[t].status = "ASSIGNED" =>
         \/ row'[t].status = "PENDING"
         \/ /\ \/ row'[t].agent = row[t].agent
               \/ \E p \in Handlers : h'[p] # h[p] /\ h'[p].entry = "REASSIGNED"
            /\ row[t].deadline = "asked" => row'[t].deadline = "asked"
<1>1. ASSUME TypeInv, [Next]_vars PROVE \A t \in TaskIds : Stable(t)
  <2>r. row \in [TaskIds -> Rows] /\ RowMove
    BY <1>1, NextRow DEF TypeInv, TypeOK
  <2> SUFFICES ASSUME NEW t \in TaskIds PROVE Stable(t)
    OBVIOUS
  <2>1. CASE row' = row
    BY <2>1
  <2>2. ASSUME NEW u \in TaskIds, row[u].status = "NONE", row' = [row EXCEPT ![u].status = "PENDING"]
        PROVE  Stable(t)
    BY <2>2, <2>r DEF Rows
  <2>3. ASSUME NEW u \in Pending, NEW a \in Agents, row' = Assigned(u, a) PROVE Stable(t)
    BY <2>3, <2>r DEF Rows, Pending, Assigned
  <2>4. ASSUME NEW u \in TaskIds, row' = Unassigned(u) PROVE Stable(t)
    BY <2>4, <2>r DEF Rows, Unassigned
  <2>5. ASSUME NEW u \in TaskIds, NEW a \in Agents, row' = Completed(u, a) PROVE Stable(t)
    BY <2>5, <2>r DEF Rows, Completed
  <2>6. ASSUME NEW u \in TaskIds, row' = Failed(u) PROVE Stable(t)
    BY <2>6, <2>r DEF Rows, Failed
  <2>7. ASSUME NEW u \in TaskIds, NEW a \in Agents, row' = [row EXCEPT ![u].agent = a],
               \E p \in Handlers : h'[p] # h[p] /\ h'[p].entry = "REASSIGNED"
        PROVE  Stable(t)
    BY <2>7, <2>r DEF Rows
  <2>8. ASSUME NEW u \in TaskIds, row' = [row EXCEPT ![u].deadline = "asked"] PROVE Stable(t)
    BY <2>8, <2>r DEF Rows
  <2> QED BY <2>r, <2>1, <2>2, <2>3, <2>4, <2>5, <2>6, <2>7, <2>8 DEF RowMove
<1>2. Spec => []TypeInv
  BY PoolInitial, TypeInductive, PTL DEF Spec
<1> QED BY <1>1, <1>2, PTL DEF Spec, AssigneeStable

-------------------------------------------------------------------------------
(* An announced completion has its output.                                  *)

OutputInv ==
    /\ \A t \in TaskIds : watcher[t].seen <= Len(audit[t])
    /\ \A t \in TaskIds : \A i \in DOMAIN audit[t] :
          audit[t][i] = "COMPLETED" => row[t].output # Nobody
    /\ \A p \in Handlers : Announces(h[p]) => row[h[p].task].output # Nobody

\* OutputInv is inductive: outputs stay, and entries are written after them.
LEMMA OutputInductive ==
  ASSUME TypeInv, OutputInv, [Next]_vars
  PROVE  OutputInv'
<1>t. /\ audit \in [TaskIds -> Seq(AuditTypes)] /\ \A t \in TaskIds : watcher[t].seen \in Nat
      /\ \A p \in Handlers : Announces(h[p]) => h[p].task \in TaskIds
  BY DEF TypeInv, TypeOK, CallKnown, Announces
<1>k. \A t \in TaskIds : row[t].output # Nobody => row'[t].output # Nobody
  BY NextRow, RowMoveEffect DEF TypeInv, TypeOK, Kept
<1>1. \A p \in Handlers : Announces(h'[p]) => row'[h'[p].task].output # Nobody
  BY <1>t, <1>k, NextCalls DEF CallsMove, OutputInv
<1>2. CASE audit' = audit /\ \A t \in TaskIds : watcher'[t].seen \in {0, watcher[t].seen, Len(audit[t])}
  <2>1. \A t \in TaskIds : watcher'[t].seen <= Len(audit'[t])
    BY <1>2, <1>t DEF OutputInv
  <2> QED BY <1>1, <1>2, <1>k, <2>1 DEF OutputInv, Announces
<1>3. ASSUME watcher' = watcher, NEW p \in Handlers, h[p].pc = "audit",
             audit' = [audit EXCEPT ![h[p].task] = Append(@, h[p].entry)]
      PROVE  OutputInv'
  <2>1. h[p].task \in TaskIds /\ h[p].entry \in AuditTypes
    BY <1>3 DEF TypeInv, CallKnown
  <2>2. h[p].entry = "COMPLETED" => row[h[p].task].output # Nobody
    BY <1>3 DEF OutputInv, Announces
  <2>3. ASSUME NEW t \in TaskIds
        PROVE  /\ watcher'[t].seen <= Len(audit'[t])
               /\ \A i \in DOMAIN audit'[t] : audit'[t][i] = "COMPLETED" => row[t].output # Nobody
    <3>1. CASE t # h[p].task
      BY <1>3, <1>t, <2>1, <3>1 DEF OutputInv
    <3>2. CASE t = h[p].task
      <4>1. audit'[t] = Append(audit[t], h[p].entry) /\ audit[t] \in Seq(AuditTypes)
        BY <1>3, <1>t, <2>1, <3>2
      <4>2. watcher[t].seen <= Len(audit[t]) /\ watcher[t].seen \in Nat
        BY <1>t DEF OutputInv
      <4>3. \A i \in DOMAIN audit[t] : audit[t][i] = "COMPLETED" => row[t].output # Nobody
        BY DEF OutputInv
      <4> QED BY <1>3, <2>1, <2>2, <3>2, <4>1, <4>2, <4>3
    <3> QED BY <3>1, <3>2
  <2> QED BY <1>1, <1>k, <2>3 DEF OutputInv, Announces
<1> QED BY <1>2, <1>3, NextAudit DEF AuditMove

(* Whoever was told on a WatchTask stream that a task is COMPLETED can read *)
(* its output from then on: the audit entry is written after the output,    *)
(* and no statement takes an output away.                                   *)
THEOREM ToldCompletedIsReadable == Spec => []ToldCompletedHasOutput
<1>1. Init => TypeInv /\ OutputInv
  <2>1. ASSUME Init PROVE OutputInv
    BY <2>1 DEF Init, OutputInv, IdleCall, Announces
  <2> QED BY <2>1, PoolInitial
<1>2. TypeInv /\ OutputInv /\ [Next]_vars => (TypeInv /\ OutputInv)'
  BY TypeInductive, OutputInductive
<1>3. TypeInv /\ OutputInv => ToldCompletedHasOutput
  <2> SUFFICES ASSUME TypeInv, OutputInv, NEW t \in TaskIds,
                      [task_id |-> t, status |-> "COMPLETED"] \in Told(t)
               PROVE  row[t].output # Nobody
    BY DEF ToldCompletedHasOutput
  <2>1. PICK i \in 1 .. watcher[t].seen : audit[t][i] = "COMPLETED"
    BY DEF Told
  <2>2. audit[t] \in Seq(AuditTypes) /\ watcher[t].seen <= Len(audit[t]) /\ watcher[t].seen \in Nat
    BY DEF TypeInv, TypeOK, OutputInv
  <2>3. i \in DOMAIN audit[t]
    BY <2>1, <2>2
  <2> QED BY <2>1, <2>3 DEF OutputInv
<1> QED BY <1>1, <1>2, <1>3, PTL DEF Spec

-------------------------------------------------------------------------------
(* Agents that only claim.                                                  *)

\* Nobody polls, and no task goes back to the pool or to another agent.
ClaimsOnly == Ops \cap {"poll", "connect", "release", "reassign"} = {}

\* What a claim that succeeded knows until its reply.
Claimed(r) ==
    /\ r.pc # "assign"
    /\ r.pc = "reply" => r.entry = "CLAIMED"
    /\ r.pc # "idle" /\ r.entry = "CLAIMED" => row[r.task].agent = r.agent

HolderInv ==
    /\ \A a \in Agents, t \in TaskIds : Holds(a, t) => row[t].agent = a
    /\ \A p \in Handlers : Claimed(h[p])

(* One step of such agents: an agent column that is set stays, a new call   *)
(* that claims has set it, and a new holder is the agent of the row.        *)
HolderMove ==
    /\ \A t \in TaskIds : row'[t].agent = row[t].agent \/ row[t].agent = Nobody
    /\ \A q \in Handlers : h'[q] = h[q] \/ Claimed(h[q])'
    /\ \A a \in Agents, t \in TaskIds : Holds(a, t)' => Holds(a, t) \/ row'[t].agent = a

\* Calls that begin make this move.
LEMMA BeginningHolder ==
  ASSUME TypeInv, RowShape, HolderInv, ClaimsOnly, NEW p \in Handlers, Claim(p) \/ AuditedCall(p)
  PROVE  HolderMove
<1>t. /\ h \in [Handlers -> Calls] /\ row \in [TaskIds -> Rows]
      /\ {"CLAIMED", "PROGRESS", "COMPLETED", "FAILED"} \subseteq AuditTypes
      /\ "poll" \notin Ops /\ "connect" \notin Ops /\ "release" \notin Ops /\ "reassign" \notin Ops
  BY DEF TypeInv, TypeOK, AuditTypes, ClaimsOnly
<1>b. ASSUME NEW a \in Agents, NEW t \in TaskIds, NEW entry \in AuditTypes, BeginAudited(p, a, t, entry),
             entry = "CLAIMED" => row'[t].agent = a
      PROVE  \A q \in Handlers : h'[q] = h[q] \/ Claimed(h[q])'
  <2>1. /\ h'[p] = [pc |-> "audit", agent |-> a, task |-> t, entry |-> entry]
        /\ \A q \in Handlers \ {p} : h'[q] = h[q]
    BY <1>b, <1>t DEF BeginAudited, Begin
  <2> QED BY <1>b, <2>1 DEF Claimed
<1>1. ASSUME NEW req \in ClaimTaskRequest, ClaimTask(p, req) PROVE HolderMove
  <2>1. req.task_id \in TaskIds /\ req.agent_id \in Agents
    BY DEF ClaimTaskRequest
  <2>2. row[req.task_id].agent = Nobody
    BY <1>1, <2>1 DEF ClaimTask, Pending, RowShape
  <2>3. row'[req.task_id].agent = req.agent_id
        /\ \A t \in TaskIds \ {req.task_id} : row'[t] = row[t]
    BY <1>1, <1>t, <2>1 DEF ClaimTask, Assigned, Rows
  <2> QED BY <1>1, <1>b, <1>t, <2>1, <2>2, <2>3 DEF ClaimTask, HolderMove, Holds
<1>2. ASSUME NEW req \in SubmitTaskResultRequest, SubmitTaskResult(p, req) PROVE HolderMove
  <2>1. req.task_id \in TaskIds /\ req.agent_id \in Agents
    BY DEF SubmitTaskResultRequest
  <2>2. \A t \in TaskIds : row'[t].agent = row[t].agent
    BY <1>2, <1>t, <2>1 DEF SubmitTaskResult, Completed, Rows
  <2> QED BY <1>2, <1>b, <1>t, <2>1, <2>2 DEF SubmitTaskResult, HolderMove, Holds, LetGo
<1>3. ASSUME NEW req \in SubmitTaskFailureRequest, SubmitTaskFailure(p, req) PROVE HolderMove
  <2>1. req.task_id \in TaskIds /\ req.agent_id \in Agents
    BY DEF SubmitTaskFailureRequest
  <2>2. \A t \in TaskIds : row'[t].agent = row[t].agent
    BY <1>3, <1>t, <2>1 DEF SubmitTaskFailure, Failed, Rows
  <2> QED BY <1>3, <1>b, <1>t, <2>1, <2>2 DEF SubmitTaskFailure, HolderMove, Holds, LetGo
<1>4. ASSUME NEW req \in UpdateTaskProgressRequest, UpdateTaskProgress(p, req) PROVE HolderMove
  <2>1. req.task_id \in TaskIds /\ req.agent_id \in Agents
    BY DEF UpdateTaskProgressRequest
  <2> QED BY <1>4, <1>b, <1>t, <2>1 DEF UpdateTaskProgress, HolderMove, Holds
<1> QED BY <1>1, <1>2, <1>3, <1>4, <1>t
        DEF Claim, AuditedCall, GetPendingTasks, ReleaseTask, ReassignTask

\* Calls that go on or end make it too.
LEMMA GoingHolder ==
  ASSUME TypeInv, HolderInv, NEW p \in Handlers, AssignTask(p) \/ Reply(p) \/ AppendTaskAudit(p)
  PROVE  HolderMove
<1>t. h \in [Handlers -> Calls] /\ h[p] \in Calls /\ Claimed(h[p])
  BY DEF TypeInv, TypeOK, HolderInv
<1>e. ASSUME End(p) PROVE \A q \in Handlers : h'[q] = h[q] \/ Claimed(h[q])'
  BY <1>e, <1>t, EndEffect DEF Claimed
<1>1. CASE Reply(p)
  <2>1. row' = row /\ hands' \subseteq hands \cup {<<h[p].agent, h[p].task>>}
    BY <1>1 DEF Reply
  <2>2. row[h[p].task].agent = h[p].agent
    BY <1>1, <1>t DEF Reply, Claimed
  <2> QED BY <1>1, <1>e, <2>1, <2>2 DEF Reply, HolderMove, Holds
<1>2. CASE AppendTaskAudit(p)
  <2>1. row' = row /\ hands' = hands
    BY <1>2 DEF AppendTaskAudit
  <2>2. CASE End(p)
    BY <1>e, <2>1, <2>2 DEF HolderMove, Holds
  <2>3. CASE h[p].entry = "CLAIMED" /\ h' = [h EXCEPT ![p].pc = "reply"]
    <3>1. /\ h'[p].pc = "reply" /\ h'[p].entry = "CLAIMED"
          /\ h'[p].task = h[p].task /\ h'[p].agent = h[p].agent
          /\ \A q \in Handlers \ {p} : h'[q] = h[q]
      BY <2>3, <1>t DEF Calls
    <3>2. Claimed(h[p])'
      BY <1>2, <1>t, <2>1, <2>3, <3>1 DEF Claimed, AppendTaskAudit
    <3> QED BY <2>1, <3>1, <3>2 DEF HolderMove, Holds
  <2> QED BY <1>2, <2>2, <2>3 DEF AppendTaskAudit
<1>3. CASE AssignTask(p)
  BY <1>3, <1>t DEF AssignTask, Claimed
<1> QED BY <1>1, <1>2, <1>3

\* So does every step.
LEMMA NextHolder ==
  ASSUME TypeInv, RowShape, HolderInv, ClaimsOnly, [Next]_vars
  PROVE  HolderMove
<1>t. h \in [Handlers -> Calls] /\ row \in [TaskIds -> Rows]
  BY DEF TypeInv, TypeOK
<1>1. ASSUME NEW p \in Handlers, Claim(p) \/ AuditedCall(p) PROVE HolderMove
  BY <1>1, BeginningHolder
<1>2. ASSUME NEW p \in Handlers, AssignTask(p) \/ Reply(p) \/ AppendTaskAudit(p) PROVE HolderMove
  BY <1>2, GoingHolder
<1>3. ASSUME NEW a \in Agents, SimpleCall(a) PROVE HolderMove
  <2>1. h' = h /\ hands' \subseteq hands
    BY <1>3 DEF SimpleCall, CompleteTask, FailTask, StreamResult, LetGo
  <2>2. \E t \in TaskIds : row' = Completed(t, a) \/ row' = Failed(t)
    BY <1>3 DEF SimpleCall, CompleteTask, FailTask, StreamResult, CompleteTaskRequest,
       FailTaskRequest, TaskResult
  <2>3. \A t \in TaskIds : row'[t].agent = row[t].agent
    <3>1. ASSUME NEW u \in TaskIds, row' = Completed(u, a)
          PROVE  \A t \in TaskIds : row'[t].agent = row[t].agent
      BY <1>t, <3>1 DEF Completed, Rows
    <3>2. ASSUME NEW u \in TaskIds, row' = Failed(u)
          PROVE  \A t \in TaskIds : row'[t].agent = row[t].agent
      BY <1>t, <3>2 DEF Failed, Rows
    <3> QED BY <2>2, <3>1, <3>2
  <2> QED BY <2>1, <2>3 DEF HolderMove, Holds
<1>4. ASSUME NEW req \in ListMyTasksRequest, ListMyTasks(req) PROVE HolderMove
  BY <1>4 DEF ListMyTasksRequest, ListMyTasks, HolderMove, Holds
<1>5. ASSUME NEW t \in TaskIds, CreateTask(t) PROVE HolderMove
  BY <1>5, <1>t DEF CreateTask, HolderMove, Holds, Rows
<1>6. ASSUME NEW req \in ExtendTaskLeaseRequest, ExtendTaskLease(req) PROVE HolderMove
  BY <1>6, <1>t DEF ExtendTaskLeaseRequest, ExtendTaskLease, HolderMove, Holds, Rows
<1>7. CASE Crash
  BY <1>7 DEF Crash, HolderMove, Holds, Claimed, IdleCall
<1>8. ASSUME \/ \E t \in TaskIds : WatchSend(t) \/ WatchCheck(t)
             \/ \E req \in WatchTaskRequest : Watch(req)
             \/ UNCHANGED vars
      PROVE  HolderMove
  <2>1. row' = row /\ h' = h /\ hands' = hands
    BY <1>8 DEF WatchSend, WatchCheck, Watch, vars
  <2> QED BY <2>1 DEF HolderMove, Holds
<1> QED BY <1>1, <1>2, <1>3, <1>4, <1>5, <1>6, <1>7, <1>8 DEF Next

\* HolderInv is preserved: whoever holds a task has its row, and keeps it.
LEMMA HolderInductive ==
  ASSUME TypeInv, RowShape, HolderInv, ClaimsOnly, [Next]_vars
  PROVE  HolderInv'
<1>m. HolderMove /\ Nobody \notin Agents
  BY NextHolder, PoolAssumption
<1>1. ASSUME NEW a \in Agents, NEW t \in TaskIds, Holds(a, t)' PROVE row'[t].agent = a
  BY <1>1, <1>m DEF HolderMove, HolderInv
<1>2. ASSUME NEW q \in Handlers PROVE Claimed(h[q])'
  <2>1. CASE h'[q] = h[q]
    <3>1. h[q].pc # "idle" => h[q].task \in TaskIds /\ h[q].agent \in Agents
      BY DEF TypeInv, CallKnown
    <3> QED BY <1>m, <2>1, <3>1 DEF HolderMove, HolderInv, Claimed
  <2> QED BY <1>m, <2>1 DEF HolderMove
<1> QED BY <1>1, <1>2 DEF HolderInv

(* Where agents take tasks with ClaimTask only and nothing is given back or *)
(* reassigned, no task is ever in the hands of two agents, whatever replies *)
(* are lost: the UPDATE of ClaimTask decides who gets it.                   *)
THEOREM ClaimersHoldAlone == ClaimsOnly => (Spec => []OneHolder)
<1> SUFFICES ASSUME ClaimsOnly PROVE Spec => []OneHolder
  OBVIOUS
<1>1. Init => TypeInv /\ RowShape /\ HolderInv
  <2>1. ASSUME Init PROVE HolderInv
    BY <2>1 DEF Init, HolderInv, Holds, IdleCall, Claimed
  <2> QED BY <2>1, PoolInitial
<1>2. TypeInv /\ RowShape /\ HolderInv /\ [Next]_vars => (TypeInv /\ RowShape /\ HolderInv)'
  BY TypeInductive, NextRow, RowMoveEffect, HolderInductive DEF TypeInv, TypeOK, Kept
<1>3. HolderInv => OneHolder
  BY DEF HolderInv, OneHolder
<1> QED BY <1>1, <1>2, <1>3, PTL DEF Spec
===============================================================================
