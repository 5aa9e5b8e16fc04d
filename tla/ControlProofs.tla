----------------------------- MODULE ControlProofs ----------------------------
(***************************************************************************)
(* Where the goroutines of the engine can be, for every definition and      *)
(* every number of goroutines, tasks, timers, repeated results and          *)
(* restarts: NoLostWakeup, PhaseReachable and NoSpuriousFailure.            *)
(*                                                                         *)
(* NoLostWakeup is inductive but for three facts about control, gathered in *)
(* ControlInv: nothing happens to an instance before its row exists; a      *)
(* goroutine of SignalWorkflow only loads and appends; the loop over the    *)
(* actions starts at the first one.                                         *)
(*                                                                         *)
(* The other two are not.  What is written into current_phase was read from *)
(* it, by a goroutine (its snapshot) or through a timer that was stored     *)
(* long before: for a set S that is closed under transitions, SetInv(S)     *)
(* says that row, snapshots and timers name members of S only.  With S the  *)
(* states of a well-formed definition, findState never fails.               *)
(***************************************************************************)
EXTENDS EngineProofs

Untouched ==
    status = "NONE" =>
        /\ history = << >> /\ batch = {}
        /\ \A p \in Procs : g[p].pc = "idle"
        /\ \A t \in TaskIds : tasks[t].status = "none"
        /\ \A t \in TimerIds : timers[t].status = "none"

SignalMode(r) == r.mode = "signal" => r.pc \in {"loadRow", "loadHistory", "appendSignal"}

LoopStart(r) == r.pc = "loadHistory" => r.act = 0

ControlInv == Untouched /\ \A p \in Procs : SignalMode(g[p]) /\ LoopStart(g[p])

\* A goroutine that is idle or enters a function satisfies the control facts.
LEMMA FreshControl ==
  /\ SignalMode(Idle) /\ LoopStart(Idle)
  /\ \A mode \in Modes : \A home, pc :
        (pc \in {"appendStarted", "count", "loadRow"} /\ (mode = "signal" => pc = "loadRow")) =>
            SignalMode(Spawned(mode, home, pc)) /\ LoopStart(Spawned(mode, home, pc))
  BY IdleFields, SpawnedFields DEF SignalMode, LoopStart

\* A goroutine of SignalWorkflow goes from LoadInstance to its append.
LEMMA StepControl ==
  ASSUME TypeInv, ControlInv, NEW p \in Procs, Step(p)
  PROVE  \A q \in Procs : SignalMode(g'[q]) /\ LoopStart(g'[q])
<1>t. TypeOK /\ g \in [Procs -> Locals] /\ g[p] \in Locals /\ g[p].home \in {"orchestrator", "worker"}
  BY DEF TypeInv, TypeOK, Locals
<1>c. SignalMode(g[p]) /\ LoopStart(g[p])
  BY DEF ControlInv
<1>o. Others(p)
  BY <1>t, StepEffect
<1> SUFFICES SignalMode(g'[p]) /\ LoopStart(g'[p])
  BY <1>o DEF Others, ControlInv
<1>1. CASE AppendStarted(p)
  BY <1>1, <1>t, <1>c, GotoEffect, FinishEffect, FreshControl
  DEF AppendStarted, At, SignalMode, LoopStart
<1>2. CASE StartWorker(p)
  <2>1. "execute" \in Modes /\ "execute" # "signal"
    BY DEF Modes
  <2>2. CASE Goto(p, "markDegraded")
    BY <1>2, <2>2, <1>t, <1>c, GotoEffect DEF StartWorker, At, SignalMode, LoopStart
  <2>3. CASE g' = [g EXCEPT ![p] = Spawned("execute", "worker", "loadRow")]
    BY <2>1, <2>3, <1>t, SpawnEffect, FreshControl
  <2> QED BY <1>2, <2>2, <2>3 DEF StartWorker
<1>3. CASE MarkDegraded(p) \/ MarkCompleted(p) \/ MarkFailed(p) \/ ReadFails(p)
           \/ RecordTimer(p) \/ AppendSignalEvent(p)
  BY <1>3, <1>t, FinishEffect, FreshControl
  DEF MarkDegraded, MarkCompleted, MarkFailed, ReadFails, RecordTimer, AppendSignalEvent
<1>4. CASE CountPendingTasks(p)
  <2>1. CASE Goto(p, "loadRow")
    BY <2>1, <1>t, <1>c, GotoEffect DEF SignalMode, LoopStart
  <2>2. CASE g' = [g EXCEPT ![p].mode = "resume"]
    <3>1. g'[p].mode = "resume" /\ g'[p].pc = g[p].pc
      BY <2>2, <1>t DEF Locals
    <3> QED BY <3>1, <1>4 DEF CountPendingTasks, At, SignalMode, LoopStart
  <2>3. CASE Finish(p)
    BY <2>3, <1>t, FinishEffect, FreshControl
  <2> QED BY <1>4, <2>1, <2>2, <2>3 DEF CountPendingTasks
<1>5. CASE LoadRow(p)
  BY <1>5, <1>t, <1>c, LoadRowEffect DEF SignalMode, LoopStart
<1>6. CASE LoadHistory(p) \/ LoadHistoryTruncated(p)
  <2>1. g'[p].pc = AfterLoad(g[p].mode, g[p].st) /\ g'[p].mode = g[p].mode
    BY <1>6, <1>t, LoadHistoryEffect
  <2>2. g'[p].pc # "loadHistory" /\ (g[p].mode = "signal" => g'[p].pc = "appendSignal")
    BY <2>1 DEF AfterLoad, Process, Advance
  <2> QED BY <2>1, <2>2 DEF SignalMode, LoopStart
<1>7. CASE UpdatePhase(p)
  <2>1. "execute" \in Modes /\ "execute" # "signal"
    BY DEF Modes
  <2>2. CASE g' = [g EXCEPT ![p] = Spawned("execute", g[p].home, "loadRow")]
    BY <2>1, <2>2, <1>t, SpawnEffect, FreshControl
  <2>3. CASE Finish(p)
    BY <2>3, <1>t, FinishEffect, FreshControl
  <2> QED BY <1>7, <2>2, <2>3 DEF UpdatePhase
<1>8. CASE RecordTransition(p) \/ RecordCompleted(p)
  BY <1>8, <1>t, <1>c, LeaveEffect DEF RecordTransition, RecordCompleted, At, SignalMode, LoopStart
<1>9. CASE CreateTask(p) \/ CreateTimer(p)
  BY <1>9, <1>t, <1>c, GotoEffect, LeaveEffect DEF CreateTask, CreateTimer, At, SignalMode, LoopStart
<1>10. CASE RecordScheduled(p)
  BY <1>10, <1>t, <1>c, ScheduledEffect, FreshControl DEF SignalMode, LoopStart
<1> QED
  BY <1>1, <1>2, <1>3, <1>4, <1>5, <1>6, <1>7, <1>8, <1>9, <1>10 DEF Step

\* Only a goroutine that runs takes steps.
LEMMA StepBusy ==
  ASSUME TypeInv, NEW p \in Procs, Step(p)
  PROVE  g[p].pc # "idle"
  BY DEF Step, At, AppendStarted, StartWorker, MarkDegraded, CountPendingTasks, LoadRow,
     LoadHistory, LoadHistoryTruncated, ReadFails, RecordTransition, UpdatePhase,
     RecordCompleted, MarkCompleted, MarkFailed, CreateTask, RecordScheduled, CreateTimer,
     RecordTimer, AppendSignalEvent

\* No step of a goroutine takes the row away or makes it RUNNING.
LEMMA StepStatus ==
  ASSUME NEW p \in Procs, Step(p)
  PROVE  status' = status \/ status' \in {"DEGRADED", "COMPLETED", "FAILED"}
<1>1. CASE AppendStarted(p)
  BY <1>1 DEF AppendStarted, AppendCommitted, AppendRejected, rowVars
<1>2. CASE MarkDegraded(p) \/ MarkCompleted(p) \/ MarkFailed(p)
  BY <1>2 DEF MarkDegraded, MarkCompleted, MarkFailed, UpdateWorkflowStatus, rowVars
<1>3. CASE RecordTransition(p) \/ RecordCompleted(p) \/ RecordScheduled(p) \/ RecordTimer(p)
  BY <1>3 DEF RecordTransition, RecordCompleted, RecordScheduled, RecordTimer, Record,
     AppendEvents, AppendCommitted, AppendRejected, rowVars
<1>4. CASE AppendSignalEvent(p)
  BY <1>4 DEF AppendSignalEvent, AppendSignal, AppendRejected, rowVars
<1>5. CASE StartWorker(p) \/ CountPendingTasks(p) \/ LoadRow(p) \/ LoadHistory(p)
           \/ LoadHistoryTruncated(p) \/ ReadFails(p) \/ UpdatePhase(p) \/ CreateTask(p)
           \/ CreateTimer(p)
  BY <1>5 DEF StartWorker, CountPendingTasks, LoadRow, LoadHistory, LoadHistoryTruncated,
     ReadFails, UpdatePhase, UpdateCurrentPhase, CreateTask, CreateTimer, storeVars, rowVars
<1> QED BY <1>1, <1>2, <1>3, <1>4, <1>5 DEF Step

\* ControlInv is inductive: one step per disjunct of Next.
LEMMA ControlInductive ==
  ASSUME TypeInv, ControlInv, [Next]_vars
  PROVE  ControlInv'
<1>t. TypeOK /\ g \in [Procs -> Locals] /\ Goroutines \subseteq Procs /\ TimerService \in Procs
  BY DEF TypeInv, TypeOK, Procs
<1>c. Untouched /\ \A q \in Procs : SignalMode(g[q]) /\ LoopStart(g[q])
  BY DEF ControlInv
<1>m. {"none", "execute", "resume", "submit", "signal"} \subseteq Modes
  BY DEF Modes
<1>1. ASSUME NEW p \in Goroutines, StartWorkflow(p) PROVE ControlInv'
  <2>1. status' # "NONE"
    BY <1>1 DEF StartWorkflow, CreateWorkflowInstance
  <2>2. g'[p] = Spawned("none", "orchestrator", "appendStarted") /\ Others(p)
    BY <1>1, <1>t, StartEffect DEF StartWorkflow
  <2> QED BY <1>c, <1>m, <2>1, <2>2, FreshControl DEF ControlInv, Untouched, Others
<1>2. ASSUME NEW p \in Goroutines, SignalWorkflow(p) PROVE ControlInv'
  <2>1. status' # "NONE"
    BY <1>2 DEF SignalWorkflow, storeVars
  <2>2. g'[p] = Spawned("signal", "orchestrator", "loadRow") /\ Others(p)
    BY <1>2, <1>t, StartEffect DEF SignalWorkflow
  <2> QED BY <1>c, <1>m, <2>1, <2>2, FreshControl DEF ControlInv, Untouched, Others
<1>3. ASSUME NEW p \in Goroutines, WorkerDies(p) PROVE ControlInv'
  <2>1. status' = status /\ g[p].pc # "idle" /\ g'[p] = Idle /\ Others(p)
    BY <1>3, <1>t, FinishEffect DEF WorkerDies, WorkerProcs, At, rowVars
  <2> QED BY <1>c, <1>t, <2>1, FreshControl DEF ControlInv, Untouched, Others
<1>4. ASSUME NEW p \in Procs, Step(p) PROVE ControlInv'
  BY <1>4, <1>c, StepControl, StepBusy, StepStatus DEF ControlInv, Untouched
<1>5. CASE Tick
  <2>1. UNCHANGED <<status, history, tasks, timers, g>> /\ batch' \subseteq PendingTimers /\ batch' # {}
    BY <1>5 DEF Tick, storeVars
  <2>2. Untouched'
    BY <1>c, <2>1 DEF Untouched, PendingTimers
  <2> QED BY <1>c, <2>1, <2>2 DEF ControlInv
<1>6. ASSUME NEW t \in TimerIds, MarkTimerFired(t) PROVE ControlInv'
  <2>1. status' = status /\ batch # {}
    BY <1>6 DEF MarkTimerFired, rowVars
  <2>2. /\ Others(TimerService)
        /\ \/ g'[TimerService].pc = "loadRow" /\ g'[TimerService].mode = "timer"
           \/ g' = g
    BY <1>6, <1>t, FiringEffect
  <2> QED BY <1>c, <1>t, <2>1, <2>2 DEF ControlInv, Untouched, Others, SignalMode, LoopStart
<1>7. CASE RecordFired
  <2>1. status' = status
    BY <1>7 DEF RecordFired, Record, AppendEvents, AppendCommitted, AppendRejected, rowVars
  <2>2. /\ Others(TimerService) /\ g[TimerService].pc = "recordFired"
        /\ g'[TimerService].pc = "firedPhase" /\ g'[TimerService].mode = g[TimerService].mode
    BY <1>7, <1>t, RecordFiredEffect
  <2> QED BY <1>c, <1>t, <2>1, <2>2 DEF ControlInv, Untouched, Others, SignalMode, LoopStart
<1>8. ASSUME NEW p \in Goroutines, FiredPhase(p) PROVE ControlInv'
  <2>1. status' = status
    BY <1>8 DEF FiredPhase, UpdateCurrentPhase, rowVars
  <2>2. g[TimerService].pc = "firedPhase"
    BY <1>8, <1>t, FiredPhaseEffect
  <2>3. \A q \in Procs : \/ g'[q] = g[q] \/ g'[q] = Idle
                         \/ g'[q] = Spawned("execute", "orchestrator", "loadRow")
    BY <1>8, <1>t, FiredPhaseEffect
  <2>4. \A q \in Procs : SignalMode(g'[q]) /\ LoopStart(g'[q])
    BY <1>c, <1>m, <2>3, FreshControl
  <2> QED BY <1>c, <1>t, <2>1, <2>2, <2>4 DEF ControlInv, Untouched
<1>9. ASSUME NEW t \in TaskIds, NEW p \in Goroutines, NEW o \in {"COMPLETED", "FAILED"},
             NEW m \in {"resume", "submit"}, Resolve(t, p, o, m)
      PROVE  ControlInv'
  <2>1. status' = status /\ tasks[t].status # "none"
    BY <1>9 DEF Resolve, storeVars
  <2>2. g'[p] = Spawned(m, "orchestrator", "count") /\ Others(p)
    BY <1>9, <1>t, StartEffect DEF Resolve
  <2> QED BY <1>c, <1>m, <2>1, <2>2, FreshControl DEF ControlInv, Untouched, Others
<1>10. ASSUME NEW t \in TaskIds, ReopenTask(t) PROVE ControlInv'
  <2>1. status' = status /\ g' = g /\ tasks[t].status # "none"
    BY <1>10 DEF ReopenTask, storeVars
  <2> QED BY <1>c, <2>1 DEF ControlInv, Untouched
<1>11. ASSUME NEW s \in SUBSET WorkerProcs, NEW p \in Goroutines, RestartOrchestrator(s, p)
       PROVE  ControlInv'
  <2>1. UNCHANGED <<status, history, tasks, timers>> /\ batch' = {}
    BY <1>11 DEF RestartOrchestrator, storeVars
  <2>2. \A q \in Procs : \/ g'[q] = g[q] \/ g'[q] = Idle
                         \/ g'[q] = Spawned("execute", "worker", "loadRow")
    BY <1>11, <1>t, RestartEffect
  <2>3. status # "RUNNING" => \A q \in Procs : g'[q] = g[q] \/ g'[q] = Idle
    BY <1>11 DEF RestartOrchestrator
  <2>4. \A q \in Procs : SignalMode(g'[q]) /\ LoopStart(g'[q])
    BY <1>c, <1>m, <2>2, FreshControl
  <2> QED BY <1>c, <2>1, <2>3, <2>4, IdleFields DEF ControlInv, Untouched
<1>12. CASE UNCHANGED vars
  BY <1>12, <1>c DEF vars, storeVars, engineVars, ControlInv, Untouched
<1>13. CASE Next
  BY <1>13, <1>1, <1>2, <1>3, <1>4, <1>5, <1>6, <1>7, <1>8, <1>9, <1>10, <1>11, NextCases
<1> QED BY <1>12, <1>13

-------------------------------------------------------------------------------
(* The property itself.                                                     *)

(* A step that leaves the instance and every reason to be awake alone.      *)
LEMMA StaysAwake ==
  ASSUME NoLostWakeup, status' = status \/ status' # "RUNNING", Started' => Started,
         faults' = 0 => faults = 0, OpenTasks' = OpenTasks, PendingTimers' = PendingTimers,
         \A p \in Procs : Obligated(p) => Obligated(p)'
  PROVE  NoLostWakeup'
  BY DEF NoLostWakeup, Reliable

\* A goroutine in one of these places keeps the instance awake.
LEMMA WakesUp ==
  ASSUME NEW p \in Procs, g'[p].mode # "signal",
         \/ g'[p].pc \in {"startWorker", "markDegraded", "count", "loadRow", "loadHistory",
                          "recordTransition", "updatePhase", "recordCompleted", "markCompleted",
                          "markFailed", "createTimer", "recordFired", "firedPhase"}
         \/ g'[p].pc = "createTask" /\ g'[p].act = 0
  PROVE  NoLostWakeup'
<1>1. Obligated(p)'
  BY DEF Obligated, At
<1> QED BY <1>1 DEF NoLostWakeup

\* After a failed statement the property claims nothing.
LEMMA FailureExcuses ==
  ASSUME TypeOK, Fault
  PROVE  NoLostWakeup'
  BY DEF NoLostWakeup, Reliable, Fault, TypeOK, StoreTypeOK

\* Only StartWorkflow records WorkflowStarted.
LEMMA RecordNotStarted ==
  ASSUME TypeOK, NEW p \in Procs, NEW type \in EventTypes \ {"WorkflowStarted"}, NEW n \in Names,
         Record(p, type, n)
  PROVE  /\ Started' => Started
         /\ faults' = 0 => faults = 0
         /\ status' = status
<1>0. history \in Seq(Events) /\ faults \in Nat
  BY StoreAssumption DEF TypeOK, StoreTypeOK
<1> DEFINE e == [seq |-> NextSeq(g[p]), type |-> type, state |-> n]
<1>1. CASE AppendCommitted(g[p].ver, e)
  <2>1. history' = Append(history, e) /\ e.type # "WorkflowStarted" /\ faults' = faults
        /\ status' = status
    BY <1>1 DEF AppendCommitted, rowVars
  <2>2. ASSUME Started' PROVE Started
    <3>1. PICK i \in DOMAIN history' : history'[i].type = "WorkflowStarted"
      BY <2>2 DEF Started
    <3>2. i # Len(history) + 1
      BY <1>0, <2>1, <3>1
    <3>3. i \in DOMAIN history /\ history'[i] = history[i]
      BY <1>0, <2>1, <3>1, <3>2
    <3> QED BY <3>1, <3>3 DEF Started
  <2> QED BY <2>1, <2>2
<1>2. CASE AppendRejected(g[p].ver, e.seq)
  BY <1>0, <1>2 DEF AppendRejected, logVars, rowVars, Started, Fault
<1> QED BY <1>1, <1>2 DEF Record, AppendEvents

\* A statement of a goroutine preserves NoLostWakeup.
LEMMA StepAwake ==
  ASSUME TypeInv, ControlInv, NoLostWakeup, NEW p \in Procs, Step(p)
  PROVE  NoLostWakeup'
<1>t. TypeOK /\ g \in [Procs -> Locals] /\ g[p] \in Locals /\ g[p].st \in Names /\ g[p].mode \in Modes
  BY DEF TypeInv, TypeOK, Locals
<1>c. SignalMode(g[p]) /\ LoopStart(g[p])
  BY DEF ControlInv
<1>o. Others(p)
  BY <1>t, StepEffect
<1>n. ~Obligated(p) => \A q \in Procs : Obligated(q) => Obligated(q)'
  BY <1>o DEF Others, Obligated, At
<1>f. Fault => NoLostWakeup'
  BY <1>t, FailureExcuses
<1>1. CASE AppendStarted(p)
  <2>1. CASE Goto(p, "startWorker")
    <3>1. g'[p].pc = "startWorker" /\ g'[p].mode = g[p].mode
      BY <1>t, <2>1, GotoEffect
    <3>2. g[p].mode # "signal"
      BY <1>1, <1>c DEF AppendStarted, At, SignalMode
    <3> QED BY <3>1, <3>2, WakesUp
  <2>2. CASE AppendRejected(0, 1)
    <3>1. ~Obligated(p)
      BY <1>1 DEF AppendStarted, At, Obligated
    <3>2. Fault \/ UNCHANGED <<status, history, faults, tasks, timers>>
      BY <1>1, <2>2 DEF AppendStarted, AppendRejected, rowVars, logVars
    <3>3. CASE UNCHANGED <<status, history, faults, tasks, timers>>
      BY <1>n, <3>1, <3>3, StaysAwake DEF Started, OpenTasks, PendingTimers
    <3> QED BY <1>f, <3>2, <3>3
  <2> QED BY <1>1, <2>1, <2>2 DEF AppendStarted
<1>2. CASE StartWorker(p)
  <2>1. CASE g' = [g EXCEPT ![p] = Spawned("execute", "worker", "loadRow")]
    BY <1>t, <2>1, SpawnEffect, SpawnedFields, WakesUp
  <2> QED BY <1>2, <1>f, <2>1 DEF StartWorker
<1>3. CASE MarkDegraded(p) \/ MarkCompleted(p) \/ MarkFailed(p)
  <2>1. Fault \/ status' # "RUNNING"
    BY <1>3 DEF MarkDegraded, MarkCompleted, MarkFailed, UpdateWorkflowStatus
  <2> QED BY <1>f, <2>1 DEF NoLostWakeup
<1>4. CASE CountPendingTasks(p)
  <2>1. CASE OpenTasks = {}
    <3>1. g[p].pc = "count" /\ g'[p].pc = "loadRow" /\ g'[p].mode = g[p].mode
      BY <1>4, <1>t, <2>1, CountEffect
    <3>2. g[p].mode # "signal"
      BY <1>c, <3>1 DEF SignalMode
    <3> QED BY <3>1, <3>2, WakesUp
  <2>2. CASE OpenTasks # {}
    <3>1. OpenTasks' # {}
      BY <1>4, <2>2 DEF CountPendingTasks, OpenTasks
    <3> QED BY <3>1 DEF NoLostWakeup
  <2> QED BY <2>1, <2>2
<1>5. CASE LoadRow(p) /\ g[p].mode # "signal"
  BY <1>5, <1>t, LoadRowEffect, WakesUp
<1>6. CASE LoadHistory(p) /\ g[p].mode # "signal"
  <2>1. /\ g'[p].pc = AfterLoad(g[p].mode, g[p].st) /\ g'[p].mode = g[p].mode
        /\ g'[p].act = g[p].act /\ g[p].act = 0
    BY <1>6, <1>t, <1>c, LoadHistoryEffect DEF LoopStart
  <2>2. AfterLoad(g[p].mode, g[p].st) \in {"recordFired", "markFailed", "recordCompleted",
                                           "recordTransition", "createTask", "createTimer"}
    BY <1>6 DEF AfterLoad, Process, Advance
  <2> QED BY <1>6, <2>1, <2>2, WakesUp
<1>7. CASE (LoadRow(p) \/ LoadHistory(p)) /\ g[p].mode = "signal"
  <2>1. ~Obligated(p)
    BY <1>7 DEF Obligated
  <2>2. UNCHANGED <<status, history, faults, tasks, timers>>
    BY <1>7 DEF LoadRow, LoadHistory, storeVars
  <2> QED BY <1>n, <2>1, <2>2, StaysAwake DEF Started, OpenTasks, PendingTimers
<1>8. CASE LoadHistoryTruncated(p) \/ ReadFails(p)
  BY <1>8, <1>f DEF LoadHistoryTruncated, ReadFails
<1>9. CASE RecordTransition(p) \/ RecordCompleted(p)
  BY <1>9, <1>t, <1>c, LeaveEffect, WakesUp DEF RecordTransition, RecordCompleted, At, SignalMode
<1>10. CASE UpdatePhase(p)
  <2>1. CASE g' = [g EXCEPT ![p] = Spawned("execute", g[p].home, "loadRow")]
    BY <1>t, <2>1, SpawnEffect, SpawnedFields, WakesUp
  <2> QED BY <1>10, <1>f, <2>1 DEF UpdatePhase
<1>11. CASE CreateTask(p)
  <2>1. ASSUME NEW t \in TaskIds,
               tasks' = [tasks EXCEPT ![t] = [status |-> "open", state |-> g[p].st,
                                              act |-> g[p].act]]
        PROVE  NoLostWakeup'
    <3>1. t \in OpenTasks'
      BY <1>t, <2>1 DEF OpenTasks, TypeOK
    <3> QED BY <3>1 DEF NoLostWakeup
  <2> QED BY <1>11, <1>f, <2>1 DEF CreateTask
<1>12. CASE CreateTimer(p)
  <2>1. ASSUME NEW t \in TimerIds,
               timers' = [timers EXCEPT ![t] = [status |-> "pending",
                                                next |-> Def[g[p].st].transition]]
        PROVE  NoLostWakeup'
    <3>1. t \in PendingTimers'
      BY <1>t, <2>1 DEF PendingTimers, TypeOK
    <3> QED BY <3>1 DEF NoLostWakeup
  <2> QED BY <1>12, <1>f, <2>1 DEF CreateTimer
<1>13. CASE RecordScheduled(p) \/ RecordTimer(p)
  <2>1. ~Obligated(p) /\ UNCHANGED <<tasks, timers>>
    BY <1>13 DEF RecordScheduled, RecordTimer, At, Obligated
  <2>2. g[p].pc = "recordTimer" => Def[g[p].st].transition \in Names
    BY DefAssumption DEF TypeInv, StateKnown, NeedsState
  <2>3. (Started' => Started) /\ (faults' = 0 => faults = 0) /\ status' = status
    BY <1>13, <1>t, <2>2, RecordNotStarted DEF RecordScheduled, RecordTimer, At, EventTypes
  <2> QED BY <1>n, <2>1, <2>3, StaysAwake DEF OpenTasks, PendingTimers
<1>14. CASE AppendSignalEvent(p)
  <2>1. ~Obligated(p) /\ UNCHANGED <<tasks, timers>>
    BY <1>14 DEF AppendSignalEvent, At, Obligated
  <2>2. Fault \/ UNCHANGED <<status, history, faults>>
    BY <1>14 DEF AppendSignalEvent, AppendSignal, AppendRejected, rowVars, logVars
  <2> QED BY <1>f, <1>n, <2>1, <2>2, StaysAwake DEF Started, OpenTasks, PendingTimers
<1> QED
  BY <1>1, <1>2, <1>3, <1>4, <1>5, <1>6, <1>7, <1>8, <1>9, <1>10, <1>11, <1>12, <1>13, <1>14
  DEF Step

\* NoLostWakeup is inductive, given ControlInv: one step per disjunct of Next.
LEMMA WakeupInductive ==
  ASSUME TypeInv, ControlInv, NoLostWakeup, [Next]_vars
  PROVE  NoLostWakeup'
<1>t. TypeOK /\ g \in [Procs -> Locals] /\ Goroutines \subseteq Procs /\ TimerService \in Procs
  BY DEF TypeInv, TypeOK, Procs
<1>1. ASSUME NEW p \in Goroutines, StartWorkflow(p) PROVE NoLostWakeup'
  <2>1. history = << >> /\ history' = history
    BY <1>1 DEF StartWorkflow, CreateWorkflowInstance, logVars, ControlInv, Untouched
  <2> QED BY <2>1 DEF NoLostWakeup, Started
<1>2. ASSUME NEW p \in Goroutines, SignalWorkflow(p) PROVE NoLostWakeup'
  <2>1. g[p].pc = "idle" /\ Others(p) /\ UNCHANGED <<status, history, faults, tasks, timers>>
    BY <1>2, <1>t, StartEffect DEF SignalWorkflow, storeVars
  <2>2. \A q \in Procs : Obligated(q) => Obligated(q)'
    BY <2>1 DEF Others, Obligated, At
  <2> QED BY <2>1, <2>2, StaysAwake DEF Started, OpenTasks, PendingTimers
<1>3. ASSUME NEW p \in Goroutines, WorkerDies(p) PROVE NoLostWakeup'
  BY <1>3, <1>t, FailureExcuses DEF WorkerDies
<1>4. ASSUME NEW p \in Procs, Step(p) PROVE NoLostWakeup'
  BY <1>4, StepAwake
<1>5. CASE Tick \/ UNCHANGED vars
  <2>1. UNCHANGED <<status, history, faults, tasks, timers, g>>
    BY <1>5 DEF Tick, vars, storeVars, engineVars
  <2> QED BY <2>1, StaysAwake DEF Started, OpenTasks, PendingTimers, Obligated, At
<1>6. ASSUME NEW t \in TimerIds, MarkTimerFired(t) PROVE NoLostWakeup'
  BY <1>6, <1>t, FiringEffect, FailureExcuses, WakesUp
<1>7. CASE RecordFired
  <2>1. g'[TimerService].pc = "firedPhase" /\ g'[TimerService].mode = g[TimerService].mode
        /\ g[TimerService].pc = "recordFired"
    BY <1>7, <1>t, RecordFiredEffect
  <2>2. g[TimerService].mode # "signal"
    BY <1>t, <2>1 DEF ControlInv, SignalMode
  <2> QED BY <1>t, <2>1, <2>2, WakesUp
<1>8. ASSUME NEW p \in Goroutines, FiredPhase(p) PROVE NoLostWakeup'
  BY <1>8, <1>t, FiredPhaseEffect, SpawnedFields, FailureExcuses, WakesUp
<1>9. ASSUME NEW t \in TaskIds, NEW p \in Goroutines, NEW o \in {"COMPLETED", "FAILED"},
             NEW m \in {"resume", "submit"}, Resolve(t, p, o, m)
      PROVE  NoLostWakeup'
  <2>1. g'[p].pc = "count" /\ g'[p].mode = m /\ m # "signal"
    BY <1>9, <1>t, StartEffect DEF Resolve
  <2> QED BY <1>t, <2>1, WakesUp
<1>10. ASSUME NEW t \in TaskIds, ReopenTask(t) PROVE NoLostWakeup'
  <2>1. t \in OpenTasks'
    BY <1>10, <1>t DEF ReopenTask, OpenTasks, TypeOK, Tasks
  <2> QED BY <2>1 DEF NoLostWakeup
<1>11. ASSUME NEW s \in SUBSET WorkerProcs, NEW p \in Goroutines, RestartOrchestrator(s, p)
       PROVE  NoLostWakeup'
  <2>1. CASE status = "RUNNING"
    <3>1. p \in Procs /\ g'[p] = Spawned("execute", "worker", "loadRow")
      BY <1>11, <1>t, <2>1, RestartEffect
    <3> QED BY <3>1, SpawnedFields, WakesUp
  <2>2. CASE status # "RUNNING"
    BY <1>11, <2>2 DEF RestartOrchestrator, storeVars, NoLostWakeup
  <2> QED BY <2>1, <2>2
<1>12. CASE Next
  BY <1>12, <1>1, <1>2, <1>3, <1>4, <1>5, <1>6, <1>7, <1>8, <1>9, <1>10, <1>11, NextCases
<1> QED BY <1>5, <1>12

\* Both hold initially.
LEMMA WakeupInitial == Init => ControlInv /\ NoLostWakeup
<1> SUFFICES ASSUME Init PROVE ControlInv /\ NoLostWakeup
  OBVIOUS
<1>1. Untouched
  BY IdleFields DEF Init, StoreInit, Untouched
<1>2. \A p \in Procs : SignalMode(g[p]) /\ LoopStart(g[p])
  BY FreshControl DEF Init
<1>3. NoLostWakeup
  BY DEF Init, StoreInit, NoLostWakeup
<1> QED BY <1>1, <1>2, <1>3 DEF ControlInv

(* As long as no statement failed, a RUNNING instance whose start was       *)
(* recorded always has an open task, an unfired timer or a goroutine that   *)
(* will create one or close it: no lost race in resumeWorkflowAfterTask, no *)
(* repeated result and no restart of the orchestrator makes the engine      *)
(* forget it.                                                               *)
THEOREM WakeupNotLost == Spec => []NoLostWakeup
<1>1. Init => TypeInv /\ ControlInv /\ NoLostWakeup
  BY TypeInitial, WakeupInitial
<1>2. TypeInv /\ ControlInv /\ NoLostWakeup /\ [Next]_vars
        => (TypeInv /\ ControlInv /\ NoLostWakeup)'
  BY TypeInductive, ControlInductive, WakeupInductive
<1> QED BY <1>1, <1>2, PTL DEF Spec

-------------------------------------------------------------------------------
(* Phases.                                                                  *)

\* Where the local st of a goroutine is used later on.
Carries == NeedsState \cup {"loadHistory", "recordFired", "firedPhase"}

Within(r, S) ==
    /\ r.pc \in Carries => r.st \in S
    /\ r.mode = "timer" => r.pc # "count" /\ (r.pc = "loadRow" => r.st \in S)
    /\ r.pc \in {"recordTransition", "updatePhase"} => Def[r.st].transition # NoState

SetInv(S) ==
    /\ status # "NONE" => phase \in S
    /\ \A t \in TimerIds : timers[t].next \in S \cup {NoState}
    /\ \A p \in Procs : Within(g[p], S)

ReachInv == \A S \in SUBSET Names : Closed(S) => SetInv(S)

\* A goroutine that is idle or enters a function carries no state.
LEMMA FreshWithin ==
  ASSUME NEW S
  PROVE  /\ Within(Idle, S)
         /\ \A mode, home, pc :
               (pc \in {"appendStarted", "count", "loadRow"} /\ mode # "timer") =>
                   Within(Spawned(mode, home, pc), S)
  BY IdleFields, SpawnedFields DEF Within, Carries, NeedsState

\* advanceFromState goes on to a transition only where there is one.
LEMMA AfterLoadWithin ==
  ASSUME NEW mode, NEW n
  PROVE  /\ AfterLoad(mode, n) \notin {"count", "loadRow", "updatePhase"}
         /\ AfterLoad(mode, n) = "recordTransition" => Def[n].transition # NoState
  BY DEF AfterLoad, Process, Advance

\* What a statement of a goroutine does to the locals that carry states.
LEMMA StepWithin ==
  ASSUME TypeInv, ControlInv, NEW S, SetInv(S), NEW p \in Procs, Step(p)
  PROVE  \A q \in Procs : Within(g'[q], S)
<1>t. g \in [Procs -> Locals] /\ g[p] \in Locals
  BY DEF TypeInv, TypeOK
<1>w. Within(g[p], S) /\ status # "NONE" /\ phase \in S
  BY StepBusy DEF SetInv, ControlInv, Untouched
<1>o. Others(p)
  BY <1>t, StepEffect
<1> SUFFICES Within(g'[p], S)
  BY <1>o DEF Others, SetInv
<1>1. CASE AppendStarted(p) \/ MarkDegraded(p) \/ ReadFails(p) \/ RecordCompleted(p)
           \/ MarkCompleted(p) \/ MarkFailed(p) \/ RecordTimer(p) \/ AppendSignalEvent(p)
  <2>1. g'[p].pc \in {"startWorker", "idle", "markCompleted"}
    BY <1>1, <1>t, GotoEffect, FinishEffect, LeaveEffect
    DEF AppendStarted, MarkDegraded, ReadFails, RecordCompleted, MarkCompleted, MarkFailed,
        RecordTimer, AppendSignalEvent
  <2> QED BY <2>1 DEF Within, Carries, NeedsState
<1>2. CASE StartWorker(p) \/ UpdatePhase(p)
  <2>1. \/ Goto(p, "markDegraded") \/ Finish(p)
        \/ \E home : g' = [g EXCEPT ![p] = Spawned("execute", home, "loadRow")]
    BY <1>2 DEF StartWorker, UpdatePhase
  <2>2. CASE Goto(p, "markDegraded") \/ Finish(p)
    <3>1. g'[p].pc \in {"markDegraded", "idle"}
      BY <2>2, <1>t, GotoEffect, FinishEffect
    <3> QED BY <3>1 DEF Within, Carries, NeedsState
  <2>3. ASSUME NEW home, g' = [g EXCEPT ![p] = Spawned("execute", home, "loadRow")]
        PROVE  Within(g'[p], S)
    BY <2>3, <1>t, SpawnEffect, FreshWithin
  <2> QED BY <2>1, <2>2, <2>3
<1>3. CASE CountPendingTasks(p)
  <2>1. g[p].pc = "count" /\ g[p].mode # "timer"
    BY <1>3, <1>w DEF CountPendingTasks, At, Within
  <2>2. CASE Goto(p, "loadRow") \/ Finish(p)
    <3>1. g'[p].pc = "idle" \/ (g'[p].pc = "loadRow" /\ g'[p].mode = g[p].mode)
      BY <2>2, <1>t, GotoEffect, FinishEffect
    <3> QED BY <2>1, <3>1 DEF Within, Carries, NeedsState
  <2>3. CASE g' = [g EXCEPT ![p].mode = "resume"]
    <3>1. g'[p].pc = "count" /\ g'[p].mode = "resume"
      BY <2>1, <2>3, <1>t DEF Locals
    <3> QED BY <3>1 DEF Within, Carries, NeedsState
  <2> QED BY <1>3, <2>2, <2>3 DEF CountPendingTasks
<1>4. CASE LoadRow(p)
  BY <1>4, <1>t, <1>w, LoadRowEffect DEF Within, Carries, NeedsState
<1>5. CASE LoadHistory(p) \/ LoadHistoryTruncated(p)
  <2>1. /\ g[p].pc = "loadHistory" /\ g'[p].st = g[p].st
        /\ g'[p].pc = AfterLoad(g[p].mode, g[p].st)
    BY <1>5, <1>t, LoadHistoryEffect
  <2>2. g[p].st \in S
    BY <1>w, <2>1 DEF Within, Carries
  <2> QED BY <2>1, <2>2, AfterLoadWithin DEF Within
<1>6. CASE RecordTransition(p)
  <2>1. g[p].pc = "recordTransition" /\ g'[p].pc = "updatePhase" /\ g'[p].st = g[p].st
    BY <1>6, <1>t, LeaveEffect DEF RecordTransition, At
  <2> QED BY <2>1, <1>w DEF Within, Carries, NeedsState
<1>7. CASE CreateTask(p) \/ CreateTimer(p)
  <2>1. /\ g[p].pc \in {"createTask", "createTimer"} /\ g'[p].st = g[p].st
        /\ g'[p].pc \in {"recordScheduled", "recordTimer", "markFailed"}
    BY <1>7, <1>t, GotoEffect, LeaveEffect DEF CreateTask, CreateTimer, At
  <2> QED BY <2>1, <1>w DEF Within, Carries, NeedsState
<1>8. CASE RecordScheduled(p)
  <2>1. CASE g'[p].pc = "idle"
    BY <2>1 DEF Within, Carries, NeedsState
  <2>2. CASE g[p].pc = "recordScheduled" /\ g'[p].pc = "createTask" /\ g'[p].st = g[p].st
    BY <2>2, <1>w DEF Within, Carries, NeedsState
  <2> QED BY <1>8, <1>t, <2>1, <2>2, ScheduledEffect
<1> QED BY <1>1, <1>2, <1>3, <1>4, <1>5, <1>6, <1>7, <1>8 DEF Step

\* What a statement of a goroutine does to the row and to the timers.
LEMMA StepPhase ==
  ASSUME TypeInv, ControlInv, NEW S, Closed(S), SetInv(S), NEW p \in Procs, Step(p)
  PROVE  /\ status' # "NONE" => phase' \in S
         /\ \A t \in TimerIds : timers'[t].next \in S \cup {NoState}
<1>t. timers \in [TimerIds -> Timers]
  BY DEF TypeInv, TypeOK
<1>w. Within(g[p], S) /\ phase \in S /\ \A t \in TimerIds : timers[t].next \in S \cup {NoState}
  BY StepBusy DEF SetInv, ControlInv, Untouched
<1>s. g[p].pc \in NeedsState => g[p].st \in S \cap States
  BY <1>w DEF TypeInv, StateKnown, Within, Carries
<1>1. CASE UpdatePhase(p)
  <2>1. g[p].st \in S \cap States /\ Def[g[p].st].transition # NoState
    BY <1>1, <1>s, <1>w DEF UpdatePhase, At, Within, NeedsState
  <2>2. Def[g[p].st].transition \in S
    BY <2>1 DEF Closed
  <2>3. phase' \in S /\ timers' = timers
    BY <1>1, <1>w, <2>2 DEF UpdatePhase, UpdateCurrentPhase, rowVars
  <2> QED BY <1>w, <2>3
<1>2. CASE CreateTimer(p)
  <2>1. Def[g[p].st].transition \in S \cup {NoState}
    BY <1>2, <1>s DEF CreateTimer, At, NeedsState, Closed
  <2>2. phase' = phase
    BY <1>2 DEF CreateTimer, rowVars
  <2>3. \/ timers' = timers
        \/ \E t \in TimerIds : timers' = [timers EXCEPT ![t] =
              [status |-> "pending", next |-> Def[g[p].st].transition]]
    BY <1>2 DEF CreateTimer
  <2> QED BY <1>t, <1>w, <2>1, <2>2, <2>3
<1>3. CASE AppendStarted(p) \/ RecordTransition(p) \/ RecordCompleted(p) \/ RecordScheduled(p)
           \/ RecordTimer(p) \/ AppendSignalEvent(p)
  <2>1. phase' = phase /\ timers' = timers
    BY <1>3 DEF AppendStarted, RecordTransition, RecordCompleted, RecordScheduled, RecordTimer,
       AppendSignalEvent, Record, AppendEvents, AppendSignal, AppendCommitted, AppendRejected, rowVars
  <2> QED BY <1>w, <2>1
<1>4. CASE StartWorker(p) \/ MarkDegraded(p) \/ CountPendingTasks(p) \/ LoadRow(p)
           \/ LoadHistory(p) \/ LoadHistoryTruncated(p) \/ ReadFails(p) \/ MarkCompleted(p)
           \/ MarkFailed(p) \/ CreateTask(p)
  <2>1. phase' = phase /\ timers' = timers
    BY <1>4 DEF StartWorker, MarkDegraded, CountPendingTasks, LoadRow, LoadHistory,
       LoadHistoryTruncated, ReadFails, MarkCompleted, MarkFailed, CreateTask,
       UpdateWorkflowStatus, storeVars, rowVars
  <2> QED BY <1>w, <2>1
<1> QED BY <1>1, <1>2, <1>3, <1>4 DEF Step

\* SetInv of a closed set is inductive: one step per disjunct of Next.
LEMMA SetInductive ==
  ASSUME TypeInv, ControlInv, [Next]_vars, NEW S, Closed(S), SetInv(S)
  PROVE  SetInv(S)'
<1>t. TypeOK /\ g \in [Procs -> Locals] /\ Goroutines \subseteq Procs /\ TimerService \in Procs
  BY DEF TypeInv, TypeOK, Procs
<1>c. /\ status # "NONE" => phase \in S
      /\ \A t \in TimerIds : timers[t].next \in S \cup {NoState}
      /\ \A q \in Procs : Within(g[q], S)
  BY DEF SetInv
<1>1. ASSUME NEW p \in Goroutines, StartWorkflow(p) PROVE SetInv(S)'
  <2>1. phase' \in S /\ timers' = timers
    BY <1>1 DEF StartWorkflow, CreateWorkflowInstance, Closed
  <2>2. g'[p] = Spawned("none", "orchestrator", "appendStarted") /\ Others(p)
    BY <1>1, <1>t, StartEffect DEF StartWorkflow
  <2> QED BY <1>c, <2>1, <2>2, FreshWithin DEF SetInv, Others
<1>2. ASSUME NEW p \in Goroutines, SignalWorkflow(p) PROVE SetInv(S)'
  <2>1. UNCHANGED <<status, phase, timers>>
    BY <1>2 DEF SignalWorkflow, storeVars
  <2>2. g'[p] = Spawned("signal", "orchestrator", "loadRow") /\ Others(p)
    BY <1>2, <1>t, StartEffect DEF SignalWorkflow
  <2> QED BY <1>c, <2>1, <2>2, FreshWithin DEF SetInv, Others
<1>3. ASSUME NEW p \in Goroutines, WorkerDies(p) PROVE SetInv(S)'
  <2>1. UNCHANGED <<status, phase, timers>> /\ g'[p] = Idle /\ Others(p)
    BY <1>3, <1>t, FinishEffect DEF WorkerDies, rowVars
  <2> QED BY <1>c, <2>1, FreshWithin DEF SetInv, Others
<1>4. ASSUME NEW p \in Procs, Step(p) PROVE SetInv(S)'
  BY <1>4, StepWithin, StepPhase DEF SetInv
<1>5. CASE Tick
  BY <1>5, <1>c DEF Tick, storeVars, SetInv
<1>6. ASSUME NEW t \in TimerIds, MarkTimerFired(t) PROVE SetInv(S)'
  <2>1. UNCHANGED <<status, phase>> /\ Target(t) \in S
    BY <1>6, <1>c DEF MarkTimerFired, rowVars, Target, Closed
  <2>2. CASE g' = g /\ timers' = timers
    BY <2>1, <2>2, <1>c DEF SetInv
  <2>3. CASE /\ g'[TimerService].pc = "loadRow" /\ g'[TimerService].st = Target(t)
             /\ timers' = [timers EXCEPT ![t].status = "fired"]
    <3>1. Within(g'[TimerService], S)
      BY <2>1, <2>3 DEF Within, Carries, NeedsState
    <3>2. \A u \in TimerIds : timers'[u].next = timers[u].next
      BY <2>3, <1>t DEF TypeOK, Timers
    <3>3. Others(TimerService)
      BY <1>6, <1>t, FiringEffect
    <3> QED BY <1>c, <2>1, <3>1, <3>2, <3>3 DEF SetInv, Others
  <2> QED BY <1>6, <1>t, <2>2, <2>3, FiringEffect
<1>7. CASE RecordFired
  <2>1. UNCHANGED <<status, phase, timers>>
    BY <1>7 DEF RecordFired, Record, AppendEvents, AppendCommitted, AppendRejected, rowVars
  <2>2. /\ Others(TimerService) /\ g[TimerService].pc = "recordFired"
        /\ g'[TimerService].pc = "firedPhase" /\ g'[TimerService].st = g[TimerService].st
    BY <1>7, <1>t, RecordFiredEffect
  <2>3. Within(g'[TimerService], S)
    BY <1>c, <1>t, <2>2 DEF Within, Carries, NeedsState
  <2> QED BY <1>c, <2>1, <2>2, <2>3 DEF SetInv, Others
<1>8. ASSUME NEW p \in Goroutines, FiredPhase(p) PROVE SetInv(S)'
  <2>1. g[TimerService].pc = "firedPhase" /\ g[TimerService].st \in S
    BY <1>8, <1>t, <1>c, FiredPhaseEffect DEF Within, Carries
  <2>2. UNCHANGED <<status, timers>> /\ (phase' = phase \/ phase' \in S)
    BY <1>8, <2>1 DEF FiredPhase, UpdateCurrentPhase, rowVars
  <2>3. \A q \in Procs : \/ g'[q] = g[q] \/ g'[q] = Idle
                         \/ g'[q] = Spawned("execute", "orchestrator", "loadRow")
    BY <1>8, <1>t, FiredPhaseEffect
  <2> QED BY <1>c, <2>2, <2>3, FreshWithin DEF SetInv
<1>9. ASSUME NEW t \in TaskIds, NEW p \in Goroutines, NEW o \in {"COMPLETED", "FAILED"},
             NEW m \in {"resume", "submit"}, Resolve(t, p, o, m)
      PROVE  SetInv(S)'
  <2>1. UNCHANGED <<status, phase, timers>>
    BY <1>9 DEF Resolve, storeVars
  <2>2. g'[p] = Spawned(m, "orchestrator", "count") /\ Others(p)
    BY <1>9, <1>t, StartEffect DEF Resolve
  <2> QED BY <1>c, <2>1, <2>2, FreshWithin DEF SetInv, Others
<1>10. ASSUME NEW t \in TaskIds, ReopenTask(t) PROVE SetInv(S)'
  BY <1>10, <1>c DEF ReopenTask, storeVars, SetInv
<1>11. ASSUME NEW s \in SUBSET WorkerProcs, NEW p \in Goroutines, RestartOrchestrator(s, p)
       PROVE  SetInv(S)'
  <2>1. UNCHANGED <<status, phase, timers>>
    BY <1>11 DEF RestartOrchestrator, storeVars
  <2>2. \A q \in Procs : \/ g'[q] = g[q] \/ g'[q] = Idle
                         \/ g'[q] = Spawned("execute", "worker", "loadRow")
    BY <1>11, <1>t, RestartEffect
  <2> QED BY <1>c, <2>1, <2>2, FreshWithin DEF SetInv
<1>12. CASE UNCHANGED vars
  BY <1>12, <1>c DEF vars, storeVars, engineVars, SetInv
<1>13. CASE Next
  BY <1>13, <1>1, <1>2, <1>3, <1>4, <1>5, <1>6, <1>7, <1>8, <1>9, <1>10, <1>11, NextCases
<1> QED BY <1>12, <1>13

\* ReachInv holds initially.
LEMMA ReachInitial == Init => ReachInv
  BY FreshWithin DEF Init, StoreInit, ReachInv, SetInv

\* Every step preserves it.
LEMMA ReachInductive ==
  ASSUME TypeInv, ControlInv, ReachInv, [Next]_vars
  PROVE  ReachInv'
<1> SUFFICES ASSUME NEW S \in SUBSET Names, Closed(S) PROVE SetInv(S)'
  BY DEF ReachInv, Closed
<1> QED BY SetInductive DEF ReachInv

(* current_phase is in every set of names that is closed under the          *)
(* transitions of the definition: whatever races, restarts, repeated        *)
(* results and failed statements, the engine and the timer service write no *)
(* phase that the definition does not lead to.                              *)
THEOREM PhaseIsReachable == Spec => []PhaseReachable
<1>1. Init => TypeInv /\ ControlInv /\ ReachInv
  BY TypeInitial, WakeupInitial, ReachInitial
<1>2. TypeInv /\ ControlInv /\ ReachInv /\ [Next]_vars => (TypeInv /\ ControlInv /\ ReachInv)'
  BY TypeInductive, ControlInductive, ReachInductive
<1>3. ReachInv => PhaseReachable
  BY DEF ReachInv, SetInv, PhaseReachable
<1> QED BY <1>1, <1>2, <1>3, PTL DEF Spec

-------------------------------------------------------------------------------
(* No race ends in FAILED.                                                  *)

FailureInv ==
    WellFormed /\ Reliable =>
        status # "FAILED" /\ \A p \in Procs : g[p].pc # "markFailed"

\* The states of a well-formed definition are a closed set.
LEMMA WellFormedClosed ==
  ASSUME WellFormed
  PROVE  Closed(States) /\ States \in SUBSET Names
  BY DefAssumption DEF WellFormed, Closed

\* Executing or leaving a state of a well-formed definition meets no error branch.
LEMMA WellFormedLoad ==
  ASSUME WellFormed, NEW mode, NEW n \in States
  PROVE  AfterLoad(mode, n) # "markFailed"
<1>1. /\ Def[n].end \/ Def[n].transition # NoState
      /\ Def[n].type = "delay" => Def[n].valid
      /\ Def[n].type \in {"operation", "delay"}
  BY DefAssumption DEF WellFormed
<1>2. Advance(n) # "markFailed"
  BY <1>1 DEF Advance
<1>3. Process(n) # "markFailed"
  BY <1>1, <1>2 DEF Process
<1> QED BY <1>2, <1>3 DEF AfterLoad

\* Only a failed statement or a missing state sends a goroutine to markFailed.
LEMMA StepNoFailure ==
  ASSUME TypeInv, WellFormed, SetInv(States), faults' = 0, NEW p \in Procs, Step(p),
         g[p].pc # "markFailed"
  PROVE  g'[p].pc # "markFailed"
<1>t. g \in [Procs -> Locals] /\ faults \in Nat
  BY StoreAssumption DEF TypeInv, TypeOK, StoreTypeOK
<1>f. ~Fault
  BY <1>t DEF Fault
<1>1. CASE LoadHistory(p) \/ LoadHistoryTruncated(p)
  <2>1. g[p].pc = "loadHistory" /\ g'[p].pc = AfterLoad(g[p].mode, g[p].st)
    BY <1>1, <1>t, LoadHistoryEffect
  <2>2. g[p].st \in States
    BY <2>1 DEF SetInv, Within, Carries
  <2> QED BY <2>1, <2>2, WellFormedLoad
<1>2. CASE CreateTask(p) \/ CreateTimer(p)
  BY <1>2, <1>t, <1>f, GotoEffect DEF CreateTask, CreateTimer
<1>3. CASE ~(LoadHistory(p) \/ LoadHistoryTruncated(p) \/ CreateTask(p) \/ CreateTimer(p))
  BY <1>3, <1>t, StepEffect, CountEffect, LoadRowEffect, ScheduledEffect
<1> QED BY <1>1, <1>2, <1>3

\* Only a goroutine at markFailed writes FAILED.
LEMMA StepNotFailed ==
  ASSUME NEW p \in Procs, Step(p), status # "FAILED", g[p].pc # "markFailed"
  PROVE  status' # "FAILED"
<1>1. CASE AppendStarted(p)
  BY <1>1 DEF AppendStarted, AppendCommitted, AppendRejected, rowVars
<1>2. CASE MarkDegraded(p) \/ MarkCompleted(p) \/ MarkFailed(p)
  BY <1>2 DEF MarkDegraded, MarkCompleted, MarkFailed, UpdateWorkflowStatus, rowVars, At
<1>3. CASE RecordTransition(p) \/ RecordCompleted(p) \/ RecordScheduled(p) \/ RecordTimer(p)
  BY <1>3 DEF RecordTransition, RecordCompleted, RecordScheduled, RecordTimer, Record,
     AppendEvents, AppendCommitted, AppendRejected, rowVars
<1>4. CASE AppendSignalEvent(p)
  BY <1>4 DEF AppendSignalEvent, AppendSignal, AppendRejected, rowVars
<1>5. CASE StartWorker(p) \/ CountPendingTasks(p) \/ LoadRow(p) \/ LoadHistory(p)
           \/ LoadHistoryTruncated(p) \/ ReadFails(p) \/ UpdatePhase(p) \/ CreateTask(p)
           \/ CreateTimer(p)
  BY <1>5 DEF StartWorker, CountPendingTasks, LoadRow, LoadHistory, LoadHistoryTruncated,
     ReadFails, UpdatePhase, UpdateCurrentPhase, CreateTask, CreateTimer, storeVars, rowVars
<1> QED BY <1>1, <1>2, <1>3, <1>4, <1>5 DEF Step

\* FailureInv is preserved: outside Step no goroutine arrives at markFailed.
LEMMA FailureInductive ==
  ASSUME TypeInv, ReachInv, FailureInv, [Next]_vars
  PROVE  FailureInv'
<1> SUFFICES ASSUME WellFormed, faults' = 0
             PROVE  status' # "FAILED" /\ \A q \in Procs : g'[q].pc # "markFailed"
  BY DEF FailureInv, Reliable, WellFormed
<1>t. /\ TypeOK /\ g \in [Procs -> Locals] /\ faults \in Nat
      /\ Goroutines \subseteq Procs /\ TimerService \in Procs
  BY StoreAssumption DEF TypeInv, TypeOK, StoreTypeOK, Procs
<1>r. faults = 0
  BY <1>t, NextExtends DEF Extended, Fault
<1>c. status # "FAILED" /\ \A q \in Procs : g[q].pc # "markFailed"
  BY <1>r DEF FailureInv, Reliable
<1>1. ASSUME NEW p \in Goroutines, StartWorkflow(p) \/ SignalWorkflow(p)
      PROVE  status' # "FAILED" /\ \A q \in Procs : g'[q].pc # "markFailed"
  <2>1. status' # "FAILED"
    BY <1>1, <1>c DEF StartWorkflow, SignalWorkflow, CreateWorkflowInstance, storeVars
  <2>2. g'[p].pc \in {"appendStarted", "loadRow"} /\ Others(p)
    BY <1>1, <1>t, StartEffect DEF StartWorkflow, SignalWorkflow
  <2> QED BY <1>c, <2>1, <2>2 DEF Others
<1>2. ASSUME NEW p \in Goroutines, WorkerDies(p)
      PROVE  status' # "FAILED" /\ \A q \in Procs : g'[q].pc # "markFailed"
  BY <1>2, <1>r, <1>t DEF WorkerDies, Fault
<1>3. ASSUME NEW p \in Procs, Step(p)
      PROVE  status' # "FAILED" /\ \A q \in Procs : g'[q].pc # "markFailed"
  <2>1. SetInv(States)
    BY WellFormedClosed DEF ReachInv
  <2>2. Others(p) /\ g'[p].pc # "markFailed"
    BY <1>3, <1>c, <1>t, <2>1, StepEffect, StepNoFailure
  <2> QED BY <1>3, <1>c, <2>2, StepNotFailed DEF Others
<1>4. ASSUME Tick \/ (\E t \in TaskIds : ReopenTask(t))
      PROVE  status' # "FAILED" /\ \A q \in Procs : g'[q].pc # "markFailed"
  BY <1>4, <1>c DEF Tick, ReopenTask, storeVars
<1>5. ASSUME NEW t \in TimerIds, MarkTimerFired(t)
      PROVE  status' # "FAILED" /\ \A q \in Procs : g'[q].pc # "markFailed"
  <2>1. status' = status
    BY <1>5 DEF MarkTimerFired, rowVars
  <2> QED BY <1>5, <1>c, <1>t, <2>1, FiringEffect DEF Others
<1>6. CASE RecordFired
  <2>1. status' = status
    BY <1>6 DEF RecordFired, Record, AppendEvents, AppendCommitted, AppendRejected, rowVars
  <2> QED BY <1>6, <1>c, <1>t, <2>1, RecordFiredEffect DEF Others
<1>7. ASSUME NEW p \in Goroutines, FiredPhase(p)
      PROVE  status' # "FAILED" /\ \A q \in Procs : g'[q].pc # "markFailed"
  <2>1. status' = status
    BY <1>7 DEF FiredPhase, UpdateCurrentPhase, rowVars
  <2>2. \A q \in Procs : \/ g'[q] = g[q] \/ g'[q] = Idle
                         \/ g'[q] = Spawned("execute", "orchestrator", "loadRow")
    BY <1>7, <1>t, FiredPhaseEffect
  <2> QED BY <1>c, <2>1, <2>2, IdleFields, SpawnedFields
<1>8. ASSUME NEW t \in TaskIds, NEW p \in Goroutines, NEW o \in {"COMPLETED", "FAILED"},
             NEW m \in {"resume", "submit"}, Resolve(t, p, o, m)
      PROVE  status' # "FAILED" /\ \A q \in Procs : g'[q].pc # "markFailed"
  <2>1. status' = status /\ g'[p].pc = "count" /\ Others(p)
    BY <1>8, <1>t, StartEffect DEF Resolve, storeVars
  <2> QED BY <1>c, <2>1 DEF Others
<1>9. ASSUME NEW s \in SUBSET WorkerProcs, NEW p \in Goroutines, RestartOrchestrator(s, p)
      PROVE  status' # "FAILED" /\ \A q \in Procs : g'[q].pc # "markFailed"
  <2>1. status' = status
    BY <1>9 DEF RestartOrchestrator, storeVars
  <2>2. \A q \in Procs : \/ g'[q] = g[q] \/ g'[q] = Idle
                         \/ g'[q] = Spawned("execute", "worker", "loadRow")
    BY <1>9, <1>t, RestartEffect
  <2> QED BY <1>c, <2>1, <2>2, IdleFields, SpawnedFields
<1>10. CASE UNCHANGED vars
  BY <1>10, <1>c DEF vars, storeVars, engineVars
<1>11. CASE Next
  BY <1>11, <1>1, <1>2, <1>3, <1>4, <1>5, <1>6, <1>7, <1>8, <1>9, NextCases
<1> QED BY <1>10, <1>11

(* A workflow of a well-formed definition is never marked FAILED while no   *)
(* statement failed: no race, repeated result or restart makes findState    *)
(* miss a state, or advanceFromState a transition.                          *)
THEOREM RacesDoNotFail == Spec => []NoSpuriousFailure
<1>1. Init => TypeInv /\ ControlInv /\ ReachInv /\ FailureInv
  <2>1. ASSUME Init PROVE FailureInv
    BY <2>1, IdleFields DEF Init, StoreInit, FailureInv
  <2> QED BY <2>1, TypeInitial, WakeupInitial, ReachInitial
<1>2. TypeInv /\ ControlInv /\ ReachInv /\ FailureInv /\ [Next]_vars
        => (TypeInv /\ ControlInv /\ ReachInv /\ FailureInv)'
  BY TypeInductive, ControlInductive, ReachInductive, FailureInductive
<1>3. FailureInv => NoSpuriousFailure
  BY DEF FailureInv, NoSpuriousFailure
<1> QED BY <1>1, <1>2, <1>3, PTL DEF Spec
===============================================================================
