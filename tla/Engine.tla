-------------------------------- MODULE Engine --------------------------------
(***************************************************************************)
(* The workflow engine (internal/runtime/engine.go) driving one instance   *)
(* of one workflow definition: the goroutines that the RPC handlers, the    *)
(* timer service and the worker processes run through executeWorkflow,      *)
(* advanceFromState and resumeWorkflowAfterTask, interleaved between any    *)
(* two database statements.                                                 *)
(*                                                                         *)
(* A goroutine is a record of its locals:                                   *)
(*   pc    the statement it executes next,                                  *)
(*   mode  the function that called LoadInstance (what to do after it),     *)
(*   home  the operating-system process it lives in,                        *)
(*   ver   instance.Version as loaded,                                      *)
(*   len   len(events) as loaded,                                           *)
(*   st    the state being processed (in mode "timer", the timer's target), *)
(*   act   the index i of the loop over state.Actions.                      *)
(***************************************************************************)
EXTENDS EventStore

CONSTANTS
    States,        \* names of the states of the definition
    Start,         \* def.Start
    Def,           \* the definition: what the parser made of each state
    Goroutines,    \* bound on goroutines alive at once
    TimerService,  \* the goroutine of timer.Service
    TaskIds,       \* bound on tasks ever created
    TimerIds,      \* bound on timers ever created
    MaxRepeats,    \* bound on repeated results and reopened tasks
    MaxSignals,    \* bound on SignalWorkflow calls
    MaxRestarts    \* bound on restarts of the orchestrator

(* The parser keeps `type' in these two values but checks neither that a    *)
(* transition names a state nor that a duration parses (`valid').           *)
ASSUME DefAssumption ==
    /\ States \subseteq Names \ {NoState}
    /\ Start \in Names
    /\ Def \in [States -> [type : {"operation", "delay"}, actions : Nat,
                           transition : Names, end : BOOLEAN, valid : BOOLEAN]]

ASSUME BoundAssumption ==
    /\ TimerService \notin Goroutines
    /\ MaxRepeats \in Nat /\ MaxSignals \in Nat /\ MaxRestarts \in Nat

VARIABLES
    tasks,      \* rows of the tasks table
    timers,     \* rows of the timers table
    batch,      \* timers of the current checkTimers that are still to be handled
    g,          \* the goroutines
    repeats,    \* calls made so far, per bound
    signals,
    restarts

calls == <<repeats, signals, restarts>>
engineVars == <<tasks, timers, batch, g, repeats, signals, restarts>>
vars == <<storeVars, engineVars>>

Procs == Goroutines \cup {TimerService}

PCs == {"idle", "appendStarted", "startWorker", "markDegraded", "count", "loadRow",
        "loadHistory", "recordTransition", "updatePhase", "recordCompleted",
        "markCompleted", "markFailed", "createTask", "recordScheduled",
        "createTimer", "recordTimer", "recordFired", "firedPhase", "appendSignal"}

Modes == {"none", "execute", "resume", "submit", "timer", "signal"}

Locals == [pc : PCs, mode : Modes, home : {"orchestrator", "worker"},
           ver : Nat, len : Nat, st : Names, act : Nat]

Idle == [pc |-> "idle", mode |-> "none", home |-> "orchestrator",
         ver |-> 0, len |-> 0, st |-> NoState, act |-> 0]

(* "open" is PENDING or ASSIGNED, which CountPendingTasks counts alike;     *)
(* who holds a task is the matter of module TaskPool.                       *)
Tasks == [status : {"none", "open", "COMPLETED", "FAILED"}, state : Names, act : Nat]

Timers == [status : {"none", "pending", "fired"}, next : Names]

\* The type invariant of the engine and its store.
TypeOK ==
    /\ StoreTypeOK
    /\ tasks \in [TaskIds -> Tasks]
    /\ timers \in [TimerIds -> Timers]
    /\ batch \subseteq TimerIds
    /\ g \in [Procs -> Locals]
    /\ repeats \in 0 .. MaxRepeats
    /\ signals \in 0 .. MaxSignals
    /\ restarts \in 0 .. MaxRestarts

Init ==
    /\ StoreInit
    /\ tasks = [t \in TaskIds |-> [status |-> "none", state |-> NoState, act |-> 0]]
    /\ timers = [t \in TimerIds |-> [status |-> "none", next |-> NoState]]
    /\ batch = {}
    /\ g = [p \in Procs |-> Idle]
    /\ repeats = 0 /\ signals = 0 /\ restarts = 0

-------------------------------------------------------------------------------
(* Control flow.                                                            *)

At(p, pc) == g[p].pc = pc

Goto(p, pc) == g' = [g EXCEPT ![p].pc = pc]

Finish(p) == g' = [g EXCEPT ![p] = Idle]

\* Goto where the loaded snapshot is not used any more.
Leave(p, pc) ==
    g' = [g EXCEPT ![p] = [g[p] EXCEPT !.pc = pc, !.ver = 0, !.len = 0, !.act = 0]]

\* The locals of a goroutine of process home that has just entered a function.
Spawned(mode, home, pc) ==
    [Idle EXCEPT !.pc = pc, !.mode = mode, !.home = home]

\* `go f()' takes a free slot.
Spawn(p, mode, home, pc) ==
    /\ p \in Goroutines
    /\ At(p, "idle")
    /\ g' = [g EXCEPT ![p] = Spawned(mode, home, pc)]

\* A seeded bug: the missing transition is looked at first.
AdvanceMissingFirst(s) ==
    IF Def[s].transition = NoState THEN "markFailed"
    ELSE IF Def[s].end THEN "recordCompleted" ELSE "recordTransition"

(* advanceFromState: what follows state s.                                  *)
Advance(s) ==
    IF Def[s].end THEN "recordCompleted"
    ELSE IF Def[s].transition = NoState THEN "markFailed"
    ELSE "recordTransition"

\* A seeded bug: the tasks of a state are not waited for.
ProcessWithoutTasks(s) ==
    IF Def[s].type = "operation" THEN Advance(s) ELSE "createTimer"

(* processState: what executing state s begins with.                        *)
Process(s) ==
    IF Def[s].type = "operation"
    THEN IF Def[s].actions = 0 THEN Advance(s) ELSE "createTask"
    ELSE IF Def[s].valid THEN "createTimer" ELSE "markFailed"

(* What the caller of LoadInstance does with the phase it read.             *)
AfterLoad(mode, n) ==
    CASE mode = "timer"  -> "recordFired"
      [] mode = "signal" -> "appendSignal"
      [] OTHER -> IF n \notin States THEN "markFailed"
                  ELSE IF mode = "execute" THEN Process(n) ELSE Advance(n)

\* A seeded bug: the version is taken for the number of events.
NextSeqOfVersion(r) == r.ver + r.act + 1

\* int64(len(events) + i + 1); i is 0 outside the loop over actions.
NextSeq(r) == r.len + r.act + 1

\* AppendEvents with the snapshot p loaded.
Record(p, type, n) ==
    AppendEvents(g[p].ver, [seq |-> NextSeq(g[p]), type |-> type, state |-> n])

OpenTasks == {t \in TaskIds : tasks[t].status = "open"}

PendingTimers == {t \in TimerIds : timers[t].status = "pending"}

-------------------------------------------------------------------------------
(* Starting an instance: PublicServer.StartWorkflow.                        *)

StartWorkflow(p) ==
    /\ CreateWorkflowInstance(Start)
    /\ Spawn(p, "none", "orchestrator", "appendStarted")
    /\ UNCHANGED <<tasks, timers, batch, calls>>

\* A failed append is returned to the client; the row stays RUNNING.
AppendStarted(p) ==
    /\ At(p, "appendStarted")
    /\ LET e == [seq |-> 1, type |-> "WorkflowStarted", state |-> Start]
       IN \/ AppendCommitted(0, e) /\ Goto(p, "startWorker")
          \/ AppendRejected(0, 1) /\ Finish(p)
    /\ UNCHANGED <<tasks, timers, batch, calls>>

(* supervisor.StartWorker forks a worker process, whose Start runs          *)
(* ResumeWorkflow; when the fork fails the instance becomes DEGRADED.       *)
StartWorker(p) ==
    /\ At(p, "startWorker")
    /\ \/ /\ g' = [g EXCEPT ![p] = Spawned("execute", "worker", "loadRow")]
          /\ UNCHANGED faults
       \/ Fault /\ Goto(p, "markDegraded")
    /\ UNCHANGED <<rowVars, logVars, tasks, timers, batch, calls>>

MarkDegraded(p) ==
    /\ At(p, "markDegraded")
    /\ \/ UpdateWorkflowStatus("DEGRADED")
       \/ Fault /\ UNCHANGED <<rowVars, logVars>>
    /\ Finish(p)
    /\ UNCHANGED <<tasks, timers, batch, calls>>

-------------------------------------------------------------------------------
(* Results arriving from agents.  None of the three statements looks at the *)
(* status of the task, so a result may be repeated or come late.            *)

(* The goroutine that goes on lives in the orchestrator.  A result that a   *)
(* worker took from RabbitMQ (module WorkerQueue) starts it in the worker,  *)
(* where it executes the same statements.                                   *)

\* The first result of a task is free, any other one counts as a repeat.
CountRepeat(t) ==
    IF tasks[t].status = "open" THEN UNCHANGED repeats
    ELSE repeats < MaxRepeats /\ repeats' = repeats + 1

Resolve(t, p, outcome, mode) ==
    /\ tasks[t].status # "none"
    /\ CountRepeat(t)
    /\ tasks' = [tasks EXCEPT ![t].status = outcome]
    /\ Spawn(p, mode, "orchestrator", "count")
    /\ UNCHANGED <<storeVars, timers, batch, signals, restarts>>

CompleteTask(t, p) == Resolve(t, p, "COMPLETED", "resume")

\* A seeded bug: a failed task does not resume the workflow.
FailTaskQuietly(t, p) ==
    /\ tasks[t].status # "none"
    /\ CountRepeat(t)
    /\ tasks' = [tasks EXCEPT ![t].status = "FAILED"]
    /\ UNCHANGED <<storeVars, timers, batch, g, signals, restarts>>

FailTask(t, p) == Resolve(t, p, "FAILED", "resume")

SubmitTaskResult(t, p) == Resolve(t, p, "COMPLETED", "submit")

(* ReassignTask to the pool sets status = 'PENDING' for any task the named  *)
(* agent was ever assigned, resolved ones included.                         *)
ReopenTask(t) ==
    /\ tasks[t].status \in {"COMPLETED", "FAILED"}
    /\ repeats < MaxRepeats /\ repeats' = repeats + 1
    /\ tasks' = [tasks EXCEPT ![t].status = "open"]
    /\ UNCHANGED <<storeVars, timers, batch, g, signals, restarts>>

(* CountPendingTasks, in resumeWorkflowAfterTask or in SubmitTaskResult;    *)
(* the latter leaves a non-zero count to a resumeWorkflowAfterTask.         *)
CountPendingTasks(p) ==
    /\ At(p, "count")
    /\ IF OpenTasks = {} THEN Goto(p, "loadRow")
       ELSE IF g[p].mode = "submit" THEN g' = [g EXCEPT ![p].mode = "resume"]
       ELSE Finish(p)
    /\ UNCHANGED <<storeVars, tasks, timers, batch, calls>>

-------------------------------------------------------------------------------
(* LoadInstance is two statements: the row first, then the history.  In     *)
(* mode "timer" the loaded phase is not used.                               *)

LoadRow(p) ==
    /\ At(p, "loadRow")
    /\ g' = [g EXCEPT ![p] = [g[p] EXCEPT !.pc = "loadHistory", !.ver = version, !.act = 0,
                                       !.st = IF g[p].mode = "timer" THEN g[p].st ELSE phase]]
    /\ UNCHANGED <<storeVars, tasks, timers, batch, calls>>

LoadHistory(p) ==
    /\ At(p, "loadHistory")
    /\ g' = [g EXCEPT ![p] = [g[p] EXCEPT !.pc = AfterLoad(g[p].mode, g[p].st),
                                       !.len = Len(history)]]
    /\ UNCHANGED <<storeVars, tasks, timers, batch, calls>>

(* queryHistory does not look at rows.Err(): an iteration that breaks off   *)
(* returns the rows read so far and no error.                               *)
LoadHistoryTruncated(p) ==
    /\ At(p, "loadHistory")
    /\ Fault
    /\ \E n \in 0 .. Len(history) :
         g' = [g EXCEPT ![p] = [g[p] EXCEPT !.pc = AfterLoad(g[p].mode, g[p].st), !.len = n]]
    /\ UNCHANGED <<rowVars, logVars, tasks, timers, batch, calls>>

\* Any other failed read returns its error, and the goroutine ends.
ReadFails(p) ==
    /\ g[p].pc \in {"count", "loadRow", "loadHistory"}
    /\ Fault
    /\ Finish(p)
    /\ UNCHANGED <<rowVars, logVars, tasks, timers, batch, calls>>

-------------------------------------------------------------------------------
(* advanceFromState.  A rejected append is logged and otherwise ignored.    *)

RecordTransition(p) ==
    /\ At(p, "recordTransition")
    /\ Record(p, "StateTransitioned", Def[g[p].st].transition)
    /\ Leave(p, "updatePhase")
    /\ UNCHANGED <<tasks, timers, batch, calls>>

\* A seeded bug: the next state is executed before the phase is written.
UpdatePhaseForgotten(p) ==
    /\ At(p, "updatePhase")
    /\ g' = [g EXCEPT ![p] = Spawned("execute", g[p].home, "loadRow")]
    /\ UNCHANGED <<storeVars, tasks, timers, batch, calls>>

\* The phase is written and executeWorkflow runs in the same goroutine.
UpdatePhase(p) ==
    /\ At(p, "updatePhase")
    /\ \/ /\ UpdateCurrentPhase(Def[g[p].st].transition)
          /\ g' = [g EXCEPT ![p] = Spawned("execute", g[p].home, "loadRow")]
       \/ Fault /\ UNCHANGED <<rowVars, logVars>> /\ Finish(p)
    /\ UNCHANGED <<tasks, timers, batch, calls>>

RecordCompleted(p) ==
    /\ At(p, "recordCompleted")
    /\ Record(p, "WorkflowCompleted", g[p].st)
    /\ Leave(p, "markCompleted")
    /\ UNCHANGED <<tasks, timers, batch, calls>>

\* A seeded bug: a status no reader knows.
MarkCompletedMisspelt(p) ==
    /\ At(p, "markCompleted")
    /\ UpdateWorkflowStatus("COMPLETE")
    /\ Finish(p)
    /\ UNCHANGED <<tasks, timers, batch, calls>>

MarkCompleted(p) ==
    /\ At(p, "markCompleted")
    /\ \/ UpdateWorkflowStatus("COMPLETED")
       \/ Fault /\ UNCHANGED <<rowVars, logVars>>
    /\ Finish(p)
    /\ UNCHANGED <<tasks, timers, batch, calls>>

MarkFailed(p) ==
    /\ At(p, "markFailed")
    /\ \/ UpdateWorkflowStatus("FAILED")
       \/ Fault /\ UNCHANGED <<rowVars, logVars>>
    /\ Finish(p)
    /\ UNCHANGED <<tasks, timers, batch, calls>>

-------------------------------------------------------------------------------
(* processOperationState: one round of CreateTask and AppendEvents for each *)
(* action, every append with the version loaded before the first round.     *)

CreateTask(p) ==
    /\ At(p, "createTask")
    /\ \/ \E t \in TaskIds :
             /\ tasks[t].status = "none"
             /\ tasks' = [tasks EXCEPT ![t] = [status |-> "open", state |-> g[p].st,
                                               act |-> g[p].act]]
             /\ Goto(p, "recordScheduled")
             /\ UNCHANGED faults
       \/ Fault /\ Leave(p, "markFailed") /\ UNCHANGED tasks
    /\ UNCHANGED <<rowVars, logVars, timers, batch, calls>>

RecordScheduled(p) ==
    /\ At(p, "recordScheduled")
    /\ Record(p, "TaskScheduled", g[p].st)
    /\ IF g[p].act + 1 < Def[g[p].st].actions
       THEN g' = [g EXCEPT ![p] = [g[p] EXCEPT !.pc = "createTask", !.act = g[p].act + 1]]
       ELSE Finish(p)
    /\ UNCHANGED <<tasks, timers, batch, calls>>

-------------------------------------------------------------------------------
(* processDelayState.  A delay state's `end' is not looked at.              *)

CreateTimer(p) ==
    /\ At(p, "createTimer")
    /\ \/ \E t \in TimerIds :
             /\ timers[t].status = "none"
             /\ timers' = [timers EXCEPT ![t] = [status |-> "pending",
                                                 next |-> Def[g[p].st].transition]]
             /\ Goto(p, "recordTimer")
             /\ UNCHANGED faults
       \/ Fault /\ Leave(p, "markFailed") /\ UNCHANGED timers
    /\ UNCHANGED <<rowVars, logVars, tasks, batch, calls>>

RecordTimer(p) ==
    /\ At(p, "recordTimer")
    /\ Record(p, "TimerScheduled", Def[g[p].st].transition)
    /\ Finish(p)
    /\ UNCHANGED <<tasks, timers, batch, calls>>

-------------------------------------------------------------------------------
(* The timer service: checkTimers on every tick, timers of a batch in turn. *)

\* GetPendingTimers: the unfired timers that are due by now.
Tick ==
    /\ batch = {}
    /\ At(TimerService, "idle")
    /\ batch' \in (SUBSET PendingTimers) \ {{}}
    /\ UNCHANGED <<storeVars, tasks, timers, g, calls>>

\* A seeded bug: the missing transition of a delay is not replaced.
TargetAsStored(t) == timers[t].next

\* A delay without a transition returns to the start of the workflow.
Target(t) == IF timers[t].next = NoState THEN Start ELSE timers[t].next

\* MarkTimerFired, then ResumeAfterTimer begins with LoadInstance.
MarkTimerFired(t) ==
    /\ t \in batch
    /\ At(TimerService, "idle")
    /\ batch' = batch \ {t}
    /\ \/ /\ timers' = [timers EXCEPT ![t].status = "fired"]
          /\ g' = [g EXCEPT ![TimerService] =
                     [Spawned("timer", "orchestrator", "loadRow")
                        EXCEPT !.st = Target(t)]]
          /\ UNCHANGED faults
       \/ Fault /\ UNCHANGED <<timers, g>>
    /\ UNCHANGED <<rowVars, logVars, tasks, calls>>

RecordFired ==
    /\ At(TimerService, "recordFired")
    /\ Record(TimerService, "TimerFired", g[TimerService].st)
    /\ Leave(TimerService, "firedPhase")
    /\ UNCHANGED <<tasks, timers, batch, calls>>

\* The phase is written and executeWorkflow runs in a new goroutine.
FiredPhase(p) ==
    /\ At(TimerService, "firedPhase")
    /\ p \in Goroutines /\ At(p, "idle")
    /\ \/ /\ UpdateCurrentPhase(g[TimerService].st)
          /\ g' = [g EXCEPT ![TimerService] = Idle,
                            ![p] = Spawned("execute", "orchestrator", "loadRow")]
       \/ Fault /\ UNCHANGED <<rowVars, logVars>> /\ Finish(TimerService)
    /\ UNCHANGED <<tasks, timers, batch, calls>>

-------------------------------------------------------------------------------
(* PublicServer.SignalWorkflow.                                             *)

SignalWorkflow(p) ==
    /\ status # "NONE"
    /\ signals < MaxSignals /\ signals' = signals + 1
    /\ Spawn(p, "signal", "orchestrator", "loadRow")
    /\ UNCHANGED <<storeVars, tasks, timers, batch, repeats, restarts>>

AppendSignalEvent(p) ==
    /\ At(p, "appendSignal")
    /\ AppendSignal(g[p].ver)
    /\ Finish(p)
    /\ UNCHANGED <<tasks, timers, batch, calls>>

-------------------------------------------------------------------------------
(* Processes.                                                               *)

WorkerProcs == {q \in Goroutines : g[q].home = "worker" /\ ~At(q, "idle")}

\* A seeded bug: RUNNING instances are not picked up.
RestartWithoutRecovery(survivors, p) ==
    /\ restarts < MaxRestarts /\ restarts' = restarts + 1
    /\ batch' = {}
    /\ g' = [q \in Procs |-> IF q \in survivors THEN g[q] ELSE Idle]
    /\ UNCHANGED <<storeVars, tasks, timers, repeats, signals>>

(* The orchestrator stops, taking its goroutines along, and starts again:   *)
(* every RUNNING instance gets a new worker.  Workers live in process       *)
(* groups of their own: a crash leaves them running, an orderly shutdown    *)
(* cancels their context.  What workers do meanwhile commutes with the      *)
(* stop, so stop and start are one step.                                    *)
RestartOrchestrator(survivors, p) ==
    /\ restarts < MaxRestarts /\ restarts' = restarts + 1
    /\ batch' = {}
    /\ IF status = "RUNNING"
       THEN /\ p \notin survivors
            /\ g' = [q \in Procs |-> IF q \in survivors THEN g[q]
                                     ELSE IF q = p THEN Spawned("execute", "worker", "loadRow")
                                     ELSE Idle]
       ELSE g' = [q \in Procs |-> IF q \in survivors THEN g[q] ELSE Idle]
    /\ UNCHANGED <<storeVars, tasks, timers, repeats, signals>>

\* A worker process dies; monitorWorker does not start another one.
WorkerDies(p) ==
    /\ p \in WorkerProcs
    /\ Fault
    /\ Finish(p)
    /\ UNCHANGED <<rowVars, logVars, tasks, timers, batch, calls>>

-------------------------------------------------------------------------------

\* One statement of a goroutine that is already running.
Step(p) ==
    \/ AppendStarted(p) \/ StartWorker(p) \/ MarkDegraded(p)
    \/ CountPendingTasks(p)
    \/ LoadRow(p) \/ LoadHistory(p) \/ LoadHistoryTruncated(p) \/ ReadFails(p)
    \/ RecordTransition(p) \/ UpdatePhase(p)
    \/ RecordCompleted(p) \/ MarkCompleted(p) \/ MarkFailed(p)
    \/ CreateTask(p) \/ RecordScheduled(p)
    \/ CreateTimer(p) \/ RecordTimer(p)
    \/ AppendSignalEvent(p)

TimerStep ==
    \/ Tick
    \/ \E t \in TimerIds : MarkTimerFired(t)
    \/ RecordFired
    \/ \E p \in Goroutines : FiredPhase(p)

AgentStep ==
    \E t \in TaskIds, p \in Goroutines :
        CompleteTask(t, p) \/ FailTask(t, p) \/ SubmitTaskResult(t, p)

Next ==
    \/ \E p \in Goroutines : StartWorkflow(p) \/ SignalWorkflow(p) \/ WorkerDies(p)
    \/ \E p \in Procs : Step(p)
    \/ TimerStep
    \/ AgentStep
    \/ \E t \in TaskIds : ReopenTask(t)
    \/ \E s \in SUBSET WorkerProcs, p \in Goroutines : RestartOrchestrator(s, p)

Spec == Init /\ [][Next]_vars

(* Weak fairness of every goroutine and of the timer service is the Go      *)
(* scheduler's and the ticker's; that of the agents, who resolve the tasks  *)
(* they are given, is an assumption on the environment.                     *)
Fairness ==
    /\ WF_vars(\E p \in Goroutines : StartWorkflow(p))
    /\ \A p \in Procs : WF_vars(Step(p))
    /\ WF_vars(TimerStep)
    /\ WF_vars(AgentStep)

FairSpec == Spec /\ Fairness

-------------------------------------------------------------------------------
(* Properties of every definition, however many goroutines race.            *)

Started == \E i \in DOMAIN history : history[i].type = "WorkflowStarted"

(* As long as no statement failed, the history has no hole and no           *)
(* duplicate: the i-th event committed has sequence number i, and the       *)
(* version counts the committed appends.  It rests on the order of the two  *)
(* reads of LoadInstance (a version read before the history can only be too *)
(* old) and on the conflict that every append of processOperationState but  *)
(* the first runs into.                                                     *)
HistoryContiguous ==
    /\ Reliable => \A i \in DOMAIN history : history[i].seq = i
    /\ version = Len(history) + (IF signalled THEN 1 ELSE 0)

(* A goroutine that is bound to create a task or a timer, to close the      *)
(* instance, or to find an open task.                                       *)
Obligated(p) ==
    /\ g[p].mode # "signal"
    /\ \/ g[p].pc \in {"startWorker", "markDegraded", "count", "loadRow", "loadHistory",
                       "recordTransition", "updatePhase", "recordCompleted",
                       "markCompleted", "markFailed", "createTimer",
                       "recordFired", "firedPhase"}
       \/ At(p, "createTask") /\ g[p].act = 0

(* A RUNNING instance whose start was acknowledged is never forgotten: an   *)
(* open task, an unfired timer or a goroutine will move it on, through      *)
(* restarts of the orchestrator and whatever results are repeated, lost     *)
(* races and reopened tasks.                                                *)
NoLostWakeup ==
    (status = "RUNNING" /\ Started /\ Reliable) =>
        \/ OpenTasks # {}
        \/ PendingTimers # {}
        \/ \E p \in Procs : Obligated(p)

\* A set of names that holds Start and the transition of each of its states.
Closed(S) == Start \in S /\ \A s \in S \cap States : Def[s].transition \in S \cup {NoState}

(* current_phase only ever holds a name reachable from Start by the         *)
(* transitions of the definition: it is in every closed set of names.       *)
PhaseReachable ==
    status # "NONE" => \A S \in SUBSET Names : Closed(S) => phase \in S

WellFormed ==
    /\ Start \in States
    /\ \A s \in States :
         /\ Def[s].end \/ Def[s].transition \in States
         /\ Def[s].transition \in States \cup {NoState}
         /\ Def[s].type = "delay" => Def[s].valid

(* The engine marks an instance FAILED only for a definition that is not    *)
(* well formed or after a failed statement: no race between goroutines      *)
(* leads executeWorkflow or advanceFromState into an error branch.          *)
NoSpuriousFailure == (WellFormed /\ Reliable) => status # "FAILED"

AsLog == INSTANCE EventLog WITH Entries <- Events, log <- history, sound <- Reliable

(* The history of an instance is an append-only log: no step of any         *)
(* goroutine takes an event away, changes one or adds two, and while no     *)
(* statement failed an event gets the number of its position.               *)
ImplementsEventLog == AsLog!LogSpec

(* Under fairness every workflow without a cycle whose start was            *)
(* acknowledged comes to an end.                                            *)
EventuallyEnds == Started ~> (status # "RUNNING")

-------------------------------------------------------------------------------
(* What the documentation says of every operation state.  It holds while    *)
(* results do not race.                                                     *)

Resolved(s, i) == \E t \in TaskIds : /\ tasks[t].status \in {"COMPLETED", "FAILED"}
                                     /\ tasks[t].state = s /\ tasks[t].act = i

(* "An operation state creates one task per action": no action of a state   *)
(* gets a second task.                                                      *)
OneTaskPerAction ==
    \A t, u \in TaskIds :
        (tasks[t].status # "none" /\ tasks[u].status # "none"
         /\ tasks[t].state = tasks[u].state /\ tasks[t].act = tasks[u].act) => t = u

(* "... and suspends until all tasks are complete": an operation state is   *)
(* left for the next one, or the workflow completed in it, only when all    *)
(* its actions are resolved.                                                *)
SuspendsUntilDone ==
    [][(/\ phase \in States
        /\ Def[phase].type = "operation"
        /\ phase' # phase \/ (status # "COMPLETED" /\ status' = "COMPLETED"))
       => \A i \in 0 .. Def[phase].actions - 1 : Resolved(phase, i)]_vars
===============================================================================
