------------------------------ MODULE Lifecycle -------------------------------
(***************************************************************************)
(* An instance as its client sees it: the engine of module Engine, the      *)
(* entry of its worker in the supervisor's map, a client that follows the   *)
(* history with StreamWorkflowEvents, one that calls CancelWorkflow, and    *)
(* the effect that SubmitTaskResult reports to its agent.                   *)
(* The orchestrator does not restart here.                                  *)
(***************************************************************************)
EXTENDS Engine

VARIABLES
    worker,     \* whether the supervisor's map has an entry for the instance
    cancel,     \* the progress of the CancelWorkflow call
    received,   \* the events the client of the stream has got, in that order
    stream,     \* the rows the stream in progress has still to send
    told        \* the effect last returned by SubmitTaskResult

clientVars == <<cancel, received, stream>>
lifecycleVars == <<vars, worker, clientVars, told>>

WorkflowAdvancementEffect == {"UNSPECIFIED", "TASKS_PENDING", "ADVANCED", "COMPLETED",
                              "FAILED", "RETRYING", "WAITING"}

\* A seeded bug: the row is sent as it is.
WorkflowEventUnconverted(e) == e

\* What the stream sends of a row.
WorkflowEvent(e) == [sequence_num |-> e.seq, event_type |-> e.type, payload |-> e.state]

\* The type invariant of what module Lifecycle adds.
LifecycleTypeOK ==
    /\ worker \in BOOLEAN
    /\ cancel \in {"none", "update", "accepted"}
    /\ received \in Seq([sequence_num : Nat, event_type : EventTypes, payload : Names])
    /\ stream \subseteq Events
    /\ told \in WorkflowAdvancementEffect

LInit ==
    /\ Init
    /\ worker = FALSE
    /\ cancel = "none"
    /\ received = << >>
    /\ stream = {}
    /\ told = "UNSPECIFIED"

\* A worker is forked in this step.
Forked == \E p \in Goroutines : At(p, "startWorker") /\ g'[p].home = "worker"

(* The answer of a SubmitTaskResult that has counted an open task or loaded *)
(* the instance: it is found before the workflow is advanced.               *)
SubmitEffect(p) ==
    CASE At(p, "count") /\ g'[p].mode = "resume" -> "TASKS_PENDING"
      [] At(p, "loadHistory") /\ g'[p].mode = "submit" ->
            IF g[p].st \notin States THEN "FAILED"
            ELSE IF Def[g[p].st].end THEN "COMPLETED" ELSE "ADVANCED"
      [] OTHER -> told

Submitting == {p \in Goroutines : g[p].mode = "submit" /\ g'[p] # g[p]}

EngineStep ==
    /\ Next
    /\ told' = IF Submitting = {} THEN told
               ELSE SubmitEffect(CHOOSE p \in Submitting : TRUE)
    /\ UNCHANGED <<restarts, clientVars>>
    /\ worker' = (worker \/ Forked)

\* The worker exits; monitorWorker removes the entry.
WorkerExits ==
    /\ worker
    /\ worker' = FALSE
    /\ Fault
    /\ g' = [p \in Procs |-> IF p \in WorkerProcs THEN Idle ELSE g[p]]
    /\ UNCHANGED <<rowVars, logVars, tasks, timers, batch, calls, clientVars, told>>

(* CancelWorkflow: StopWorker takes the entry (without one the call fails)  *)
(* and ends the worker process; the orchestrator's goroutines go on.        *)
CancelWorkflow ==
    /\ cancel = "none"
    /\ worker
    /\ worker' = FALSE
    /\ cancel' = "update"
    /\ g' = [p \in Procs |-> IF p \in WorkerProcs THEN Idle ELSE g[p]]
    /\ UNCHANGED <<storeVars, tasks, timers, batch, calls, received, stream, told>>

(* The status is written with the context of the call, which may be over    *)
(* after the ten seconds that StopWorker can take.                          *)
CancelUpdate ==
    /\ cancel = "update"
    /\ \/ UpdateWorkflowStatus("CANCELED") /\ cancel' = "accepted"
       \/ Fault /\ UNCHANGED <<rowVars, logVars>> /\ cancel' = "none"
    /\ UNCHANGED <<engineVars, worker, received, stream, told>>

\* The client asks for what follows the last event it has got.
StreamWorkflowEventsRequest ==
    [after_sequence |-> IF received = << >> THEN 0 ELSE received[Len(received)].sequence_num]

\* A seeded bug: the row with the number itself is sent again.
RowsFrom(n) == {history[i] : i \in {j \in DOMAIN history : history[j].seq >= n}}

\* queryHistory: the rows with sequence_num > n.
RowsAfter(n) == {history[i] : i \in {j \in DOMAIN history : history[j].seq > n}}

\* StreamWorkflowEvents reads its rows in one statement, ...
OpenStream ==
    /\ stream = {}
    /\ stream' = RowsAfter(StreamWorkflowEventsRequest.after_sequence)
    /\ UNCHANGED <<vars, worker, cancel, received, told>>

\* ... sends them by ascending number, ...
SendEvent ==
    /\ \E e \in stream :
         /\ \A d \in stream : e.seq <= d.seq
         /\ received' = Append(received, WorkflowEvent(e))
         /\ stream' = stream \ {e}
    /\ UNCHANGED <<vars, worker, cancel, told>>

\* ... and may break off anywhere; the client calls again.
BreakStream ==
    /\ stream # {}
    /\ stream' = {}
    /\ UNCHANGED <<vars, worker, cancel, received, told>>

LNext ==
    \/ EngineStep \/ WorkerExits
    \/ CancelWorkflow \/ CancelUpdate
    \/ OpenStream \/ SendEvent \/ BreakStream

LSpec == LInit /\ [][LNext]_lifecycleVars

-------------------------------------------------------------------------------

(* A client that follows the stream, and after every break goes on from the *)
(* last number it got, has a prefix of the history: no event is missed, got *)
(* twice or out of order, as long as no statement failed.  It rests on      *)
(* events being committed in the order of their numbers.  SIGNAL_RECEIVED   *)
(* rows are no part of `history': they carry number 0, which no stream      *)
(* ever asks for, so a client never sees a signal.                          *)
StreamComplete ==
    Reliable => /\ Len(received) <= Len(history)
                /\ \A i \in 1 .. Len(received) : received[i] = WorkflowEvent(history[i])

(* A RUNNING instance is not forgotten unless a CancelWorkflow that has     *)
(* stopped its worker is about to write its status.                         *)
NotForgotten == cancel = "update" \/ NoLostWakeup

(* An agent that was told that the workflow is now COMPLETED was told the   *)
(* truth, or what a goroutine is about to make true; only a CancelWorkflow  *)
(* or a failed statement comes between.                                     *)
ToldCompletedIsTrue ==
    (told = "COMPLETED" /\ Reliable /\ cancel = "none") =>
        \/ status = "COMPLETED"
        \/ \E p \in Goroutines : At(p, "recordCompleted") \/ At(p, "markCompleted")

Finished ==
    IF phase \in States THEN {i \in 0 .. Def[phase].actions - 1 : Resolved(phase, i)} ELSE {}

Elapsed ==
    /\ phase \in States
    /\ Def[phase].type = "delay"
    /\ \E t \in TimerIds :
          timers[t].status = "fired" /\ timers[t].next = Def[phase].transition

(* The column says RUNNING while a workflow waits for a timer: WAITING is   *)
(* never written, that it waits is in the table of timers.                  *)
Waits ==
    /\ phase \in States
    /\ Def[phase].type = "delay"
    /\ \E t \in TimerIds :
          timers[t].status # "none" /\ timers[t].next = Def[phase].transition

DiagramStatus == IF status = "RUNNING" /\ Waits THEN "WAITING" ELSE status

AsWorkflow == INSTANCE Workflow
              WITH status <- DiagramStatus, finished <- Finished, elapsed <- Elapsed

(* What the diagram does not allow and the code does: CancelWorkflow writes *)
(* CANCELED over any status, and a cancelled instance goes on.              *)
PastCancellation == status = "CANCELED" \/ (status' = "CANCELED" /\ DiagramStatus # "RUNNING")

(* Where no two results race, the engine executes the workflow as the       *)
(* README and its diagram describe it until it is cancelled: it leaves an   *)
(* operation state when all its actions are resolved and a delay when its   *)
(* timer has fired, it completes in an end state only, fails only while     *)
(* running, and does nothing to an instance that is COMPLETED or FAILED.    *)
ImplementsWorkflow ==
    /\ AsWorkflow!WInit
    /\ [][PastCancellation \/ AsWorkflow!WNext]_<<DiagramStatus, phase, Finished, Elapsed>>

(* "Marks it CANCELED; no further tasks will be created": once the client   *)
(* was told that its cancellation is accepted, no task is created.          *)
NoTaskAfterCancel ==
    [][cancel = "accepted" =>
          \A t \in TaskIds : tasks[t].status = "none" => tasks'[t].status = "none"]_lifecycleVars
===============================================================================
