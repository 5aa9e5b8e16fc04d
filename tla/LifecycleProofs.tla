---------------------------- MODULE LifecycleProofs ----------------------------
(***************************************************************************)
(* The instance as its client sees it, for every definition and every       *)
(* number of goroutines: module Lifecycle's StreamComplete, NotForgotten    *)
(* and ToldCompletedIsTrue.                                                 *)
(*                                                                         *)
(* A step of Lifecycle is a step of the engine, one that leaves the engine  *)
(* alone, or an OutsideStep: goroutines end, the status becomes CANCELED.   *)
(* The invariants of the engine survive all three, and what the client has  *)
(* got, is told and is owed is argued on top of them.                       *)
(***************************************************************************)
EXTENDS Lifecycle, ControlProofs, SequenceTheorems

\* The invariants of modules EngineProofs and ControlProofs.
EngineInv == TypeInv /\ HistoryInv /\ ControlInv /\ ReachInv /\ FailureInv

\* The supervisor knows workers of existing instances only.
WorkerInv == worker \/ cancel # "none" => status # "NONE"

\* What a cancellation leaves behind.
CancelInv ==
    /\ cancel = "accepted" => status # "RUNNING"
    /\ cancel = "none" => NoLostWakeup

\* What was sent are the first rows, and what is still to be sent follows them.
StreamInv ==
    Reliable =>
        /\ Len(received) <= Len(history)
        /\ \A i \in 1 .. Len(received) : received[i] = WorkflowEvent(history[i])
        /\ \E n \in Len(received) .. Len(history) :
              stream = {history[i] : i \in Len(received) + 1 .. n}

\* Nobody is about to write DEGRADED, or has, as long as nothing failed.
DegradedInv ==
    Reliable => status # "DEGRADED" /\ \A p \in Procs : g[p].pc # "markDegraded"

ToldInv == WellFormed => ToldCompletedIsTrue

LifecycleInv ==
    /\ EngineInv /\ LifecycleTypeOK /\ WorkerInv /\ CancelInv
    /\ StreamInv /\ DegradedInv /\ ToldInv

-------------------------------------------------------------------------------
(* The engine under steps from outside.                                     *)

\* Goroutines end; the status of an existing row may become CANCELED.
OutsideStep ==
    /\ UNCHANGED <<phase, logVars, tasks, timers, batch, calls>>
    /\ Fault \/ UNCHANGED faults
    /\ g' \in [Procs -> Locals] /\ \A p \in Procs : g'[p] = g[p] \/ g'[p] = Idle
    /\ status' = status \/ (status # "NONE" /\ status' = "CANCELED")

\* The steps of the supervisor and of CancelWorkflow are such steps.
LEMMA OutsideSteps ==
  ASSUME TypeInv, WorkerInv, WorkerExits \/ CancelWorkflow \/ CancelUpdate
  PROVE  OutsideStep
<1>t. g \in [Procs -> Locals] /\ Idle \in Locals
  BY IdleType DEF TypeInv, TypeOK
<1>1. CASE WorkerExits \/ CancelWorkflow
  <2>1. g' = [p \in Procs |-> IF p \in WorkerProcs THEN Idle ELSE g[p]]
    BY <1>1 DEF WorkerExits, CancelWorkflow
  <2>2. g' \in [Procs -> Locals] /\ \A p \in Procs : g'[p] = g[p] \/ g'[p] = Idle
    BY <1>t, <2>1
  <2>3. UNCHANGED <<status, phase, logVars, tasks, timers, batch, calls>>
    BY <1>1 DEF WorkerExits, CancelWorkflow, rowVars, logVars, storeVars
  <2>4. Fault \/ UNCHANGED faults
    BY <1>1 DEF WorkerExits, CancelWorkflow, storeVars
  <2> QED BY <2>2, <2>3, <2>4 DEF OutsideStep
<1>2. CASE CancelUpdate
  <2>1. UNCHANGED <<phase, logVars, tasks, timers, batch, g, calls>>
    BY <1>2 DEF CancelUpdate, UpdateWorkflowStatus, engineVars, rowVars, calls
  <2>2. Fault \/ UNCHANGED faults
    BY <1>2 DEF CancelUpdate, UpdateWorkflowStatus
  <2>3. status' = status \/ (status # "NONE" /\ status' = "CANCELED")
    BY <1>2 DEF CancelUpdate, UpdateWorkflowStatus, rowVars, WorkerInv
  <2> QED BY <1>t, <2>1, <2>2, <2>3 DEF OutsideStep
<1> QED BY <1>1, <1>2

\* The steps of LNext, as the engine sees them.
LEMMA LNextCases ==
  ASSUME TypeInv, WorkerInv, [LNext]_lifecycleVars
  PROVE  [Next]_vars \/ OutsideStep
<1>1. CASE EngineStep
  BY <1>1 DEF EngineStep
<1>2. CASE WorkerExits \/ CancelWorkflow \/ CancelUpdate
  BY <1>2, OutsideSteps
<1>3. CASE OpenStream \/ SendEvent \/ BreakStream
  BY <1>3 DEF OpenStream, SendEvent, BreakStream
<1>4. CASE UNCHANGED lifecycleVars
  BY <1>4 DEF lifecycleVars
<1> QED BY <1>1, <1>2, <1>3, <1>4 DEF LNext

\* Ending goroutines and writing CANCELED disturb no invariant of the engine.
LEMMA OutsideKeeps ==
  ASSUME EngineInv, OutsideStep
  PROVE  EngineInv'
<1>1. TypeInv /\ TypeOK /\ StoreTypeOK /\ HistoryInv /\ ControlInv /\ ReachInv /\ FailureInv
  BY DEF EngineInv, TypeInv, TypeOK
<1>2. /\ UNCHANGED <<phase, version, history, signalled, tasks, timers, batch>>
      /\ UNCHANGED <<repeats, signals, restarts>>
      /\ g' \in [Procs -> Locals]
      /\ \A p \in Procs : g'[p] = g[p] \/ (g'[p] = Idle /\ g'[p].pc = "idle")
      /\ status' = status \/ (status # "NONE" /\ status' = "CANCELED")
  BY IdleFields DEF OutsideStep, logVars, calls
<1>3. faults' \in 0 .. MaxFaults /\ (faults' = 0 => faults = 0)
  BY <1>1, StoreAssumption DEF OutsideStep, Fault, StoreTypeOK
<1>4. TypeInv'
  <2>1. status' \in Statuses
    BY <1>1, <1>2 DEF StoreTypeOK, Statuses
  <2>2. StoreTypeOK'
    BY <1>1, <1>2, <1>3, <2>1 DEF StoreTypeOK
  <2>3. TypeOK'
    BY <1>1, <1>2, <2>2 DEF TypeOK
  <2>4. StateKnown'
    BY <1>1, <1>2 DEF TypeInv, StateKnown, NeedsState
  <2> QED BY <2>3, <2>4 DEF TypeInv
<1>5. HistoryInv'
  <2>1. \A p \in Procs : g'[p] = g[p] \/ g'[p].pc \notin HoldsSnapshot \cup {"loadHistory"}
    BY <1>2 DEF HoldsSnapshot
  <2> QED BY <1>1, <2>1, QuietStep DEF OutsideStep
<1>6. ControlInv'
  <2>1. \A p \in Procs : SignalMode(g'[p]) /\ LoopStart(g'[p])
    BY <1>1, <1>2, FreshControl DEF ControlInv
  <2>2. Untouched'
    BY <1>1, <1>2 DEF ControlInv, Untouched
  <2> QED BY <2>1, <2>2 DEF ControlInv
<1>7. ReachInv'
  <2> SUFFICES ASSUME NEW S \in SUBSET Names, Closed(S)
               PROVE  SetInv(S)'
    BY DEF ReachInv, Closed
  <2>1. SetInv(S)
    BY <1>1 DEF ReachInv
  <2>2. \A p \in Procs : Within(g'[p], S)
    BY <1>2, <2>1, FreshWithin DEF SetInv
  <2> QED BY <1>2, <2>1, <2>2 DEF SetInv, Within
<1>8. FailureInv'
  BY <1>1, <1>2, <1>3 DEF FailureInv, Reliable, WellFormed
<1> QED BY <1>4, <1>5, <1>6, <1>7, <1>8 DEF EngineInv

\* The invariants of the engine hold in Lifecycle too.
LEMMA EngineInvInductive ==
  ASSUME EngineInv, WorkerInv, [LNext]_lifecycleVars
  PROVE  EngineInv'
<1>1. TypeInv /\ HistoryInv /\ ControlInv /\ ReachInv /\ FailureInv
  BY DEF EngineInv
<1>2. CASE [Next]_vars
  BY <1>1, <1>2, TypeInductive, HistoryInductive, ControlInductive, ReachInductive,
     FailureInductive DEF EngineInv
<1>3. CASE OutsideStep
  BY <1>3, OutsideKeeps
<1> QED BY <1>1, <1>2, <1>3, LNextCases

\* Where the history and the count of failures can go.
LEMMA LNextExtends ==
  ASSUME EngineInv, WorkerInv, [LNext]_lifecycleVars
  PROVE  Extended
<1>1. TypeInv
  BY DEF EngineInv
<1>2. CASE OutsideStep
  BY <1>2 DEF OutsideStep, Extended, logVars
<1> QED BY <1>1, <1>2, LNextCases, NextExtends

-------------------------------------------------------------------------------
(* Types.                                                                   *)

\* What the client gets for a row.
LEMMA WorkflowEventType ==
  ASSUME NEW e \in Events
  PROVE  WorkflowEvent(e) \in [sequence_num : Nat, event_type : EventTypes, payload : Names]
  BY DEF WorkflowEvent, Events

\* The rows of the history.
LEMMA RowsType ==
  ASSUME TypeOK
  PROVE  /\ \A i \in 1 .. Len(history) : history[i] \in Events
         /\ \A n : RowsAfter(n) \subseteq Events
  BY DEF TypeOK, StoreTypeOK, RowsAfter

\* Each kind of step keeps the types.
LEMMA LifecycleTypeInductive ==
  ASSUME TypeInv, LifecycleTypeOK, [LNext]_lifecycleVars
  PROVE  LifecycleTypeOK'
<1>t. TypeOK
  BY DEF TypeInv
<1>1. CASE EngineStep
  <2>1. UNCHANGED <<cancel, received, stream>> /\ worker' \in BOOLEAN
    BY <1>1 DEF EngineStep, clientVars
  <2>2. told' \in WorkflowAdvancementEffect
    BY <1>1 DEF EngineStep, SubmitEffect, LifecycleTypeOK, WorkflowAdvancementEffect
  <2> QED BY <2>1, <2>2 DEF LifecycleTypeOK
<1>2. CASE WorkerExits \/ CancelWorkflow \/ CancelUpdate
  <2>1. UNCHANGED <<received, stream, told>> /\ worker' \in BOOLEAN
        /\ cancel' \in {"none", "update", "accepted"}
    BY <1>2 DEF WorkerExits, CancelWorkflow, CancelUpdate, LifecycleTypeOK, clientVars
  <2> QED BY <2>1 DEF LifecycleTypeOK
<1>3. CASE OpenStream \/ BreakStream
  <2>1. UNCHANGED <<worker, cancel, received, told>> /\ stream' \subseteq Events
    BY <1>3, <1>t, RowsType DEF OpenStream, BreakStream
  <2> QED BY <2>1 DEF LifecycleTypeOK
<1>4. CASE SendEvent
  <2>1. PICK e \in stream : received' = Append(received, WorkflowEvent(e)) /\ stream' = stream \ {e}
    BY <1>4 DEF SendEvent
  <2>2. WorkflowEvent(e) \in [sequence_num : Nat, event_type : EventTypes, payload : Names]
    BY WorkflowEventType DEF LifecycleTypeOK
  <2>3. UNCHANGED <<worker, cancel, told>>
    BY <1>4 DEF SendEvent
  <2> QED BY <2>1, <2>2, <2>3 DEF LifecycleTypeOK
<1>5. CASE UNCHANGED lifecycleVars
  BY <1>5 DEF lifecycleVars, clientVars, LifecycleTypeOK
<1> QED BY <1>1, <1>2, <1>3, <1>4, <1>5 DEF LNext

-------------------------------------------------------------------------------
(* The supervisor's entry, the cancellation and NotForgotten.               *)

\* A status is never taken back, and RUNNING is the first one only.
LEMMA StatusForward ==
  ASSUME TypeInv, [Next]_vars, status # "NONE"
  PROVE  status' = status \/ status' \in {"DEGRADED", "COMPLETED", "FAILED"}
<1>1. ASSUME NEW p \in Goroutines, StartWorkflow(p)
      PROVE  FALSE
  BY <1>1 DEF StartWorkflow, CreateWorkflowInstance
<1>2. ASSUME NEW p \in Procs, Step(p)
      PROVE  status' = status \/ status' \in {"DEGRADED", "COMPLETED", "FAILED"}
  BY <1>2, StepStatus
<1>3. ASSUME NEW p \in Goroutines, SignalWorkflow(p) \/ WorkerDies(p) \/ FiredPhase(p)
      PROVE  status' = status
  BY <1>3 DEF SignalWorkflow, WorkerDies, FiredPhase, UpdateCurrentPhase, storeVars, rowVars
<1>4. ASSUME NEW t \in TimerIds, MarkTimerFired(t)
      PROVE  status' = status
  BY <1>4 DEF MarkTimerFired, rowVars
<1>5. CASE Tick \/ RecordFired
  BY <1>5 DEF Tick, RecordFired, Record, AppendEvents, AppendCommitted, AppendRejected,
              storeVars, rowVars
<1>6. ASSUME NEW t \in TaskIds, NEW p \in Goroutines, NEW o, NEW m, Resolve(t, p, o, m)
      PROVE  status' = status
  BY <1>6 DEF Resolve, storeVars
<1>7. ASSUME NEW t \in TaskIds, ReopenTask(t)
      PROVE  status' = status
  BY <1>7 DEF ReopenTask, storeVars
<1>8. ASSUME NEW s, NEW p \in Goroutines, RestartOrchestrator(s, p)
      PROVE  status' = status
  BY <1>8 DEF RestartOrchestrator, storeVars
<1>9. CASE UNCHANGED vars
  BY <1>9 DEF vars, storeVars
<1> QED BY <1>1, <1>2, <1>3, <1>4, <1>5, <1>6, <1>7, <1>8, <1>9, NextCases

\* An entry appears with the fork, and the fork comes after the row.
LEMMA WorkerInductive ==
  ASSUME EngineInv, WorkerInv, [LNext]_lifecycleVars
  PROVE  WorkerInv'
<1>1. TypeInv /\ ControlInv
  BY DEF EngineInv
<1>2. status # "NONE" => status' # "NONE"
  <2>1. CASE [Next]_vars
    BY <1>1, <2>1, StatusForward
  <2>2. CASE OutsideStep
    BY <2>2 DEF OutsideStep
  <2> QED BY <1>1, <2>1, <2>2, LNextCases
<1>3. CASE EngineStep
  <2>1. Forked => status # "NONE"
    BY <1>1 DEF Forked, ControlInv, Untouched, At, Procs
  <2> QED BY <1>2, <1>3, <2>1 DEF EngineStep, WorkerInv, clientVars
<1>4. CASE WorkerExits \/ CancelWorkflow
  BY <1>2, <1>4 DEF WorkerExits, CancelWorkflow, WorkerInv, clientVars
<1>5. CASE CancelUpdate
  BY <1>2, <1>5 DEF CancelUpdate, WorkerInv
<1>6. CASE OpenStream \/ SendEvent \/ BreakStream
  BY <1>2, <1>6 DEF OpenStream, SendEvent, BreakStream, WorkerInv
<1>7. CASE UNCHANGED lifecycleVars
  BY <1>2, <1>7 DEF lifecycleVars, clientVars, WorkerInv
<1> QED BY <1>3, <1>4, <1>5, <1>6, <1>7 DEF LNext

\* Between its two steps a CancelWorkflow owes a status; else a wakeup is owed.
LEMMA CancelInductive ==
  ASSUME EngineInv, LifecycleTypeOK, WorkerInv, CancelInv, [LNext]_lifecycleVars
  PROVE  CancelInv'
<1>1. TypeInv /\ TypeOK /\ ControlInv
  BY DEF EngineInv, TypeInv
<1>2. ASSUME [Next]_vars, UNCHANGED cancel
      PROVE  CancelInv'
  <2>1. cancel = "accepted" => status' # "RUNNING"
    BY <1>1, <1>2, StatusForward DEF CancelInv, WorkerInv
  <2>2. cancel = "none" => NoLostWakeup'
    BY <1>1, <1>2, WakeupInductive DEF CancelInv
  <2> QED BY <1>2, <2>1, <2>2 DEF CancelInv
<1>3. CASE EngineStep
  BY <1>2, <1>3 DEF EngineStep, clientVars
<1>4. CASE WorkerExits
  <2>1. NoLostWakeup' /\ UNCHANGED <<status, cancel>>
    BY <1>1, <1>4, FailureExcuses DEF WorkerExits, clientVars, rowVars
  <2> QED BY <2>1 DEF CancelInv
<1>5. CASE CancelWorkflow
  BY <1>5 DEF CancelWorkflow, CancelInv
<1>6. CASE CancelUpdate
  <2>1. CASE cancel' = "accepted" /\ UpdateWorkflowStatus("CANCELED")
    BY <2>1 DEF CancelInv, UpdateWorkflowStatus
  <2>2. CASE cancel' = "none" /\ Fault
    BY <1>1, <2>2, FailureExcuses DEF CancelInv
  <2> QED BY <1>6, <2>1, <2>2 DEF CancelUpdate
<1>7. CASE OpenStream \/ SendEvent \/ BreakStream
  BY <1>2, <1>7 DEF OpenStream, SendEvent, BreakStream
<1>8. CASE UNCHANGED lifecycleVars
  BY <1>2, <1>8 DEF lifecycleVars, clientVars
<1> QED BY <1>3, <1>4, <1>5, <1>6, <1>7, <1>8 DEF LNext

-------------------------------------------------------------------------------
(* The stream of events.                                                    *)

\* The rows of the history from one position to another.
Rows(k, n) == {history[i] : i \in k + 1 .. n}

\* A history that grows keeps the rows that were sent or are to be sent.
LEMMA StreamExtends ==
  ASSUME TypeInv, LifecycleTypeOK, StreamInv, Extended, UNCHANGED <<received, stream>>
  PROVE  StreamInv'
<1> SUFFICES ASSUME faults' = 0
             PROVE  /\ Len(received) <= Len(history')
                    /\ \A i \in 1 .. Len(received) : received[i] = WorkflowEvent(history'[i])
                    /\ \E n \in Len(received) .. Len(history') :
                          stream = {history'[i] : i \in Len(received) + 1 .. n}
  BY DEF StreamInv, Reliable, WorkflowEvent
<1>1. history \in Seq(Events) /\ Len(history) \in Nat /\ Len(received) \in Nat
  BY DEF TypeInv, TypeOK, StoreTypeOK, LifecycleTypeOK
<1>2. Reliable
  BY DEF Extended, Fault, Reliable, TypeInv, TypeOK, StoreTypeOK
<1>3. /\ Len(history) <= Len(history') /\ Len(history') \in Nat
      /\ \A i \in 1 .. Len(history) : history'[i] = history[i]
  BY <1>1 DEF Extended
<1>4. PICK n \in Len(received) .. Len(history) :
         stream = {history[i] : i \in Len(received) + 1 .. n}
  BY <1>2 DEF StreamInv
<1>5. /\ Len(received) <= Len(history)
      /\ \A i \in 1 .. Len(received) : received[i] = WorkflowEvent(history[i])
  BY <1>2 DEF StreamInv
<1>6. n \in Len(received) .. Len(history') /\ stream = {history'[i] : i \in Len(received) + 1 .. n}
  <2>1. \A i \in Len(received) + 1 .. n : i \in 1 .. Len(history)
    BY <1>1
  <2>2. stream = {history'[i] : i \in Len(received) + 1 .. n}
    BY <1>3, <1>4, <2>1
  <2> QED BY <1>1, <1>3, <2>2
<1>7. \A i \in 1 .. Len(received) : i \in 1 .. Len(history) /\ history'[i] = history[i]
  BY <1>1, <1>3, <1>5
<1> QED BY <1>1, <1>3, <1>5, <1>6, <1>7

\* The client asks for the row after the last one it has got.
LEMMA AsksForTheNext ==
  ASSUME TypeInv, HistoryInv, LifecycleTypeOK, StreamInv, Reliable
  PROVE  /\ StreamWorkflowEventsRequest.after_sequence = Len(received)
         /\ RowsAfter(Len(received)) = Rows(Len(received), Len(history))
<1>1. history \in Seq(Events) /\ Len(history) \in Nat /\ Len(received) \in Nat
      /\ DOMAIN history = 1 .. Len(history)
  BY DEF TypeInv, TypeOK, StoreTypeOK, LifecycleTypeOK
<1>2. \A i \in 1 .. Len(history) : history[i].seq = i
  BY <1>1 DEF HistoryInv, Contiguous
<1>3. /\ Len(received) <= Len(history)
      /\ \A i \in 1 .. Len(received) : received[i] = WorkflowEvent(history[i])
  BY DEF StreamInv
<1>4. StreamWorkflowEventsRequest.after_sequence = Len(received)
  <2>1. CASE received = << >>
    BY <2>1 DEF StreamWorkflowEventsRequest
  <2>2. CASE received # << >>
    <3>1. Len(received) \in 1 .. Len(received)
      BY <1>1, <2>2, EmptySeq DEF LifecycleTypeOK
    <3>2. received[Len(received)].sequence_num = history[Len(received)].seq
      <4>1. received[Len(received)] = WorkflowEvent(history[Len(received)])
        BY <1>3, <3>1
      <4>2. WorkflowEvent(history[Len(received)]).sequence_num = history[Len(received)].seq
        BY DEF WorkflowEvent
      <4> QED BY <4>1, <4>2
    <3>3. history[Len(received)].seq = Len(received)
      BY <1>1, <1>2, <1>3, <3>1
    <3> QED BY <2>2, <3>2, <3>3 DEF StreamWorkflowEventsRequest
  <2> QED BY <2>1, <2>2
<1>5. {j \in DOMAIN history : history[j].seq > Len(received)} = Len(received) + 1 .. Len(history)
  <2>1. {j \in DOMAIN history : history[j].seq > Len(received)}
           = {j \in 1 .. Len(history) : j > Len(received)}
    BY <1>1, <1>2
  <2> QED BY <1>1, <1>3, <2>1
<1> QED BY <1>4, <1>5 DEF RowsAfter, Rows

\* What is sent next is the row after the last one sent.
LEMMA SendsTheNext ==
  ASSUME TypeInv, HistoryInv, LifecycleTypeOK, StreamInv, Reliable,
         NEW e \in stream, \A d \in stream : e.seq <= d.seq
  PROVE  /\ Len(received) < Len(history) /\ e = history[Len(received) + 1]
         /\ \E n \in Len(received) + 1 .. Len(history) : stream \ {e} = Rows(Len(received) + 1, n)
<1> DEFINE k == Len(received)
<1>1. history \in Seq(Events) /\ Len(history) \in Nat /\ k \in Nat
      /\ DOMAIN history = 1 .. Len(history)
  BY DEF TypeInv, TypeOK, StoreTypeOK, LifecycleTypeOK
<1>2. \A i \in 1 .. Len(history) : history[i].seq = i
  BY <1>1 DEF HistoryInv, Contiguous
<1>3. PICK n \in k .. Len(history) : stream = Rows(k, n)
  BY DEF StreamInv, Rows
<1>4. PICK i0 \in k + 1 .. n : e = history[i0]
  BY <1>3 DEF Rows
<1> HIDE DEF k
<1>5. \A i \in k + 1 .. n : i \in 1 .. Len(history) /\ history[i].seq = i /\ history[i] \in stream
  BY <1>1, <1>2, <1>3 DEF Rows
<1>6. k + 1 \in k + 1 .. n
  BY <1>1, <1>4
<1>7. i0 = k + 1
  <2>1. e.seq <= history[k + 1].seq
    BY <1>5, <1>6
  <2> QED BY <1>1, <1>4, <1>5, <1>6, <2>1
<1>8. stream \ {e} = Rows(k + 1, n)
  <2>1. \A i \in k + 1 .. n : i # k + 1 => history[i] # e
    BY <1>1, <1>4, <1>5, <1>6, <1>7
  <2>2. \A i : i \in (k + 1) + 1 .. n <=> i \in k + 1 .. n /\ i # k + 1
    BY <1>1
  <2> QED BY <1>3, <1>4, <1>7, <2>1, <2>2 DEF Rows
<1>9. n \in k + 1 .. Len(history) /\ k < Len(history)
  BY <1>1, <1>6
<1> QED BY <1>4, <1>7, <1>8, <1>9 DEF k

\* StreamInv is inductive.
LEMMA StreamInductive ==
  ASSUME EngineInv, LifecycleTypeOK, WorkerInv, StreamInv, [LNext]_lifecycleVars
  PROVE  StreamInv'
<1>1. TypeInv /\ HistoryInv /\ Extended
  BY LNextExtends DEF EngineInv
<1>2. CASE UNCHANGED <<received, stream>>
  BY <1>1, <1>2, StreamExtends
<1>k. Len(received) \in Nat /\ Len(history) \in Nat
  BY <1>1 DEF TypeInv, TypeOK, StoreTypeOK, LifecycleTypeOK
<1>3. CASE OpenStream
  <2>1. UNCHANGED <<history, faults, received>>
        /\ stream' = RowsAfter(StreamWorkflowEventsRequest.after_sequence)
    BY <1>3 DEF OpenStream, vars, storeVars
  <2>2. ASSUME Reliable
        PROVE  stream' = Rows(Len(received), Len(history))
    BY <1>1, <2>1, <2>2, AsksForTheNext
  <2>3. Reliable => Len(history) \in Len(received) .. Len(history)
    BY <1>k DEF StreamInv
  <2> QED BY <2>1, <2>2, <2>3 DEF StreamInv, Rows, Reliable
<1>4. CASE BreakStream
  <2>1. UNCHANGED <<history, faults, received>> /\ stream' = {}
    BY <1>4 DEF BreakStream, vars, storeVars
  <2>2. {history[i] : i \in Len(received) + 1 .. Len(received)} = {}
    BY <1>k
  <2>3. Reliable => Len(received) \in Len(received) .. Len(history)
    BY <1>k DEF StreamInv
  <2> QED BY <2>1, <2>2, <2>3 DEF StreamInv, Reliable
<1>5. CASE SendEvent
  <2>1. PICK e \in stream : /\ \A d \in stream : e.seq <= d.seq
                            /\ received' = Append(received, WorkflowEvent(e))
                            /\ stream' = stream \ {e}
    BY <1>5 DEF SendEvent
  <2>2. UNCHANGED <<history, faults>>
    BY <1>5 DEF SendEvent, vars, storeVars
  <2> SUFFICES ASSUME Reliable
               PROVE  /\ Len(received') <= Len(history')
                      /\ \A i \in 1 .. Len(received') : received'[i] = WorkflowEvent(history'[i])
                      /\ \E n \in Len(received') .. Len(history') :
                            stream' = {history'[i] : i \in Len(received') + 1 .. n}
    <3>1. Reliable' <=> Reliable
      BY <2>2 DEF Reliable
    <3> QED BY <3>1 DEF StreamInv
  <2>3. /\ Len(received) < Len(history) /\ e = history[Len(received) + 1]
        /\ \E n \in Len(received) + 1 .. Len(history) : stream' = Rows(Len(received) + 1, n)
    BY <1>1, <2>1, SendsTheNext
  <2>4. \A i \in 1 .. Len(received) : received[i] = WorkflowEvent(history[i])
    BY DEF StreamInv
  <2>5. /\ Len(received') = Len(received) + 1
        /\ \A i \in 1 .. Len(received) : received'[i] = received[i]
        /\ received'[Len(received) + 1] = WorkflowEvent(e)
    BY <2>1 DEF LifecycleTypeOK
  <2>6. \A i \in 1 .. Len(received') : received'[i] = WorkflowEvent(history[i])
    BY <1>k, <2>3, <2>4, <2>5
  <2>7. PICK n \in Len(received) + 1 .. Len(history) : stream' = Rows(Len(received) + 1, n)
    BY <2>3
  <2>8. Len(received') <= Len(history) /\ n \in Len(received') .. Len(history)
    BY <1>k, <2>3, <2>5
  <2>9. stream' = {history[i] : i \in Len(received') + 1 .. n}
    BY <2>5, <2>7 DEF Rows
  <2> QED BY <2>2, <2>6, <2>8, <2>9
<1>6. EngineStep \/ WorkerExits \/ CancelWorkflow \/ CancelUpdate \/ UNCHANGED lifecycleVars
      => UNCHANGED <<received, stream>>
  BY DEF EngineStep, WorkerExits, CancelWorkflow, CancelUpdate, lifecycleVars, clientVars
<1> QED BY <1>2, <1>3, <1>4, <1>5, <1>6 DEF LNext

-------------------------------------------------------------------------------
(* What an agent is told.                                                   *)

\* While nothing failed, a goroutine of the engine moves by its own steps only.
LEMMA MovesAlone ==
  ASSUME TypeInv, Next, UNCHANGED restarts, faults' = 0,
         NEW p \in Goroutines, g[p].pc # "idle"
  PROVE  g'[p] = g[p] \/ Step(p)
<1>t. /\ TypeOK /\ g \in [Procs -> Locals] /\ faults \in Nat /\ restarts \in Nat
      /\ Goroutines \subseteq Procs /\ TimerService \in Procs /\ p # TimerService
  BY BoundAssumption, StoreAssumption DEF TypeInv, TypeOK, StoreTypeOK, Procs
<1>1. ASSUME NEW q \in Goroutines, StartWorkflow(q) \/ SignalWorkflow(q)
      PROVE  g'[p] = g[p]
  <2>1. g[q].pc = "idle" /\ Others(q)
    BY <1>1, <1>t, StartEffect DEF StartWorkflow, SignalWorkflow
  <2> QED BY <1>t, <2>1 DEF Others
<1>2. ASSUME NEW q \in Goroutines, WorkerDies(q)
      PROVE  FALSE
  BY <1>2, <1>t DEF WorkerDies, Fault
<1>3. ASSUME NEW q \in Procs, Step(q)
      PROVE  g'[p] = g[p] \/ Step(p)
  BY <1>3, <1>t, StepEffect DEF Others
<1>4. CASE Tick \/ (\E t \in TaskIds : ReopenTask(t))
  BY <1>4 DEF Tick, ReopenTask
<1>5. ASSUME NEW t \in TimerIds, MarkTimerFired(t)
      PROVE  g'[p] = g[p]
  BY <1>5, <1>t, FiringEffect DEF Others
<1>6. CASE RecordFired
  BY <1>6, <1>t, RecordFiredEffect DEF Others
<1>7. ASSUME NEW q \in Goroutines, FiredPhase(q)
      PROVE  g'[p] = g[p]
  BY <1>7, <1>t, FiredPhaseEffect
<1>8. ASSUME NEW t \in TaskIds, NEW q \in Goroutines, NEW o \in {"COMPLETED", "FAILED"},
             NEW m \in {"resume", "submit"}, Resolve(t, q, o, m)
      PROVE  g'[p] = g[p]
  <2>1. g[q].pc = "idle" /\ Others(q)
    BY <1>8, <1>t, StartEffect DEF Resolve
  <2> QED BY <1>t, <2>1 DEF Others
<1>9. ASSUME NEW s \in SUBSET WorkerProcs, NEW q \in Goroutines, RestartOrchestrator(s, q)
      PROVE  FALSE
  BY <1>9, <1>t DEF RestartOrchestrator
<1> QED BY <1>1, <1>2, <1>3, <1>4, <1>5, <1>6, <1>7, <1>8, <1>9, NextCases

\* A step that leads to or through the failed fork is itself a failure.
LEMMA StepDegraded ==
  ASSUME TypeInv, DegradedInv, faults = 0, faults' = 0, NEW p \in Procs, Step(p)
  PROVE  status' # "DEGRADED" /\ g'[p].pc # "markDegraded"
<1>t. TypeOK /\ g \in [Procs -> Locals] /\ g[p] \in Locals
  BY DEF TypeInv, TypeOK
<1>1. g[p].pc # "markDegraded" /\ status # "DEGRADED"
  BY DEF DegradedInv, Reliable
<1>2. g'[p].pc # "markDegraded"
  <2>1. CASE StartWorker(p)
    <3>1. g' = [g EXCEPT ![p] = Spawned("execute", "worker", "loadRow")]
      BY <2>1 DEF StartWorker, Fault
    <3> QED BY <1>t, <3>1, SpawnEffect, SpawnedFields
  <2>2. ASSUME LoadHistory(p) \/ LoadHistoryTruncated(p)
        PROVE  g'[p].pc # "markDegraded"
    <3>1. g'[p].pc = AfterLoad(g[p].mode, g[p].st)
      BY <1>t, <2>2, LoadHistoryEffect
    <3> QED BY <3>1 DEF AfterLoad, Process, Advance
  <2>3. ASSUME CountPendingTasks(p) \/ LoadRow(p) \/ RecordScheduled(p)
        PROVE  g'[p].pc # "markDegraded"
    BY <1>t, <2>3, CountEffect, LoadRowEffect, ScheduledEffect
  <2> QED BY <1>1, <1>t, <2>1, <2>2, <2>3, StepEffect
<1>3. status' # "DEGRADED"
  <2> USE <1>1 DEF At, rowVars, storeVars
  <2>1. CASE MarkDegraded(p)
    BY <2>1 DEF MarkDegraded
  <2>2. CASE MarkCompleted(p) \/ MarkFailed(p)
    BY <2>2 DEF MarkCompleted, MarkFailed, UpdateWorkflowStatus
  <2>3. CASE AppendStarted(p) \/ StartWorker(p) \/ AppendSignalEvent(p)
    BY <2>3 DEF AppendStarted, StartWorker, AppendSignalEvent, AppendSignal,
                AppendCommitted, AppendRejected
  <2>4. CASE CountPendingTasks(p) \/ LoadRow(p) \/ LoadHistory(p) \/ LoadHistoryTruncated(p)
             \/ ReadFails(p) \/ CreateTask(p) \/ CreateTimer(p)
    BY <2>4 DEF CountPendingTasks, LoadRow, LoadHistory, LoadHistoryTruncated, ReadFails,
                CreateTask, CreateTimer
  <2>5. CASE RecordTransition(p) \/ RecordCompleted(p) \/ RecordScheduled(p) \/ RecordTimer(p)
    BY <2>5 DEF RecordTransition, RecordCompleted, RecordScheduled, RecordTimer, Record,
                AppendEvents, AppendCommitted, AppendRejected
  <2>6. CASE UpdatePhase(p)
    BY <2>6 DEF UpdatePhase, UpdateCurrentPhase
  <2> QED BY <2>1, <2>2, <2>3, <2>4, <2>5, <2>6 DEF Step
<1> QED BY <1>2, <1>3

\* DegradedInv is inductive.
LEMMA DegradedInductive ==
  ASSUME TypeInv, DegradedInv, [Next]_vars
  PROVE  DegradedInv'
<1> SUFFICES ASSUME faults' = 0
             PROVE  status' # "DEGRADED" /\ \A q \in Procs : g'[q].pc # "markDegraded"
  BY DEF DegradedInv, Reliable
<1>t. /\ TypeOK /\ g \in [Procs -> Locals] /\ faults \in Nat
      /\ Goroutines \subseteq Procs /\ TimerService \in Procs
  BY StoreAssumption DEF TypeInv, TypeOK, StoreTypeOK, Procs
<1>r. faults = 0
  BY <1>t, NextExtends DEF Extended, Fault
<1>c. status # "DEGRADED" /\ \A q \in Procs : g[q].pc # "markDegraded"
  BY <1>r DEF DegradedInv, Reliable
<1>1. ASSUME NEW p \in Goroutines, StartWorkflow(p) \/ SignalWorkflow(p)
      PROVE  status' # "DEGRADED" /\ \A q \in Procs : g'[q].pc # "markDegraded"
  <2>1. status' # "DEGRADED"
    BY <1>1, <1>c DEF StartWorkflow, SignalWorkflow, CreateWorkflowInstance, storeVars
  <2>2. g'[p].pc \in {"appendStarted", "loadRow"} /\ Others(p)
    BY <1>1, <1>t, StartEffect DEF StartWorkflow, SignalWorkflow
  <2> QED BY <1>c, <2>1, <2>2 DEF Others
<1>2. ASSUME NEW p \in Goroutines, WorkerDies(p)
      PROVE  FALSE
  BY <1>2, <1>r DEF WorkerDies, Fault
<1>3. ASSUME NEW p \in Procs, Step(p)
      PROVE  status' # "DEGRADED" /\ \A q \in Procs : g'[q].pc # "markDegraded"
  BY <1>3, <1>c, <1>r, <1>t, StepEffect, StepDegraded DEF Others
<1>4. ASSUME Tick \/ (\E t \in TaskIds : ReopenTask(t))
      PROVE  status' # "DEGRADED" /\ \A q \in Procs : g'[q].pc # "markDegraded"
  BY <1>4, <1>c DEF Tick, ReopenTask, storeVars
<1>5. ASSUME NEW t \in TimerIds, MarkTimerFired(t)
      PROVE  status' # "DEGRADED" /\ \A q \in Procs : g'[q].pc # "markDegraded"
  <2>1. status' = status
    BY <1>5 DEF MarkTimerFired, rowVars
  <2> QED BY <1>5, <1>c, <1>t, <2>1, FiringEffect DEF Others
<1>6. CASE RecordFired
  <2>1. status' = status
    BY <1>6 DEF RecordFired, Record, AppendEvents, AppendCommitted, AppendRejected, rowVars
  <2> QED BY <1>6, <1>c, <1>t, <2>1, RecordFiredEffect DEF Others
<1>7. ASSUME NEW p \in Goroutines, FiredPhase(p)
      PROVE  status' # "DEGRADED" /\ \A q \in Procs : g'[q].pc # "markDegraded"
  <2>1. status' = status
    BY <1>7 DEF FiredPhase, UpdateCurrentPhase, rowVars
  <2>2. \A q \in Procs : \/ g'[q] = g[q] \/ g'[q] = Idle
                         \/ g'[q] = Spawned("execute", "orchestrator", "loadRow")
    BY <1>7, <1>t, FiredPhaseEffect
  <2> QED BY <1>c, <2>1, <2>2, IdleFields, SpawnedFields
<1>8. ASSUME NEW t \in TaskIds, NEW p \in Goroutines, NEW o \in {"COMPLETED", "FAILED"},
             NEW m \in {"resume", "submit"}, Resolve(t, p, o, m)
      PROVE  status' # "DEGRADED" /\ \A q \in Procs : g'[q].pc # "markDegraded"
  <2>1. status' = status /\ g'[p].pc = "count" /\ Others(p)
    BY <1>8, <1>t, StartEffect DEF Resolve, storeVars
  <2> QED BY <1>c, <2>1 DEF Others
<1>9. ASSUME NEW s \in SUBSET WorkerProcs, NEW p \in Goroutines, RestartOrchestrator(s, p)
      PROVE  status' # "DEGRADED" /\ \A q \in Procs : g'[q].pc # "markDegraded"
  <2>1. status' = status
    BY <1>9 DEF RestartOrchestrator, storeVars
  <2> QED BY <1>9, <1>c, <1>t, <2>1, RestartEffect, IdleFields, SpawnedFields
<1>10. CASE UNCHANGED vars
  BY <1>10, <1>c DEF vars, storeVars, engineVars
<1> QED BY <1>1, <1>2, <1>3, <1>4, <1>5, <1>6, <1>7, <1>8, <1>9, <1>10, NextCases

\* The goroutine whose submission was answered with COMPLETED records it next.
LEMMA AnsweredCompleted ==
  ASSUME TypeInv, EngineStep, faults' = 0, told # "COMPLETED", told' = "COMPLETED"
  PROVE  \E p \in Goroutines : g'[p].pc = "recordCompleted"
<1>t. TypeOK /\ g \in [Procs -> Locals] /\ Goroutines \subseteq Procs
  BY DEF TypeInv, TypeOK, Procs
<1>1. Next /\ UNCHANGED restarts /\ Submitting # {}
      /\ told' = SubmitEffect(CHOOSE p \in Submitting : TRUE)
  BY DEF EngineStep
<1>2. PICK p \in Submitting : SubmitEffect(p) = "COMPLETED"
  <2>1. (CHOOSE p \in Submitting : TRUE) \in Submitting
    BY <1>1
  <2> QED BY <1>1, <2>1
<1>3. p \in Goroutines /\ g[p].mode = "submit" /\ g'[p] # g[p]
  BY DEF Submitting
<1>4. /\ g[p].pc = "loadHistory" /\ g'[p].mode = "submit"
      /\ g[p].st \in States /\ Def[g[p].st].end
  BY <1>2 DEF SubmitEffect, At
<1>5. Step(p)
  BY <1>1, <1>3, <1>4, MovesAlone
<1>6. LoadHistory(p) \/ LoadHistoryTruncated(p)
  <2>1. ~ReadFails(p)
    BY <1>3, <1>4, <1>t, FinishEffect, IdleFields DEF ReadFails
  <2> QED BY <1>3, <1>4, <1>5, <1>t, <2>1, StepEffect, CountEffect, LoadRowEffect, ScheduledEffect
<1>7. g'[p].pc = AfterLoad("submit", g[p].st)
  BY <1>3, <1>6, <1>t, LoadHistoryEffect
<1> QED BY <1>3, <1>4, <1>7 DEF AfterLoad, Advance

\* It goes on to write the status.
LEMMA CompletingGoesOn ==
  ASSUME TypeInv, Next, UNCHANGED restarts, faults = 0, faults' = 0, NEW p \in Goroutines,
         g[p].pc \in {"recordCompleted", "markCompleted"}
  PROVE  status' = "COMPLETED" \/ g'[p].pc \in {"recordCompleted", "markCompleted"}
<1>t. g \in [Procs -> Locals] /\ p \in Procs
  BY DEF TypeInv, TypeOK, Procs
<1>1. CASE g'[p] = g[p]
  BY <1>1
<1>2. CASE Step(p)
  <2>1. CASE MarkCompleted(p)
    BY <2>1 DEF MarkCompleted, UpdateWorkflowStatus, Fault
  <2>2. CASE RecordCompleted(p)
    BY <1>t, <2>2, LeaveEffect DEF RecordCompleted
  <2> QED BY <1>2, <1>t, <2>1, <2>2, StepEffect, CountEffect, LoadRowEffect, LoadHistoryEffect,
             ScheduledEffect DEF ReadFails
<1> QED BY <1>1, <1>2, MovesAlone

\* ToldInv is inductive for well-formed definitions.
LEMMA ToldInductive ==
  ASSUME EngineInv, EngineInv', WorkerInv, DegradedInv, DegradedInv', ToldInv,
         [LNext]_lifecycleVars
  PROVE  ToldInv'
<1> SUFFICES ASSUME WellFormed, told' = "COMPLETED", faults' = 0, cancel' = "none"
             PROVE  \/ status' = "COMPLETED"
                    \/ \E p \in Goroutines : g'[p].pc \in {"recordCompleted", "markCompleted"}
  BY DEF ToldInv, ToldCompletedIsTrue, Reliable, At, WellFormed
<1>1. TypeInv /\ faults \in Nat
  BY StoreAssumption DEF EngineInv, TypeInv, TypeOK, StoreTypeOK
<1>2. faults = 0
  BY <1>1, LNextExtends DEF Extended, Fault
<1>3. told = "COMPLETED" /\ cancel = "none" =>
        \/ status = "COMPLETED"
        \/ \E p \in Goroutines : g[p].pc \in {"recordCompleted", "markCompleted"}
  BY <1>2 DEF ToldInv, ToldCompletedIsTrue, Reliable, At
<1>4. CASE EngineStep
  <2>1. Next /\ UNCHANGED <<restarts, cancel>>
    BY <1>4 DEF EngineStep, clientVars
  <2>2. CASE told # "COMPLETED"
    BY <1>1, <1>4, <2>2, AnsweredCompleted
  <2>3. CASE status = "COMPLETED"
    <3>1. status' # "DEGRADED" /\ status' # "FAILED"
      BY DEF DegradedInv, EngineInv, FailureInv, Reliable, WellFormed
    <3> QED BY <1>1, <2>1, <2>3, <3>1, StatusForward
  <2>4. ASSUME NEW p \in Goroutines, g[p].pc \in {"recordCompleted", "markCompleted"}
        PROVE  status' = "COMPLETED" \/ g'[p].pc \in {"recordCompleted", "markCompleted"}
    BY <1>1, <1>2, <2>1, <2>4, CompletingGoesOn
  <2> QED BY <1>3, <2>1, <2>2, <2>3, <2>4
<1>5. CASE WorkerExits \/ CancelWorkflow \/ CancelUpdate
  BY <1>2, <1>5 DEF WorkerExits, CancelWorkflow, CancelUpdate, Fault
<1>6. CASE OpenStream \/ SendEvent \/ BreakStream \/ UNCHANGED lifecycleVars
  <2>1. UNCHANGED <<status, g, told, cancel>>
    BY <1>6 DEF OpenStream, SendEvent, BreakStream, lifecycleVars, clientVars, vars, storeVars,
                engineVars
  <2> QED BY <1>3, <2>1
<1> QED BY <1>4, <1>5, <1>6 DEF LNext

-------------------------------------------------------------------------------

\* The invariant holds before the instance exists.
LEMMA LifecycleInitial ==
  ASSUME LInit
  PROVE  LifecycleInv
<1>1. Init /\ status = "NONE" /\ history = << >> /\ faults = 0 /\ \A p \in Procs : g[p].pc = "idle"
  BY IdleFields DEF LInit, Init, StoreInit
<1>2. NoLostWakeup
  BY <1>1, WakeupInitial
<1>3. EngineInv
  <2>1. TypeInv /\ HistoryInv /\ ControlInv /\ ReachInv
    BY <1>1, TypeInitial, HistoryInitial, WakeupInitial, ReachInitial
  <2>2. FailureInv
    BY <1>1 DEF FailureInv
  <2> QED BY <2>1, <2>2 DEF EngineInv
<1>4. LifecycleTypeOK
  <2>1. worker \in BOOLEAN /\ cancel = "none" /\ stream \subseteq Events
        /\ told \in WorkflowAdvancementEffect
    BY DEF LInit, WorkflowAdvancementEffect
  <2>2. received \in Seq([sequence_num : Nat, event_type : EventTypes, payload : Names])
    BY EmptySeq DEF LInit
  <2> QED BY <2>1, <2>2 DEF LifecycleTypeOK
<1>5. WorkerInv /\ CancelInv /\ ToldInv
  BY <1>2 DEF LInit, WorkerInv, CancelInv, ToldInv, ToldCompletedIsTrue
<1>6. StreamInv
  <2>1. received = << >> /\ Len(received) = 0 /\ Len(history) = 0 /\ stream = {}
    BY <1>1 DEF LInit
  <2>2. {history[i] : i \in 0 + 1 .. 0} = {}
    OBVIOUS
  <2> QED BY <2>1, <2>2 DEF StreamInv
<1>7. DegradedInv
  BY <1>1 DEF DegradedInv
<1> QED BY <1>3, <1>4, <1>5, <1>6, <1>7 DEF LifecycleInv

\* The invariant is inductive.
LEMMA LifecycleInductive ==
  ASSUME LifecycleInv, [LNext]_lifecycleVars
  PROVE  LifecycleInv'
<1>1. /\ EngineInv /\ TypeInv /\ LifecycleTypeOK /\ WorkerInv /\ CancelInv
      /\ StreamInv /\ DegradedInv /\ ToldInv
  BY DEF LifecycleInv, EngineInv
<1>2. EngineInv' /\ LifecycleTypeOK' /\ WorkerInv' /\ CancelInv' /\ StreamInv'
  BY <1>1, EngineInvInductive, LifecycleTypeInductive, WorkerInductive, CancelInductive,
     StreamInductive
<1>3. DegradedInv'
  <2>1. CASE [Next]_vars
    BY <1>1, <2>1, DegradedInductive
  <2>2. CASE OutsideStep
    <3>1. faults' = 0 => faults = 0
      BY <1>1, <2>2, StoreAssumption DEF OutsideStep, Fault, TypeInv, TypeOK, StoreTypeOK
    <3> QED BY <1>1, <2>2, <3>1, IdleFields DEF DegradedInv, Reliable, OutsideStep
  <2> QED BY <1>1, <2>1, <2>2, LNextCases
<1>4. ToldInv'
  BY <1>1, <1>2, <1>3, ToldInductive
<1> QED BY <1>2, <1>3, <1>4 DEF LifecycleInv

(* Type correctness of what the client and the supervisor see.              *)
THEOREM LifecycleTypeCorrect == LSpec => []LifecycleTypeOK
<1>1. LifecycleInv => LifecycleTypeOK
  BY DEF LifecycleInv
<1> QED BY <1>1, LifecycleInitial, LifecycleInductive, PTL DEF LSpec

(* A client that follows StreamWorkflowEvents through any number of breaks  *)
(* has a prefix of the history: the numbers of the events are their         *)
(* positions, so asking for what follows the last number misses nothing and *)
(* repeats nothing.                                                         *)
THEOREM StreamIsComplete == LSpec => []StreamComplete
<1>1. LifecycleInv => StreamComplete
  BY DEF LifecycleInv, StreamInv, StreamComplete
<1> QED BY <1>1, LifecycleInitial, LifecycleInductive, PTL DEF LSpec

(* A RUNNING instance is not forgotten, even though CancelWorkflow ends     *)
(* goroutines of the engine before it writes the status.                    *)
THEOREM InstanceNotForgotten == LSpec => []NotForgotten
<1>1. LifecycleInv => NotForgotten
  BY DEF LifecycleInv, LifecycleTypeOK, CancelInv, NotForgotten, NoLostWakeup
<1> QED BY <1>1, LifecycleInitial, LifecycleInductive, PTL DEF LSpec

(* An agent that SubmitTaskResult told COMPLETED was told the truth: for a  *)
(* well-formed definition no race turns the outcome into another one.       *)
THEOREM ToldTheTruth == WellFormed => (LSpec => []ToldCompletedIsTrue)
<1> SUFFICES ASSUME WellFormed PROVE LSpec => []ToldCompletedIsTrue
  OBVIOUS
<1>1. LifecycleInv => ToldCompletedIsTrue
  BY DEF LifecycleInv, ToldInv
<1> QED BY <1>1, LifecycleInitial, LifecycleInductive, PTL DEF LSpec
===============================================================================
