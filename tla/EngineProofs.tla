----------------------------- MODULE EngineProofs -----------------------------
(***************************************************************************)
(* Theorems about module Engine that hold for every definition and every   *)
(* number of goroutines, tasks, timers, signals, restarts and failures:     *)
(*   TypeCorrect            Spec => []TypeOK                                *)
(*   HistoryIsContiguous    Spec => []HistoryContiguous                     *)
(*   HistoryIsLog           Spec => ImplementsEventLog                      *)
(* The lemmas named ...Type and ...Effect say what a single move does to    *)
(* the types and to the locals of the goroutines; the inductive proofs cite *)
(* them instead of unfolding the updates of g.                              *)
(***************************************************************************)
EXTENDS Engine, TLAPS

\* Idle is a value of g.
LEMMA IdleType == Idle \in Locals
  BY StoreAssumption DEF Idle, Locals, PCs, Modes

\* So are the locals of a goroutine that has just entered a function.
LEMMA SpawnedType ==
  ASSUME NEW mode \in Modes, NEW home \in {"orchestrator", "worker"}, NEW pc \in PCs
  PROVE  Spawned(mode, home, pc) \in Locals
  BY StoreAssumption DEF Spawned, Idle, Locals, PCs, Modes

\* What advanceFromState and processState go on with is a statement.
LEMMA AdvanceType ==
  ASSUME NEW s \in States
  PROVE  Advance(s) \in PCs /\ Process(s) \in PCs
  BY DefAssumption DEF Advance, Process, PCs

\* What the caller of LoadInstance goes on with is a statement.
LEMMA AfterLoadType ==
  ASSUME NEW mode \in Modes, NEW n \in Names
  PROVE  AfterLoad(mode, n) \in PCs
  BY AdvanceType DEF AfterLoad, PCs

\* AppendEvents keeps the store well typed, committed or not.
LEMMA AppendType ==
  ASSUME StoreTypeOK, NEW expected \in Nat, NEW e \in Events,
         AppendCommitted(expected, e) \/ AppendRejected(expected, e.seq)
  PROVE  StoreTypeOK'
  BY StoreAssumption
  DEF StoreTypeOK, AppendCommitted, AppendRejected, Fault, rowVars, logVars

\* So does an append with the snapshot of a goroutine.
LEMMA RecordType ==
  ASSUME TypeOK, NEW p \in Procs, NEW type \in EventTypes, NEW n \in Names, Record(p, type, n)
  PROVE  StoreTypeOK'
<1>1. g[p].ver \in Nat /\ NextSeq(g[p]) \in Nat
  BY DEF TypeOK, Locals, NextSeq
<1>2. [seq |-> NextSeq(g[p]), type |-> type, state |-> n] \in Events
  BY <1>1 DEF Events
<1> QED BY <1>1, <1>2, AppendType DEF Record, AppendEvents, TypeOK

\* A failed statement leaves the store well typed.
LEMMA FaultType ==
  ASSUME StoreTypeOK, UNCHANGED <<rowVars, logVars>>, Fault \/ UNCHANGED faults
  PROVE  StoreTypeOK'
  BY StoreAssumption DEF StoreTypeOK, Fault, rowVars, logVars

\* UpdateWorkflowStatus keeps the store well typed.
LEMMA StatusType ==
  ASSUME StoreTypeOK, NEW s \in Statuses, UpdateWorkflowStatus(s)
  PROVE  StoreTypeOK'
  BY DEF StoreTypeOK, UpdateWorkflowStatus, logVars

\* UpdateCurrentPhase keeps the store well typed.
LEMMA PhaseType ==
  ASSUME StoreTypeOK, NEW n \in Names, UpdateCurrentPhase(n)
  PROVE  StoreTypeOK'
  BY DEF StoreTypeOK, UpdateCurrentPhase, logVars

\* The updates of locals that the actions make are well typed.
LEMMA UpdatedType ==
  ASSUME NEW r \in Locals, NEW pc \in PCs, NEW k \in Nat, NEW n \in Names
  PROVE  /\ [r EXCEPT !.pc = pc] \in Locals
         /\ [r EXCEPT !.pc = pc, !.ver = 0, !.len = 0, !.act = 0] \in Locals
         /\ [r EXCEPT !.pc = pc, !.ver = k, !.act = 0, !.st = n] \in Locals
         /\ [r EXCEPT !.pc = pc, !.len = k] \in Locals
         /\ [r EXCEPT !.pc = pc, !.act = k] \in Locals
  BY DEF Locals

\* A move of one goroutine keeps g well typed.
LEMMA MoveType ==
  ASSUME g \in [Procs -> Locals], NEW p \in Procs, NEW pc \in PCs,
         Goto(p, pc) \/ Leave(p, pc) \/ Finish(p)
  PROVE  g' \in [Procs -> Locals]
<1>1. NoState \in Names /\ 0 \in Nat
  BY StoreAssumption
<1>2. /\ [g[p] EXCEPT !.pc = pc] \in Locals
      /\ [g[p] EXCEPT !.pc = pc, !.ver = 0, !.len = 0, !.act = 0] \in Locals
  BY <1>1, UpdatedType
<1> QED BY <1>2, IdleType DEF Goto, Leave, Finish

\* Starting a goroutine keeps g well typed.
LEMMA SpawnType ==
  ASSUME g \in [Procs -> Locals], NEW p \in Procs, NEW mode \in Modes,
         NEW home \in {"orchestrator", "worker"}, NEW pc \in PCs,
         Spawn(p, mode, home, pc)
  PROVE  g' \in [Procs -> Locals]
  BY SpawnedType DEF Spawn

(* What the moves of a goroutine do to its locals, field by field.          *)

Others(p) == \A q \in Procs \ {p} : g'[q] = g[q]

\* The fields of an idle goroutine.
LEMMA IdleFields ==
  /\ Idle.pc = "idle" /\ Idle.mode = "none" /\ Idle.home = "orchestrator"
  /\ Idle.ver = 0 /\ Idle.len = 0 /\ Idle.st = NoState /\ Idle.act = 0
  BY DEF Idle

\* The fields of a goroutine that has just entered a function.
LEMMA SpawnedFields ==
  ASSUME NEW mode, NEW home, NEW pc
  PROVE  /\ Spawned(mode, home, pc).pc = pc
         /\ Spawned(mode, home, pc).mode = mode
         /\ Spawned(mode, home, pc).home = home
         /\ Spawned(mode, home, pc).st = NoState
         /\ Spawned(mode, home, pc).ver = 0
         /\ Spawned(mode, home, pc).len = 0
         /\ Spawned(mode, home, pc).act = 0
  BY DEF Spawned, Idle

\* Goto changes the pc only.
LEMMA GotoEffect ==
  ASSUME g \in [Procs -> Locals], NEW p \in Procs, NEW pc, Goto(p, pc)
  PROVE  /\ g'[p].pc = pc
         /\ g'[p].mode = g[p].mode /\ g'[p].home = g[p].home /\ g'[p].st = g[p].st
         /\ g'[p].ver = g[p].ver /\ g'[p].len = g[p].len /\ g'[p].act = g[p].act
         /\ Others(p)
  BY DEF Goto, Others, Locals

\* Leave changes the pc and forgets the snapshot.
LEMMA LeaveEffect ==
  ASSUME g \in [Procs -> Locals], NEW p \in Procs, NEW pc, Leave(p, pc)
  PROVE  /\ g'[p].pc = pc
         /\ g'[p].mode = g[p].mode /\ g'[p].home = g[p].home /\ g'[p].st = g[p].st
         /\ g'[p].ver = 0 /\ g'[p].len = 0 /\ g'[p].act = 0
         /\ Others(p)
  BY DEF Leave, Others, Locals

\* Finish makes the goroutine idle.
LEMMA FinishEffect ==
  ASSUME g \in [Procs -> Locals], NEW p \in Procs, Finish(p)
  PROVE  g'[p] = Idle /\ g'[p].pc = "idle" /\ Others(p)
  BY IdleFields DEF Finish, Others

\* Replacing the locals of p leaves the other goroutines alone.
LEMMA SpawnEffect ==
  ASSUME g \in [Procs -> Locals], NEW p \in Procs, NEW r, g' = [g EXCEPT ![p] = r]
  PROVE  g'[p] = r /\ Others(p)
  BY DEF Others

\* After CountPendingTasks: on to LoadInstance, once more, or the end.
LEMMA CountEffect ==
  ASSUME g \in [Procs -> Locals], NEW p \in Procs, CountPendingTasks(p)
  PROVE  /\ g[p].pc = "count" /\ Others(p)
         /\ \/ OpenTasks = {} /\ g'[p].pc = "loadRow" /\ g'[p].mode = g[p].mode
            \/ OpenTasks # {} /\ g'[p].pc \in {"count", "idle"}
<1>1. CASE Goto(p, "loadRow") /\ OpenTasks = {}
  BY <1>1, GotoEffect DEF CountPendingTasks, At
<1>2. CASE g' = [g EXCEPT ![p].mode = "resume"] /\ OpenTasks # {}
  BY <1>2 DEF CountPendingTasks, At, Others, Locals
<1>3. CASE Finish(p) /\ OpenTasks # {}
  BY <1>3, FinishEffect DEF CountPendingTasks, At
<1> QED BY <1>1, <1>2, <1>3 DEF CountPendingTasks

\* What the first statement of LoadInstance reads.
LEMMA LoadRowEffect ==
  ASSUME g \in [Procs -> Locals], NEW p \in Procs, LoadRow(p)
  PROVE  /\ g[p].pc = "loadRow" /\ Others(p)
         /\ g'[p].pc = "loadHistory" /\ g'[p].mode = g[p].mode
         /\ g'[p].ver = version /\ g'[p].act = 0
         /\ g'[p].st = IF g[p].mode = "timer" THEN g[p].st ELSE phase
  BY DEF LoadRow, At, Others, Locals

\* What the second statement of LoadInstance reads and where it leads.
LEMMA LoadHistoryEffect ==
  ASSUME g \in [Procs -> Locals], NEW p \in Procs, LoadHistory(p) \/ LoadHistoryTruncated(p)
  PROVE  /\ g[p].pc = "loadHistory" /\ Others(p)
         /\ g'[p].pc = AfterLoad(g[p].mode, g[p].st) /\ g'[p].mode = g[p].mode
         /\ g'[p].ver = g[p].ver /\ g'[p].act = g[p].act /\ g'[p].st = g[p].st
         /\ LoadHistory(p) => g'[p].len = Len(history)
<1>1. CASE LoadHistory(p)
  BY <1>1 DEF LoadHistory, At, Others, Locals
<1>2. CASE LoadHistoryTruncated(p) /\ ~LoadHistory(p)
  <2>1. PICK n \in 0 .. Len(history) :
          g' = [g EXCEPT ![p] = [g[p] EXCEPT !.pc = AfterLoad(g[p].mode, g[p].st), !.len = n]]
    BY <1>2 DEF LoadHistoryTruncated
  <2>2. g[p].pc = "loadHistory"
    BY <1>2 DEF LoadHistoryTruncated, At
  <2> QED BY <1>2, <2>1, <2>2 DEF Others, Locals
<1> QED BY <1>1, <1>2

\* The loop over the actions goes to its next round or ends.
LEMMA ScheduledEffect ==
  ASSUME g \in [Procs -> Locals], NEW p \in Procs, RecordScheduled(p)
  PROVE  /\ g[p].pc = "recordScheduled" /\ Others(p)
         /\ \/ g'[p] = Idle /\ g'[p].pc = "idle"
            \/ /\ g'[p].pc = "createTask" /\ g'[p].act = g[p].act + 1
               /\ g'[p].ver = g[p].ver /\ g'[p].len = g[p].len
               /\ g'[p].st = g[p].st /\ g'[p].mode = g[p].mode
<1>1. CASE Finish(p)
  BY <1>1, FinishEffect DEF RecordScheduled, At
<1>2. CASE g' = [g EXCEPT ![p] = [g[p] EXCEPT !.pc = "createTask", !.act = g[p].act + 1]]
  BY <1>2 DEF RecordScheduled, At, Others, Locals
<1> QED BY <1>1, <1>2 DEF RecordScheduled

(* The control flow of Step: where p was and where it goes.  Actions that   *)
(* have a lemma of their own above are left to it.                          *)
LEMMA StepEffect ==
  ASSUME g \in [Procs -> Locals], NEW p \in Procs, Step(p)
  PROVE  /\ Others(p)
         /\ \/ /\ AppendStarted(p) /\ g[p].pc = "appendStarted"
               /\ g'[p].pc \in {"startWorker", "idle"}
            \/ /\ StartWorker(p) /\ g[p].pc = "startWorker"
               /\ g'[p].pc \in {"loadRow", "markDegraded"}
            \/ /\ MarkDegraded(p) /\ g[p].pc = "markDegraded" /\ g'[p].pc = "idle"
            \/ CountPendingTasks(p)
            \/ LoadRow(p)
            \/ LoadHistory(p)
            \/ LoadHistoryTruncated(p)
            \/ ReadFails(p) /\ g'[p].pc = "idle"
            \/ /\ RecordTransition(p) /\ g[p].pc = "recordTransition"
               /\ g'[p].pc = "updatePhase" /\ g'[p].st = g[p].st /\ g'[p].mode = g[p].mode
            \/ /\ UpdatePhase(p) /\ g[p].pc = "updatePhase" /\ g'[p].pc \in {"loadRow", "idle"}
            \/ /\ RecordCompleted(p) /\ g[p].pc = "recordCompleted"
               /\ g'[p].pc = "markCompleted" /\ g'[p].mode = g[p].mode
            \/ /\ MarkCompleted(p) /\ g[p].pc = "markCompleted" /\ g'[p].pc = "idle"
            \/ /\ MarkFailed(p) /\ g[p].pc = "markFailed" /\ g'[p].pc = "idle"
            \/ /\ CreateTask(p) /\ g[p].pc = "createTask"
               /\ g'[p].pc \in {"recordScheduled", "markFailed"}
               /\ g'[p].st = g[p].st /\ g'[p].mode = g[p].mode
               /\ g'[p].pc = "recordScheduled" =>
                    /\ g'[p].ver = g[p].ver /\ g'[p].len = g[p].len /\ g'[p].act = g[p].act
            \/ RecordScheduled(p)
            \/ /\ CreateTimer(p) /\ g[p].pc = "createTimer"
               /\ g'[p].pc \in {"recordTimer", "markFailed"}
               /\ g'[p].st = g[p].st /\ g'[p].mode = g[p].mode
               /\ g'[p].pc = "recordTimer" =>
                    /\ g'[p].ver = g[p].ver /\ g'[p].len = g[p].len /\ g'[p].act = g[p].act
            \/ /\ RecordTimer(p) /\ g[p].pc = "recordTimer" /\ g'[p].pc = "idle"
            \/ /\ AppendSignalEvent(p) /\ g[p].pc = "appendSignal" /\ g'[p].pc = "idle"
<1>1. CASE AppendStarted(p)
  BY <1>1, GotoEffect, FinishEffect DEF AppendStarted, At
<1>2. CASE StartWorker(p)
  BY <1>2, GotoEffect, SpawnEffect, SpawnedFields DEF StartWorker, At
<1>3. CASE MarkDegraded(p) \/ MarkCompleted(p) \/ MarkFailed(p)
  BY <1>3, FinishEffect DEF MarkDegraded, MarkCompleted, MarkFailed, At
<1>4. CASE CountPendingTasks(p) \/ LoadRow(p) \/ LoadHistory(p) \/ LoadHistoryTruncated(p)
           \/ RecordScheduled(p)
  BY <1>4, CountEffect, LoadRowEffect, LoadHistoryEffect, ScheduledEffect
<1>5. CASE ReadFails(p)
  BY <1>5, FinishEffect DEF ReadFails
<1>6. CASE RecordTransition(p) \/ RecordCompleted(p)
  BY <1>6, LeaveEffect DEF RecordTransition, RecordCompleted, At
<1>7. CASE UpdatePhase(p)
  BY <1>7, FinishEffect, SpawnEffect, SpawnedFields DEF UpdatePhase, At
<1>8. CASE CreateTask(p)
  BY <1>8, GotoEffect, LeaveEffect DEF CreateTask, At
<1>9. CASE CreateTimer(p)
  BY <1>9, GotoEffect, LeaveEffect DEF CreateTimer, At
<1>10. CASE RecordTimer(p) \/ AppendSignalEvent(p)
  BY <1>10, FinishEffect DEF RecordTimer, AppendSignalEvent, At
<1> QED
  BY <1>1, <1>2, <1>3, <1>4, <1>5, <1>6, <1>7, <1>8, <1>9, <1>10 DEF Step

(* The state that a goroutine past LoadInstance works on is one of the      *)
(* definition's; needed where Def is applied to it.                         *)
NeedsState == {"recordTransition", "updatePhase", "recordCompleted", "createTask",
               "recordScheduled", "createTimer", "recordTimer"}

StateKnown == \A p \in Procs : g[p].pc \in NeedsState => g[p].st \in States

TypeInv == TypeOK /\ StateKnown

\* executeWorkflow and advanceFromState go on only with a state that findState found.
LEMMA NeedsStateLoad ==
  ASSUME NEW mode \in Modes, NEW n \in Names, AfterLoad(mode, n) \in NeedsState
  PROVE  n \in States
  BY DEF AfterLoad, NeedsState

\* A statement of a goroutine keeps the engine well typed.
LEMMA StepType ==
  ASSUME TypeInv, NEW p \in Procs, Step(p)
  PROVE  TypeOK'
<1> USE DEF calls
<1>g. TypeOK /\ StoreTypeOK /\ g \in [Procs -> Locals] /\ g[p] \in Locals
  BY DEF TypeInv, TypeOK
<1>l. /\ g[p].pc \in PCs /\ g[p].mode \in Modes /\ g[p].home \in {"orchestrator", "worker"}
      /\ g[p].ver \in Nat /\ g[p].len \in Nat /\ g[p].st \in Names /\ g[p].act \in Nat
  BY <1>g DEF Locals
<1>d. g[p].pc \in NeedsState => g[p].st \in States /\ Def[g[p].st].transition \in Names
  BY DefAssumption DEF TypeInv, StateKnown
<1>n. {"idle", "startWorker", "markDegraded", "loadRow", "loadHistory", "updatePhase",
       "markCompleted", "markFailed", "createTask", "recordScheduled", "recordTimer"} \subseteq PCs
  BY DEF PCs
<1>1. CASE AppendStarted(p)
  <2>1. [seq |-> 1, type |-> "WorkflowStarted", state |-> Start] \in Events
    BY DefAssumption DEF Events, EventTypes
  <2>2. StoreTypeOK'
    BY <1>1, <1>g, <2>1, AppendType DEF AppendStarted
  <2>3. g' \in [Procs -> Locals]
    BY <1>1, <1>g, <1>n, MoveType DEF AppendStarted
  <2> QED BY <1>1, <1>g, <2>2, <2>3 DEF AppendStarted, TypeOK
<1>2. CASE StartWorker(p)
  <2>1. StoreTypeOK'
    BY <1>2, <1>g, FaultType DEF StartWorker
  <2>2. Spawned("execute", "worker", "loadRow") \in Locals
    BY SpawnedType DEF Modes, PCs
  <2>3. g' \in [Procs -> Locals]
    BY <1>2, <1>g, <1>n, <2>2, MoveType DEF StartWorker
  <2> QED BY <1>2, <1>g, <2>1, <2>3 DEF StartWorker, TypeOK
<1>3. CASE MarkDegraded(p) \/ MarkCompleted(p) \/ MarkFailed(p)
  <2>1. StoreTypeOK'
    BY <1>3, <1>g, FaultType, StatusType DEF MarkDegraded, MarkCompleted, MarkFailed, Statuses
  <2>2. g' \in [Procs -> Locals]
    BY <1>3, <1>g, <1>n, MoveType DEF MarkDegraded, MarkCompleted, MarkFailed
  <2> QED BY <1>3, <1>g, <2>1, <2>2 DEF MarkDegraded, MarkCompleted, MarkFailed, TypeOK
<1>4. CASE CountPendingTasks(p)
  <2>1. g' \in [Procs -> Locals]
    BY <1>4, <1>g, <1>n, MoveType DEF CountPendingTasks, Locals, Modes
  <2> QED BY <1>4, <1>g, <2>1 DEF CountPendingTasks, TypeOK, storeVars, StoreTypeOK
<1>5. CASE LoadRow(p)
  <2>1. g' \in [Procs -> Locals]
    <3> DEFINE n == IF g[p].mode = "timer" THEN g[p].st ELSE phase
    <3>1. n \in Names /\ version \in Nat
      BY <1>g, <1>l DEF StoreTypeOK
    <3>2. [g[p] EXCEPT !.pc = "loadHistory", !.ver = version, !.act = 0, !.st = n] \in Locals
      BY <3>1, <1>g, <1>n, UpdatedType
    <3> QED BY <1>5, <1>g, <3>2 DEF LoadRow
  <2> QED BY <1>5, <1>g, <2>1 DEF LoadRow, TypeOK, storeVars, StoreTypeOK
<1>6. CASE LoadHistory(p) \/ LoadHistoryTruncated(p)
  <2>1. AfterLoad(g[p].mode, g[p].st) \in PCs
    BY <1>l, AfterLoadType
  <2>2. Len(history) \in Nat
    BY <1>g DEF StoreTypeOK
  <2>3. g' \in [Procs -> Locals]
    <3> DEFINE pc == AfterLoad(g[p].mode, g[p].st)
    <3>1. \A k \in Nat : [g[p] EXCEPT !.pc = pc, !.len = k] \in Locals
      BY <2>1, <1>g, <1>l, UpdatedType
    <3>2. CASE LoadHistory(p)
      BY <3>2, <1>g, <3>1, <2>2 DEF LoadHistory
    <3>3. CASE LoadHistoryTruncated(p)
      <4>1. PICK k \in 0 .. Len(history) :
                 g' = [g EXCEPT ![p] = [g[p] EXCEPT !.pc = pc, !.len = k]]
        BY <3>3 DEF LoadHistoryTruncated
      <4>2. k \in Nat
        BY <2>2
      <4> QED BY <1>g, <3>1, <4>1, <4>2
    <3> QED BY <1>6, <3>2, <3>3
  <2>4. StoreTypeOK'
    BY <1>6, <1>g, FaultType DEF LoadHistory, LoadHistoryTruncated, storeVars, StoreTypeOK
  <2> QED BY <1>6, <1>g, <2>3, <2>4 DEF LoadHistory, LoadHistoryTruncated, TypeOK
<1>7. CASE ReadFails(p)
  BY <1>7, <1>g, <1>n, FaultType, MoveType DEF ReadFails, TypeOK
<1>8. CASE RecordTransition(p) \/ RecordCompleted(p)
  <2>1. StoreTypeOK'
    BY <1>8, <1>g, <1>d, <1>l, RecordType
    DEF RecordTransition, RecordCompleted, At, NeedsState, EventTypes
  <2>2. g' \in [Procs -> Locals]
    BY <1>8, <1>g, <1>n, MoveType DEF RecordTransition, RecordCompleted
  <2> QED BY <1>8, <1>g, <2>1, <2>2 DEF RecordTransition, RecordCompleted, TypeOK
<1>9. CASE UpdatePhase(p)
  <2>1. StoreTypeOK'
    BY <1>9, <1>g, <1>d, FaultType, PhaseType DEF UpdatePhase, At, NeedsState
  <2>2. Spawned("execute", g[p].home, "loadRow") \in Locals
    BY <1>l, <1>n, SpawnedType DEF Modes
  <2>3. g' \in [Procs -> Locals]
    BY <1>9, <1>g, <1>n, <2>2, MoveType DEF UpdatePhase
  <2> QED BY <1>9, <1>g, <2>1, <2>3 DEF UpdatePhase, TypeOK
<1>10. CASE CreateTask(p)
  <2>1. StoreTypeOK'
    BY <1>10, <1>g, FaultType DEF CreateTask
  <2>2. g' \in [Procs -> Locals]
    BY <1>10, <1>g, <1>n, MoveType DEF CreateTask
  <2>3. tasks' \in [TaskIds -> Tasks]
    BY <1>10, <1>g, <1>l DEF CreateTask, TypeOK, Tasks
  <2> QED BY <1>10, <1>g, <2>1, <2>2, <2>3 DEF CreateTask, TypeOK
<1>11. CASE RecordScheduled(p)
  <2>1. StoreTypeOK'
    BY <1>11, <1>g, <1>l, RecordType DEF RecordScheduled, EventTypes
  <2>2. g' \in [Procs -> Locals]
    <3>0. g[p].act + 1 \in Nat /\ "createTask" \in PCs
      BY <1>l, <1>n
    <3>1. [g[p] EXCEPT !.pc = "createTask", !.act = g[p].act + 1] \in Locals
      BY <1>g, <1>l, <3>0, UpdatedType
    <3> QED BY <1>11, <1>g, <1>n, <3>1, MoveType DEF RecordScheduled
  <2> QED BY <1>11, <1>g, <2>1, <2>2 DEF RecordScheduled, TypeOK
<1>12. CASE CreateTimer(p)
  <2>1. StoreTypeOK'
    BY <1>12, <1>g, FaultType DEF CreateTimer
  <2>2. g' \in [Procs -> Locals]
    BY <1>12, <1>g, <1>n, MoveType DEF CreateTimer
  <2>3. timers' \in [TimerIds -> Timers]
    BY <1>12, <1>g, <1>d DEF CreateTimer, TypeOK, Timers, At, NeedsState
  <2> QED BY <1>12, <1>g, <2>1, <2>2, <2>3 DEF CreateTimer, TypeOK
<1>13. CASE RecordTimer(p)
  <2>1. StoreTypeOK'
    BY <1>13, <1>g, <1>d, RecordType DEF RecordTimer, EventTypes, At, NeedsState
  <2>2. g' \in [Procs -> Locals]
    BY <1>13, <1>g, <1>n, MoveType DEF RecordTimer
  <2> QED BY <1>13, <1>g, <2>1, <2>2 DEF RecordTimer, TypeOK
<1>14. CASE AppendSignalEvent(p)
  <2>1. StoreTypeOK'
    <3>1. CASE AppendRejected(g[p].ver, 0)
      BY <3>1, <1>g, FaultType DEF AppendRejected
    <3>2. CASE version' = version + 1 /\ signalled' = TRUE /\ UNCHANGED <<rowVars, history, faults>>
      BY <3>2, <1>g DEF StoreTypeOK, rowVars
    <3> QED BY <1>14, <3>1, <3>2 DEF AppendSignalEvent, AppendSignal
  <2>2. g' \in [Procs -> Locals]
    BY <1>14, <1>g, <1>n, MoveType DEF AppendSignalEvent
  <2> QED BY <1>14, <1>g, <2>1, <2>2 DEF AppendSignalEvent, TypeOK
<1> QED
  BY <1>1, <1>2, <1>3, <1>4, <1>5, <1>6, <1>7, <1>8, <1>9, <1>10, <1>11, <1>12, <1>13, <1>14
  DEF Step

\* A statement of a goroutine preserves StateKnown.
LEMMA StepStateKnown ==
  ASSUME TypeInv, TypeOK', NEW p \in Procs, Step(p)
  PROVE  StateKnown'
<1> SUFFICES ASSUME NEW q \in Procs, g'[q].pc \in NeedsState
             PROVE  g'[q].st \in States
  BY DEF StateKnown
<1>g. g \in [Procs -> Locals] /\ g[p] \in Locals
  BY DEF TypeInv, TypeOK
<1>k. g[q].pc \in NeedsState => g[q].st \in States
  BY DEF TypeInv, StateKnown
<1>1. CASE q # p
  BY <1>1, <1>g, <1>k, StepEffect DEF Others
<1>2. CASE q = p /\ (LoadHistory(p) \/ LoadHistoryTruncated(p))
  <2>1. g[p].mode \in Modes /\ g[p].st \in Names
    BY <1>g DEF Locals
  <2> QED BY <1>2, <1>g, <2>1, LoadHistoryEffect, NeedsStateLoad
<1>3. CASE q = p /\ ~LoadHistory(p) /\ ~LoadHistoryTruncated(p)
  BY <1>3, <1>g, <1>k, StepEffect, CountEffect, LoadRowEffect, ScheduledEffect DEF NeedsState
<1> QED BY <1>1, <1>2, <1>3

-------------------------------------------------------------------------------
(* The actions that are not steps of a running goroutine.                   *)

\* Spawn takes an idle goroutine and leaves the others alone.
LEMMA StartEffect ==
  ASSUME g \in [Procs -> Locals], NEW p \in Goroutines, NEW mode, NEW home, NEW pc,
         Spawn(p, mode, home, pc)
  PROVE  /\ p \in Procs /\ g[p].pc = "idle" /\ Others(p)
         /\ g'[p] = Spawned(mode, home, pc) /\ g'[p].pc = pc /\ g'[p].mode = mode
  BY SpawnedFields DEF Spawn, Others, Procs, At

\* MarkTimerFired starts ResumeAfterTimer with the target of the timer.
LEMMA FiringEffect ==
  ASSUME TypeOK, NEW t \in TimerIds, MarkTimerFired(t)
  PROVE  /\ g[TimerService].pc = "idle" /\ Others(TimerService) /\ Target(t) \in Names
         /\ \/ /\ g'[TimerService] \in Locals
               /\ g'[TimerService].pc = "loadRow" /\ g'[TimerService].mode = "timer"
               /\ g'[TimerService].st = Target(t)
               /\ timers' = [timers EXCEPT ![t].status = "fired"]
               /\ faults' = faults
            \/ g' = g /\ timers' = timers /\ Fault
<1>1. Target(t) \in Names
  BY DefAssumption DEF Target, TypeOK, Timers
<1>2. TimerService \in Procs /\ g \in [Procs -> Locals]
  BY DEF Procs, TypeOK
<1> DEFINE r == [Spawned("timer", "orchestrator", "loadRow") EXCEPT !.st = Target(t)]
<1>3. r \in Locals /\ r.pc = "loadRow" /\ r.mode = "timer" /\ r.st = Target(t)
  <2>1. Spawned("timer", "orchestrator", "loadRow") \in Locals
    BY SpawnedType DEF Modes, PCs
  <2> QED BY <1>1, <2>1, SpawnedFields DEF Locals
<1>4. CASE g' = [g EXCEPT ![TimerService] = r]
           /\ timers' = [timers EXCEPT ![t].status = "fired"] /\ UNCHANGED faults
  BY <1>1, <1>2, <1>3, <1>4, SpawnEffect DEF MarkTimerFired, At
<1>5. CASE Fault /\ UNCHANGED <<timers, g>>
  BY <1>1, <1>2, <1>5 DEF MarkTimerFired, At, Others
<1> QED BY <1>4, <1>5 DEF MarkTimerFired

\* The end of ResumeAfterTimer: the timer service is idle, a goroutine executes.
LEMMA FiredPhaseEffect ==
  ASSUME TypeOK, NEW p \in Goroutines, FiredPhase(p)
  PROVE  /\ g[TimerService].pc = "firedPhase" /\ g'[TimerService] = Idle
         /\ g[p].pc = "idle" /\ p # TimerService
         /\ \A q \in Procs \ {p, TimerService} : g'[q] = g[q]
         /\ \/ /\ g'[p] = Spawned("execute", "orchestrator", "loadRow")
               /\ UpdateCurrentPhase(g[TimerService].st)
            \/ g'[p] = g[p] /\ Fault /\ UNCHANGED <<rowVars, logVars>>
<1>1. p \in Procs /\ TimerService \in Procs /\ p # TimerService /\ g \in [Procs -> Locals]
  BY BoundAssumption DEF Procs, TypeOK
<1>2. CASE Fault /\ UNCHANGED <<rowVars, logVars>> /\ Finish(TimerService)
  BY <1>1, <1>2, FinishEffect DEF FiredPhase, At, Others
<1>3. CASE UpdateCurrentPhase(g[TimerService].st)
           /\ g' = [g EXCEPT ![TimerService] = Idle,
                             ![p] = Spawned("execute", "orchestrator", "loadRow")]
  BY <1>1, <1>3 DEF FiredPhase, At
<1> QED BY <1>2, <1>3 DEF FiredPhase

\* After a restart a goroutine is what it was, idle, or the new worker.
LEMMA RestartEffect ==
  ASSUME g \in [Procs -> Locals], NEW s \in SUBSET WorkerProcs, NEW p \in Goroutines,
         RestartOrchestrator(s, p)
  PROVE  /\ \A q \in Procs : \/ g'[q] = g[q]
                             \/ g'[q] = Idle
                             \/ g'[q] = Spawned("execute", "worker", "loadRow")
         /\ g' = [q \in Procs |-> g'[q]]
         /\ status = "RUNNING" => p \in Procs /\ g'[p] = Spawned("execute", "worker", "loadRow")
         /\ UNCHANGED <<storeVars, tasks, timers>>
<1>1. CASE status = "RUNNING"
  BY <1>1 DEF RestartOrchestrator, Procs
<1>2. CASE status # "RUNNING"
  BY <1>2 DEF RestartOrchestrator, Procs
<1> QED BY <1>1, <1>2

\* RecordFired moves the timer service on to its phase update.
LEMMA RecordFiredEffect ==
  ASSUME TypeOK, RecordFired
  PROVE  /\ TimerService \in Procs /\ Others(TimerService)
         /\ g[TimerService].pc = "recordFired" /\ g'[TimerService].pc = "firedPhase"
         /\ g'[TimerService].st = g[TimerService].st
         /\ g'[TimerService].mode = g[TimerService].mode
  BY LeaveEffect DEF RecordFired, At, Procs, TypeOK

\* The disjuncts of Next, flattened.
LEMMA NextCases ==
  ASSUME Next
  PROVE  \/ \E p \in Goroutines : StartWorkflow(p)
         \/ \E p \in Goroutines : SignalWorkflow(p)
         \/ \E p \in Goroutines : WorkerDies(p)
         \/ \E p \in Procs : Step(p)
         \/ Tick
         \/ \E t \in TimerIds : MarkTimerFired(t)
         \/ RecordFired
         \/ \E p \in Goroutines : FiredPhase(p)
         \/ \E t \in TaskIds, p \in Goroutines, o \in {"COMPLETED", "FAILED"},
               m \in {"resume", "submit"} : Resolve(t, p, o, m)
         \/ \E t \in TaskIds : ReopenTask(t)
         \/ \E s \in SUBSET WorkerProcs, p \in Goroutines : RestartOrchestrator(s, p)
  BY DEF Next, TimerStep, AgentStep, CompleteTask, FailTask, SubmitTaskResult

\* TypeInv is inductive: one step per disjunct of Next.
LEMMA TypeInductive ==
  ASSUME TypeInv, [Next]_vars
  PROVE  TypeInv'
<1> USE DEF calls
<1>t. TypeOK /\ StoreTypeOK /\ g \in [Procs -> Locals] /\ StateKnown
  BY DEF TypeInv, TypeOK
<1>b. MaxRepeats \in Nat /\ MaxSignals \in Nat /\ MaxRestarts \in Nat
  BY BoundAssumption
<1>p. Goroutines \subseteq Procs /\ TimerService \in Procs
  BY DEF Procs
<1>i. Idle \in Locals /\ Idle.pc = "idle" /\ "idle" \notin NeedsState
  BY IdleType, IdleFields DEF NeedsState
<1>1. ASSUME NEW p \in Goroutines, StartWorkflow(p) PROVE TypeInv'
  <2>1. StoreTypeOK'
    BY <1>1, <1>t, DefAssumption
    DEF StartWorkflow, CreateWorkflowInstance, StoreTypeOK, Statuses, logVars
  <2>2. g' \in [Procs -> Locals] /\ g'[p].pc \notin NeedsState /\ Others(p)
    BY <1>1, <1>t, <1>p, SpawnType, StartEffect DEF StartWorkflow, Modes, PCs, NeedsState
  <2> QED BY <1>1, <1>t, <2>1, <2>2 DEF StartWorkflow, TypeInv, TypeOK, StateKnown, Others
<1>2. ASSUME NEW p \in Goroutines, SignalWorkflow(p) PROVE TypeInv'
  <2>1. g' \in [Procs -> Locals] /\ g'[p].pc \notin NeedsState /\ Others(p)
    BY <1>2, <1>t, <1>p, SpawnType, StartEffect DEF SignalWorkflow, Modes, PCs, NeedsState
  <2>2. signals' \in 0 .. MaxSignals
    BY <1>2, <1>t, <1>b DEF SignalWorkflow, TypeOK
  <2> QED BY <1>2, <1>t, <2>1, <2>2
          DEF SignalWorkflow, TypeInv, TypeOK, StateKnown, Others, storeVars, StoreTypeOK
<1>3. ASSUME NEW p \in Goroutines, WorkerDies(p) PROVE TypeInv'
  <2>1. g' \in [Procs -> Locals] /\ g'[p].pc = "idle" /\ Others(p)
    BY <1>3, <1>t, <1>p, FinishEffect, MoveType DEF WorkerDies, PCs
  <2>2. StoreTypeOK'
    BY <1>3, <1>t, FaultType DEF WorkerDies
  <2> QED BY <1>3, <1>t, <1>i, <2>1, <2>2 DEF WorkerDies, TypeInv, TypeOK, StateKnown, Others
<1>4. ASSUME NEW p \in Procs, Step(p) PROVE TypeInv'
  BY <1>4, StepType, StepStateKnown DEF TypeInv
<1>5. CASE Tick
  BY <1>5, <1>t DEF Tick, TypeInv, TypeOK, StateKnown, storeVars, StoreTypeOK, PendingTimers
<1>6. ASSUME NEW t \in TimerIds, MarkTimerFired(t) PROVE TypeInv'
  <2>1. Others(TimerService) /\ (\/ /\ g'[TimerService] \in Locals
                                    /\ g'[TimerService].pc = "loadRow"
                                 \/ g' = g)
    BY <1>6, <1>t, FiringEffect
  <2>2. g' \in [Procs -> Locals]
    BY <1>6, <1>t, <1>p, <2>1 DEF MarkTimerFired
  <2>3. timers' \in [TimerIds -> Timers]
    BY <1>6, <1>t DEF MarkTimerFired, TypeOK, Timers
  <2>4. StoreTypeOK'
    BY <1>6, <1>t, FaultType DEF MarkTimerFired
  <2>5. StateKnown'
    BY <1>t, <2>1 DEF StateKnown, Others, NeedsState
  <2> QED BY <1>6, <1>t, <2>2, <2>3, <2>4, <2>5 DEF MarkTimerFired, TypeInv, TypeOK
<1>7. CASE RecordFired
  <2>1. g' \in [Procs -> Locals]
    BY <1>7, <1>t, <1>p, MoveType DEF RecordFired, PCs
  <2>2. StoreTypeOK'
    BY <1>7, <1>t, <1>p, RecordType DEF RecordFired, EventTypes, Locals
  <2>3. StateKnown'
    BY <1>7, <1>t, RecordFiredEffect DEF StateKnown, Others, NeedsState
  <2> QED BY <1>7, <1>t, <2>1, <2>2, <2>3 DEF RecordFired, TypeInv, TypeOK
<1>8. ASSUME NEW p \in Goroutines, FiredPhase(p) PROVE TypeInv'
  <2>1. Spawned("execute", "orchestrator", "loadRow") \in Locals
    BY SpawnedType DEF Modes, PCs
  <2>2. g' \in [Procs -> Locals]
    BY <1>8, <1>t, <1>i, <1>p, <2>1 DEF FiredPhase, Finish
  <2>3. StoreTypeOK'
    BY <1>8, <1>t, <1>p, FiredPhaseEffect, PhaseType, FaultType DEF Locals
  <2>4. StateKnown'
    BY <1>8, <1>t, <1>i, FiredPhaseEffect, SpawnedFields DEF StateKnown, NeedsState
  <2> QED BY <1>8, <1>t, <2>2, <2>3, <2>4 DEF FiredPhase, TypeInv, TypeOK
<1>9. ASSUME NEW t \in TaskIds, NEW p \in Goroutines, NEW o \in {"COMPLETED", "FAILED"},
             NEW m \in {"resume", "submit"}, Resolve(t, p, o, m)
      PROVE  TypeInv'
  <2>1. g' \in [Procs -> Locals] /\ g'[p].pc \notin NeedsState /\ Others(p)
    BY <1>9, <1>t, <1>p, SpawnType, StartEffect DEF Resolve, Modes, PCs, NeedsState
  <2>2. tasks' \in [TaskIds -> Tasks]
    BY <1>9, <1>t DEF Resolve, TypeOK, Tasks
  <2>3. repeats' \in 0 .. MaxRepeats
    BY <1>9, <1>t, <1>b DEF Resolve, CountRepeat, TypeOK
  <2> QED BY <1>9, <1>t, <2>1, <2>2, <2>3
          DEF Resolve, TypeInv, TypeOK, StateKnown, Others, storeVars, StoreTypeOK
<1>10. ASSUME NEW t \in TaskIds, ReopenTask(t) PROVE TypeInv'
  <2>1. tasks' \in [TaskIds -> Tasks]
    BY <1>10, <1>t DEF ReopenTask, TypeOK, Tasks
  <2>2. repeats' \in 0 .. MaxRepeats
    BY <1>10, <1>t, <1>b DEF ReopenTask, TypeOK
  <2> QED BY <1>10, <1>t, <2>1, <2>2
          DEF ReopenTask, TypeInv, TypeOK, StateKnown, storeVars, StoreTypeOK
<1>11. ASSUME NEW s \in SUBSET WorkerProcs, NEW p \in Goroutines, RestartOrchestrator(s, p)
       PROVE  TypeInv'
  <2>1. Spawned("execute", "worker", "loadRow") \in Locals
    BY SpawnedType DEF Modes, PCs
  <2>2. g' \in [Procs -> Locals]
    BY <1>11, <1>t, <1>i, <2>1, RestartEffect
  <2>3. StateKnown'
    BY <1>11, <1>t, <1>i, RestartEffect, SpawnedFields DEF StateKnown, NeedsState
  <2>4. restarts' \in 0 .. MaxRestarts
    BY <1>11, <1>t, <1>b DEF RestartOrchestrator, TypeOK
  <2> QED BY <1>11, <1>t, <2>2, <2>3, <2>4
          DEF RestartOrchestrator, TypeInv, TypeOK, storeVars, StoreTypeOK
<1>12. CASE UNCHANGED vars
  BY <1>12, <1>t DEF vars, storeVars, engineVars, TypeInv, TypeOK, StoreTypeOK, StateKnown
<1>13. CASE Next
  BY <1>13, <1>1, <1>2, <1>3, <1>4, <1>5, <1>6, <1>7, <1>8, <1>9, <1>10, <1>11, NextCases
<1> QED BY <1>12, <1>13

\* TypeInv holds initially.
LEMMA TypeInitial == Init => TypeInv
<1> SUFFICES ASSUME Init PROVE TypeInv
  OBVIOUS
<1>0. << >> \in Seq(Events) /\ 0 \in 0 .. MaxFaults
  BY StoreAssumption
<1>1. StoreTypeOK
  BY <1>0, StoreAssumption DEF Init, StoreInit, StoreTypeOK, Statuses
<1>2. TypeOK
  BY <1>1, IdleType, StoreAssumption, BoundAssumption DEF Init, TypeOK, Tasks, Timers
<1>3. StateKnown
  BY IdleFields DEF Init, StateKnown, NeedsState
<1> QED BY <1>2, <1>3 DEF TypeInv

(* Every reachable state of the engine and its store is well typed, for     *)
(* every definition and every number of goroutines, tasks and timers.       *)
THEOREM TypeCorrect == Spec => []TypeOK
<1>1. Init => TypeInv
  BY TypeInitial
<1>2. TypeInv /\ [Next]_vars => TypeInv'
  BY TypeInductive
<1>3. TypeInv => TypeOK
  BY DEF TypeInv
<1> QED BY <1>1, <1>2, <1>3, PTL DEF Spec

-------------------------------------------------------------------------------
(* The history has no hole and no duplicate.                                *)
(*                                                                         *)
(* HistoryContiguous is not inductive: whether an append continues the      *)
(* history depends on the snapshot its goroutine loaded.  Loading the row   *)
(* before the history makes the version of a snapshot a lower bound; where  *)
(* it is still the current one, no event was committed since, and the       *)
(* number of events read is current too.  In processOperationState every    *)
(* action but the first finds a version that the first has moved on.        *)

Sig == IF signalled THEN 1 ELSE 0

HoldsSnapshot == {"recordTransition", "recordCompleted", "createTask", "recordScheduled",
                  "createTimer", "recordTimer", "recordFired"}

Snapshot(p) ==
    /\ g[p].pc = "loadHistory" => g[p].ver <= version /\ g[p].act = 0
    /\ g[p].pc \in HoldsSnapshot =>
         /\ g[p].ver <= version
         /\ g[p].ver = version => g[p].len = Len(history) /\ g[p].act = 0

VersionCounts == version = Len(history) + Sig

Contiguous == \A i \in DOMAIN history : history[i].seq = i

HistoryInv ==
    /\ VersionCounts
    /\ Reliable => Contiguous /\ \A p \in Procs : Snapshot(p)

\* A step that leaves the log alone has only the snapshots to answer for.
LEMMA LogUnchanged ==
  ASSUME HistoryInv, UNCHANGED logVars, Fault \/ UNCHANGED faults, TypeOK,
         faults' = 0 => \A p \in Procs : Snapshot(p)'
  PROVE  HistoryInv'
<1>1. faults' = 0 => faults = 0
  BY DEF Fault, TypeOK, StoreTypeOK
<1> QED BY <1>1 DEF HistoryInv, VersionCounts, Sig, Contiguous, Reliable, logVars

\* A commit continues the history and makes every other snapshot stale.
LEMMA CommitContiguous ==
  ASSUME TypeOK, VersionCounts, NEW expected \in Nat, NEW e \in Events,
         AppendCommitted(expected, e), e.seq > 0
  PROVE  /\ VersionCounts' /\ version' = version + 1 /\ expected = version
         /\ faults' = faults /\ Len(history') = Len(history) + 1
         /\ Contiguous /\ e.seq = Len(history) + 1 => Contiguous'
<1>1. history \in Seq(Events) /\ version \in Nat /\ history' = Append(history, e)
      /\ version' = version + 1 /\ signalled' = signalled /\ faults' = faults
      /\ expected = version
  BY DEF TypeOK, StoreTypeOK, AppendCommitted, Recordable
<1>2. Len(history') = Len(history) + 1
  BY <1>1
<1>3. VersionCounts'
  BY <1>1, <1>2 DEF VersionCounts, Sig
<1>4. ASSUME Contiguous, e.seq = Len(history) + 1 PROVE Contiguous'
  BY <1>1, <1>4 DEF Contiguous
<1> QED BY <1>1, <1>2, <1>3, <1>4

(* As long as nothing failed, a goroutine whose snapshot is current finds   *)
(* its sequence number unused.                                              *)
LEMMA CurrentRecordable ==
  ASSUME TypeOK, Contiguous, NEW p \in Procs, g[p].ver = version,
         g[p].len = Len(history), g[p].act = 0
  PROVE  NextSeq(g[p]) = Len(history) + 1 /\ Recordable(g[p].ver, NextSeq(g[p]))
<1>1. history \in Seq(Events)
  BY DEF TypeOK, StoreTypeOK
<1>2. NextSeq(g[p]) = Len(history) + 1
  BY <1>1 DEF NextSeq
<1> QED BY <1>1, <1>2 DEF Recordable, Contiguous

\* An append with a loaded snapshot, committed or rejected, preserves HistoryInv.
LEMMA RecordContiguous ==
  ASSUME TypeOK, HistoryInv, NEW p \in Procs, g[p].pc \in HoldsSnapshot,
         NEW type \in EventTypes, NEW n \in Names, Record(p, type, n), Others(p),
         \/ g'[p].pc \notin HoldsSnapshot \cup {"loadHistory"}
         \/ g'[p].pc \in HoldsSnapshot /\ g'[p].ver = g[p].ver
  PROVE  HistoryInv'
<1>0. /\ g[p].ver \in Nat /\ g[p].len \in Nat /\ g[p].act \in Nat /\ version \in Nat
      /\ "loadHistory" \notin HoldsSnapshot
      /\ \A q \in Procs : g[q].ver \in Nat
  BY DEF TypeOK, StoreTypeOK, Locals, HoldsSnapshot
<1> DEFINE e == [seq |-> NextSeq(g[p]), type |-> type, state |-> n]
<1>1. e \in Events /\ e.seq = NextSeq(g[p]) /\ e.seq > 0
  BY <1>0 DEF Events, NextSeq
<1>2. CASE AppendCommitted(g[p].ver, e)
  <2>1. /\ VersionCounts' /\ version' = version + 1 /\ g[p].ver = version
        /\ faults' = faults /\ Len(history') = Len(history) + 1
        /\ Contiguous /\ e.seq = Len(history) + 1 => Contiguous'
    BY <1>0, <1>1, <1>2, CommitContiguous DEF HistoryInv
  <2>2. ASSUME Reliable' PROVE Contiguous' /\ \A q \in Procs : Snapshot(q)'
    <3>1. Reliable /\ Contiguous /\ \A q \in Procs : Snapshot(q)
      BY <2>1, <2>2 DEF HistoryInv, Reliable
    <3>2. e.seq = Len(history) + 1
      BY <1>1, <2>1, <3>1, CurrentRecordable DEF Snapshot
    <3>3. ASSUME NEW q \in Procs, q # p PROVE Snapshot(q)'
      BY <1>0, <2>1, <3>1, <3>3 DEF Snapshot, Others
    <3>4. Snapshot(p)'
      BY <1>0, <2>1 DEF Snapshot
    <3> QED BY <2>1, <3>1, <3>2, <3>3, <3>4
  <2> QED BY <2>1, <2>2 DEF HistoryInv
<1>3. CASE AppendRejected(g[p].ver, e.seq)
  <2>1. UNCHANGED logVars /\ (Fault \/ UNCHANGED faults)
    BY <1>3 DEF AppendRejected
  <2>2. ASSUME faults' = 0 PROVE \A q \in Procs : Snapshot(q)'
    <3>1. faults = 0 /\ ~Recordable(g[p].ver, NextSeq(g[p]))
      BY <1>1, <1>3, <2>2 DEF AppendRejected, Fault, TypeOK, StoreTypeOK
    <3>2. Contiguous /\ \A q \in Procs : Snapshot(q)
      BY <3>1 DEF HistoryInv, Reliable
    <3>3. g[p].ver < version
      BY <1>0, <3>1, <3>2, CurrentRecordable DEF Snapshot
    <3>4. ASSUME NEW q \in Procs, q # p PROVE Snapshot(q)'
      BY <2>1, <3>2, <3>4 DEF Snapshot, Others, logVars
    <3>5. Snapshot(p)'
      BY <1>0, <2>1, <3>3 DEF Snapshot, logVars
    <3> QED BY <3>4, <3>5
  <2> QED BY <2>1, <2>2, LogUnchanged
<1> QED BY <1>2, <1>3 DEF Record, AppendEvents

\* A step that leaves the log alone disturbs only the snapshots it loads.
LEMMA QuietStep ==
  ASSUME TypeOK, HistoryInv, UNCHANGED logVars, Fault \/ UNCHANGED faults,
         \A q \in Procs : \/ g'[q] = g[q]
                          \/ g'[q].pc \notin HoldsSnapshot \cup {"loadHistory"}
                          \/ faults' = 0 => Snapshot(q)'
  PROVE  HistoryInv'
<1>1. ASSUME faults' = 0, NEW q \in Procs PROVE Snapshot(q)'
  <2>1. faults = 0
    BY <1>1 DEF Fault, TypeOK, StoreTypeOK
  <2>2. Snapshot(q)
    BY <2>1 DEF HistoryInv, Reliable
  <2>3. CASE g'[q] = g[q]
    BY <2>2, <2>3 DEF Snapshot, logVars
  <2>4. CASE g'[q].pc \notin HoldsSnapshot \cup {"loadHistory"}
    BY <2>4 DEF Snapshot
  <2> QED BY <1>1, <2>3, <2>4
<1> QED BY <1>1, LogUnchanged

\* A statement of a goroutine preserves HistoryInv.
LEMMA StepContiguous ==
  ASSUME TypeInv, HistoryInv, NEW p \in Procs, Step(p)
  PROVE  HistoryInv'
<1>t. TypeOK /\ g \in [Procs -> Locals] /\ g[p] \in Locals
  BY DEF TypeInv, TypeOK
<1>l. g[p].mode \in Modes /\ g[p].st \in Names /\ g[p].act \in Nat /\ g[p].ver \in Nat
      /\ version \in Nat /\ history \in Seq(Events)
  BY <1>t DEF Locals, TypeOK, StoreTypeOK
<1>s. g[p].pc \in NeedsState => g[p].st \in States /\ Def[g[p].st].transition \in Names
  BY DefAssumption DEF TypeInv, StateKnown
<1>i. "idle" \notin HoldsSnapshot \cup {"loadHistory"}
  BY DEF HoldsSnapshot
<1>o. Others(p)
  BY <1>t, StepEffect
<1>1. CASE AppendStarted(p)
  <2> DEFINE e == [seq |-> 1, type |-> "WorkflowStarted", state |-> Start]
  <2>0. g'[p].pc \notin HoldsSnapshot \cup {"loadHistory"}
    BY <1>1, <1>t, GotoEffect, FinishEffect DEF AppendStarted, HoldsSnapshot
  <2>1. CASE AppendRejected(0, 1)
    <3>1. UNCHANGED logVars /\ (Fault \/ UNCHANGED faults)
      BY <2>1 DEF AppendRejected
    <3> QED BY <1>t, <1>o, <2>0, <3>1, QuietStep DEF Others
  <2>2. CASE AppendCommitted(0, e)
    <3>1. e \in Events /\ e.seq = 1
      BY DefAssumption DEF Events, EventTypes
    <3>2. /\ VersionCounts' /\ version' = version + 1 /\ version = 0 /\ faults' = faults
          /\ Contiguous /\ e.seq = Len(history) + 1 => Contiguous'
      BY <1>t, <2>2, <3>1, CommitContiguous DEF HistoryInv
    <3>3. Len(history) = 0
      BY <1>l, <3>2 DEF HistoryInv, VersionCounts, Sig
    <3>4. ASSUME Reliable', NEW q \in Procs PROVE Snapshot(q)'
      <4>1. Snapshot(q) /\ g[q].ver \in Nat
        BY <3>2, <3>4, <1>t DEF HistoryInv, Reliable, Locals
      <4>2. CASE q = p
        BY <4>2, <2>0 DEF Snapshot
      <4>3. CASE q # p
        BY <4>1, <4>3, <1>o, <1>l, <3>2 DEF Snapshot, Others
      <4> QED BY <4>2, <4>3
    <3> QED BY <3>1, <3>2, <3>3, <3>4 DEF HistoryInv, Reliable
  <2> QED BY <1>1, <2>1, <2>2 DEF AppendStarted
<1>2. CASE StartWorker(p) \/ MarkDegraded(p) \/ MarkCompleted(p) \/ MarkFailed(p)
           \/ ReadFails(p) \/ UpdatePhase(p)
  <2>1. g'[p].pc \notin HoldsSnapshot \cup {"loadHistory"}
    BY <1>2, <1>t, <1>i, GotoEffect, FinishEffect, SpawnEffect, SpawnedFields
    DEF StartWorker, MarkDegraded, MarkCompleted, MarkFailed, ReadFails, UpdatePhase, HoldsSnapshot
  <2>2. UNCHANGED logVars /\ (Fault \/ UNCHANGED faults)
    BY <1>2 DEF StartWorker, MarkDegraded, MarkCompleted, MarkFailed, ReadFails, UpdatePhase,
       UpdateWorkflowStatus, UpdateCurrentPhase, logVars
  <2> QED BY <1>t, <1>o, <2>1, <2>2, QuietStep DEF Others
<1>3. CASE CountPendingTasks(p)
  <2>1. g'[p].pc \notin HoldsSnapshot \cup {"loadHistory"}
    BY <1>3, <1>t, CountEffect DEF HoldsSnapshot
  <2>2. UNCHANGED logVars /\ UNCHANGED faults
    BY <1>3 DEF CountPendingTasks, storeVars, logVars
  <2> QED BY <1>t, <1>o, <2>1, <2>2, QuietStep DEF Others
<1>4. CASE LoadRow(p)
  <2>1. UNCHANGED logVars /\ UNCHANGED faults
    BY <1>4 DEF LoadRow, storeVars, logVars
  <2>2. Snapshot(p)'
    BY <1>4, <1>t, <1>l, <2>1, LoadRowEffect DEF Snapshot, HoldsSnapshot, logVars
  <2> QED BY <1>t, <1>o, <2>1, <2>2, QuietStep DEF Others
<1>5. CASE LoadHistory(p)
  <2>1. UNCHANGED logVars /\ UNCHANGED faults
    BY <1>5 DEF LoadHistory, storeVars, logVars
  <2>2. ASSUME faults' = 0 PROVE Snapshot(p)'
    <3>1. Snapshot(p)
      BY <2>1, <2>2 DEF HistoryInv, Reliable
    <3>2. g'[p].pc \in PCs /\ g'[p].pc = AfterLoad(g[p].mode, g[p].st)
      BY <1>5, <1>t, <1>l, LoadHistoryEffect, AfterLoadType
    <3>3. g'[p].pc # "loadHistory"
      BY <3>2 DEF AfterLoad, Process, Advance
    <3> QED BY <1>5, <1>t, <1>l, <2>1, <3>1, <3>3, LoadHistoryEffect DEF Snapshot, logVars
  <2> QED BY <1>t, <1>o, <2>1, <2>2, QuietStep DEF Others
<1>6. CASE LoadHistoryTruncated(p)
  <2>1. UNCHANGED logVars /\ Fault /\ faults' # 0
    BY <1>6, <1>t DEF LoadHistoryTruncated, Fault, logVars, TypeOK, StoreTypeOK
  <2> QED BY <1>t, <1>o, <2>1, QuietStep DEF Others
<1>7. CASE RecordTransition(p) \/ RecordCompleted(p)
  <2>1. g[p].pc \in HoldsSnapshot /\ g'[p].pc \notin HoldsSnapshot \cup {"loadHistory"}
    BY <1>7, <1>t, LeaveEffect DEF RecordTransition, RecordCompleted, At, HoldsSnapshot
  <2> QED BY <1>7, <1>t, <1>l, <1>s, <1>o, <2>1, RecordContiguous
          DEF RecordTransition, RecordCompleted, EventTypes, At, NeedsState
<1>8. CASE CreateTask(p) \/ CreateTimer(p)
  <2>1. UNCHANGED logVars /\ (Fault \/ UNCHANGED faults)
    BY <1>8 DEF CreateTask, CreateTimer, logVars
  <2>2. ASSUME faults' = 0 PROVE Snapshot(p)'
    <3>1. Snapshot(p)
      BY <2>1, <2>2, <1>t DEF HistoryInv, Reliable, Fault, TypeOK, StoreTypeOK
    <3>2. CASE g'[p].pc = "markFailed"
      BY <3>2 DEF Snapshot, HoldsSnapshot
    <3>3. CASE /\ g'[p].pc \in {"recordScheduled", "recordTimer"}
               /\ g'[p].ver = g[p].ver /\ g'[p].len = g[p].len /\ g'[p].act = g[p].act
      BY <1>8, <2>1, <3>1, <3>3 DEF Snapshot, HoldsSnapshot, logVars, CreateTask, CreateTimer, At
    <3>4. \/ g'[p].pc = "markFailed"
          \/ /\ g'[p].pc \in {"recordScheduled", "recordTimer"}
             /\ g'[p].ver = g[p].ver /\ g'[p].len = g[p].len /\ g'[p].act = g[p].act
      BY <1>8, <1>t, GotoEffect, LeaveEffect DEF CreateTask, CreateTimer
    <3> QED BY <3>2, <3>3, <3>4
  <2> QED BY <1>t, <1>o, <2>1, <2>2, QuietStep DEF Others
<1>9. CASE RecordScheduled(p)
  <2>1. /\ g[p].pc \in HoldsSnapshot
        /\ \/ g'[p].pc \notin HoldsSnapshot \cup {"loadHistory"}
           \/ g'[p].pc \in HoldsSnapshot /\ g'[p].ver = g[p].ver
    BY <1>9, <1>t, ScheduledEffect DEF HoldsSnapshot
  <2> QED BY <1>9, <1>t, <1>l, <1>o, <2>1, RecordContiguous DEF RecordScheduled, EventTypes
<1>10. CASE RecordTimer(p)
  <2>1. g[p].pc \in HoldsSnapshot /\ g'[p].pc \notin HoldsSnapshot \cup {"loadHistory"}
    BY <1>10, <1>t, <1>i, FinishEffect DEF RecordTimer, At, HoldsSnapshot
  <2> QED BY <1>10, <1>t, <1>l, <1>s, <1>o, <2>1, RecordContiguous
          DEF RecordTimer, EventTypes, At, NeedsState
<1>11. CASE AppendSignalEvent(p)
  <2>0. g'[p].pc \notin HoldsSnapshot \cup {"loadHistory"}
    BY <1>11, <1>t, <1>i, FinishEffect DEF AppendSignalEvent
  <2>1. CASE AppendRejected(g[p].ver, 0)
    <3>1. UNCHANGED logVars /\ (Fault \/ UNCHANGED faults)
      BY <2>1 DEF AppendRejected
    <3> QED BY <1>t, <1>o, <2>0, <3>1, QuietStep DEF Others
  <2>2. CASE ~signalled /\ version' = version + 1 /\ signalled' = TRUE
             /\ UNCHANGED <<rowVars, history, faults>>
    <3>1. VersionCounts'
      BY <1>l, <2>2 DEF HistoryInv, VersionCounts, Sig
    <3>2. ASSUME Reliable', NEW q \in Procs PROVE Snapshot(q)'
      <4>1. Snapshot(q) /\ g[q].ver \in Nat
        BY <2>2, <3>2, <1>t DEF HistoryInv, Reliable, Locals
      <4>2. CASE q = p
        BY <4>2, <2>0 DEF Snapshot
      <4>3. CASE q # p
        BY <4>1, <4>3, <1>o, <1>l, <2>2 DEF Snapshot, Others
      <4> QED BY <4>2, <4>3
    <3> QED BY <2>2, <3>1, <3>2 DEF HistoryInv, Reliable, Contiguous
  <2> QED BY <1>11, <2>1, <2>2 DEF AppendSignalEvent, AppendSignal, Recordable
<1> QED
  BY <1>1, <1>2, <1>3, <1>4, <1>5, <1>6, <1>7, <1>8, <1>9, <1>10, <1>11 DEF Step

\* HistoryInv is inductive: one step per disjunct of Next.
LEMMA HistoryInductive ==
  ASSUME TypeInv, HistoryInv, [Next]_vars
  PROVE  HistoryInv'
<1>t. TypeOK /\ g \in [Procs -> Locals] /\ Goroutines \subseteq Procs /\ TimerService \in Procs
  BY DEF TypeInv, TypeOK, Procs
<1>i. Idle.pc = "idle" /\ \A x \in {"idle", "appendStarted", "loadRow", "count", "firedPhase"} :
                             x \notin HoldsSnapshot \cup {"loadHistory"}
  BY IdleFields DEF HoldsSnapshot
<1>1. ASSUME NEW p \in Goroutines, StartWorkflow(p) \/ SignalWorkflow(p) PROVE HistoryInv'
  <2>1. UNCHANGED logVars /\ UNCHANGED faults
    BY <1>1 DEF StartWorkflow, SignalWorkflow, CreateWorkflowInstance, storeVars, logVars
  <2>2. g'[p].pc \in {"appendStarted", "loadRow"} /\ Others(p)
    BY <1>1, <1>t, StartEffect DEF StartWorkflow, SignalWorkflow
  <2> QED BY <1>t, <1>i, <2>1, <2>2, QuietStep DEF Others
<1>2. ASSUME NEW p \in Goroutines, WorkerDies(p) PROVE HistoryInv'
  <2>1. UNCHANGED logVars /\ Fault /\ g'[p].pc = "idle" /\ Others(p)
    BY <1>2, <1>t, FinishEffect DEF WorkerDies
  <2> QED BY <1>t, <1>i, <2>1, QuietStep DEF Others
<1>3. ASSUME NEW p \in Procs, Step(p) PROVE HistoryInv'
  BY <1>3, StepContiguous
<1>4. CASE Tick
  <2>1. UNCHANGED logVars /\ UNCHANGED <<faults, g>>
    BY <1>4 DEF Tick, storeVars, logVars
  <2> QED BY <1>t, <2>1, QuietStep
<1>5. ASSUME NEW t \in TimerIds, MarkTimerFired(t) PROVE HistoryInv'
  <2>1. UNCHANGED logVars /\ (Fault \/ UNCHANGED faults)
    BY <1>5 DEF MarkTimerFired
  <2>2. Others(TimerService) /\ (g'[TimerService].pc = "loadRow" \/ g' = g)
    BY <1>5, <1>t, FiringEffect
  <2> QED BY <1>t, <1>i, <2>1, <2>2, QuietStep DEF Others
<1>6. CASE RecordFired
  <2>1. /\ TimerService \in Procs /\ Others(TimerService)
        /\ g[TimerService].pc \in HoldsSnapshot /\ g'[TimerService].pc = "firedPhase"
    BY <1>6, <1>t, RecordFiredEffect DEF HoldsSnapshot
  <2>2. "TimerFired" \in EventTypes /\ g[TimerService].st \in Names
    BY <1>t DEF EventTypes, Locals
  <2> QED BY <1>6, <1>t, <1>i, <2>1, <2>2, RecordContiguous DEF RecordFired
<1>7. ASSUME NEW p \in Goroutines, FiredPhase(p) PROVE HistoryInv'
  <2>1. UNCHANGED logVars /\ (Fault \/ UNCHANGED faults)
    BY <1>7, <1>t, FiredPhaseEffect DEF UpdateCurrentPhase
  <2>2. \A q \in Procs : g'[q] = g[q] \/ g'[q].pc \in {"idle", "loadRow"}
    BY <1>7, <1>t, <1>i, FiredPhaseEffect, SpawnedFields
  <2> QED BY <1>t, <1>i, <2>1, <2>2, QuietStep
<1>8. ASSUME NEW t \in TaskIds, NEW p \in Goroutines, NEW o \in {"COMPLETED", "FAILED"},
             NEW m \in {"resume", "submit"}, Resolve(t, p, o, m)
      PROVE  HistoryInv'
  <2>1. UNCHANGED logVars /\ UNCHANGED faults
    BY <1>8 DEF Resolve, storeVars, logVars
  <2>2. g'[p].pc = "count" /\ Others(p)
    BY <1>8, <1>t, StartEffect DEF Resolve
  <2> QED BY <1>t, <1>i, <2>1, <2>2, QuietStep DEF Others
<1>9. ASSUME NEW t \in TaskIds, ReopenTask(t) PROVE HistoryInv'
  <2>1. UNCHANGED logVars /\ UNCHANGED <<faults, g>>
    BY <1>9 DEF ReopenTask, storeVars, logVars
  <2> QED BY <1>t, <2>1, QuietStep
<1>10. ASSUME NEW s \in SUBSET WorkerProcs, NEW p \in Goroutines, RestartOrchestrator(s, p)
       PROVE  HistoryInv'
  <2>1. UNCHANGED logVars /\ UNCHANGED faults
    BY <1>10 DEF RestartOrchestrator, storeVars, logVars
  <2>2. \A q \in Procs : g'[q] = g[q] \/ g'[q].pc \in {"idle", "loadRow"}
    BY <1>10, <1>t, <1>i, RestartEffect, SpawnedFields
  <2> QED BY <1>t, <1>i, <2>1, <2>2, QuietStep
<1>11. CASE UNCHANGED vars
  <2>1. UNCHANGED logVars /\ UNCHANGED <<faults, g>>
    BY <1>11 DEF vars, storeVars, engineVars, logVars
  <2> QED BY <1>t, <2>1, QuietStep
<1>12. CASE Next
  BY <1>12, <1>1, <1>2, <1>3, <1>4, <1>5, <1>6, <1>7, <1>8, <1>9, <1>10, NextCases
<1> QED BY <1>11, <1>12

\* HistoryInv holds initially.
LEMMA HistoryInitial == Init => HistoryInv
<1> SUFFICES ASSUME Init PROVE HistoryInv
  OBVIOUS
<1>1. VersionCounts /\ Contiguous
  BY DEF Init, StoreInit, VersionCounts, Sig, Contiguous
<1>2. \A p \in Procs : Snapshot(p)
  BY IdleFields DEF Init, Snapshot, HoldsSnapshot
<1> QED BY <1>1, <1>2 DEF HistoryInv

(* The version always counts the committed appends; and as long as no       *)
(* statement failed, the i-th event committed has sequence number i,        *)
(* however many goroutines race in LoadInstance and AppendEvents.           *)
THEOREM HistoryIsContiguous == Spec => []HistoryContiguous
<1>1. Init => TypeInv /\ HistoryInv
  BY TypeInitial, HistoryInitial
<1>2. TypeInv /\ HistoryInv /\ [Next]_vars => (TypeInv /\ HistoryInv)'
  BY TypeInductive, HistoryInductive
<1>3. HistoryInv => HistoryContiguous
  BY DEF HistoryInv, HistoryContiguous, VersionCounts, Sig, Contiguous
<1> QED BY <1>1, <1>2, <1>3, PTL DEF Spec

-------------------------------------------------------------------------------
(* No sequence number is used twice, whatever fails.                        *)

(* The history gains one event with an unused, positive number, or nothing, *)
(* in which case a statement may have failed.                               *)
Extended ==
    \/ history' = history /\ (Fault \/ UNCHANGED faults)
    \/ \E e \in Events :
          /\ e.seq > 0
          /\ \A i \in DOMAIN history : history[i].seq # e.seq
          /\ history' = Append(history, e)
          /\ UNCHANGED faults

\* An append with a loaded snapshot extends the history or leaves it.
LEMMA RecordExtends ==
  ASSUME TypeOK, NEW p \in Procs, NEW type \in EventTypes, NEW n \in Names, Record(p, type, n)
  PROVE  Extended
<1>1. NextSeq(g[p]) \in Nat /\ NextSeq(g[p]) > 0
  BY DEF TypeOK, Locals, NextSeq
<1> DEFINE e == [seq |-> NextSeq(g[p]), type |-> type, state |-> n]
<1>2. e \in Events /\ e.seq = NextSeq(g[p])
  BY <1>1 DEF Events
<1>3. CASE AppendCommitted(g[p].ver, e)
  <2>1. /\ history' = Append(history, e) /\ UNCHANGED faults
        /\ \A i \in DOMAIN history : history[i].seq # e.seq
    BY <1>1, <1>2, <1>3 DEF AppendCommitted, Recordable
  <2> QED BY <1>1, <1>2, <2>1 DEF Extended
<1>4. CASE AppendRejected(g[p].ver, e.seq)
  BY <1>4 DEF AppendRejected, logVars, Extended
<1> QED BY <1>3, <1>4 DEF Record, AppendEvents

\* So does every statement of a goroutine ...
LEMMA StepExtends ==
  ASSUME TypeInv, NEW p \in Procs, Step(p)
  PROVE  Extended
<1>t. TypeOK /\ g[p] \in Locals
  BY DEF TypeInv, TypeOK
<1>s. g[p].st \in Names /\ (g[p].pc \in NeedsState => Def[g[p].st].transition \in Names)
  BY <1>t, DefAssumption DEF TypeInv, StateKnown, Locals
<1>1. CASE AppendStarted(p)
  <2> DEFINE e == [seq |-> 1, type |-> "WorkflowStarted", state |-> Start]
  <2>1. e \in Events /\ e.seq = 1
    BY DefAssumption DEF Events, EventTypes
  <2>2. CASE AppendCommitted(0, e)
    BY <2>1, <2>2 DEF AppendCommitted, Recordable, Extended
  <2>3. CASE AppendRejected(0, 1)
    BY <2>3 DEF AppendRejected, logVars, Extended
  <2> QED BY <1>1, <2>2, <2>3 DEF AppendStarted
<1>2. CASE RecordTransition(p) \/ RecordCompleted(p) \/ RecordScheduled(p) \/ RecordTimer(p)
  BY <1>2, <1>t, <1>s, RecordExtends
  DEF RecordTransition, RecordCompleted, RecordScheduled, RecordTimer, At, NeedsState, EventTypes
<1>3. CASE AppendSignalEvent(p)
  BY <1>3 DEF AppendSignalEvent, AppendSignal, AppendRejected, logVars, Extended
<1>4. CASE StartWorker(p) \/ MarkDegraded(p) \/ CountPendingTasks(p) \/ LoadRow(p)
           \/ LoadHistory(p) \/ LoadHistoryTruncated(p) \/ ReadFails(p) \/ UpdatePhase(p)
           \/ MarkCompleted(p) \/ MarkFailed(p) \/ CreateTask(p) \/ CreateTimer(p)
  <2>1. history' = history /\ (Fault \/ UNCHANGED faults)
    BY <1>4 DEF StartWorker, MarkDegraded, CountPendingTasks, LoadRow, LoadHistory,
       LoadHistoryTruncated, ReadFails, UpdatePhase, MarkCompleted, MarkFailed, CreateTask,
       CreateTimer, UpdateWorkflowStatus, UpdateCurrentPhase, storeVars, logVars
  <2> QED BY <2>1 DEF Extended
<1> QED BY <1>1, <1>2, <1>3, <1>4 DEF Step

\* ... and every step of the system.
LEMMA NextExtends ==
  ASSUME TypeInv, [Next]_vars
  PROVE  Extended
<1>t. TypeOK /\ TimerService \in Procs /\ g[TimerService].st \in Names
  BY DEF TypeInv, TypeOK, Procs, Locals
<1>1. ASSUME NEW p \in Procs, Step(p) PROVE Extended
  BY <1>1, StepExtends
<1>2. CASE RecordFired
  BY <1>2, <1>t, RecordExtends DEF RecordFired, EventTypes
<1>3. ASSUME NEW p \in Goroutines, StartWorkflow(p) \/ SignalWorkflow(p) \/ WorkerDies(p) \/ FiredPhase(p)
      PROVE  Extended
  BY <1>3 DEF StartWorkflow, SignalWorkflow, WorkerDies, FiredPhase, CreateWorkflowInstance,
     UpdateCurrentPhase, storeVars, logVars, Extended
<1>4. ASSUME Tick \/ (\E t \in TimerIds : MarkTimerFired(t)) \/ (\E t \in TaskIds : ReopenTask(t))
      PROVE  Extended
  BY <1>4 DEF Tick, MarkTimerFired, ReopenTask, storeVars, logVars, Extended
<1>5. ASSUME NEW t \in TaskIds, NEW p \in Goroutines, NEW o \in {"COMPLETED", "FAILED"},
             NEW m \in {"resume", "submit"}, Resolve(t, p, o, m)
      PROVE  Extended
  BY <1>5 DEF Resolve, storeVars, Extended
<1>6. ASSUME NEW s \in SUBSET WorkerProcs, NEW p \in Goroutines, RestartOrchestrator(s, p)
      PROVE  Extended
  BY <1>6 DEF RestartOrchestrator, storeVars, Extended
<1>7. CASE UNCHANGED vars
  BY <1>7 DEF vars, storeVars, Extended
<1>8. CASE Next
  BY <1>8, <1>1, <1>2, <1>3, <1>4, <1>5, <1>6, NextCases
<1> QED BY <1>7, <1>8

-------------------------------------------------------------------------------
(* The abstract log.                                                        *)

\* What Extended says of one step, in terms of the abstract log.
LEMMA LogStep ==
  ASSUME TypeInv, HistoryContiguous, HistoryContiguous', [Next]_vars
  PROVE  [AsLog!LogNext]_<<history, Reliable>>
<1>1. history \in Seq(Events) /\ faults \in Nat /\ Extended
  BY NextExtends, StoreAssumption DEF TypeInv, TypeOK, StoreTypeOK
<1>2. CASE history' = history /\ UNCHANGED faults
  BY <1>2 DEF Reliable
<1>3. CASE history' = history /\ Fault
  <2>1. Reliable' = FALSE
    BY <1>1, <1>3 DEF Fault, Reliable
  <2> QED BY <1>3, <2>1 DEF AsLog!LogNext, AsLog!Fail
<1>4. ASSUME NEW e \in Events, \A i \in DOMAIN history : history[i].seq # e.seq,
             history' = Append(history, e), UNCHANGED faults
      PROVE  AsLog!Extend
  <2>1. Len(history') = Len(history) + 1 /\ history'[Len(history) + 1] = e
    BY <1>1, <1>4
  <2>2. Reliable => e.seq = Len(history) + 1
    BY <1>1, <1>4, <2>1 DEF HistoryContiguous, Reliable
  <2>3. AsLog!Unused(e.seq) /\ UNCHANGED Reliable
    BY <1>4 DEF AsLog!Unused, Reliable
  <2> QED BY <1>4, <2>1, <2>2, <2>3 DEF AsLog!Extend
<1> QED BY <1>1, <1>2, <1>3, <1>4 DEF Extended, AsLog!LogNext

(* The history of an instance implements the append-only log of module      *)
(* EventLog: every statement of every goroutine leaves it alone or appends  *)
(* one event under a free number, its position while nothing failed.        *)
THEOREM HistoryIsLog == Spec => ImplementsEventLog
<1>1. Init => AsLog!LogInit
  BY DEF Init, StoreInit, Reliable, AsLog!LogInit
<1>2. ASSUME TypeInv, HistoryContiguous, HistoryContiguous', [Next]_vars
      PROVE  [AsLog!LogNext]_<<history, Reliable>>
  BY <1>2, LogStep
<1>3. Spec => []TypeInv
  BY TypeInitial, TypeInductive, PTL DEF Spec
<1> QED BY <1>1, <1>2, <1>3, HistoryIsContiguous, PTL DEF Spec, ImplementsEventLog, AsLog!LogSpec
===============================================================================
