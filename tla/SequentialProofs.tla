--------------------------- MODULE SequentialProofs ---------------------------
(***************************************************************************)
(* The engine executes the workflow: OneTaskPerAction and the refinement of *)
(* module Workflow up to a cancellation, for every definition that is       *)
(* Sequential and any number of goroutines, tasks, timers, signals and      *)
(* failures.                                                                *)
(*                                                                         *)
(* The argument: there is one token, a goroutine that works for the         *)
(* instance, an open task or an unfired timer (TokenInv).  Whoever holds it *)
(* works on the current phase (Place), and what is recorded of tasks and    *)
(* timers lies behind it in the order of the states (MarkInv).  Two results *)
(* of one state, a cycle or a repeated result make a second token or lead   *)
(* back: that is what the run EngineTwoWinners shows.                       *)
(***************************************************************************)
EXTENDS LifecycleProofs

\* An order in which the states follow each other.
Order(rank) == \A s \in States : ~Def[s].end => rank[s] < rank[Def[s].transition]

(* At most one action per state, no cycle, no repeated result.  `end' of a  *)
(* delay is not looked at by processDelayState, so none has it.             *)
Sequential ==
    /\ WellFormed
    /\ MaxRepeats = 0
    /\ \A s \in States : Def[s].actions <= 1 /\ (Def[s].type = "delay" => ~Def[s].end)
    /\ \E rank \in [States -> Nat] : Order(rank)

Rank == CHOOSE rank \in [States -> Nat] : Order(rank)

(* A goroutine that works for the instance.  One that has created a task or *)
(* a timer only records it.                                                 *)
Token(r) == r.mode # "signal" /\ r.pc \notin {"idle", "recordScheduled", "recordTimer"}

TokenInv ==
    /\ \A p, q \in Procs : Token(g[p]) /\ Token(g[q]) => p = q
    /\ \A p \in Procs : Token(g[p]) => OpenTasks = {} /\ PendingTimers = {}
    /\ \A t, u \in OpenTasks : t = u
    /\ \A t, u \in PendingTimers : t = u
    /\ OpenTasks = {} \/ PendingTimers = {}
    /\ batch \subseteq PendingTimers

\* Only an instance that was not closed has a token.
StatusInv ==
    (OpenTasks # {} \/ PendingTimers # {} \/ \E p \in Procs : Token(g[p])) =>
        status \in {"RUNNING", "CANCELED"}

\* The phase has no task yet.
Fresh == \A t \in TaskIds : tasks[t].status # "none" => tasks[t].state # phase

Leaving == {"recordTransition", "updatePhase", "recordCompleted", "markCompleted"}

Executing == {"loadRow", "loadHistory", "createTask", "createTimer"}

\* Where a token can be.
Place(r) ==
    /\ r.mode = "none" => r.pc \in {"appendStarted", "startWorker", "markDegraded"} /\ Fresh
    /\ r.mode = "execute" => /\ r.pc \in Executing \cup Leaving \cup {"markFailed"}
                             /\ r.pc \in Executing => Fresh
    /\ r.mode \in {"resume", "submit"} =>
          /\ r.pc \in {"count", "loadRow", "loadHistory"} \cup Leaving
          /\ AsWorkflow!Ready /\ Def[phase].type = "operation"
    /\ r.mode = "timer" =>
          /\ r.pc \in {"loadRow", "loadHistory", "recordFired", "firedPhase"}
          /\ AsWorkflow!Ready /\ Def[phase].type = "delay" /\ r.st = Def[phase].transition
    /\ r.mode # "timer" => ~Elapsed
    /\ r.mode # "timer" /\ r.pc \in Leaving \cup {"loadHistory", "createTask", "createTimer"} =>
          r.st = phase
    /\ r.pc \in Leaving =>
          /\ AsWorkflow!Ready /\ Def[phase].type = "operation"
          /\ Def[phase].end <=> r.pc \in {"recordCompleted", "markCompleted"}
    /\ r.pc = "createTask" =>
          Def[phase].type = "operation" /\ Def[phase].actions = 1 /\ r.act = 0
    /\ r.pc = "createTimer" => Def[phase].type = "delay"

PlaceInv == \A p \in Procs : Token(g[p]) => Place(g[p])

\* What tasks and timers record.
MarkInv ==
    /\ \A t \in TaskIds : tasks[t].status # "none" =>
          /\ tasks[t].state \in States /\ tasks[t].act = 0
          /\ Def[tasks[t].state].type = "operation" /\ Def[tasks[t].state].actions = 1
          /\ Rank[tasks[t].state] <= Rank[phase]
    /\ \A t \in OpenTasks : tasks[t].state = phase
    /\ \A t \in PendingTimers : Def[phase].type = "delay" /\ timers[t].next = Def[phase].transition
    /\ \A t \in TimerIds : timers[t].status = "fired" =>
          /\ timers[t].next \in States
          /\ \/ Rank[timers[t].next] <= Rank[phase]
             \/ Def[phase].type = "delay" /\ timers[t].next = Def[phase].transition

SeqInv == TokenInv /\ StatusInv /\ PlaceInv /\ MarkInv /\ OneTaskPerAction

-------------------------------------------------------------------------------
(* What the lemmas below need.                                              *)

\* The order of a sequential definition.
LEMMA RankOrder ==
  ASSUME Sequential
  PROVE  /\ Rank \in [States -> Nat]
         /\ \A s \in States : ~Def[s].end => /\ Def[s].transition \in States
                                             /\ Rank[s] < Rank[Def[s].transition]
<1>1. \E rank \in [States -> Nat] : Order(rank)
  BY DEF Sequential
<1>2. Rank \in [States -> Nat] /\ Order(Rank)
  BY <1>1 DEF Rank
<1> QED BY <1>2 DEF Order, Sequential, WellFormed

\* In a sequential definition an existing instance is in one of its states.
LEMMA PhaseKnown ==
  ASSUME Sequential, EngineInv, status # "NONE"
  PROVE  phase \in States /\ phase # NoState
<1>1. SetInv(States)
  BY WellFormedClosed DEF Sequential, EngineInv, ReachInv
<1> QED BY <1>1, DefAssumption DEF SetInv

\* The refinement mapping depends on phase, tasks and timers.
LEMMA MappingStays ==
  ASSUME UNCHANGED <<phase, tasks, timers>>
  PROVE  /\ Fresh' = Fresh /\ Finished' = Finished /\ Elapsed' = Elapsed
         /\ Waits' = Waits /\ AsWorkflow!Ready' = AsWorkflow!Ready
         /\ OpenTasks' = OpenTasks /\ PendingTimers' = PendingTimers
  BY DEF Fresh, Finished, Elapsed, Resolved, Waits, AsWorkflow!Ready, AsWorkflow!Delay,
         OpenTasks, PendingTimers

\* A step as the abstract workflow sees it.
WStep == [PastCancellation \/ AsWorkflow!WNext]_<<DiagramStatus, phase, Finished, Elapsed>>

\* Steps that neither move the workflow nor touch its tasks and timers.
LEMMA QuietSeq ==
  ASSUME SeqInv, UNCHANGED <<phase, tasks, timers>>, batch' \subseteq PendingTimers,
         \A q \in Procs : Token(g'[q]) => Token(g[q]) /\ (g'[q] = g[q] \/ Place(g'[q])),
         status' \in {status, "CANCELED"} \/ \E p \in Procs : Token(g[p]) /\ ~Token(g'[p])
  PROVE  SeqInv'
<1>m. /\ Fresh' = Fresh /\ Elapsed' = Elapsed /\ AsWorkflow!Ready' = AsWorkflow!Ready
      /\ OpenTasks' = OpenTasks /\ PendingTimers' = PendingTimers
  BY MappingStays
<1>1. TokenInv'
  <2>1. \A p, q \in Procs : Token(g'[p]) /\ Token(g'[q]) => p = q
    BY DEF SeqInv, TokenInv
  <2>2. \A p \in Procs : Token(g'[p]) => OpenTasks' = {} /\ PendingTimers' = {}
    BY <1>m DEF SeqInv, TokenInv
  <2> QED BY <1>m, <2>1, <2>2 DEF SeqInv, TokenInv, Token
<1>2. StatusInv'
  <2>1. CASE status' \in {status, "CANCELED"}
    BY <1>m, <2>1 DEF SeqInv, StatusInv, Token
  <2>2. ASSUME NEW p \in Procs, Token(g[p]), ~Token(g'[p])
        PROVE  StatusInv'
    <3>1. OpenTasks = {} /\ PendingTimers = {} /\ \A q \in Procs : Token(g[q]) => q = p
      BY <2>2 DEF SeqInv, TokenInv
    <3>2. \A q \in Procs : ~Token(g'[q])
      BY <2>2, <3>1
    <3> QED BY <1>m, <3>1, <3>2 DEF StatusInv, Token
  <2> QED BY <2>1, <2>2
<1>3. PlaceInv'
  <2> SUFFICES ASSUME NEW q \in Procs, Token(g'[q])
               PROVE  Place(g[q])'
    BY DEF PlaceInv, Token
  <2>1. Place(g'[q])
    BY DEF SeqInv, PlaceInv
  <2> QED BY <1>m, <2>1 DEF Place, Leaving, Executing
<1>4. MarkInv'
  BY <1>m DEF SeqInv, MarkInv
<1>5. OneTaskPerAction'
  BY DEF SeqInv, OneTaskPerAction
<1> QED BY <1>1, <1>2, <1>3, <1>4, <1>5 DEF SeqInv

\* QuietSeq for a step of one goroutine.
LEMMA QuietOne ==
  ASSUME SeqInv, NEW p \in Procs, Others(p), UNCHANGED <<phase, tasks, timers, batch>>,
         Token(g'[p]) => Token(g[p]) /\ Place(g'[p]),
         status' = status \/ (Token(g[p]) /\ ~Token(g'[p]))
  PROVE  SeqInv'
<1>1. batch' \subseteq PendingTimers
  BY DEF SeqInv, TokenInv
<1>2. \A q \in Procs : Token(g'[q]) => Token(g[q]) /\ (g'[q] = g[q] \/ Place(g'[q]))
  BY DEF Others
<1> QED BY <1>1, <1>2, QuietSeq

\* The abstract workflow does not see a step that leaves row, tasks and timers alone.
LEMMA Stutters ==
  ASSUME UNCHANGED <<status, phase, tasks, timers>>
  PROVE  WStep
  BY MappingStays DEF WStep, DiagramStatus

\* A statement that closes an instance which runs, unless it was cancelled.
LEMMA StatusWritten ==
  ASSUME UNCHANGED <<phase, tasks, timers>>, status \in {"RUNNING", "CANCELED"}, ~Waits,
         \/ status' \in {"FAILED", "DEGRADED"}
         \/ AsWorkflow!Ready /\ Def[phase].end /\ status' = "COMPLETED"
  PROVE  WStep
<1>1. UNCHANGED <<phase, Finished, Elapsed>>
  BY MappingStays
<1>2. status = "RUNNING" => DiagramStatus = "RUNNING" /\ DiagramStatus' = status'
  BY DEF DiagramStatus
<1> QED BY <1>1, <1>2 DEF WStep, PastCancellation, AsWorkflow!WNext, AsWorkflow!Break,
                          AsWorkflow!Complete, AsWorkflow!Edge

\* CANCELED is written.
LEMMA CancelWritten ==
  ASSUME UNCHANGED <<phase, tasks, timers>>, status' = "CANCELED"
  PROVE  WStep
<1>1. UNCHANGED <<phase, Finished, Elapsed>> /\ DiagramStatus' = "CANCELED"
  BY MappingStays DEF DiagramStatus
<1> QED BY <1>1 DEF WStep, PastCancellation, AsWorkflow!WNext, AsWorkflow!Cancel, AsWorkflow!Edge

\* Whoever runs and is past neither task nor timer is a token, signals aside.
LEMMA IsToken ==
  ASSUME EngineInv, NEW p \in Procs,
         g[p].pc \notin {"idle", "recordScheduled", "recordTimer", "loadRow", "loadHistory",
                         "appendSignal"}
  PROVE  Token(g[p])
  BY DEF EngineInv, ControlInv, SignalMode, Token

\* A goroutine that ended is no token, nor is one of SignalWorkflow.
LEMMA NoToken ==
  /\ ~Token(Idle)
  /\ \A home, pc : ~Token(Spawned("signal", home, pc))
  BY IdleFields, SpawnedFields DEF Token

\* What is known where there is a token.
LEMMA TokenFacts ==
  ASSUME Sequential, EngineInv, SeqInv, NEW p \in Procs, Token(g[p])
  PROVE  /\ Place(g[p]) /\ g[p] \in Locals /\ g[p].mode \in Modes \ {"signal"}
         /\ status \in {"RUNNING", "CANCELED"}
         /\ OpenTasks = {} /\ PendingTimers = {} /\ batch = {}
         /\ phase \in States /\ phase # NoState
         /\ Def[phase].type \in {"operation", "delay"} /\ Def[phase].actions \in {0, 1}
         /\ Def[phase].end \in BOOLEAN
         /\ Def[phase].type = "delay" => Def[phase].valid /\ ~Def[phase].end
         /\ ~Def[phase].end => Def[phase].transition \in States /\ Def[phase].transition # NoState
<1>1. Place(g[p]) /\ OpenTasks = {} /\ PendingTimers = {} /\ batch = {}
      /\ status \in {"RUNNING", "CANCELED"}
  BY DEF SeqInv, PlaceInv, StatusInv, TokenInv
<1>2. g[p] \in Locals /\ g[p].mode \in Modes \ {"signal"}
  BY DEF EngineInv, TypeInv, TypeOK, Locals, Token
<1>3. phase \in States /\ phase # NoState
  BY <1>1, PhaseKnown
<1>4. Def[phase].type \in {"operation", "delay"} /\ Def[phase].actions \in Nat
      /\ Def[phase].end \in BOOLEAN
  BY <1>3, DefAssumption
<1>5. Def[phase].actions \in {0, 1}
  BY <1>3, <1>4 DEF Sequential
<1>6. /\ Def[phase].type = "delay" => Def[phase].valid /\ ~Def[phase].end
      /\ ~Def[phase].end => Def[phase].transition \in States /\ Def[phase].transition # NoState
  BY <1>3, DefAssumption DEF Sequential, WellFormed
<1> QED BY <1>1, <1>2, <1>3, <1>4, <1>5, <1>6

\* Where there is a token, a workflow that waits has a timer that fired.
LEMMA WaitsElapsed ==
  ASSUME Sequential, EngineInv, SeqInv, NEW p \in Procs, Token(g[p])
  PROVE  Waits <=> Elapsed
<1>1. PendingTimers = {} /\ timers \in [TimerIds -> Timers]
  BY TokenFacts DEF EngineInv, TypeInv, TypeOK
<1>2. \A t \in TimerIds : timers[t].status # "none" <=> timers[t].status = "fired"
  BY <1>1 DEF PendingTimers, Timers
<1> QED BY <1>2 DEF Waits, Elapsed

\* A state without actions has nothing to wait for.
LEMMA NothingToDo ==
  ASSUME phase \in States, Def[phase].type = "operation", Def[phase].actions = 0
  PROVE  AsWorkflow!Ready
<1>1. Finished = {} /\ 0 .. Def[phase].actions - 1 = {}
  BY DEF Finished
<1> QED BY <1>1 DEF AsWorkflow!Ready, AsWorkflow!Delay

-------------------------------------------------------------------------------
(* Steps that the abstract workflow sees as a stutter or a written status.  *)

\* The goroutine of StartWorkflow hands its token to the worker.
LEMMA StartingSeq ==
  ASSUME Sequential, EngineInv, SeqInv, NEW p \in Procs,
         AppendStarted(p) \/ StartWorker(p)
  PROVE  SeqInv' /\ WStep
<1>t. g \in [Procs -> Locals]
  BY DEF EngineInv, TypeInv, TypeOK
<1>1. Token(g[p]) /\ g[p].pc \in {"appendStarted", "startWorker"}
  BY IsToken DEF AppendStarted, StartWorker, At
<1>2. Place(g[p]) /\ g[p].mode \in Modes \ {"signal"}
  BY <1>1, TokenFacts
<1>3. g[p].mode = "none" /\ Fresh /\ ~Elapsed
  BY <1>1, <1>2 DEF Place, Modes, Leaving, Executing
<1>4. UNCHANGED <<status, phase, tasks, timers, batch>>
  <2>1. CASE AppendStarted(p)
    BY <2>1 DEF AppendStarted, AppendCommitted, AppendRejected, rowVars
  <2>2. CASE StartWorker(p)
    BY <2>2 DEF StartWorker, rowVars
  <2> QED BY <2>1, <2>2
<1>5. Others(p) /\ (Token(g'[p]) => Place(g'[p]))
  <2>1. CASE Goto(p, "startWorker") \/ Goto(p, "markDegraded")
    <3>1. Others(p) /\ g'[p].mode = "none" /\ g'[p].pc \in {"startWorker", "markDegraded"}
      BY <1>t, <1>3, <2>1, GotoEffect
    <3> QED BY <1>3, <3>1 DEF Place, Leaving
  <2>2. CASE Finish(p)
    BY <1>t, <2>2, FinishEffect, NoToken
  <2>3. CASE g' = [g EXCEPT ![p] = Spawned("execute", "worker", "loadRow")]
    <3>1. Others(p) /\ g'[p] = Spawned("execute", "worker", "loadRow")
      BY <1>t, <2>3, SpawnEffect
    <3>2. g'[p].mode = "execute" /\ g'[p].pc = "loadRow"
      BY <3>1, SpawnedFields
    <3> QED BY <1>3, <3>1, <3>2 DEF Place, Leaving, Executing
  <2> QED BY <2>1, <2>2, <2>3 DEF AppendStarted, StartWorker
<1> QED BY <1>1, <1>4, <1>5, QuietOne, Stutters

\* A goroutine that ends takes its token along.
LEMMA EndingSeq ==
  ASSUME Sequential, EngineInv, SeqInv, NEW p \in Procs, Finish(p),
         UNCHANGED <<status, phase, tasks, timers, batch>>
  PROVE  SeqInv' /\ WStep
<1>1. Others(p) /\ ~Token(g'[p])
  BY FinishEffect, NoToken DEF EngineInv, TypeInv, TypeOK
<1> QED BY <1>1, QuietOne, Stutters

\* The writes that close an instance.
LEMMA ClosingSeq ==
  ASSUME Sequential, EngineInv, SeqInv, NEW p \in Procs,
         MarkDegraded(p) \/ MarkCompleted(p) \/ MarkFailed(p)
  PROVE  SeqInv' /\ WStep
<1>1. Token(g[p]) /\ Finish(p) /\ UNCHANGED <<phase, tasks, timers, batch>>
  BY IsToken DEF MarkDegraded, MarkCompleted, MarkFailed, At, UpdateWorkflowStatus, rowVars
<1>2. Others(p) /\ ~Token(g'[p])
  BY <1>1, FinishEffect, NoToken DEF EngineInv, TypeInv, TypeOK
<1>3. Place(g[p]) /\ status \in {"RUNNING", "CANCELED"}
  BY <1>1, TokenFacts
<1>4. \/ status' = status
      \/ status' \in {"FAILED", "DEGRADED"}
      \/ status' = "COMPLETED" /\ g[p].pc = "markCompleted"
  BY DEF MarkDegraded, MarkCompleted, MarkFailed, At, UpdateWorkflowStatus, rowVars
<1>5. g[p].pc = "markCompleted" => AsWorkflow!Ready /\ Def[phase].end
  BY <1>3 DEF Place, Leaving
<1>6. ~Waits
  <2>1. g[p].pc \in {"markDegraded", "markCompleted", "markFailed"}
    BY DEF MarkDegraded, MarkCompleted, MarkFailed, At
  <2>2. ~Elapsed
    BY <1>3, <2>1 DEF Place
  <2> QED BY <1>1, <2>2, WaitsElapsed
<1>7. WStep
  BY <1>1, <1>3, <1>4, <1>5, <1>6, Stutters, StatusWritten
<1> QED BY <1>1, <1>2, <1>7, QuietOne

\* LoadInstance finds the phase that its caller's token stands for.
LEMMA LoadingSeq ==
  ASSUME Sequential, EngineInv, SeqInv, NEW p \in Procs,
         CountPendingTasks(p) \/ LoadRow(p)
  PROVE  SeqInv' /\ WStep
<1>t. g \in [Procs -> Locals]
  BY DEF EngineInv, TypeInv, TypeOK
<1>1. UNCHANGED <<status, phase, tasks, timers, batch>>
  BY DEF CountPendingTasks, LoadRow, storeVars
<1>2. CASE CountPendingTasks(p)
  <2>1. Token(g[p]) /\ g[p].pc = "count"
    BY <1>2, IsToken DEF CountPendingTasks, At
  <2>2. Place(g[p]) /\ OpenTasks = {}
    BY <2>1, TokenFacts
  <2>3. g'[p].pc = "loadRow" /\ g'[p].mode = g[p].mode /\ Others(p)
    BY <1>t, <1>2, <2>2, CountEffect
  <2>4. Place(g'[p])
    BY <2>1, <2>2, <2>3 DEF Place, Leaving, Executing
  <2> QED BY <1>1, <2>1, <2>3, <2>4, QuietOne, Stutters
<1>3. CASE LoadRow(p)
  <2>1. /\ g[p].pc = "loadRow" /\ Others(p) /\ g'[p].pc = "loadHistory" /\ g'[p].mode = g[p].mode
        /\ g'[p].st = IF g[p].mode = "timer" THEN g[p].st ELSE phase
    BY <1>t, <1>3, LoadRowEffect
  <2>2. ASSUME Token(g'[p]) PROVE Token(g[p]) /\ Place(g'[p])
    <3>1. Token(g[p])
      BY <2>1, <2>2 DEF Token
    <3>2. Place(g[p])
      BY <3>1, TokenFacts
    <3>3. Place(g'[p])
      BY <2>1, <3>2 DEF Place, Leaving, Executing
    <3> QED BY <3>1, <3>3
  <2> QED BY <1>1, <2>1, <2>2, QuietOne, Stutters
<1> QED BY <1>2, <1>3

\* What the caller of LoadInstance goes on with, however much of the history it got.
LEMMA LoadedSeq ==
  ASSUME Sequential, EngineInv, SeqInv, NEW p \in Procs,
         LoadHistory(p) \/ LoadHistoryTruncated(p)
  PROVE  SeqInv' /\ WStep
<1>t. g \in [Procs -> Locals]
  BY DEF EngineInv, TypeInv, TypeOK
<1>1. UNCHANGED <<status, phase, tasks, timers, batch>>
  BY DEF LoadHistory, LoadHistoryTruncated, storeVars, rowVars
<1>2. /\ g[p].pc = "loadHistory" /\ Others(p)
      /\ g'[p].pc = AfterLoad(g[p].mode, g[p].st)
      /\ g'[p].mode = g[p].mode /\ g'[p].st = g[p].st /\ g'[p].act = 0
  BY <1>t, LoadHistoryEffect DEF EngineInv, ControlInv, LoopStart
<1>3. ASSUME Token(g'[p]) PROVE Token(g[p]) /\ Place(g'[p])
  <2>1. Token(g[p])
    BY <1>2, <1>3 DEF Token
  <2>2. /\ Place(g[p]) /\ g[p].mode \in Modes \ {"signal"}
        /\ phase \in States /\ Def[phase].type \in {"operation", "delay"}
        /\ Def[phase].actions \in {0, 1} /\ Def[phase].end \in BOOLEAN
        /\ Def[phase].type = "delay" => Def[phase].valid /\ ~Def[phase].end
        /\ ~Def[phase].end => Def[phase].transition # NoState
    BY <2>1, TokenFacts
  <2>3. CASE g[p].mode = "timer"
    <3>1. g'[p].pc = "recordFired"
      BY <1>2, <2>3 DEF AfterLoad
    <3> QED BY <1>2, <2>1, <2>2, <2>3, <3>1 DEF Place, Leaving, Executing
  <2>4. CASE g[p].mode \in {"resume", "submit"}
    <3>1. g[p].st = phase /\ AsWorkflow!Ready /\ Def[phase].type = "operation"
      BY <1>2, <2>2, <2>4 DEF Place
    <3>2. g'[p].pc = Advance(phase)
      BY <1>2, <2>2, <2>4, <3>1 DEF AfterLoad
    <3>3. g'[p].pc = IF Def[phase].end THEN "recordCompleted" ELSE "recordTransition"
      BY <2>2, <3>2 DEF Advance
    <3> QED BY <1>2, <2>1, <2>2, <2>4, <3>1, <3>3 DEF Place, Leaving, Executing
  <2>5. CASE g[p].mode = "execute"
    <3>1. g[p].st = phase /\ Fresh /\ ~Elapsed
      BY <1>2, <2>2, <2>5 DEF Place, Executing
    <3>2. g'[p].pc = Process(phase)
      BY <1>2, <2>2, <2>5, <3>1 DEF AfterLoad
    <3>3. CASE Def[phase].type = "delay"
      <4>1. g'[p].pc = "createTimer"
        BY <2>2, <3>2, <3>3 DEF Process
      <4> QED BY <1>2, <2>1, <2>5, <3>1, <3>3, <4>1 DEF Place, Leaving, Executing
    <3>4. CASE Def[phase].type = "operation" /\ Def[phase].actions = 1
      <4>1. g'[p].pc = "createTask"
        BY <3>2, <3>4 DEF Process
      <4> QED BY <1>2, <2>1, <2>5, <3>1, <3>4, <4>1 DEF Place, Leaving, Executing
    <3>5. CASE Def[phase].type = "operation" /\ Def[phase].actions = 0
      <4>1. g'[p].pc = IF Def[phase].end THEN "recordCompleted" ELSE "recordTransition"
        BY <2>2, <3>2, <3>5 DEF Process, Advance
      <4>2. AsWorkflow!Ready
        BY <2>2, <3>5, NothingToDo
      <4> QED BY <1>2, <2>1, <2>2, <2>5, <3>1, <3>5, <4>1, <4>2 DEF Place, Leaving, Executing
    <3> QED BY <2>2, <3>3, <3>4, <3>5
  <2>6. g[p].mode # "none"
    BY <1>2, <2>2 DEF Place
  <2> QED BY <2>2, <2>3, <2>4, <2>5, <2>6 DEF Modes
<1> QED BY <1>1, <1>2, <1>3, QuietOne, Stutters

\* An append, committed or not, leaves row, tasks and timers alone.
LEMMA RecordQuiet ==
  ASSUME NEW p, NEW type, NEW n, Record(p, type, n)
  PROVE  UNCHANGED <<status, phase>>
  BY DEF Record, AppendEvents, AppendCommitted, AppendRejected, rowVars

\* The events written on the way out of a state.
LEMMA RecordingSeq ==
  ASSUME Sequential, EngineInv, SeqInv, NEW p \in Procs,
         RecordTransition(p) \/ RecordCompleted(p) \/ (p = TimerService /\ RecordFired)
  PROVE  SeqInv' /\ WStep
<1>t. g \in [Procs -> Locals] /\ TypeOK
  BY DEF EngineInv, TypeInv, TypeOK
<1>1. UNCHANGED <<status, phase, tasks, timers, batch>>
  BY RecordQuiet DEF RecordTransition, RecordCompleted, RecordFired
<1>2. Token(g[p]) /\ g[p].pc \in {"recordTransition", "recordCompleted", "recordFired"}
  BY IsToken DEF RecordTransition, RecordCompleted, RecordFired, At
<1>3. Place(g[p])
  BY <1>2, TokenFacts
<1>4. /\ Others(p) /\ g'[p].mode = g[p].mode /\ g'[p].st = g[p].st
      /\ g'[p].pc = CASE g[p].pc = "recordTransition" -> "updatePhase"
                      [] g[p].pc = "recordCompleted" -> "markCompleted"
                      [] OTHER -> "firedPhase"
  <2>1. CASE RecordTransition(p)
    BY <1>t, <2>1, LeaveEffect DEF RecordTransition, At
  <2>2. CASE RecordCompleted(p)
    BY <1>t, <2>2, LeaveEffect DEF RecordCompleted, At
  <2>3. CASE p = TimerService /\ RecordFired
    BY <1>t, <2>3, RecordFiredEffect
  <2> QED BY <2>1, <2>2, <2>3
<1>5. Place(g'[p])
  BY <1>2, <1>3, <1>4 DEF Place, Leaving, Executing
<1> QED BY <1>1, <1>2, <1>4, <1>5, QuietOne, Stutters

\* A goroutine that created the task of a state with one action, or a timer, ends.
LEMMA RecordedSeq ==
  ASSUME Sequential, EngineInv, SeqInv, NEW p \in Procs,
         RecordScheduled(p) \/ RecordTimer(p) \/ AppendSignalEvent(p) \/ ReadFails(p)
  PROVE  SeqInv' /\ WStep
<1>1. UNCHANGED <<status, phase, tasks, timers, batch>>
  <2>1. CASE RecordScheduled(p) \/ RecordTimer(p)
    BY <2>1, RecordQuiet DEF RecordScheduled, RecordTimer
  <2>2. CASE AppendSignalEvent(p)
    BY <2>2 DEF AppendSignalEvent, AppendSignal, AppendRejected, rowVars
  <2>3. CASE ReadFails(p)
    BY <2>3 DEF ReadFails, rowVars
  <2> QED BY <2>1, <2>2, <2>3
<1>2. Finish(p)
  <2>1. CASE RecordScheduled(p)
    <3>1. g[p].st \in States /\ g[p].act \in Nat
      BY <2>1 DEF RecordScheduled, At, EngineInv, TypeInv, TypeOK, StateKnown, NeedsState, Locals
    <3>2. Def[g[p].st].actions \in Nat /\ Def[g[p].st].actions <= 1
      BY <3>1, DefAssumption DEF Sequential
    <3>3. ~(g[p].act + 1 < Def[g[p].st].actions)
      BY <3>1, <3>2
    <3> QED BY <2>1, <3>3 DEF RecordScheduled
  <2> QED BY <2>1 DEF RecordTimer, AppendSignalEvent, ReadFails
<1> QED BY <1>1, <1>2, EndingSeq

\* A failed CreateTask or CreateTimer: the goroutine is about to write FAILED.
LEMMA CreationFails ==
  ASSUME Sequential, EngineInv, SeqInv, NEW p \in Procs,
         g[p].pc \in {"createTask", "createTimer"}, Leave(p, "markFailed"),
         UNCHANGED <<status, phase, tasks, timers, batch>>
  PROVE  SeqInv' /\ WStep
<1>1. Token(g[p])
  BY IsToken
<1>2. Place(g[p]) /\ g[p].mode \in Modes \ {"signal"}
  BY <1>1, TokenFacts
<1>3. g[p].mode = "execute"
  BY <1>2 DEF Place, Modes, Leaving, Executing
<1>4. Others(p) /\ g'[p].pc = "markFailed" /\ g'[p].mode = "execute"
  BY <1>3, LeaveEffect DEF EngineInv, TypeInv, TypeOK
<1>5. Place(g'[p])
  BY <1>2, <1>3, <1>4 DEF Place, Leaving, Executing
<1> QED BY <1>1, <1>4, <1>5, QuietOne, Stutters

\* Steps from outside: goroutines end, the instance is cancelled.
LEMMA OutsideSeq ==
  ASSUME Sequential, EngineInv, SeqInv, OutsideStep
  PROVE  SeqInv' /\ WStep
<1>1. /\ UNCHANGED <<phase, tasks, timers, batch>>
      /\ \A q \in Procs : g'[q] = g[q] \/ g'[q] = Idle
      /\ status' = status \/ (status # "NONE" /\ status' = "CANCELED")
  BY DEF OutsideStep
<1>2. \A q \in Procs : Token(g'[q]) => Token(g[q]) /\ g'[q] = g[q]
  BY <1>1, NoToken
<1>3. SeqInv'
  BY <1>1, <1>2, QuietSeq DEF SeqInv, TokenInv
<1> QED BY <1>1, <1>3, Stutters, CancelWritten

-------------------------------------------------------------------------------
(* Steps that the abstract workflow takes.                                  *)

\* An instance begins with no task and no timer.
LEMMA StartSeq ==
  ASSUME Sequential, EngineInv, SeqInv, NEW p \in Goroutines, StartWorkflow(p)
  PROVE  SeqInv' /\ WStep
<1>1. /\ status = "NONE" /\ status' = "RUNNING" /\ phase' = Start
      /\ UNCHANGED <<tasks, timers, batch>>
  BY DEF StartWorkflow, CreateWorkflowInstance
<1>2. /\ batch = {} /\ \A q \in Procs : g[q].pc = "idle"
      /\ \A t \in TaskIds : tasks[t].status = "none"
      /\ \A t \in TimerIds : timers[t].status = "none"
  BY <1>1 DEF EngineInv, ControlInv, Untouched
<1>3. p \in Procs /\ Others(p) /\ g'[p].pc = "appendStarted" /\ g'[p].mode = "none"
  BY StartEffect DEF StartWorkflow, EngineInv, TypeInv, TypeOK
<1>4. \A q \in Procs : Token(g'[q]) <=> q = p
  BY <1>2, <1>3 DEF Others, Token
<1>5. OpenTasks' = {} /\ PendingTimers' = {} /\ Fresh'
  BY <1>1, <1>2 DEF OpenTasks, PendingTimers, Fresh
<1>6. TokenInv'
  BY <1>1, <1>2, <1>4, <1>5 DEF TokenInv, Token
<1>7. StatusInv' /\ MarkInv' /\ OneTaskPerAction'
  BY <1>1, <1>2, <1>5 DEF StatusInv, MarkInv, OneTaskPerAction
<1>e. Elapsed = FALSE /\ Elapsed' = FALSE
  BY <1>1, <1>2 DEF Elapsed
<1>8. PlaceInv'
  BY <1>3, <1>4, <1>5, <1>e DEF PlaceInv, Place, Token, Leaving
<1>9. WStep
  <2>1. Finished = {} /\ Finished' = {}
    BY <1>1, <1>2 DEF Finished, Resolved
  <2>2. DiagramStatus = "NONE" /\ DiagramStatus' = "RUNNING"
    BY <1>1, <1>2 DEF DiagramStatus, Waits
  <2> QED BY <1>1, <1>e, <2>1, <2>2 DEF WStep, AsWorkflow!WNext, AsWorkflow!Begin
<1> QED BY <1>6, <1>7, <1>8, <1>9 DEF SeqInv

(* The token leaves a state that is done for the next one: everything       *)
(* recorded so far lies behind the new phase.                               *)
LEMMA MoveSeq ==
  ASSUME Sequential, EngineInv, SeqInv, NEW p \in Procs, NEW q \in Procs, Token(g[q]),
         AsWorkflow!Ready, ~Def[phase].end, phase' = Def[phase].transition,
         UNCHANGED <<status, tasks, timers, batch>>,
         \A r \in Procs : Token(g'[r]) <=> r = p,
         g'[p].mode = "execute", g'[p].pc = "loadRow"
  PROVE  SeqInv' /\ WStep
<1>1. /\ status \in {"RUNNING", "CANCELED"} /\ OpenTasks = {} /\ PendingTimers = {} /\ batch = {}
      /\ phase \in States /\ phase' \in States
  BY TokenFacts
<1>2. Rank \in [States -> Nat] /\ Rank[phase] < Rank[phase']
  BY <1>1, RankOrder
<1>r. Rank[phase] \in Nat /\ Rank[phase'] \in Nat
  BY <1>1, <1>2
<1>3. OpenTasks' = {} /\ PendingTimers' = {}
  BY <1>1 DEF OpenTasks, PendingTimers
<1>4. ASSUME NEW t \in TaskIds, tasks[t].status # "none"
      PROVE  /\ tasks[t].state \in States /\ tasks[t].act = 0
             /\ Def[tasks[t].state].type = "operation" /\ Def[tasks[t].state].actions = 1
             /\ Rank[tasks[t].state] < Rank[phase']
  <2>1. /\ tasks[t].state \in States /\ tasks[t].act = 0
        /\ Def[tasks[t].state].type = "operation" /\ Def[tasks[t].state].actions = 1
        /\ Rank[tasks[t].state] <= Rank[phase]
    BY <1>4 DEF SeqInv, MarkInv
  <2>2. Rank[tasks[t].state] \in Nat
    BY <1>2, <2>1
  <2> QED BY <1>2, <1>r, <2>1, <2>2
<1>5. ASSUME NEW t \in TimerIds, timers[t].status = "fired"
      PROVE  timers[t].next \in States /\ Rank[timers[t].next] <= Rank[phase']
  <2>1. /\ timers[t].next \in States
        /\ Rank[timers[t].next] <= Rank[phase] \/ timers[t].next = phase'
    BY <1>5 DEF SeqInv, MarkInv
  <2>2. Rank[timers[t].next] \in Nat
    BY <1>2, <2>1
  <2> QED BY <1>2, <1>r, <2>1, <2>2
<1>6. Fresh'
  <2> SUFFICES ASSUME NEW t \in TaskIds, tasks[t].status # "none"
               PROVE  tasks[t].state # phase'
    BY DEF Fresh
  <2>1. Rank[tasks[t].state] < Rank[phase']
    BY <1>4
  <2> QED BY <1>r, <2>1
<1>7. TokenInv'
  BY <1>1, <1>3 DEF TokenInv, Token
<1>8. StatusInv' /\ OneTaskPerAction'
  BY <1>1 DEF StatusInv, SeqInv, OneTaskPerAction
<1>e. Elapsed' = FALSE
  <2> SUFFICES ASSUME NEW t \in TimerIds, timers[t].status = "fired",
                      Def[phase'].type = "delay", timers[t].next = Def[phase'].transition
               PROVE  FALSE
    BY DEF Elapsed
  <2>1. ~Def[phase'].end
    BY <1>1 DEF Sequential
  <2>2. Rank[phase'] < Rank[timers[t].next] /\ timers[t].next \in States
    BY <1>1, <2>1, RankOrder
  <2>3. Rank[timers[t].next] \in Nat /\ Rank[timers[t].next] <= Rank[phase']
    BY <1>2, <1>5, <2>2
  <2> QED BY <1>r, <2>2, <2>3
<1>9. PlaceInv'
  BY <1>6, <1>e DEF PlaceInv, Place, Token, Leaving, Executing
<1>10. MarkInv'
  <2>1. \A t \in TaskIds : tasks[t].status # "none" => Rank[tasks[t].state] <= Rank[phase']
    <3> SUFFICES ASSUME NEW t \in TaskIds, tasks[t].status # "none"
                 PROVE  Rank[tasks[t].state] <= Rank[phase']
      OBVIOUS
    <3>1. Rank[tasks[t].state] < Rank[phase'] /\ Rank[tasks[t].state] \in Nat
      BY <1>2, <1>4
    <3> QED BY <1>r, <3>1
  <2> QED BY <1>3, <1>4, <1>5, <2>1 DEF MarkInv
<1>11. WStep
  <2>1. Finished' = {}
    <3>1. \A i : ~Resolved(phase, i)'
      BY <1>6 DEF Fresh, Resolved
    <3> QED BY <3>1 DEF Finished, Resolved
  <2>2. Waits' = FALSE
    <3>1. timers \in [TimerIds -> Timers]
      BY DEF EngineInv, TypeInv, TypeOK
    <3>2. \A t \in TimerIds : timers[t].status # "none" => timers[t].status = "fired"
      BY <1>1, <3>1 DEF PendingTimers, Timers
    <3> QED BY <1>e, <3>2 DEF Waits, Elapsed
  <2>3. Waits <=> AsWorkflow!Delay
    <3>1. Waits <=> Elapsed
      BY WaitsElapsed
    <3> QED BY <3>1 DEF AsWorkflow!Ready, AsWorkflow!Delay, Elapsed
  <2>4. status = "RUNNING" =>
          /\ DiagramStatus = IF AsWorkflow!Delay THEN "WAITING" ELSE "RUNNING"
          /\ DiagramStatus' = "RUNNING"
    BY <2>2, <2>3 DEF DiagramStatus
  <2> QED BY <1>1, <1>e, <2>1, <2>4 DEF WStep, PastCancellation, AsWorkflow!WNext, AsWorkflow!Move
<1> QED BY <1>7, <1>8, <1>9, <1>10, <1>11 DEF SeqInv

\* advanceFromState moves to the next state in the same goroutine.
LEMMA UpdatePhaseSeq ==
  ASSUME Sequential, EngineInv, SeqInv, NEW p \in Procs, UpdatePhase(p)
  PROVE  SeqInv' /\ WStep
<1>t. g \in [Procs -> Locals]
  BY DEF EngineInv, TypeInv, TypeOK
<1>1. Token(g[p]) /\ g[p].pc = "updatePhase"
  BY IsToken DEF UpdatePhase, At
<1>2. Place(g[p]) /\ g[p].mode \in Modes \ {"signal"}
  BY <1>1, TokenFacts
<1>3. g[p].st = phase /\ AsWorkflow!Ready /\ ~Def[phase].end
  BY <1>1, <1>2 DEF Place, Leaving, Modes
<1>4. CASE Finish(p) /\ UNCHANGED <<rowVars, logVars>>
  BY <1>4, EndingSeq DEF UpdatePhase, rowVars
<1>5. CASE /\ UpdateCurrentPhase(Def[g[p].st].transition)
           /\ g' = [g EXCEPT ![p] = Spawned("execute", g[p].home, "loadRow")]
  <2>1. phase' = Def[phase].transition /\ UNCHANGED <<status, tasks, timers, batch>>
    BY <1>3, <1>5 DEF UpdateCurrentPhase, UpdatePhase
  <2>2. Others(p) /\ g'[p] = Spawned("execute", g[p].home, "loadRow")
    BY <1>t, <1>5, SpawnEffect
  <2>3. g'[p].mode = "execute" /\ g'[p].pc = "loadRow"
    BY <2>2, SpawnedFields
  <2>4. \A r \in Procs : Token(g'[r]) <=> r = p
    BY <1>1, <2>2, <2>3 DEF Others, Token, SeqInv, TokenInv
  <2> QED BY <1>1, <1>3, <2>1, <2>3, <2>4, MoveSeq
<1> QED BY <1>4, <1>5 DEF UpdatePhase

\* A fired timer moves to the next state and a new goroutine goes on.
LEMMA FiredPhaseSeq ==
  ASSUME Sequential, EngineInv, SeqInv, NEW p \in Goroutines, FiredPhase(p)
  PROVE  SeqInv' /\ WStep
<1>t. TypeOK /\ p \in Procs /\ TimerService \in Procs
  BY DEF EngineInv, TypeInv, Procs
<1>0. /\ g[TimerService].pc = "firedPhase" /\ g'[TimerService] = Idle
      /\ g[p].pc = "idle" /\ p # TimerService
      /\ \A q \in Procs \ {p, TimerService} : g'[q] = g[q]
      /\ \/ /\ g'[p] = Spawned("execute", "orchestrator", "loadRow")
            /\ UpdateCurrentPhase(g[TimerService].st)
         \/ g'[p] = g[p] /\ UNCHANGED <<rowVars, logVars>>
  BY <1>t, FiredPhaseEffect
<1>1. Token(g[TimerService])
  BY <1>t, <1>0, IsToken
<1>2. /\ Place(g[TimerService]) /\ g[TimerService].mode \in Modes \ {"signal"}
      /\ Def[phase].type = "delay" => ~Def[phase].end
  BY <1>t, <1>1, TokenFacts
<1>3. g[TimerService].st = Def[phase].transition /\ AsWorkflow!Ready /\ ~Def[phase].end
  BY <1>0, <1>2 DEF Place, Leaving, Executing, Modes
<1>4. UNCHANGED <<tasks, timers, batch>>
  BY DEF FiredPhase
<1>n. \A q \in Procs \ {TimerService} : ~Token(g[q])
  BY <1>t, <1>1 DEF SeqInv, TokenInv
<1>5. CASE g'[p] = g[p] /\ UNCHANGED <<rowVars, logVars>>
  <2>1. Others(TimerService) /\ ~Token(g'[TimerService]) /\ UNCHANGED <<status, phase>>
    BY <1>0, <1>5, NoToken DEF Others, rowVars
  <2> QED BY <1>t, <1>4, <2>1, QuietOne, Stutters
<1>6. CASE /\ g'[p] = Spawned("execute", "orchestrator", "loadRow")
           /\ UpdateCurrentPhase(g[TimerService].st)
  <2>1. phase' = Def[phase].transition /\ UNCHANGED status
    BY <1>3, <1>6 DEF UpdateCurrentPhase
  <2>2. g'[p].mode = "execute" /\ g'[p].pc = "loadRow"
    BY <1>6, SpawnedFields
  <2>3. Token(g'[p]) /\ ~Token(g'[TimerService])
    BY <1>0, <2>2, NoToken DEF Token
  <2>4. \A r \in Procs : Token(g'[r]) <=> r = p
    BY <1>0, <1>n, <2>3
  <2> QED BY <1>t, <1>1, <1>3, <1>4, <2>1, <2>2, <2>4, MoveSeq
<1> QED BY <1>0, <1>5, <1>6

\* The token becomes the open task of the only action.
LEMMA CreateTaskSeq ==
  ASSUME Sequential, EngineInv, SeqInv, NEW p \in Procs, CreateTask(p)
  PROVE  SeqInv' /\ WStep
<1>t. g \in [Procs -> Locals] /\ tasks \in [TaskIds -> Tasks]
  BY DEF EngineInv, TypeInv, TypeOK
<1>0. UNCHANGED <<status, phase, timers, batch>> /\ g[p].pc = "createTask"
  BY DEF CreateTask, rowVars, At
<1>1. Token(g[p])
  BY <1>0, IsToken
<1>2. /\ Place(g[p]) /\ g[p].mode \in Modes \ {"signal"} /\ status \in {"RUNNING", "CANCELED"}
      /\ OpenTasks = {} /\ PendingTimers = {} /\ batch = {} /\ phase \in States
  BY <1>1, TokenFacts
<1>3. /\ g[p].st = phase /\ g[p].act = 0 /\ Fresh
      /\ Def[phase].type = "operation" /\ Def[phase].actions = 1
  BY <1>0, <1>2 DEF Place, Leaving, Executing, Modes
<1>4. CASE Leave(p, "markFailed") /\ UNCHANGED tasks
  BY <1>0, <1>4, CreationFails
<1>5. ASSUME NEW t \in TaskIds, tasks[t].status = "none", Goto(p, "recordScheduled"),
             tasks' = [tasks EXCEPT ![t] = [status |-> "open", state |-> g[p].st,
                                            act |-> g[p].act]]
      PROVE  SeqInv' /\ WStep
  <2>1. /\ tasks'[t].status = "open" /\ tasks'[t].state = phase /\ tasks'[t].act = 0
        /\ \A u \in TaskIds \ {t} : tasks'[u] = tasks[u]
    BY <1>t, <1>3, <1>5
  <2>2. g'[p].pc = "recordScheduled" /\ Others(p)
    BY <1>t, <1>5, GotoEffect
  <2>3. \A q \in Procs : ~Token(g'[q])
    BY <1>1, <2>2 DEF Others, Token, SeqInv, TokenInv
  <2>4. OpenTasks' = {t} /\ PendingTimers' = {}
    BY <1>0, <1>2, <2>1 DEF OpenTasks, PendingTimers
  <2>5. TokenInv'
    BY <1>0, <1>2, <2>3, <2>4 DEF TokenInv, Token
  <2>6. StatusInv' /\ PlaceInv'
    BY <1>0, <1>2, <2>3 DEF StatusInv, PlaceInv, Token
  <2>7. MarkInv'
    <3>1. Rank[phase] \in Nat
      BY <1>2, RankOrder
    <3>2. \A u \in TaskIds : tasks'[u].status # "none" =>
            /\ tasks'[u].state \in States /\ tasks'[u].act = 0
            /\ Def[tasks'[u].state].type = "operation" /\ Def[tasks'[u].state].actions = 1
            /\ Rank[tasks'[u].state] <= Rank[phase]
      BY <1>2, <1>3, <2>1, <3>1 DEF SeqInv, MarkInv
    <3>3. \A u \in OpenTasks' : tasks'[u].state = phase
      BY <2>1, <2>4
    <3> QED BY <1>0, <2>4, <3>2, <3>3 DEF SeqInv, MarkInv
  <2>8. OneTaskPerAction'
    BY <1>3, <2>1 DEF SeqInv, OneTaskPerAction, Fresh
  <2>9. WStep
    <3>1. \A i : Resolved(phase, i)' <=> Resolved(phase, i)
      BY <1>0, <1>5, <2>1 DEF Resolved
    <3>2. Finished' = Finished /\ Elapsed' = Elapsed
      BY <1>0, <3>1 DEF Finished, Elapsed, Resolved
    <3>3. DiagramStatus' = DiagramStatus
      BY <1>0, <1>3 DEF DiagramStatus, Waits
    <3> QED BY <1>0, <3>2, <3>3 DEF WStep
  <2> QED BY <2>5, <2>6, <2>7, <2>8, <2>9 DEF SeqInv
<1> QED BY <1>4, <1>5 DEF CreateTask

\* The token becomes an unfired timer.
LEMMA CreateTimerSeq ==
  ASSUME Sequential, EngineInv, SeqInv, NEW p \in Procs, CreateTimer(p)
  PROVE  SeqInv' /\ WStep
<1>t. g \in [Procs -> Locals] /\ timers \in [TimerIds -> Timers]
  BY DEF EngineInv, TypeInv, TypeOK
<1>0. UNCHANGED <<status, phase, tasks, batch>> /\ g[p].pc = "createTimer"
  BY DEF CreateTimer, rowVars, At
<1>1. Token(g[p])
  BY <1>0, IsToken
<1>2. /\ Place(g[p]) /\ g[p].mode \in Modes \ {"signal"} /\ status \in {"RUNNING", "CANCELED"}
      /\ OpenTasks = {} /\ PendingTimers = {} /\ batch = {}
  BY <1>1, TokenFacts
<1>3. g[p].st = phase /\ Def[phase].type = "delay" /\ ~Elapsed
  BY <1>0, <1>2 DEF Place, Leaving, Executing, Modes
<1>4. CASE Leave(p, "markFailed") /\ UNCHANGED timers
  BY <1>0, <1>4, CreationFails
<1>5. ASSUME NEW t \in TimerIds, timers[t].status = "none", Goto(p, "recordTimer"),
             timers' = [timers EXCEPT ![t] = [status |-> "pending",
                                              next |-> Def[g[p].st].transition]]
      PROVE  SeqInv' /\ WStep
  <2>1. /\ timers'[t].status = "pending" /\ timers'[t].next = Def[phase].transition
        /\ \A u \in TimerIds \ {t} : timers'[u] = timers[u]
    BY <1>t, <1>3, <1>5
  <2>2. g'[p].pc = "recordTimer" /\ Others(p)
    BY <1>t, <1>5, GotoEffect
  <2>3. \A q \in Procs : ~Token(g'[q])
    BY <1>1, <2>2 DEF Others, Token, SeqInv, TokenInv
  <2>4. OpenTasks' = {} /\ PendingTimers' = {t}
    BY <1>0, <1>2, <2>1 DEF OpenTasks, PendingTimers
  <2>5. TokenInv'
    BY <1>0, <1>2, <2>3, <2>4 DEF TokenInv, Token
  <2>6. StatusInv' /\ PlaceInv' /\ OneTaskPerAction'
    BY <1>0, <1>2, <2>3 DEF StatusInv, PlaceInv, Token, SeqInv, OneTaskPerAction
  <2>7. MarkInv'
    <3>1. \A u \in TimerIds : timers'[u].status = "fired" => timers'[u] = timers[u]
      BY <2>1
    <3> QED BY <1>0, <1>3, <2>1, <2>4, <3>1 DEF SeqInv, MarkInv
  <2>8. WStep
    <3>1. Elapsed' = Elapsed
      BY <1>0, <1>5, <2>1 DEF Elapsed
    <3>2. Finished' = Finished
      BY <1>0 DEF Finished, Resolved
    <3>3. ~Waits /\ Waits' /\ phase \in States
      <4>1. ~Waits /\ phase \in States
        BY <1>1, <1>3, WaitsElapsed, TokenFacts
      <4> QED BY <1>0, <1>3, <2>1, <4>1 DEF Waits
    <3>4. status = "RUNNING" => DiagramStatus = "RUNNING" /\ DiagramStatus' = "WAITING"
      BY <1>0, <3>3 DEF DiagramStatus
    <3> QED BY <1>0, <1>2, <1>3, <3>1, <3>2, <3>3, <3>4
            DEF WStep, PastCancellation, AsWorkflow!WNext, AsWorkflow!Schedule,
                AsWorkflow!Edge, AsWorkflow!Delay
  <2> QED BY <2>5, <2>6, <2>7, <2>8 DEF SeqInv
<1> QED BY <1>4, <1>5 DEF CreateTimer

\* The result of the open task makes the state ready, and its handler the token.
LEMMA ResolveSeq ==
  ASSUME Sequential, EngineInv, SeqInv, NEW t \in TaskIds, NEW p \in Goroutines,
         NEW o \in {"COMPLETED", "FAILED"}, NEW m \in {"resume", "submit"}, Resolve(t, p, o, m)
  PROVE  SeqInv' /\ WStep
<1>t. g \in [Procs -> Locals] /\ tasks \in [TaskIds -> Tasks] /\ repeats \in 0 .. MaxRepeats
  BY DEF EngineInv, TypeInv, TypeOK
<1>0. UNCHANGED <<status, phase, timers, batch>> /\ tasks' = [tasks EXCEPT ![t].status = o]
  BY DEF Resolve, storeVars
<1>1. tasks[t].status = "open" /\ t \in OpenTasks
  <2>1. ~(repeats < MaxRepeats)
    BY <1>t DEF Sequential
  <2> QED BY <2>1 DEF Resolve, CountRepeat, OpenTasks
<1>2. /\ tasks'[t].status = o /\ tasks'[t].state = tasks[t].state /\ tasks'[t].act = tasks[t].act
      /\ \A u \in TaskIds \ {t} : tasks'[u] = tasks[u]
  BY <1>t, <1>0 DEF Tasks
<1>3. /\ OpenTasks = {t} /\ PendingTimers = {} /\ batch = {} /\ \A q \in Procs : ~Token(g[q])
      /\ status \in {"RUNNING", "CANCELED"}
  BY <1>1 DEF SeqInv, TokenInv, StatusInv
<1>4. /\ tasks[t].state = phase /\ tasks[t].act = 0
      /\ Def[phase].type = "operation" /\ Def[phase].actions = 1 /\ phase \in States
  BY <1>1 DEF SeqInv, MarkInv
<1>5. p \in Procs /\ Others(p) /\ g'[p].pc = "count" /\ g'[p].mode = m
  BY <1>t, StartEffect DEF Resolve
<1>6. \A q \in Procs : Token(g'[q]) <=> q = p
  BY <1>3, <1>5 DEF Others, Token
<1>7. OpenTasks' = {} /\ PendingTimers' = {}
  <2>1. \A u \in TaskIds : tasks'[u].status # "open"
    BY <1>2, <1>3 DEF OpenTasks
  <2> QED BY <1>0, <1>3, <2>1 DEF OpenTasks, PendingTimers
<1>8. AsWorkflow!Ready'
  <2>1. Resolved(phase, 0)'
    BY <1>0, <1>2, <1>4 DEF Resolved
  <2>2. Finished' = 0 .. Def[phase].actions - 1
    <3>1. 0 .. Def[phase].actions - 1 = {0}
      BY <1>4
    <3> QED BY <1>0, <1>4, <2>1, <3>1 DEF Finished
  <2> QED BY <1>0, <1>4, <2>2 DEF AsWorkflow!Ready, AsWorkflow!Delay
<1>9. TokenInv'
  BY <1>0, <1>3, <1>6, <1>7 DEF TokenInv, Token
<1>10. StatusInv'
  BY <1>0, <1>3 DEF StatusInv
<1>11. PlaceInv'
  <2>1. ~Elapsed'
    BY <1>0, <1>4 DEF Elapsed
  <2> QED BY <1>0, <1>4, <1>5, <1>6, <1>8, <2>1 DEF PlaceInv, Place, Token, Leaving, Executing
<1>12. \A u \in TaskIds : /\ tasks'[u].state = tasks[u].state /\ tasks'[u].act = tasks[u].act
                          /\ tasks'[u].status # "none" => tasks[u].status # "none"
  BY <1>1, <1>2
<1>13. MarkInv'
  BY <1>0, <1>7, <1>12 DEF SeqInv, MarkInv
<1>14. OneTaskPerAction'
  BY <1>12 DEF SeqInv, OneTaskPerAction
<1>15. WStep
  <2>1. \A i : Resolved(phase, i) => Resolved(phase, i)'
    BY <1>0, <1>1, <1>2 DEF Resolved
  <2>2. Finished \subseteq Finished'
    BY <1>0, <2>1 DEF Finished
  <2>3. Elapsed' = Elapsed
    BY <1>0 DEF Elapsed
  <2>4. DiagramStatus = status /\ DiagramStatus' = status
    BY <1>0, <1>4 DEF DiagramStatus, Waits
  <2> QED BY <1>0, <1>3, <1>4, <2>2, <2>3, <2>4
          DEF WStep, PastCancellation, AsWorkflow!WNext, AsWorkflow!Work, AsWorkflow!Delay
<1> QED BY <1>9, <1>10, <1>11, <1>13, <1>14, <1>15 DEF SeqInv

\* The timer service takes the token of the timer that it marks fired.
LEMMA FiringSeq ==
  ASSUME Sequential, EngineInv, SeqInv, NEW t \in TimerIds, MarkTimerFired(t),
         timers' = [timers EXCEPT ![t].status = "fired"],
         g'[TimerService].pc = "loadRow", g'[TimerService].mode = "timer",
         g'[TimerService].st = Target(t), Others(TimerService)
  PROVE  SeqInv' /\ WStep
<1>t. timers \in [TimerIds -> Timers] /\ TimerService \in Procs
  BY DEF EngineInv, TypeInv, TypeOK, Procs
<1>0. UNCHANGED <<status, phase, tasks>> /\ t \in batch /\ batch' = batch \ {t}
  BY DEF MarkTimerFired, rowVars
<1>1. /\ PendingTimers = {t} /\ OpenTasks = {} /\ batch = {t} /\ \A q \in Procs : ~Token(g[q])
      /\ status \in {"RUNNING", "CANCELED"}
  BY <1>0 DEF SeqInv, TokenInv, StatusInv
<1>2. /\ timers'[t].status = "fired" /\ timers'[t].next = timers[t].next
      /\ \A u \in TimerIds \ {t} : timers'[u] = timers[u]
  BY <1>t DEF Timers
<1>3. phase \in States /\ Def[phase].type = "delay" /\ timers[t].next = Def[phase].transition
  BY <1>1, PhaseKnown DEF SeqInv, MarkInv
<1>4. Def[phase].transition \in States /\ Def[phase].transition # NoState
  BY <1>3, DefAssumption DEF Sequential, WellFormed
<1>5. g'[TimerService].st = Def[phase].transition
  BY <1>3, <1>4 DEF Target
<1>6. \A q \in Procs : Token(g'[q]) <=> q = TimerService
  BY <1>1, <1>t DEF Others, Token
<1>7. OpenTasks' = {} /\ PendingTimers' = {}
  <2>1. \A u \in TimerIds : timers'[u].status # "pending"
    BY <1>1, <1>2 DEF PendingTimers
  <2> QED BY <1>0, <1>1, <2>1 DEF OpenTasks, PendingTimers
<1>8. Elapsed'
  BY <1>0, <1>2, <1>3 DEF Elapsed
<1>9. AsWorkflow!Ready'
  BY <1>0, <1>3, <1>8 DEF AsWorkflow!Ready, AsWorkflow!Delay
<1>10. TokenInv'
  BY <1>0, <1>1, <1>6, <1>7 DEF TokenInv, Token
<1>11. StatusInv' /\ OneTaskPerAction'
  BY <1>0, <1>1 DEF StatusInv, SeqInv, OneTaskPerAction
<1>12. PlaceInv'
  BY <1>0, <1>3, <1>5, <1>6, <1>9 DEF PlaceInv, Place, Token, Leaving, Executing
<1>13. MarkInv'
  <2>1. \A u \in TimerIds : timers'[u].status = "fired" =>
          /\ timers'[u].next \in States
          /\ \/ Rank[timers'[u].next] <= Rank[phase]
             \/ Def[phase].type = "delay" /\ timers'[u].next = Def[phase].transition
    BY <1>2, <1>3, <1>4 DEF SeqInv, MarkInv
  <2> QED BY <1>0, <1>7, <2>1 DEF SeqInv, MarkInv
<1>14. WStep
  <2>1. Finished' = Finished
    BY <1>0 DEF Finished, Resolved
  <2>2. Elapsed' = TRUE
    BY <1>8 DEF Elapsed
  <2>3. Waits /\ Waits'
    BY <1>0, <1>1, <1>2, <1>3 DEF Waits, PendingTimers
  <2>4. status = "RUNNING" => DiagramStatus = "WAITING" /\ DiagramStatus' = "WAITING"
    BY <1>0, <2>3 DEF DiagramStatus
  <2> QED BY <1>0, <1>1, <2>1, <2>2, <2>4
          DEF WStep, PastCancellation, AsWorkflow!WNext, AsWorkflow!Fire
<1> QED BY <1>10, <1>11, <1>12, <1>13, <1>14 DEF SeqInv

-------------------------------------------------------------------------------

\* A statement of a goroutine, one step per kind.
LEMMA StepSeq ==
  ASSUME Sequential, EngineInv, SeqInv, NEW p \in Procs, Step(p)
  PROVE  SeqInv' /\ WStep
<1>1. CASE AppendStarted(p) \/ StartWorker(p)
  BY <1>1, StartingSeq
<1>2. CASE MarkDegraded(p) \/ MarkCompleted(p) \/ MarkFailed(p)
  BY <1>2, ClosingSeq
<1>3. CASE CountPendingTasks(p) \/ LoadRow(p)
  BY <1>3, LoadingSeq
<1>4. CASE LoadHistory(p) \/ LoadHistoryTruncated(p)
  BY <1>4, LoadedSeq
<1>5. CASE RecordTransition(p) \/ RecordCompleted(p)
  BY <1>5, RecordingSeq
<1>6. CASE RecordScheduled(p) \/ RecordTimer(p) \/ AppendSignalEvent(p) \/ ReadFails(p)
  BY <1>6, RecordedSeq
<1>7. CASE UpdatePhase(p)
  BY <1>7, UpdatePhaseSeq
<1>8. CASE CreateTask(p)
  BY <1>8, CreateTaskSeq
<1>9. CASE CreateTimer(p)
  BY <1>9, CreateTimerSeq
<1> QED BY <1>1, <1>2, <1>3, <1>4, <1>5, <1>6, <1>7, <1>8, <1>9 DEF Step

\* A step of the engine, one step per kind; nothing is repeated or restarted.
LEMMA NextSeqInv ==
  ASSUME Sequential, EngineInv, SeqInv, Next, UNCHANGED restarts
  PROVE  SeqInv' /\ WStep
<1>t. TypeOK /\ Goroutines \subseteq Procs /\ TimerService \in Procs
  BY DEF EngineInv, TypeInv, Procs
<1>1. ASSUME NEW p \in Goroutines, StartWorkflow(p)
      PROVE  SeqInv' /\ WStep
  BY <1>1, StartSeq
<1>2. ASSUME NEW p \in Goroutines, SignalWorkflow(p)
      PROVE  SeqInv' /\ WStep
  <2>1. UNCHANGED <<status, phase, tasks, timers, batch>>
    BY <1>2 DEF SignalWorkflow, storeVars
  <2>2. Others(p) /\ ~Token(g'[p])
    BY <1>t, <1>2, StartEffect, NoToken DEF SignalWorkflow, TypeOK
  <2> QED BY <1>t, <2>1, <2>2, QuietOne, Stutters
<1>3. ASSUME NEW p \in Goroutines, WorkerDies(p)
      PROVE  SeqInv' /\ WStep
  BY <1>t, <1>3, EndingSeq DEF WorkerDies, rowVars
<1>4. ASSUME NEW p \in Procs, Step(p)
      PROVE  SeqInv' /\ WStep
  BY <1>4, StepSeq
<1>5. CASE Tick
  <2>1. UNCHANGED <<status, phase, tasks, timers, g>> /\ batch' \subseteq PendingTimers
    BY <1>5 DEF Tick, storeVars
  <2> QED BY <2>1, QuietSeq, Stutters
<1>6. ASSUME NEW t \in TimerIds, MarkTimerFired(t)
      PROVE  SeqInv' /\ WStep
  <2>1. CASE g' = g /\ timers' = timers
    <3>1. UNCHANGED <<status, phase, tasks>> /\ batch' \subseteq PendingTimers
      BY <1>6 DEF MarkTimerFired, rowVars, SeqInv, TokenInv
    <3> QED BY <2>1, <3>1, QuietSeq, Stutters
  <2>2. CASE ~(g' = g /\ timers' = timers)
    BY <1>t, <1>6, <2>2, FiringEffect, FiringSeq
  <2> QED BY <2>1, <2>2
<1>7. CASE RecordFired
  BY <1>t, <1>7, RecordingSeq
<1>8. ASSUME NEW p \in Goroutines, FiredPhase(p)
      PROVE  SeqInv' /\ WStep
  BY <1>8, FiredPhaseSeq
<1>9. ASSUME NEW t \in TaskIds, NEW p \in Goroutines, NEW o \in {"COMPLETED", "FAILED"},
             NEW m \in {"resume", "submit"}, Resolve(t, p, o, m)
      PROVE  SeqInv' /\ WStep
  BY <1>9, ResolveSeq
<1>10. ASSUME NEW t \in TaskIds, ReopenTask(t)
       PROVE  FALSE
  BY <1>t, <1>10 DEF ReopenTask, TypeOK, Sequential
<1>11. ASSUME NEW s, NEW p \in Goroutines, RestartOrchestrator(s, p)
       PROVE  FALSE
  <2>1. restarts \in Nat /\ restarts' = restarts + 1
    BY <1>t, <1>11, BoundAssumption DEF RestartOrchestrator, TypeOK
  <2> QED BY <2>1
<1> QED BY <1>1, <1>2, <1>3, <1>4, <1>5, <1>6, <1>7, <1>8, <1>9, <1>10, <1>11, NextCases

\* The steps of LNext, EngineStep kept whole.
LEMMA StepKinds ==
  ASSUME EngineInv, WorkerInv, [LNext]_lifecycleVars
  PROVE  EngineStep \/ OutsideStep \/ UNCHANGED vars
<1>1. CASE WorkerExits \/ CancelWorkflow \/ CancelUpdate
  BY <1>1, OutsideSteps DEF EngineInv
<1>2. CASE OpenStream \/ SendEvent \/ BreakStream \/ UNCHANGED lifecycleVars
  BY <1>2 DEF OpenStream, SendEvent, BreakStream, lifecycleVars
<1> QED BY <1>1, <1>2 DEF LNext

\* Every step of Lifecycle keeps the invariant and is one of the abstract workflow.
LEMMA SequentialStep ==
  ASSUME Sequential, EngineInv, WorkerInv, SeqInv, [LNext]_lifecycleVars
  PROVE  SeqInv' /\ WStep
<1>1. CASE EngineStep
  BY <1>1, NextSeqInv DEF EngineStep
<1>2. CASE OutsideStep
  BY <1>2, OutsideSeq
<1>3. CASE UNCHANGED vars
  <2>1. UNCHANGED <<status, phase, tasks, timers, batch, g>>
    BY <1>3 DEF vars, storeVars, engineVars
  <2>2. batch' \subseteq PendingTimers
    BY <2>1 DEF SeqInv, TokenInv
  <2> QED BY <2>1, <2>2, QuietSeq, Stutters
<1>4. EngineStep \/ OutsideStep \/ UNCHANGED vars
  BY StepKinds
<1> QED BY <1>1, <1>2, <1>3, <1>4

\* There is no token before the instance exists.
LEMMA SequentialInitial ==
  ASSUME LInit
  PROVE  SeqInv /\ AsWorkflow!WInit
<1>1. /\ status = "NONE" /\ phase = NoState /\ batch = {}
      /\ \A p \in Procs : g[p] = Idle
      /\ \A t \in TaskIds : tasks[t].status = "none"
      /\ \A t \in TimerIds : timers[t].status = "none"
  BY DEF LInit, Init, StoreInit
<1>2. OpenTasks = {} /\ PendingTimers = {} /\ \A p \in Procs : ~Token(g[p])
  BY <1>1, NoToken DEF OpenTasks, PendingTimers
<1>3. TokenInv /\ StatusInv /\ PlaceInv /\ MarkInv /\ OneTaskPerAction
  BY <1>1, <1>2 DEF TokenInv, StatusInv, PlaceInv, MarkInv, OneTaskPerAction
<1>4. Finished = {} /\ Elapsed = FALSE
  BY <1>1, DefAssumption DEF Finished, Elapsed
<1>5. DiagramStatus = "NONE"
  BY <1>1 DEF DiagramStatus
<1> QED BY <1>1, <1>3, <1>4, <1>5 DEF SeqInv, AsWorkflow!WInit

(* "An operation state creates one task per action": in a sequential        *)
(* definition no action ever gets a second task, whatever goroutines,       *)
(* signals, failed statements and cancellations come between.               *)
THEOREM OneTaskForEachAction == Sequential => (LSpec => []OneTaskPerAction)
<1> SUFFICES ASSUME Sequential PROVE LSpec => []OneTaskPerAction
  OBVIOUS
<1>1. LInit => LifecycleInv /\ SeqInv
  BY LifecycleInitial, SequentialInitial
<1>2. LifecycleInv /\ SeqInv /\ [LNext]_lifecycleVars => (LifecycleInv /\ SeqInv)'
  BY LifecycleInductive, SequentialStep DEF LifecycleInv
<1>3. SeqInv => OneTaskPerAction
  BY DEF SeqInv
<1> QED BY <1>1, <1>2, <1>3, PTL DEF LSpec

(* The engine executes a sequential definition as the README and its status *)
(* diagram describe it until CancelWorkflow leaves the diagram: every       *)
(* statement of the goroutines and the timer service is a stutter or an     *)
(* edge of module Workflow, which has WAITING for a delay and three         *)
(* terminal statuses.                                                       *)
THEOREM EngineExecutesWorkflow == Sequential => (LSpec => ImplementsWorkflow)
<1> SUFFICES ASSUME Sequential PROVE LSpec => ImplementsWorkflow
  OBVIOUS
<1>1. LInit => LifecycleInv /\ SeqInv /\ AsWorkflow!WInit
  BY LifecycleInitial, SequentialInitial
<1>2. LifecycleInv /\ SeqInv /\ [LNext]_lifecycleVars => (LifecycleInv /\ SeqInv)'
  BY LifecycleInductive, SequentialStep DEF LifecycleInv
<1>3. LifecycleInv /\ SeqInv /\ [LNext]_lifecycleVars =>
        [PastCancellation \/ AsWorkflow!WNext]_<<DiagramStatus, phase, Finished, Elapsed>>
  BY SequentialStep DEF LifecycleInv, WStep
<1> QED BY <1>1, <1>2, <1>3, PTL DEF LSpec, ImplementsWorkflow
===============================================================================
