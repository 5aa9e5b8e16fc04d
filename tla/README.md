# A TLA+ model of the AWM orchestrator

The AWM orchestrator runs workflow definitions (operation states that hand tasks
to agents, delay states that wait for a timer) on top of PostgreSQL. This
directory models the part of it that is hard to test: goroutines of several
processes that load an instance, append events to its history, move its phase
and create tasks and timers, with nothing but single SQL statements and an
optimistic version check between them; the pool of tasks that agents take from
and return results to; the worker processes and the calls that start and end
them; the caches of definitions; and the queue of results of a worker.

Paths below are relative to the repository root; line numbers are those of the
commit the model was made from. `PROJECT.json` maps every definition to its lines.

## 1. Inventory

| Part | Source | State it keeps | Operations |
|---|---|---|---|
| Event store | `internal/store/postgres.go`, `store.go` | row of `workflow_instances` (status, current_phase, version), rows of `workflow_history` (sequence_num) | CreateWorkflowInstance, LoadInstance, AppendEvents, UpdateWorkflowStatus, UpdateCurrentPhase |
| Engine | `internal/runtime/engine.go` | none of its own: locals of goroutines | StartWorkflow, ResumeWorkflow, CompleteTask, FailTask, SubmitTaskResult, ResumeAfterTimer and the functions they share: executeWorkflow, processOperationState, processDelayState, advanceFromState, resumeWorkflowAfterTask |
| Timer service | `internal/timer/service.go` | rows of `timers`, `fired` flag | checkTimers on every tick |
| Task pool, audit log | `internal/store/postgres.go` | rows of `tasks` and `task_audit_log` | CreateTask, AssignTask, ClaimTask, ReleaseTask, CompleteTask, FailTask, ReassignTask, AppendTaskAudit |
| Orchestrator service | `internal/api/orchestrator_server.go` | streams and calls in progress | Connect, PollTask, ClaimTask, ..., WatchTask, StreamWorkflowEvents |
| Public service | `internal/api/public_server.go` | none | StartWorkflow, DeployWorkflow, SignalWorkflow, CancelWorkflow, StopInstance, definitions |
| Supervisor | `internal/supervisor/supervisor.go` | map of worker processes | StartWorker, StopWorker, StopAll, monitorWorker |
| Worker process | `cmd/awm-worker`, `internal/worker/worker.go` | one engine, a RabbitMQ consumer | Start, handleTaskMessage, Stop |
| Orchestrator process | `cmd/awm-orchestrator/main.go` | all services | start-up with recovery, shutdown |
| Definition registry | `internal/runtime/definition_registry.go` | rows of `workflow_definitions`, a cache per process | Store, Get, getFromFile |
| Definition, durations, parser | `internal/model`, `internal/parser` | none | Parse, ParseDuration |

**How they interact.** A client starts an instance through the public service,
which inserts the row, appends `WorkflowStarted` and asks the supervisor to fork
a worker. The worker executes states until it meets one that has to wait: it
creates tasks, or a timer, and its goroutine ends. From then on everything
happens in the orchestrator process: each result an agent sends starts a
goroutine that counts the open tasks and, at zero, loads the instance and
advances; each timer that is due makes the timer service write the new phase and
start a goroutine that executes it. The database is the only thing these
goroutines share, and no transaction spans two of their statements.

**What is hard.** Two results counted at the same moment; an instance loaded
after the decision to advance it; an append that is refused and whose error is
only logged; a history that is read after the version; appends of one state that
all carry the version read before the first; a stop of the orchestrator between
two statements, with or without the worker surviving it; results that are
repeated or late; a read and an update that together assign a task; replies
that are lost after the row was changed. `PROJECT.json` lists each of these
hazards at its line, with the properties that are about it.

**What makes each part correct.** The store: the history is an append-only log,
numbers of events are contiguous while nothing fails. The engine: no
acknowledged RUNNING instance is forgotten, a phase is one the definition leads
to, no race ends in FAILED, every workflow without a cycle ends, and a workflow
follows the status diagram of the repository's README. The streams: a client that
follows the history misses nothing; what an agent is told of the workflow is
true. The pool: columns agree with the status, an assigned task is not taken
away, a task is in one agent's hands, an announced completion has its output.
The processes: no worker gets out of the supervisor's reach, an accepted
cancellation is effective, a shutdown ends. The registry: no definition is served
long after it was replaced. The queue: no result is lost or stuck.

## 2. Modules

| Module | Models | Extends |
|---|---|---|
| `EventStore` | one instance's row and history; each operator is one statement or transaction | – |
| `EventLog` | abstract: an append-only log with numbered events | – |
| `Engine` | goroutines, tasks, timers, signals, restarts of one instance | `EventStore`, instantiates `EventLog` |
| `Workflow` | abstract: the status diagram of the repository's README, and what each edge waits for | – |
| `Lifecycle` | `Engine` with a worker that exits, CancelWorkflow, StreamWorkflowEvents and the answers of SubmitTaskResult | `Engine`, instantiates `Workflow` |
| `TaskPool` | the tasks table, audit log and streams under the agents' calls | – |
| `Supervisor` | the map of workers and the worker processes | – |
| `PublicServer` | the orchestrator process: calls that start and end instances, start-up, shutdown, crash | `Supervisor` |
| `DefinitionRegistry` | the rows of one definition and a cache per process | – |
| `WorkerQueue` | the RabbitMQ queue of results and its consumers | `SequencesExt` |
| `MCEngine`, `MCLifecycle`, `MCTaskPool`, `MCWorkerQueue` | small definitions, agents, messages and symmetry for TLC | the module they check |
| `EngineProofs` | types, the history, the refinement of `EventLog` | `Engine`, `TLAPS` |
| `ControlProofs` | no lost wake-up, reachable phases, no spurious failure | `EngineProofs` |
| `LifecycleProofs` | the client's view: streams, cancellation, answers to agents | `Lifecycle`, `ControlProofs` |
| `SequentialProofs` | one task per action, the refinement of `Workflow` | `LifecycleProofs` |
| `TaskPoolProofs` | all properties of the pool | `TaskPool`, `TLAPS` |
| `ServerProofs` | all safety properties of the processes and calls | `PublicServer`, `TLAPS` |
| `RegistryProofs` | bounded staleness of the caches | `DefinitionRegistry`, `TLAPS` |
| `QueueProofs` | no result is lost, or twice with RabbitMQ | `WorkerQueue`, `TLAPS` |

`PublicServer` and `DefinitionRegistry` need no definitions for TLC and are
checked directly. Definitions whose comment begins with "A seeded bug" are not
part of a specification: each is the wrong version of the definition that follows
it, and `PROJECT.json` ("mutants") names the property that it breaks.

### EventStore, EventLog and Engine

Each goroutine is a record of the locals that survive between two statements:
the statement it executes next (`pc`), the function it is in (`mode`), the
process it lives in (`home`), and the snapshot it works with (`ver`, `len`,
`st`, `act`). An action executes one SQL statement of one goroutine together
with all the code up to the next statement. So `LoadInstance` is two actions
(row, then history), one round of the loop over a state's actions is two
(`CreateTask`, `RecordScheduled`), and `advanceFromState` is `RecordTransition`
and `UpdatePhase`, or `RecordCompleted` and `MarkCompleted`, or `MarkFailed`.
The decisions in between are the operators `Process`, `Advance` and `AfterLoad`.

- `AppendEvents(expected, e)` commits when the version is the expected one and
  the number is free, and is refused otherwise. In the engine a refused append
  is logged only, so the following statement runs in both cases; in
  `AppendStarted` it is returned to the caller.
- A signal is stored with sequence number 0 (`public_server.go:262` leaves the
  field at zero), and `queryHistory` reads numbers above its start only, so it
  moves the version but not the number of events. `signalled` stands for that row.
- `RestartOrchestrator` is a stop (orderly or not) followed by the start-up's
  recovery: a new worker for a RUNNING instance. Workers live in process groups
  of their own; any subset of those at work may survive.
- Failures: a statement that fails, a history read in part (`rows.Err()` is not
  looked at, `postgres.go:89-101`), a worker that cannot be forked or dies. They
  are counted by `faults`; `Reliable` says that there was none so far.
- A definition is a function from state names to type, number of actions,
  transition, end and whether the duration parses: what the parser lets through,
  malformed definitions included. Payloads, inputs, retries and agent types do
  not influence control and are left out. Times are left out: a pending timer
  may become due at any moment.
- PENDING and ASSIGNED tasks are one status, "open", since `CountPendingTasks`
  counts both; who holds a task is the matter of `TaskPool`.
- The goroutine that a result starts lives in the orchestrator. A result that a
  worker takes from RabbitMQ starts it in the worker, where it executes the same
  statements; a worker that dies with one is a failure.

`ImplementsEventLog` maps the log to `history` and its soundness to `Reliable`.

### Workflow and Lifecycle

`Lifecycle` adds the client's side of one instance to `Engine`: the entry of the
worker in the supervisor's map (`worker`), one CancelWorkflow (StopWorker, then
the status), a client of StreamWorkflowEvents that goes on from the last number
it got whenever the stream breaks, and `told`, the effect that SubmitTaskResult
returns before the workflow has been advanced. Every step of `Engine` is a step
of `Lifecycle`, except the restart.

`history` holds the numbered events. The row of a signal (number 0) is not in it,
and no stream ever sends it: `StreamComplete` speaks of the numbered events only.

`Workflow` is the status diagram of the repository's README (`README.md:206-219`),
one action per edge, with the sentences that say what an edge waits for: an
operation state is left when all its actions are resolved, a delay (WAITING) when
its timer has fired, an end state completes the instance, CancelWorkflow takes a
RUNNING instance, and COMPLETED, FAILED and CANCELED are final. The code has no
status WAITING: `DiagramStatus` derives it from an instance that is RUNNING in a
delay whose timer is stored. `ImplementsWorkflow` maps the resolved actions to the
rows of tasks of the phase and the elapsed delay to a fired timer that leads where
the phase leads. It holds where no two results race (a definition without parallel
actions, section 4) and up to the cancellation: `PastCancellation` names the two
kinds of step in which the code departs from the diagram. CancelWorkflow writes
CANCELED over any status (`public_server.go:234` does not look at it), so that an
instance that waits, or has completed while StopWorker was waiting, becomes
CANCELED; and what is left of a CANCELED instance goes on, which is the run
`LifecycleCancel`. `EngineTwoWinners` and `EngineLeftUndone` show what happens where
results race.

### TaskPool

A handler executes one call; each statement is a step (`GetPendingTasks` then
`AssignTask` then `Reply`; a change of the row, then `AppendTaskAudit`). `hands`
is what the agents believe: `<<a, t>>` from the moment a reply or a list tells
agent a of task t until it learns otherwise. A reply may be lost, an audit entry
may be dropped, and `Crash` ends every call and stream in progress. The constant `Ops` says which calls
are made, so that a run or a theorem can ask what holds for agents that only poll
or only claim. That results come from agents that believe to hold the task is an
assumption on the clients: the service checks nothing. Of a deadline its origin is
kept; ExtendTaskLease does not compare, so its deadline may be an earlier one. `WatchTask` is a loop of two reads (audit log, then status). The messages
of the service are sets of records with the fields that decide anything.

### Supervisor and PublicServer

A process is `boot` (SIGTERM ends it), `up`, `deaf` (it got SIGTERM, but
`Worker.Start` waits for a channel that only the deferred `Stop` closes,
`cmd/awm-worker/main.go:58-66`) or `dead`. StopWorker is four steps of its caller:
take the entry, send SIGTERM, wait for the exit or for ten seconds, and then write
the status. `monitorWorker` removes whatever entry its instance has. Every call has a
context that may end at any time, after which its statements fail. The
orchestrator boots, recovers, serves, is shut down (StopAll while calls are still
accepted, then GracefulStop, which waits for calls and streams) or crashes;
workers outlive it. An instance without tenant or definition id (DeployWorkflow
passes no tenant) gets a worker that exits for want of an argument: its `named` is
FALSE and it never leaves `boot` alive.

The engine is one action here (`EngineEnds`): what it does in detail is module
`Engine`.

GetInstance, ListInstances and ListWorkflows only read and are left out. SIGKILL is
one step with the death of the process (`ForceKill`): StopWorker does not wait after
it, but the process executes nothing more once the signal was sent.

### DefinitionRegistry

`Get` is three steps: the cache, the SELECT of the newest version, the write into
the cache. CreateWorkflowDefinition writes version 1 and, as a step of its own,
invalidates the cache of its process; UpdateWorkflowDefinition and
DeleteWorkflowDefinition tell no cache. Time is counted in ticks: `left` is the
rest of an entry's five minutes, `lag` the duration of a Get. A process has one Get
under way at a time; of several, each leaves an entry within the same bound.
`age` counts from the last write: under writes without a pause `BoundedStaleness`
says nothing. "Newest" is the highest version, as in the SELECT, so that a Create
(version 1) after an Update is not served, in the model as in the code.

### WorkerQueue

`handleTaskMessage` is parsing, reading the task, writing the result and the
acknowledgement. RabbitMQ is external: a durable queue, one unacknowledged
delivery per consumer, and return to the head on Nack with requeue or when the
consumer or its connection goes. A worker that dies takes its handler with it
(`ConsumerDies`). A lost connection does not (`ConnectionLost`): the handler goes on
with `context.Background()` and writes, while RabbitMQ delivers the message to
another worker; its Ack or Nack fails, the loop of Start ends because the channel of
deliveries is closed, and the process never consumes again. So two workers may
handle one message at the same time, and the result be written twice (a repeated
result in module `Engine`); what `ResultKept` says is that RabbitMQ never has it
twice and never loses it before it is written. What the started goroutine does next
is module `Engine` (`CompleteTask`, `FailTask`).

## 3. Runs

Passing runs:

| Run | Instance | Shows |
|---|---|---|
| `EngineRaces` | two parallel actions then one, 3 goroutines, 3 tasks, 1 repeated result or reopened task | `TypeOK`, `NoLostWakeup`, `NoSpuriousFailure` in every interleaving |
| `EngineRestart` | action, delay back to the start; 2 goroutines, 1 restart, 1 signal, 1 failure | `HistoryContiguous`, `NoLostWakeup`, `PhaseReachable`, `ImplementsEventLog` |
| `EngineEnds` | delay, action; 2 goroutines, 1 restart, fairness | `EventuallyEnds` |
| `LifecycleCalm` | four states with at most one action each, 2 goroutines, 1 failure or death of the worker, 1 cancellation | `ImplementsWorkflow`, `OneTaskPerAction`, `StreamComplete`, `NotForgotten`, `ToldCompletedIsTrue`, `LifecycleTypeOK` |
| `TaskPoolAll` | 2 agents, 1 task, 2 handlers, 2 audited calls, every call | `TypeOK`, `RowShape`, `AssigneeStable`, `ToldCompletedHasOutput` |
| `PublicServerProcesses` | 1 instance, 2 processes, 2 calls, 2 starts of the orchestrator, fairness | `TypeOK`, `NoWorkerEscapes`, `CancelEffective`, `ShutdownEnds`, `DeadEntryRemoved` |
| `DefinitionRegistryCaches` | 2 processes, 2 tenants, 2 texts, 2 rows, 2 versions, entries that live 2 ticks, Gets of up to 1 | `TypeOK`, `BoundedStaleness`, `EventuallyFresh` |
| `WorkerQueueResults` | 2 consumers, 2 good messages, a stray and a malformed one, 2 failures, lost connections or deaths | `TypeOK`, `ResultKept`, `EventuallyWritten` |

Runs that show a disagreement between code and documentation (each is a finding
in `PROJECT.json`, with the quoted line):

| Run | Property | What happens |
|---|---|---|
| `EngineTwoWinners` | `OneTaskPerAction` | two goroutines count zero open tasks and both advance; the refused append of one does not stop it, and the next state's tasks are created twice |
| `EngineLeftUndone` | `SuspendsUntilDone` | an agent resolves the first of two tasks before the second is created; the count of open tasks is zero, and the state is left |
| `TaskPoolTwoHolders` | `OneHolder` | two polls read the same task; the second assignment changes nothing, and both agents get it |
| `LifecycleCancel` | `NoTaskAfterCancel` | a goroutine of the orchestrator is between two statements when CancelWorkflow ends the worker and writes CANCELED; it goes on and creates the next state's tasks |

No definition is replaced in any cfg. Terminated workflows have no next step
once the bounds are used up, hence `CHECK_DEADLOCK FALSE` in all runs but
`DefinitionRegistryCaches`, where time always passes. Symmetry (goroutines, tasks,
timers, handlers) is used only in runs without fairness, for invariants and for
step properties that are symmetric in these sets.

**Bounds.** Two goroutines make every race of two statements; the third in
`EngineRaces` lets a late goroutine meet two that already collided. Task and
timer numbers are as large as the instance can use, or one execution of a state
waits (which the properties treat as a goroutine that will go on). In
`EngineEnds` two tasks and two timers are what one restart can lead to, so
nothing waits for a bound. One restart meets every point of a goroutine's life;
a second would meet states of the same shape. In the pool, two audited calls are
claim or submit followed by release, reassign or a second result; polls and plain
results are not bounded. In `PublicServerProcesses` a second process exists only
after a restart, where it meets one that outlived the first orchestrator; two
calls are a start and a stop, or two stops, of the same instance. In
`WorkerQueueResults` two failures put a message back twice, or put it back and
then lose its consumer or its connection, or lose both connections. Theorems that hold for all bounds are in section 4.

**Fairness.** In `EngineEnds`, `WF` of each goroutine's next statement is the Go
scheduler's and the database's promise that a statement returns; `WF` of the timer
service is its ticker; `WF(AgentStep)` is an assumption on the environment, that
agents resolve tasks. Nothing is assumed of signals, repeats, failures or
restarts. An agent that never answers stops a workflow for ever, in the code as
well: no code reads a task's deadline back. In `PublicServerProcesses`, `WF` of
`Step` says that calls in progress go on, the ten seconds of StopWorker included;
`Monitor`, `Recover`, `Serve`, `GracefulStop` and `Exit` are steps of goroutines
that wait for nothing else. No fairness is assumed of processes that exit, of
contexts that end or of agents: `ShutdownEnds` has as its premise that agents hang
up. In `DefinitionRegistryCaches` time passes and a Get that was begun goes on;
nobody has to begin one. In `WorkerQueueResults` a connected consumer gets
deliveries, and a handler goes on (RabbitMQ and the worker's loop); that there is a
connected one from time to time (the code does not reconnect: it takes a new
worker), and that no message names a missing task, are premises of
`EventuallyWritten`.

## 4. Proofs

Every safety property that a passing run checks is also a theorem. The theorems
hold for every definition and any number of goroutines, tasks, timers, agents,
processes, calls, messages, signals, repeats, restarts and failures; those that
need more of the definition or of the calls (`ToldTheTruth`, the theorems of
`SequentialProofs`, `ClaimersHoldAlone`) say so in a hypothesis. They use only the
named assumptions on constants (`StoreAssumption`, `DefAssumption`,
`BoundAssumption`, `PoolAssumption`, `SupervisorAssumption`, `BootAssumption`,
`RegistryAssumption`, `QueueAssumption`): what a definition looks like after
parsing, that bounds are numbers (that a row can have version 1, that a cache entry
lives at least a tick), and that null values are no agents, states, processes or
results.

`EngineProofs`:

- `TypeCorrect`: `Spec => []TypeOK`. Not inductive alone: where `Def[g[p].st]`
  is applied, `st` must be a state. `TypeInv` adds `StateKnown`.
- `HistoryIsContiguous`: `Spec => []HistoryContiguous`. `HistoryInv` adds what
  every goroutine between the load and its append knows (`Snapshot`): its
  version is not newer than the row's, and if it is the row's, its `len` is the
  number of events and it is in the first round of the loop. This holds because
  the row is read before the history: an append in between leaves a version that
  is too old, never one that is too new. It is also why only the first
  append of a state can commit.
- `HistoryIsLog`: `Spec => ImplementsEventLog`, the refinement. Every step leaves
  the history or extends it by an event whose number is free (`Extended`), which is
  the step of the abstract log, also with failures and truncated reads; `HistoryContiguous` in the next state gives the
  number that the event must have while nothing failed.

`ControlProofs`:

- `WakeupNotLost`: `Spec => []NoLostWakeup`. By cases over the actions: a step
  that ends a goroutine's obligation leaves an open task, an unfired timer or
  another goroutine with one, or closes the instance. `ControlInv` adds the
  facts about control this needs: nothing exists before the row, a goroutine of
  `SignalWorkflow` never enters the engine, and the loop over the actions starts
  at the first.
- `PhaseIsReachable`: `Spec => []PhaseReachable`. What is written into the phase
  was read from it, perhaps long before, by a goroutine or into a timer:
  `SetInv(S)` says that row, snapshots and timers name members of S only, and is
  inductive for every S closed under transitions.
- `RacesDoNotFail`: `Spec => []NoSpuriousFailure`. For a well-formed definition
  the states are a closed set, so findState never fails; `FailureInv` adds that no
  goroutine is at `markFailed`.

`LifecycleProofs`: a step of `Lifecycle` is a step of `Engine`, leaves the engine
alone, or is an `OutsideStep` (goroutines end, the status becomes CANCELED). The
invariants above survive all three (`EngineInv`), and `LifecycleInv` adds one part
for each property.

- `LifecycleTypeCorrect`: `LSpec => []LifecycleTypeOK`.
- `StreamIsComplete`: `LSpec => []StreamComplete`. `StreamInv`: a stream in progress
  holds the rows that follow what was received, up to some row. With
  `HistoryContiguous` a row's number is its position, so the smallest number is the
  next row, and asking for what follows the last number asks for the rest.
- `InstanceNotForgotten`: `LSpec => []NotForgotten`. `CancelInv`: while no
  cancellation is under way, the argument of `WakeupNotLost` goes through; an
  accepted one left a status other than RUNNING, which stays.
- `ToldTheTruth`: `WellFormed => (LSpec => []ToldCompletedIsTrue)`. A goroutine that
  is about to complete the instance is moved by nobody else and is at
  `recordCompleted` or `markCompleted` until it has; afterwards no FAILED
  (`NoSpuriousFailure`) and no DEGRADED (`DegradedInv`: it takes a failed fork)
  replaces COMPLETED. Without the hypothesis it is false: a late result can complete
  the instance in a delay marked `end`, whose timer then leads to an unknown state.

`SequentialProofs`: for definitions that are `Sequential` (well formed, at most one
action per state, no delay marked `end`, an order in which the states follow each
other) and no repeated results. One action per state is what `EngineTwoWinners`
shows to be necessary; a cycle or a repeated result executes a state twice as
well. `LongDef` of run `LifecycleCalm` is such a definition.

- `OneTaskForEachAction`: `Sequential => (LSpec => []OneTaskPerAction)`.
- `EngineExecutesWorkflow`: `Sequential => (LSpec => ImplementsWorkflow)`, the
  refinement up to the cancellation, step by step: most statements are stutters,
  `UpdatePhase` and `FiredPhase` are Move, results are Work, a stored timer is
  Schedule and one that fires is Fire.

`SeqInv` has four parts. `TokenInv`: a goroutine that works for the instance, an
open task and an unfired timer exclude each other, and there is one of each at most.
`StatusInv`: where there is one, the instance is RUNNING or CANCELED. `PlaceInv`:
whoever has the token works on the current phase, and leaves it only when the
abstract workflow is `Ready` to. `MarkInv`: all tasks and fired timers belong to
states at or before the phase in the order; hence a phase that is entered has
neither, and its first task is its only one.

`TaskPoolProofs`: every step executes at most one statement on the tasks table.
`RowMove` lists these with their conditions.

- `PoolTypeCorrect` and `RowsKeepShape`: `Spec => []TypeOK` and `[]RowShape`.
- `AssigneesAreStable`: `Spec => AssigneeStable`, an action property.
- `ToldCompletedIsReadable`: `Spec => []ToldCompletedHasOutput`. `OutputInv` adds
  that a call about to announce a completion has written the output, and that a
  stream has sent no more than the log holds.
- `ClaimersHoldAlone`: `ClaimsOnly => (Spec => []OneHolder)`; `ClaimsOnly` excludes
  PollTask and Connect, for which `TaskPoolTwoHolders` refutes it, and ReleaseTask
  and ReassignTask, whose lost replies leave the task in two hands. `HolderInv`: whoever
  holds a task is the agent of its row, and so is whoever is about to be told.

`ServerProofs`: one orchestrator forks at most one worker per instance.

- `ServerTypeCorrect`, `WorkersDoNotEscape`, `CancellationIsEffective`: `Spec`
  implies `[]TypeOK`, `[]NoWorkerEscapes`, `[]CancelEffective`. `ServerInv` adds: whoever may still fork a
  worker of an instance (a start before its fork, a start-up before its recovery)
  is the only one, and no process of that instance is monitored (`ForkInv`); hence
  two monitored processes are of different instances and an entry is its own
  instance's (`MapInv`), so that `monitorWorker` removes no entry but that of its
  process; and a cancellation past its wait has seen the one process die
  (`CancelInv`).

`RegistryProofs`:

- `RegistryTypeCorrect`, `StalenessIsBounded`: `Spec` implies `[]TypeOK` and
  `[]BoundedStaleness`. `FreshInv` measures the age of an outdated text where it
  comes from: a Get read it no longer ago than the Get lasts, and a cache entry's
  age and the rest of its life are at most the whole life and the longest Get.

`QueueProofs`:

- `QueueTypeCorrect`, `ResultsAreKept`: `Spec` implies `[]TypeOK` and `[]ResultKept`.
  `QueueInv` adds that only published messages are about (publishing makes no copy),
  that a consumer has a delivery exactly while it handles it, and that what it is
  about to acknowledge was written. The argument is about what RabbitMQ waits for
  (`Unacked`), not about what handlers have in hand: one without connection has a
  delivery that is somebody else's by now.

Only model-checked: everything under fairness (`EventuallyEnds`, `ShutdownEnds`,
`DeadEntryRemoved`, `EventuallyFresh`, `EventuallyWritten`), which is beyond the
prover.

## 5. What is not modelled

- Leases (`AcquireLease`, `RenewLease`) and `RecoverIncompleteWorkflows` have no
  caller. `publishTask` is never reached: `SetRabbitMQChannel` has no caller.
- What `ParseDuration` computes: int64 nanoseconds are beyond TLC's 32-bit
  integers. A timer of module `Engine` may be due at any moment, so every property
  holds whatever is computed.
- Reading YAML and JSON; of the parser only which definitions pass.
- Listing of tasks, instances, workflows and definitions, GetInstance, GetTask,
  GetTaskHistory, GetWorkflowState, health check: they only read, and say nothing
  that another part relies on. How they convert statuses is a table.
- Responses, encoding and descriptors in the generated code, configuration,
  logging, listeners.
- Two goroutines that send on one gRPC stream at the same time (a second Register
  on a Connect stream): what happens then is the library's.

Other disagreements seen while modelling, for which no run is kept:

- `engine.go`: a goroutine that counted zero can load the
  instance when it is already in a delay, and advance out of it; after one failed
  append and one that commits with a number too high, the number of events plus one
  is always taken and no further event is recorded. After a restart the new worker
  executes the current operation state from its beginning and creates its tasks
  again. Only the first task of a state gets its `TaskScheduled` event; a refused
  `StateTransitioned` is not in the history although the phase moved.
- `timer/service.go`: a timer is marked as fired before anything happened, so a
  stop in between makes that timer trigger nothing (the recovered worker schedules
  another one, which is why `EventuallyEnds` holds).
- `orchestrator_server.go`: CompleteTask and ReassignTask change resolved tasks;
  CompleteTask and FailTask write no audit entry, and a WatchTask stream can end
  before the entry of the resolution is written; SubmitTaskFailure always reports
  that the workflow failed, whatever the engine does next.
- `public_server.go`: the idempotency key of a start is ignored; a CANCELED
  instance is shown as STOPPED and not found among the STOPPED; an update does
  not keep the prior version of a definition (`public_grpc.pb.go:48`), and a delete
  does not look for active instances (`public_grpc.pb.go:50`).
  CancelWorkflow overwrites COMPLETED and FAILED, which the README's diagram has as
  final, and an instance in a delay, which it does not let be cancelled.
- `supervisor.go`: no worker is ever restarted, whatever `maxRestarts` says; the
  README's "can restart it up to three times" (`README.md:200`) has no code.
- `worker.go`: after a lost connection a worker stays alive and consumes nothing.

## 6. Plan

1. What holds of definitions with parallel actions and repeated results: a bound on
   the tasks of an action, for instance by the number of results, and which part of
   `Workflow` is still implemented.
2. What a restart leaves of `ImplementsWorkflow`: `Lifecycle` has none.
3. What becomes of an instance past its cancellation, where `ImplementsWorkflow`
   says nothing.
