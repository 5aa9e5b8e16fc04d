------------------------------- MODULE Workflow -------------------------------
(***************************************************************************)
(* What the repository's README promises of the execution of a workflow,    *)
(* without goroutines, events or tables: its status diagram, with one       *)
(* action per edge, and what the edges wait for: "An operation state        *)
(* creates one task per action and suspends until all tasks are complete",  *)
(* "A delay state schedules a durable timer and suspends execution until it *)
(* fires".  COMPLETED, FAILED and CANCELED are terminal.                    *)
(***************************************************************************)
EXTENDS Integers

CONSTANTS States, Start, Def, NoState

VARIABLES
    status,
    phase,
    finished,   \* the actions of the phase that are resolved
    elapsed     \* whether the delay of the phase is over

wvars == <<status, phase, finished, elapsed>>

WInit ==
    /\ status = "NONE"
    /\ phase = NoState
    /\ finished = {}
    /\ elapsed = FALSE

\* An edge of the diagram that stays in the phase.
Edge(from, to) ==
    /\ status = from
    /\ status' = to
    /\ UNCHANGED <<phase, finished, elapsed>>

Delay == phase \in States /\ Def[phase].type = "delay"

\* The phase has nothing left to wait for.
Ready ==
    /\ phase \in States
    /\ IF Delay THEN elapsed ELSE finished = 0 .. Def[phase].actions - 1

\* StartWorkflow
Begin ==
    /\ status = "NONE"
    /\ status' = "RUNNING"
    /\ phase' = Start
    /\ UNCHANGED <<finished, elapsed>>

\* Results arrive.
Work ==
    /\ status = "RUNNING"
    /\ ~Delay
    /\ finished \subseteq finished'
    /\ UNCHANGED <<status, phase, elapsed>>

\* delay timer scheduled
Schedule == Delay /\ ~elapsed /\ Edge("RUNNING", "WAITING")

\* The timer of a delay fires, ...
Fire ==
    /\ status = "WAITING"
    /\ elapsed' = TRUE
    /\ UNCHANGED <<status, phase, finished>>

\* ... and then, or when all tasks are complete, the next state is entered.
Move ==
    /\ status = IF Delay THEN "WAITING" ELSE "RUNNING"
    /\ Ready
    /\ ~Def[phase].end
    /\ status' = "RUNNING"
    /\ phase' = Def[phase].transition
    /\ finished' = {} /\ elapsed' = FALSE

\* end state reached
Complete == Ready /\ Def[phase].end /\ Edge("RUNNING", "COMPLETED")

\* An unrecoverable error; DEGRADED, a worker that was not forked, is not in the diagram.
Break == Edge("RUNNING", "FAILED") \/ Edge("RUNNING", "DEGRADED")

\* CancelWorkflow called
Cancel == Edge("RUNNING", "CANCELED")

WNext == Begin \/ Work \/ Schedule \/ Fire \/ Move \/ Complete \/ Break \/ Cancel

WSpec == WInit /\ [][WNext]_wvars
===============================================================================
