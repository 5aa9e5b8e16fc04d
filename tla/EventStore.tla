------------------------------ MODULE EventStore ------------------------------
(***************************************************************************)
(* The event-sourced part of the PostgreSQL store: one workflow instance   *)
(* (a row of workflow_instances) and its event history (the rows of        *)
(* workflow_history that carry its id).                                     *)
(*                                                                         *)
(* Every operator below is one SQL statement or one transaction: PostgreSQL *)
(* makes it atomic, and callers interleave between two of them.             *)
(*                                                                         *)
(* A statement can fail (connection lost, context cancelled).  Failures are *)
(* counted in `faults' and bounded by MaxFaults, so that a property can say *)
(* what holds as long as nothing failed.                                    *)
(***************************************************************************)
EXTENDS Integers, Sequences, FiniteSets

CONSTANTS
    Names,       \* strings that can stand in current_phase
    NoState,     \* the empty string
    MaxFaults    \* bound on failed statements and dead worker processes

ASSUME StoreAssumption == NoState \in Names /\ MaxFaults \in Nat

VARIABLES
    status,      \* workflow_instances.status, "NONE" before the row exists
    phase,       \* workflow_instances.current_phase
    version,     \* workflow_instances.version
    history,     \* rows of workflow_history with sequence_num > 0, in commit order
    signalled,   \* whether the row with sequence_num = 0 exists
    faults       \* failures so far

rowVars == <<status, phase>>
logVars == <<version, history, signalled>>
storeVars == <<status, phase, version, history, signalled, faults>>

Statuses == {"NONE", "RUNNING", "DEGRADED", "COMPLETED", "FAILED", "CANCELED"}

EventTypes == {"WorkflowStarted", "TaskScheduled", "StateTransitioned",
               "WorkflowCompleted", "TimerScheduled", "TimerFired"}

\* `state' abstracts the payload to the state name it carries.
Events == [seq : Nat, type : EventTypes, state : Names]

StoreTypeOK ==
    /\ status \in Statuses
    /\ phase \in Names
    /\ version \in Nat
    /\ history \in Seq(Events)
    /\ signalled \in BOOLEAN
    /\ faults \in 0 .. MaxFaults

StoreInit ==
    /\ status = "NONE"
    /\ phase = NoState
    /\ version = 0
    /\ history = << >>
    /\ signalled = FALSE
    /\ faults = 0

-------------------------------------------------------------------------------

Fault == faults < MaxFaults /\ faults' = faults + 1

Reliable == faults = 0

\* The row is inserted with version 0, which `version' is until then.
CreateWorkflowInstance(start) ==
    /\ status = "NONE"
    /\ status' = "RUNNING"
    /\ phase' = start
    /\ UNCHANGED <<logVars, faults>>

(* UPDATE ... SET status / current_phase: neither looks at the version, at  *)
(* the old status or at the old phase.                                      *)
UpdateWorkflowStatus(s) == status' = s /\ UNCHANGED <<phase, logVars, faults>>

UpdateCurrentPhase(n) == phase' = n /\ UNCHANGED <<status, logVars, faults>>

\* A seeded bug: no UNIQUE constraint on the numbers.
RecordableAnyNumber(expected, seq) == version = expected

(* The UPDATE of AppendEvents finds the row only at the expected version,   *)
(* and UNIQUE (workflow_instance_id, sequence_num) rejects a used number.   *)
Recordable(expected, seq) ==
    /\ version = expected
    /\ IF seq = 0 THEN ~signalled
                  ELSE \A i \in DOMAIN history : history[i].seq # seq

AppendCommitted(expected, e) ==
    /\ Recordable(expected, e.seq)
    /\ version' = version + 1
    /\ history' = Append(history, e)
    /\ UNCHANGED <<rowVars, signalled, faults>>

(* ErrConcurrencyConflict, a UNIQUE violation or a failed statement: the    *)
(* transaction is rolled back.                                              *)
AppendRejected(expected, seq) ==
    /\ \/ ~Recordable(expected, seq) /\ UNCHANGED faults
       \/ Fault
    /\ UNCHANGED <<rowVars, logVars>>

AppendEvents(expected, e) ==
    \/ AppendCommitted(expected, e)
    \/ AppendRejected(expected, e.seq)

(* SignalWorkflow leaves SequenceNum at its zero value.                     *)
AppendSignal(expected) ==
    \/ /\ Recordable(expected, 0)
       /\ version' = version + 1
       /\ signalled' = TRUE
       /\ UNCHANGED <<rowVars, history, faults>>
    \/ AppendRejected(expected, 0)
===============================================================================
