------------------------------- MODULE EventLog -------------------------------
(***************************************************************************)
(* What the repository promises of an instance's history, apart from how   *)
(* AppendEvents keeps the promise: a log that only grows, one event at a    *)
(* time, under a number no other event has.  As long as the log is sound    *)
(* the number is the event's position, so that whoever remembers the number *)
(* of the last event it read can ask for the rest.  A failed statement may  *)
(* end the soundness, not the rest.                                         *)
(***************************************************************************)
EXTENDS Integers, Sequences

CONSTANT Entries   \* the events; each has a field seq

VARIABLES
    log,    \* the events in the order in which they were committed
    sound   \* no statement has failed so far

Unused(n) == \A i \in DOMAIN log : log[i].seq # n

LogInit == log = << >> /\ sound = TRUE

(* The log grows by one event.  The event is named through log', so that    *)
(* the set of events may be infinite.                                       *)
Extend ==
    /\ Len(log') = Len(log) + 1
    /\ LET e == log'[Len(log) + 1]
       IN /\ e \in Entries
          /\ Unused(e.seq)
          /\ sound => e.seq = Len(log) + 1
          /\ log' = Append(log, e)
    /\ UNCHANGED sound

\* A statement fails, whether or not it was an append.
Fail == sound' = FALSE /\ UNCHANGED log

LogNext == Extend \/ Fail

LogSpec == LogInit /\ [][LogNext]_<<log, sound>>
===============================================================================
