------------------------------- MODULE MCEngine -------------------------------
(* Small workflow definitions and bounds for model checking module Engine.  *)
EXTENDS Engine, TLC

CONSTANTS s1, s2, s3, s4, g1, g2, g3, t1, t2, t3, t4, d1, d2

Op(n, next) ==
    [type |-> "operation", actions |-> n, transition |-> next, end |-> FALSE, valid |-> TRUE]
OpEnd(n) ==
    [type |-> "operation", actions |-> n, transition |-> NoState, end |-> TRUE, valid |-> TRUE]
Delay(next, valid) ==
    [type |-> "delay", actions |-> 0, transition |-> next, end |-> FALSE, valid |-> valid]

\* One action, a pass-through state, a delay, one last action.
LongStates == {s1, s2, s3, s4}
LongDef == s1 :> Op(1, s2) @@ s2 :> Op(0, s3) @@ s3 :> Delay(s4, TRUE) @@ s4 :> OpEnd(1)

\* Two parallel actions, then an end state with one.
ShortStates == {s1, s2}
ForkDef == s1 :> Op(2, s2) @@ s2 :> OpEnd(1)

\* A delay first, then an end state with one action.
DelayFirstDef == s1 :> Delay(s2, TRUE) @@ s2 :> OpEnd(1)

\* Not well formed: a delay without a transition, which returns to the start.
LoopDef == s1 :> Op(1, s2) @@ s2 :> Delay(NoState, TRUE)

AllNames == {s1, s2, s3, s4, NoState}

Symmetric == Permutations(Goroutines) \cup Permutations(TaskIds) \cup Permutations(TimerIds)
===============================================================================
