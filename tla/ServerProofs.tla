----------------------------- MODULE ServerProofs ------------------------------
(***************************************************************************)
(* The supervisor under concurrent calls, restarts and crashes of the       *)
(* orchestrator: NoWorkerEscapes and CancelEffective of module PublicServer *)
(* for any number of instances, processes and calls.                        *)
(*                                                                         *)
(* The argument: one orchestrator forks at most one worker per instance.    *)
(* Who may still fork one (a StartWorkflow before its fork, a start-up      *)
(* before its recovery) is the only one who may, and no process of the      *)
(* instance is monitored (ForkInv).  Hence monitorWorker, which removes     *)
(* whatever entry its instance has, removes its own (MapInv), and a         *)
(* cancellation that has seen one process die has seen all (CancelInv).     *)
(***************************************************************************)
EXTENDS PublicServer, TLAPS

Forking(c) == h[c].pc \in {"append", "fork"}

Canceling(c) == h[c].becomes = "CANCELED"

\* No process of instance i is waited for by this orchestrator.
Unmonitored(i) == \A p \in monitored : proc[p].inst # i

\* The life of the orchestrator.
OrchInv ==
    /\ orch \in {"down", "recovering"} => \A c \in Handlers : h[c].pc = "idle"
    /\ orch # "recovering" => todo = {}
    /\ orch = "down" => monitored = {}

\* The map and the goroutines of monitorWorker.
MapInv ==
    /\ \A i \in Instances :
          workers[i] # NoPid => workers[i] \in monitored /\ proc[workers[i]].inst = i
    /\ \A p \in monitored : proc[p].state # "free" /\ status[proc[p].inst] # "NONE"
    /\ \A p, q \in monitored : proc[p].inst = proc[q].inst => p = q

\* What a call in progress holds.
CallInv ==
    \A c \in Handlers :
        /\ h[c].pc \in {"terminate", "wait", "update"} => h[c].becomes # "RUNNING"
        /\ h[c].pc \in {"terminate", "wait"} =>
              h[c].pid \in Pids /\ proc[h[c].pid].state # "free"

\* Whoever may still fork a worker of an instance.
ForkInv ==
    /\ \A c \in Handlers : Forking(c) =>
          /\ status[h[c].inst] # "NONE"
          /\ h[c].inst \notin canceled
          /\ Unmonitored(h[c].inst)
          /\ \A d \in Handlers :
                (Forking(d) \/ Canceling(d)) /\ h[d].inst = h[c].inst => d = c
    /\ \A i \in todo : status[i] # "NONE" /\ i \notin canceled /\ Unmonitored(i)

\* A CancelWorkflow in progress and one that was accepted.
CancelInv ==
    /\ \A c \in Handlers : Canceling(c) =>
          /\ h[c].pc \in {"terminate", "wait", "update"}
          /\ h[c].pid \in Pids /\ proc[h[c].pid].state # "free"
          /\ status[h[c].inst] # "NONE"
          /\ \A p \in monitored : proc[p].inst = h[c].inst => p = h[c].pid
          /\ h[c].pc = "update" => proc[h[c].pid].state = "dead"
    /\ \A i \in canceled : status[i] \notin {"NONE", "RUNNING"} /\ i \notin todo
    /\ \A i \in canceled : \A p \in monitored : proc[p].inst = i => ~Alive(p)

WorkerInv == MapInv /\ CallInv /\ ForkInv /\ CancelInv /\ NoWorkerEscapes

ServerInv == TypeOK /\ OrchInv /\ WorkerInv

-------------------------------------------------------------------------------
(* What the moves of a call and of a process do, field by field.            *)

OtherCalls(c) == \A d \in Handlers \ {c} : h'[d] = h[d]

\* The types that the lemmas below need.
LEMMA Types ==
  ASSUME TypeOK
  PROVE  /\ monitored \subseteq Pids /\ proc \in [Pids -> Processes]
         /\ h \in [Handlers -> Calls] /\ canceled \subseteq Instances /\ todo \subseteq Instances
         /\ workers \in [Instances -> Pids \cup {NoPid}]
         /\ status \in [Instances -> Statuses]
         /\ \A p \in Pids : proc[p].inst \in Instances
         /\ \A c \in Handlers : h[c].inst \in Instances
  BY DEF TypeOK, SupervisorTypeOK, Processes, Calls

\* An idle handler; there is an instance whenever there is a handler.
LEMMA IdleCallFields ==
  ASSUME TypeOK, NEW c \in Handlers
  PROVE  IdleCall \in Calls /\ IdleCall.pc = "idle" /\ IdleCall.becomes = "RUNNING"
<1>1. \E i \in Instances : TRUE
  BY DEF TypeOK, Calls
<1>2. (CHOOSE i \in Instances : TRUE) \in Instances
  BY <1>1
<1> QED BY <1>2 DEF IdleCall, Calls

\* Goto changes the place in the handler only.
LEMMA GotoEffect ==
  ASSUME TypeOK, NEW c \in Handlers, Goto(c, "fork") \/ Goto(c, "degrade") \/ Goto(c, "wait")
                                     \/ Goto(c, "update")
  PROVE  /\ h' \in [Handlers -> Calls] /\ OtherCalls(c)
         /\ h'[c].inst = h[c].inst /\ h'[c].pid = h[c].pid /\ h'[c].becomes = h[c].becomes
<1>1. PICK l \in {"fork", "degrade", "wait", "update"} : h' = [h EXCEPT ![c].pc = l]
  BY DEF Goto
<1>2. h \in [Handlers -> Calls] /\ h[c] \in Calls
  BY DEF TypeOK
<1>3. [h[c] EXCEPT !.pc = l] \in Calls
  BY <1>1, <1>2 DEF Calls
<1> QED BY <1>1, <1>2, <1>3 DEF OtherCalls, Calls

\* Where it goes.
LEMMA GotoPlace ==
  ASSUME TypeOK, NEW c \in Handlers, NEW l, Goto(c, l)
  PROVE  h'[c].pc = l
  BY DEF TypeOK, Goto, Calls

\* A handler that returns is idle.
LEMMA ReturnEffect ==
  ASSUME TypeOK, NEW c \in Handlers, Return(c)
  PROVE  h' \in [Handlers -> Calls] /\ h'[c] = IdleCall /\ OtherCalls(c)
  BY IdleCallFields DEF TypeOK, Return, OtherCalls

\* A handler that begins was idle.
LEMMA HandleEffect ==
  ASSUME TypeOK, NEW c \in Handlers, NEW l \in {"append", "terminate", "update"},
         NEW i \in Instances, NEW pid \in Pids \cup {NoPid},
         NEW s \in {"RUNNING", "CANCELED", "STOPPED", "ARCHIVED"}, Handle(c, l, i, pid, s)
  PROVE  /\ h' \in [Handlers -> Calls] /\ OtherCalls(c) /\ h[c].pc = "idle" /\ Serving
         /\ h'[c].pc = l /\ h'[c].inst = i /\ h'[c].pid = pid /\ h'[c].becomes = s
<1> DEFINE r == [pc |-> l, inst |-> i, pid |-> pid, becomes |-> s, ctx |-> TRUE]
<1>1. r \in Calls
  BY DEF Calls
<1>2. h \in [Handlers -> Calls] /\ h' = [h EXCEPT ![c] = r]
  BY DEF TypeOK, Handle
<1>3. h' \in [Handlers -> Calls] /\ OtherCalls(c) /\ h'[c] = r
  BY <1>1, <1>2 DEF OtherCalls
<1> QED BY <1>3 DEF Handle, At

(* What may happen to a process that exists: it gets ready or comes to its  *)
(* end, and never comes back.                                               *)
ProcMove ==
    \A p \in Pids :
        /\ proc'[p].inst = proc[p].inst
        /\ proc'[p].state = "free" <=> proc[p].state = "free"
        /\ proc[p].state = "dead" => proc'[p].state = "dead"
        /\ proc'[p].state \in {"boot", "up"} => proc[p].state \in {"boot", "up"}
        /\ proc'[p].state = "deaf" => proc[p].state \in {"up", "deaf"}

\* Without a change of the processes there is nothing to show.
LEMMA ProcStays ==
  ASSUME TypeOK, UNCHANGED proc
  PROVE  ProcMove
  BY DEF TypeOK, Processes, ProcMove

\* SIGTERM, to the process of a call.
LEMMA TerminateEffect ==
  ASSUME TypeOK, NEW p \in Pids, Terminate(p)
  PROVE  /\ proc' \in [Pids -> Processes] /\ ProcMove
         /\ proc'[p].state \notin {"boot", "up"}
<1>1. proc \in [Pids -> Processes] /\ proc[p] \in Processes
  BY DEF TypeOK, SupervisorTypeOK
<1>2. /\ Terminated(proc[p]) \in Processes /\ Terminated(proc[p]).inst = proc[p].inst
      /\ Terminated(proc[p]).state = IF proc[p].state = "boot" THEN "dead"
                                     ELSE IF proc[p].state = "up" THEN "deaf" ELSE proc[p].state
  BY <1>1 DEF Processes, Terminated
<1>3. proc'[p] = Terminated(proc[p]) /\ \A q \in Pids \ {p} : proc'[q] = proc[q]
  BY <1>1 DEF Terminate
<1>4. proc' \in [Pids -> Processes]
  BY <1>1, <1>2 DEF Terminate
<1> QED BY <1>1, <1>2, <1>3, <1>4 DEF ProcMove, Processes

\* The end of a process that was forked.
LEMMA EndEffect ==
  ASSUME TypeOK, NEW p \in Pids, proc[p].state # "free", proc' = [proc EXCEPT ![p].state = "dead"]
  PROVE  proc' \in [Pids -> Processes] /\ ProcMove /\ proc'[p].state = "dead"
<1>1. proc \in [Pids -> Processes] /\ proc[p] \in Processes
  BY DEF TypeOK, SupervisorTypeOK
<1>2. /\ proc' \in [Pids -> Processes] /\ proc'[p].state = "dead" /\ proc'[p].inst = proc[p].inst
      /\ \A q \in Pids \ {p} : proc'[q] = proc[q]
  BY <1>1 DEF Processes
<1> QED BY <1>1, <1>2 DEF ProcMove, Processes

\* A worker that installs its handler.
LEMMA ReadyEffect ==
  ASSUME TypeOK, NEW p \in Pids, WorkerReady(p)
  PROVE  proc' \in [Pids -> Processes] /\ ProcMove
<1>1. proc \in [Pids -> Processes] /\ proc[p] \in Processes /\ proc[p].state = "boot"
  BY DEF TypeOK, SupervisorTypeOK, WorkerReady
<1>2. /\ proc' \in [Pids -> Processes] /\ proc'[p].state = "up" /\ proc'[p].inst = proc[p].inst
      /\ \A q \in Pids \ {p} : proc'[q] = proc[q]
  BY <1>1 DEF Processes, WorkerReady
<1> QED BY <1>1, <1>2 DEF ProcMove, Processes

(* What may happen to the status of a row that exists.                      *)
StatusMove ==
    \A i \in Instances :
        /\ status[i] # "NONE" => status'[i] # "NONE"
        /\ status'[i] = "RUNNING" => status[i] = "RUNNING"

\* An UPDATE to any other status than RUNNING.
LEMMA UpdatedEffect ==
  ASSUME TypeOK, NEW c \in Handlers, NEW s \in Statuses \ {"NONE", "RUNNING"},
         status' = Updated(c, s)
  PROVE  status' \in [Instances -> Statuses] /\ StatusMove
  BY DEF TypeOK, Updated, StatusMove, Calls

-------------------------------------------------------------------------------
(* Steps that fork nothing and take no entry.                               *)

\* A call goes on, or it returns from a place where it holds no process.
CallMove(c) ==
    \/ /\ h[c].pc # "terminate" /\ h'[c].pc = "idle" /\ h'[c].becomes = "RUNNING"
    \/ /\ h'[c].inst = h[c].inst /\ h'[c].pid = h[c].pid /\ h'[c].becomes = h[c].becomes
       /\ \/ h'[c].pc = h[c].pc
          \/ h[c].pc = "append" /\ h'[c].pc = "fork"
          \/ h[c].pc = "fork" /\ h'[c].pc = "degrade"
          \/ /\ h[c].pc = "terminate" /\ h'[c].pc = "wait"
             /\ proc'[h[c].pid].state \notin {"boot", "up"}
          \/ /\ h[c].pc = "wait" /\ h'[c].pc = "update"
             /\ proc'[h[c].pid].state = "dead"
    \/ /\ h[c].pc = "idle" /\ h'[c].pc = "update" /\ h'[c].becomes \notin {"RUNNING", "CANCELED"}

\* An entry of the map goes once its process was signalled or is dead.
MapMove ==
    \A i \in Instances :
        \/ workers'[i] = workers[i] /\ (workers[i] # NoPid => workers[i] \in monitored')
        \/ /\ workers'[i] = NoPid
           /\ workers[i] # NoPid => proc'[workers[i]].state \notin {"boot", "up"}

\* An instance whose cancellation is accepted has ended and stays so.
CancelMove ==
    /\ canceled \subseteq canceled' /\ canceled' \subseteq Instances
    /\ \A i \in canceled' \ canceled :
          /\ status'[i] \notin {"NONE", "RUNNING"} /\ i \notin todo
          /\ \A c \in Handlers : Forking(c) => h[c].inst # i
          /\ \A p \in monitored : proc[p].inst = i => proc[p].state = "dead"

\* WorkerInv survives such a step, whatever processes and rows do meanwhile.
LEMMA CalmStep ==
  ASSUME TypeOK, WorkerInv, ProcMove, StatusMove, \A c \in Handlers : CallMove(c),
         MapMove, CancelMove, monitored' \subseteq monitored, todo' \subseteq todo
  PROVE  WorkerInv'
<1>t. /\ monitored \subseteq Pids /\ proc \in [Pids -> Processes]
      /\ h \in [Handlers -> Calls] /\ canceled \subseteq Instances /\ todo \subseteq Instances
      /\ workers \in [Instances -> Pids \cup {NoPid}]
      /\ \A p \in Pids : proc[p].inst \in Instances
      /\ \A c \in Handlers : h[c].inst \in Instances
  BY Types
<1>p. \A p \in Pids :
        /\ proc'[p].inst = proc[p].inst
        /\ proc'[p].state = "free" <=> proc[p].state = "free"
        /\ proc[p].state = "dead" => proc'[p].state = "dead"
        /\ proc'[p].state \in {"boot", "up"} => proc[p].state \in {"boot", "up"}
        /\ Alive(p)' => Alive(p)
  BY DEF ProcMove, Alive
<1>s. \A i \in Instances : /\ status[i] # "NONE" => status'[i] # "NONE"
                           /\ status'[i] = "RUNNING" => status[i] = "RUNNING"
  BY DEF StatusMove
<1>f. \A c \in Handlers : /\ Forking(c)' => Forking(c) /\ h'[c].inst = h[c].inst
                          /\ Canceling(c)' => /\ Canceling(c) /\ h'[c].inst = h[c].inst
                                              /\ h'[c].pid = h[c].pid
  BY DEF CallMove, Forking, Canceling
<1>u. \A i \in Instances : Unmonitored(i) => Unmonitored(i)'
  BY <1>t, <1>p DEF Unmonitored
<1>1. MapInv'
  <2>1. \A i \in Instances :
          workers'[i] # NoPid => workers'[i] \in monitored' /\ proc'[workers'[i]].inst = i
    BY <1>t, <1>p DEF WorkerInv, MapInv, MapMove
  <2>2. \A p \in monitored' : proc'[p].state # "free" /\ status'[proc'[p].inst] # "NONE"
    BY <1>t, <1>p, <1>s DEF WorkerInv, MapInv
  <2>3. \A p, q \in monitored' : proc'[p].inst = proc'[q].inst => p = q
    BY <1>t, <1>p DEF WorkerInv, MapInv
  <2> QED BY <2>1, <2>2, <2>3 DEF MapInv
<1>2. CallInv'
  <2> SUFFICES ASSUME NEW c \in Handlers
               PROVE  /\ h'[c].pc \in {"terminate", "wait", "update"} => h'[c].becomes # "RUNNING"
                      /\ h'[c].pc \in {"terminate", "wait"} =>
                            h'[c].pid \in Pids /\ proc'[h'[c].pid].state # "free"
    BY DEF CallInv
  <2>1. /\ h[c].pc \in {"terminate", "wait", "update"} => h[c].becomes # "RUNNING"
        /\ h[c].pc \in {"terminate", "wait"} =>
              h[c].pid \in Pids /\ proc[h[c].pid].state # "free"
    BY DEF WorkerInv, CallInv
  <2> QED BY <1>p, <2>1 DEF CallMove
<1>3. ForkInv'
  <2>1. ASSUME NEW c \in Handlers, Forking(c)'
        PROVE  /\ status'[h'[c].inst] # "NONE" /\ h'[c].inst \notin canceled'
               /\ (\A p \in monitored' : proc'[p].inst # h'[c].inst)
               /\ \A d \in Handlers :
                     (Forking(d)' \/ Canceling(d)') /\ h'[d].inst = h'[c].inst => d = c
    <3>1. Forking(c) /\ h'[c].inst = h[c].inst
      BY <1>f, <2>1
    <3>2. /\ status[h[c].inst] # "NONE" /\ h[c].inst \notin canceled /\ Unmonitored(h[c].inst)
          /\ \A d \in Handlers : (Forking(d) \/ Canceling(d)) /\ h[d].inst = h[c].inst => d = c
      BY <3>1 DEF WorkerInv, ForkInv
    <3>3. (\A p \in monitored' : proc'[p].inst # h'[c].inst)
      BY <1>t, <1>p, <3>1, <3>2 DEF Unmonitored
    <3>4. h[c].inst \notin canceled'
      BY <3>1, <3>2 DEF CancelMove
    <3> QED BY <1>t, <1>s, <1>f, <3>1, <3>2, <3>3, <3>4
  <2>2. \A i \in todo' : status'[i] # "NONE" /\ i \notin canceled' /\ Unmonitored(i)'
    BY <1>t, <1>s, <1>u DEF WorkerInv, ForkInv, CancelMove
  <2> QED BY <2>1, <2>2 DEF ForkInv, Unmonitored
<1>4. CancelInv'
  <2>1. ASSUME NEW c \in Handlers, Canceling(c)'
        PROVE  /\ h'[c].pc \in {"terminate", "wait", "update"}
               /\ h'[c].pid \in Pids /\ proc'[h'[c].pid].state # "free"
               /\ status'[h'[c].inst] # "NONE"
               /\ \A p \in monitored' : proc'[p].inst = h'[c].inst => p = h'[c].pid
               /\ h'[c].pc = "update" => proc'[h'[c].pid].state = "dead"
    <3>1. Canceling(c) /\ h'[c].inst = h[c].inst /\ h'[c].pid = h[c].pid
      BY <1>f, <2>1
    <3>2. /\ h[c].pc \in {"terminate", "wait", "update"}
          /\ h[c].pid \in Pids /\ proc[h[c].pid].state # "free"
          /\ status[h[c].inst] # "NONE"
          /\ \A p \in monitored : proc[p].inst = h[c].inst => p = h[c].pid
          /\ h[c].pc = "update" => proc[h[c].pid].state = "dead"
      BY <3>1 DEF WorkerInv, CancelInv
    <3>3. h'[c].pc \in {"terminate", "wait", "update"}
          /\ (h'[c].pc = "update" => h[c].pc = "update" \/ proc'[h[c].pid].state = "dead")
      BY <2>1, <3>2 DEF CallMove, Canceling
    <3> QED BY <1>t, <1>p, <1>s, <3>1, <3>2, <3>3
  <2>2. \A i \in canceled' : status'[i] \notin {"NONE", "RUNNING"} /\ i \notin todo'
    BY <1>t, <1>s DEF WorkerInv, CancelInv, CancelMove
  <2>3. \A i \in canceled' : \A p \in monitored' : proc'[p].inst = i => ~Alive(p)'
    BY <1>t, <1>p DEF WorkerInv, CancelInv, CancelMove, Alive
  <2> QED BY <2>1, <2>2, <2>3 DEF CancelInv
<1>5. NoWorkerEscapes'
  <2> SUFFICES ASSUME NEW p \in monitored', proc'[p].state \in {"boot", "up"},
                      workers'[proc[p].inst] # p
               PROVE  \E c \in Handlers : h'[c].pc = "terminate" /\ h'[c].pid = p
    BY <1>t, <1>p DEF NoWorkerEscapes, At
  <2>0. workers[proc[p].inst] # p
    BY <1>t, SupervisorAssumption DEF MapMove
  <2>1. PICK c \in Handlers : h[c].pc = "terminate" /\ h[c].pid = p
    BY <1>t, <1>p, <2>0 DEF WorkerInv, NoWorkerEscapes, At
  <2>2. h'[c].pc = "terminate" /\ h'[c].pid = p
    BY <2>1 DEF CallMove
  <2> QED BY <2>2
<1> QED BY <1>1, <1>2, <1>3, <1>4, <1>5 DEF WorkerInv

-------------------------------------------------------------------------------
(* The other steps.                                                         *)

\* A new row: its call is the only one that may fork a worker for it.
LEMMA CreateStep ==
  ASSUME TypeOK, OrchInv, WorkerInv, NEW c \in Handlers, NEW i \in Instances, NEW b,
         CreateInstance(c, i, b)
  PROVE  WorkerInv'
<1>t. /\ monitored \subseteq Pids /\ proc \in [Pids -> Processes]
      /\ h \in [Handlers -> Calls] /\ canceled \subseteq Instances /\ todo \subseteq Instances
      /\ status \in [Instances -> Statuses]
      /\ \A p \in Pids : proc[p].inst \in Instances
      /\ \A d \in Handlers : h[d].inst \in Instances
  BY Types
<1>h. /\ OtherCalls(c) /\ h[c].pc = "idle" /\ h'[c].pc = "append" /\ h'[c].inst = i
      /\ h'[c].becomes = "RUNNING"
  BY HandleEffect DEF CreateInstance
<1>s. /\ status[i] = "NONE" /\ status'[i] = "RUNNING"
      /\ \A j \in Instances \ {i} : status'[j] = status[j]
  BY <1>t DEF CreateInstance
<1>k. UNCHANGED <<workers, proc, monitored, orch, todo, canceled>>
  BY DEF CreateInstance, supervisorVars, processVars
<1>u. /\ \A p \in monitored : proc[p].inst # i
      /\ i \notin canceled /\ i \notin todo
      /\ \A d \in Handlers : Forking(d) \/ Canceling(d) => h[d].inst # i
  BY <1>s DEF WorkerInv, MapInv, ForkInv, CancelInv
<1>d. \A d \in Handlers : d # c => h'[d] = h[d]
  BY <1>h DEF OtherCalls
<1>1. MapInv'
  BY <1>t, <1>s, <1>k, <1>u DEF WorkerInv, MapInv
<1>2. CallInv'
  BY <1>h, <1>d, <1>k DEF WorkerInv, CallInv
<1>3. ForkInv'
  <2>1. ASSUME NEW d \in Handlers, Forking(d)'
        PROVE  /\ status'[h'[d].inst] # "NONE" /\ h'[d].inst \notin canceled'
               /\ (\A p \in monitored' : proc'[p].inst # h'[d].inst)
               /\ \A e \in Handlers :
                     (Forking(e)' \/ Canceling(e)') /\ h'[e].inst = h'[d].inst => e = d
    <3>1. CASE d = c
      BY <3>1, <1>h, <1>s, <1>k, <1>u, <1>d DEF Forking, Canceling
    <3>2. CASE d # c
      <4>1. Forking(d) /\ h'[d] = h[d] /\ h[d].inst # i
        BY <3>2, <2>1, <1>d, <1>u DEF Forking
      <4>2. /\ status[h[d].inst] # "NONE" /\ h[d].inst \notin canceled /\ Unmonitored(h[d].inst)
            /\ \A e \in Handlers : (Forking(e) \/ Canceling(e)) /\ h[e].inst = h[d].inst => e = d
        BY <4>1 DEF WorkerInv, ForkInv
      <4>3. \A e \in Handlers :
                     (Forking(e)' \/ Canceling(e)') /\ h'[e].inst = h'[d].inst => e = d
        BY <4>1, <4>2, <1>d, <1>h DEF Forking, Canceling
      <4> QED BY <4>1, <4>2, <4>3, <1>t, <1>s, <1>k DEF Unmonitored
    <3> QED BY <3>1, <3>2
  <2>2. \A j \in todo' : status'[j] # "NONE" /\ j \notin canceled' /\ Unmonitored(j)'
    BY <1>t, <1>s, <1>k, <1>u DEF WorkerInv, ForkInv, Unmonitored
  <2> QED BY <2>1, <2>2 DEF ForkInv, Unmonitored
<1>4. CancelInv'
  <2>1. ASSUME NEW d \in Handlers, Canceling(d)'
        PROVE  /\ h'[d].pc \in {"terminate", "wait", "update"}
               /\ h'[d].pid \in Pids /\ proc'[h'[d].pid].state # "free"
               /\ status'[h'[d].inst] # "NONE"
               /\ \A p \in monitored' : proc'[p].inst = h'[d].inst => p = h'[d].pid
               /\ h'[d].pc = "update" => proc'[h'[d].pid].state = "dead"
    <3>1. Canceling(d) /\ h'[d] = h[d] /\ h[d].inst # i
      BY <2>1, <1>d, <1>h, <1>u DEF Canceling
    <3> QED BY <3>1, <1>t, <1>s, <1>k DEF WorkerInv, CancelInv
  <2>2. \A j \in canceled' : status'[j] \notin {"NONE", "RUNNING"} /\ j \notin todo'
    BY <1>t, <1>s, <1>k, <1>u DEF WorkerInv, CancelInv
  <2>3. \A j \in canceled' : \A p \in monitored' : proc'[p].inst = j => ~Alive(p)'
    BY <1>k DEF WorkerInv, CancelInv, Alive
  <2> QED BY <2>1, <2>2, <2>3 DEF CancelInv
<1>5. NoWorkerEscapes'
  <2> SUFFICES ASSUME NEW p \in monitored, proc[p].state \in {"boot", "up"},
                      workers[proc[p].inst] # p
               PROVE  \E d \in Handlers : h'[d].pc = "terminate" /\ h'[d].pid = p
    BY <1>k DEF NoWorkerEscapes, At
  <2>1. PICK d \in Handlers : h[d].pc = "terminate" /\ h[d].pid = p
    BY DEF WorkerInv, NoWorkerEscapes, At
  <2> QED BY <2>1, <1>d, <1>h
<1> QED BY <1>1, <1>2, <1>3, <1>4, <1>5 DEF WorkerInv

\* A worker is forked for an instance that no other call forks or cancels.
LEMMA ForkStep ==
  ASSUME TypeOK, WorkerInv, NEW i \in Instances, NEW b \in BOOLEAN, StartWorker(i, b),
         UNCHANGED <<status, canceled>>, todo' \subseteq todo, i \notin todo',
         status[i] # "NONE", i \notin canceled, Unmonitored(i),
         \A c \in Handlers : \/ h'[c] = h[c]
                             \/ h[c].pc = "fork" /\ h'[c].pc = "idle" /\ h'[c].becomes = "RUNNING",
         \A c \in Handlers : Forking(c)' \/ Canceling(c)' => h'[c].inst # i
  PROVE  WorkerInv' /\ SupervisorTypeOK'
<1> DEFINE r == [state |-> "boot", inst |-> i, named |-> b]
<1>r. r \in Processes /\ r.state = "boot" /\ r.inst = i
  BY DEF Processes
<1>p. PICK p \in Pids :
         /\ proc[p].state = "free"
         /\ proc' = [proc EXCEPT ![p] = r]
         /\ workers' = [workers EXCEPT ![i] = p]
         /\ monitored' = monitored \cup {p}
  BY DEF StartWorker
<1>e. /\ SupervisorTypeOK'
      /\ proc'[p].state = "boot" /\ proc'[p].inst = i
      /\ \A q \in Pids : q # p => proc'[q] = proc[q]
      /\ workers'[i] = p /\ \A j \in Instances : j # i => workers'[j] = workers[j]
  <2> HIDE DEF r
  <2>1. /\ proc \in [Pids -> Processes] /\ workers \in [Instances -> Pids \cup {NoPid}]
        /\ monitored \subseteq Pids
    BY Types
  <2>2. proc'[p] = r /\ \A q \in Pids : q # p => proc'[q] = proc[q]
    BY <1>p, <2>1
  <2>3. workers'[i] = p /\ \A j \in Instances : j # i => workers'[j] = workers[j]
    BY <1>p, <2>1
  <2>4. SupervisorTypeOK'
    BY <1>p, <1>r, <2>1 DEF SupervisorTypeOK
  <2> QED BY <1>r, <2>2, <2>3, <2>4
<1>t. /\ monitored \subseteq Pids /\ proc \in [Pids -> Processes]
      /\ h \in [Handlers -> Calls] /\ canceled \subseteq Instances /\ todo \subseteq Instances
      /\ \A q \in Pids : proc[q].inst \in Instances
      /\ \A d \in Handlers : h[d].inst \in Instances
  BY Types
<1>n. p \notin monitored /\ p # NoPid
  <2>1. \A q \in monitored : proc[q].state # "free"
    BY DEF WorkerInv, MapInv
  <2> QED BY <1>p, <2>1, SupervisorAssumption
<1>m. \A q \in monitored : q \in Pids /\ proc'[q] = proc[q] /\ q # p /\ proc[q].inst # i
  BY <1>e, <1>n, <1>t DEF Unmonitored
<1>c. \A d \in Handlers : /\ Forking(d)' => Forking(d) /\ h'[d] = h[d] /\ h[d].inst # i
                          /\ Canceling(d)' => Canceling(d) /\ h'[d] = h[d] /\ h[d].inst # i
  BY DEF Forking, Canceling
<1>1. MapInv'
  <2>1. \A j \in Instances :
          workers'[j] # NoPid => workers'[j] \in monitored' /\ proc'[workers'[j]].inst = j
    <3>1. ASSUME NEW j \in Instances, j # i, workers[j] # NoPid
          PROVE  workers[j] \in monitored /\ proc[workers[j]].inst = j
      BY <3>1 DEF WorkerInv, MapInv
    <3> QED BY <1>p, <1>e, <1>m, <3>1
  <2>2. \A q \in monitored' : proc'[q].state # "free" /\ status'[proc'[q].inst] # "NONE"
    BY <1>p, <1>e, <1>m DEF WorkerInv, MapInv
  <2>3. \A q, s \in monitored' : proc'[q].inst = proc'[s].inst => q = s
    BY <1>p, <1>e, <1>m DEF WorkerInv, MapInv
  <2> QED BY <2>1, <2>2, <2>3 DEF MapInv
<1>2. CallInv'
  <2> SUFFICES ASSUME NEW d \in Handlers
               PROVE  /\ h'[d].pc \in {"terminate", "wait", "update"} => h'[d].becomes # "RUNNING"
                      /\ h'[d].pc \in {"terminate", "wait"} =>
                            h'[d].pid \in Pids /\ proc'[h'[d].pid].state # "free"
    BY DEF CallInv
  <2>1. /\ h[d].pc \in {"terminate", "wait", "update"} => h[d].becomes # "RUNNING"
        /\ h[d].pc \in {"terminate", "wait"} =>
              h[d].pid \in Pids /\ proc[h[d].pid].state # "free"
    BY DEF WorkerInv, CallInv
  <2> QED BY <1>p, <1>e, <2>1
<1>3. ForkInv'
  <2>1. ASSUME NEW d \in Handlers, Forking(d)'
        PROVE  /\ status'[h'[d].inst] # "NONE" /\ h'[d].inst \notin canceled'
               /\ (\A q \in monitored' : proc'[q].inst # h'[d].inst)
               /\ \A e \in Handlers :
                     (Forking(e)' \/ Canceling(e)') /\ h'[e].inst = h'[d].inst => e = d
    <3>1. Forking(d) /\ h'[d] = h[d] /\ h[d].inst # i
      BY <1>c, <2>1
    <3>2. /\ status[h[d].inst] # "NONE" /\ h[d].inst \notin canceled /\ Unmonitored(h[d].inst)
          /\ \A e \in Handlers : (Forking(e) \/ Canceling(e)) /\ h[e].inst = h[d].inst => e = d
      BY <3>1 DEF WorkerInv, ForkInv
    <3>3. \A e \in Handlers :
             (Forking(e)' \/ Canceling(e)') /\ h'[e].inst = h'[d].inst => e = d
      BY <3>1, <3>2, <1>c
    <3>4. \A q \in monitored' : proc'[q].inst # h'[d].inst
      BY <3>1, <3>2, <1>p, <1>e, <1>m DEF Unmonitored
    <3> QED BY <3>1, <3>2, <3>3, <3>4
  <2>2. \A j \in todo' : status'[j] # "NONE" /\ j \notin canceled' /\ Unmonitored(j)'
    <3> SUFFICES ASSUME NEW j \in todo'
                 PROVE  status[j] # "NONE" /\ j \notin canceled
                        /\ \A q \in monitored' : proc'[q].inst # j
      BY DEF Unmonitored
    <3>1. j \in todo /\ j # i
      OBVIOUS
    <3> QED BY <3>1, <1>p, <1>e, <1>m DEF WorkerInv, ForkInv, Unmonitored
  <2> QED BY <2>1, <2>2 DEF ForkInv, Unmonitored
<1>4. CancelInv'
  <2>1. ASSUME NEW d \in Handlers, Canceling(d)'
        PROVE  /\ h'[d].pc \in {"terminate", "wait", "update"}
               /\ h'[d].pid \in Pids /\ proc'[h'[d].pid].state # "free"
               /\ status'[h'[d].inst] # "NONE"
               /\ \A q \in monitored' : proc'[q].inst = h'[d].inst => q = h'[d].pid
               /\ h'[d].pc = "update" => proc'[h'[d].pid].state = "dead"
    <3>1. Canceling(d) /\ h'[d] = h[d] /\ h[d].inst # i
      BY <1>c, <2>1
    <3>2. /\ h[d].pc \in {"terminate", "wait", "update"}
          /\ h[d].pid \in Pids /\ proc[h[d].pid].state # "free"
          /\ status[h[d].inst] # "NONE"
          /\ \A q \in monitored : proc[q].inst = h[d].inst => q = h[d].pid
          /\ h[d].pc = "update" => proc[h[d].pid].state = "dead"
      BY <3>1 DEF WorkerInv, CancelInv
    <3>3. proc'[h[d].pid] = proc[h[d].pid]
      BY <3>2, <1>p, <1>e
    <3> QED BY <3>1, <3>2, <3>3, <1>p, <1>e, <1>m
  <2>2. \A j \in canceled' : status'[j] \notin {"NONE", "RUNNING"} /\ j \notin todo'
    BY DEF WorkerInv, CancelInv
  <2>3. \A j \in canceled' : \A q \in monitored' : proc'[q].inst = j => ~Alive(q)'
    BY <1>p, <1>e, <1>m DEF WorkerInv, CancelInv, Alive
  <2> QED BY <2>1, <2>2, <2>3 DEF CancelInv
<1>5. NoWorkerEscapes'
  <2> SUFFICES ASSUME NEW q \in monitored', proc'[q].state \in {"boot", "up"},
                      workers'[proc'[q].inst] # q
               PROVE  \E d \in Handlers : h'[d].pc = "terminate" /\ h'[d].pid = q
    BY DEF NoWorkerEscapes, At
  <2>1. q \in monitored /\ proc'[q] = proc[q] /\ workers'[proc[q].inst] = workers[proc[q].inst]
    BY <1>p, <1>e, <1>m, <1>t
  <2>2. PICK d \in Handlers : h[d].pc = "terminate" /\ h[d].pid = q
    BY <2>1 DEF WorkerInv, NoWorkerEscapes, At
  <2> QED BY <2>2
<1> QED BY <1>1, <1>2, <1>3, <1>4, <1>5, <1>e DEF WorkerInv

\* StopWorker takes an entry out: the call now holds the process.
LEMMA EntryStep ==
  ASSUME TypeOK, WorkerInv, NEW c \in Handlers, NEW i \in Instances,
         NEW s \in {"CANCELED", "STOPPED", "ARCHIVED"},
         TakeEntry(i), Handle(c, "terminate", i, workers[i], s),
         UNCHANGED <<status, todo, canceled>>
  PROVE  WorkerInv' /\ h' \in [Handlers -> Calls] /\ SupervisorTypeOK'
<1>t. /\ monitored \subseteq Pids /\ proc \in [Pids -> Processes]
      /\ workers \in [Instances -> Pids \cup {NoPid}]
  BY Types
<1> DEFINE p == workers[i]
<1>p. p \in Pids /\ p \in monitored /\ proc[p].inst = i /\ proc[p].state # "free"
      /\ status[i] # "NONE" /\ \A q \in monitored : proc[q].inst = i => q = p
  BY <1>t DEF TakeEntry, WorkerInv, MapInv
<1>h. /\ h' \in [Handlers -> Calls] /\ OtherCalls(c) /\ h[c].pc = "idle"
      /\ h'[c].pc = "terminate" /\ h'[c].inst = i /\ h'[c].pid = p /\ h'[c].becomes = s
  <2> p \in Pids \cup {NoPid}
    BY <1>p
  <2> HIDE DEF p
  <2> QED BY HandleEffect DEF p
<1>d. \A d \in Handlers : d # c => h'[d] = h[d]
  BY <1>h DEF OtherCalls
<1>k. UNCHANGED <<proc, monitored>> /\ workers'[i] = NoPid
      /\ \A j \in Instances : j # i => workers'[j] = workers[j]
  BY <1>t DEF TakeEntry
<1>y. SupervisorTypeOK'
  BY <1>t DEF TakeEntry, SupervisorTypeOK
<1>1. MapInv'
  <2>1. \A j \in Instances : workers'[j] # NoPid => workers'[j] = workers[j]
    BY <1>k
  <2> QED BY <1>k, <2>1 DEF WorkerInv, MapInv
<1>2. CallInv'
  <2> SUFFICES ASSUME NEW d \in Handlers
               PROVE  /\ h'[d].pc \in {"terminate", "wait", "update"} => h'[d].becomes # "RUNNING"
                      /\ h'[d].pc \in {"terminate", "wait"} =>
                            h'[d].pid \in Pids /\ proc[h'[d].pid].state # "free"
    BY <1>k DEF CallInv
  <2> QED BY <1>p, <1>h, <1>d DEF WorkerInv, CallInv
<1>3. ForkInv'
  <2>1. ASSUME NEW d \in Handlers, Forking(d)'
        PROVE  /\ status[h'[d].inst] # "NONE" /\ h'[d].inst \notin canceled
               /\ Unmonitored(h[d].inst)'
               /\ h'[d].inst = h[d].inst
               /\ \A e \in Handlers :
                     (Forking(e)' \/ Canceling(e)') /\ h'[e].inst = h'[d].inst => e = d
    <3>1. d # c /\ h'[d] = h[d] /\ Forking(d)
      BY <1>h, <1>d, <2>1 DEF Forking
    <3>2. /\ status[h[d].inst] # "NONE" /\ h[d].inst \notin canceled /\ Unmonitored(h[d].inst)
          /\ \A e \in Handlers : (Forking(e) \/ Canceling(e)) /\ h[e].inst = h[d].inst => e = d
      BY <3>1 DEF WorkerInv, ForkInv
    <3>3. h[d].inst # i
      BY <3>2, <1>p DEF Unmonitored
    <3>4. \A e \in Handlers :
             (Forking(e)' \/ Canceling(e)') /\ h'[e].inst = h'[d].inst => e = d
      BY <3>1, <3>2, <3>3, <1>h, <1>d DEF Forking, Canceling
    <3>5. \A q \in monitored' : proc'[q].inst # h'[d].inst
      BY <3>1, <3>2, <1>k DEF Unmonitored
    <3> QED BY <3>1, <3>2, <3>4, <3>5 DEF Unmonitored
  <2>2. \A j \in todo' : status'[j] # "NONE" /\ j \notin canceled' /\ Unmonitored(j)'
    BY <1>k DEF WorkerInv, ForkInv, Unmonitored
  <2> QED BY <2>1, <2>2 DEF ForkInv, Unmonitored
<1>4. CancelInv'
  <2>1. ASSUME NEW d \in Handlers, Canceling(d)'
        PROVE  /\ h'[d].pc \in {"terminate", "wait", "update"}
               /\ h'[d].pid \in Pids /\ proc[h'[d].pid].state # "free"
               /\ status[h'[d].inst] # "NONE"
               /\ \A q \in monitored : proc[q].inst = h'[d].inst => q = h'[d].pid
               /\ h'[d].pc = "update" => proc[h'[d].pid].state = "dead"
    <3>1. CASE d = c
      BY <3>1, <1>p, <1>h
    <3>2. CASE d # c
      <4>1. Canceling(d) /\ h'[d] = h[d]
        BY <3>2, <2>1, <1>d DEF Canceling
      <4> QED BY <4>1 DEF WorkerInv, CancelInv
    <3> QED BY <3>1, <3>2
  <2>2. \A j \in canceled' : status'[j] \notin {"NONE", "RUNNING"} /\ j \notin todo'
    BY DEF WorkerInv, CancelInv
  <2>3. \A j \in canceled' : \A q \in monitored' : proc'[q].inst = j => ~Alive(q)'
    BY <1>k DEF WorkerInv, CancelInv, Alive
  <2> QED BY <1>k, <2>1, <2>2, <2>3 DEF CancelInv
<1>5. NoWorkerEscapes'
  <2> SUFFICES ASSUME NEW q \in monitored, proc[q].state \in {"boot", "up"},
                      workers'[proc[q].inst] # q
               PROVE  \E d \in Handlers : h'[d].pc = "terminate" /\ h'[d].pid = q
    BY <1>k DEF NoWorkerEscapes, At
  <2>1. CASE q = p
    BY <2>1, <1>h
  <2>2. CASE q # p
    <3>1. workers[proc[q].inst] # q
      BY <2>2, <1>p, <1>k, Types
    <3>2. PICK d \in Handlers : h[d].pc = "terminate" /\ h[d].pid = q
      BY <3>1 DEF WorkerInv, NoWorkerEscapes, At
    <3> QED BY <3>2, <1>d, <1>h
  <2> QED BY <2>1, <2>2
<1> QED BY <1>1, <1>2, <1>3, <1>4, <1>5, <1>h, <1>y DEF WorkerInv

-------------------------------------------------------------------------------
(* One lemma per kind of action.                                            *)

\* The map, the processes' goroutines and the accepted cancellations stay.
LEMMA StayingMoves ==
  ASSUME TypeOK, WorkerInv
  PROVE  /\ UNCHANGED <<workers, monitored>> => MapMove
         /\ UNCHANGED canceled => CancelMove
         /\ UNCHANGED status => StatusMove
         /\ UNCHANGED h => \A c \in Handlers : CallMove(c)
<1>1. UNCHANGED <<workers, monitored>> => MapMove
  BY DEF MapMove, WorkerInv, MapInv
<1>2. UNCHANGED canceled => CancelMove
  BY Types DEF CancelMove
<1> QED BY <1>1, <1>2 DEF StatusMove, CallMove

\* A call that moves alone.
LEMMA OneCallMoves ==
  ASSUME TypeOK, NEW c \in Handlers, OtherCalls(c), CallMove(c)
  PROVE  \A d \in Handlers : CallMove(d)
  BY DEF OtherCalls, CallMove

\* The steps of calls that neither fork nor take an entry.
LEMMA CallStep ==
  ASSUME ServerInv, NEW c \in Handlers, h' \in [Handlers -> Calls], OtherCalls(c), CallMove(c),
         ~At(c, "idle") \/ Serving,
         proc' \in [Pids -> Processes], ProcMove, UNCHANGED <<workers, monitored>>,
         status' \in [Instances -> Statuses], StatusMove, CancelMove,
         UNCHANGED <<named, processVars>>
  PROVE  ServerInv'
<1>1. TypeOK /\ OrchInv /\ WorkerInv
  BY DEF ServerInv
<1>2. TypeOK'
  BY <1>1 DEF TypeOK, SupervisorTypeOK, processVars, CancelMove
<1>3. OrchInv'
  <2>1. orch \notin {"down", "recovering"}
    BY <1>1 DEF OrchInv, At, Serving
  <2> QED BY <1>1, <2>1 DEF OrchInv, processVars
<1>4. WorkerInv'
  <2>1. MapMove /\ (\A d \in Handlers : CallMove(d)) /\ monitored' \subseteq monitored
        /\ todo' \subseteq todo
    BY <1>1, StayingMoves, OneCallMoves DEF processVars
  <2> QED BY <1>1, <2>1, CalmStep
<1> QED BY <1>2, <1>3, <1>4 DEF ServerInv

\* The context of a call ends.
LEMMA ContextStep ==
  ASSUME ServerInv, NEW c \in Handlers, ContextEnds(c)
  PROVE  ServerInv'
<1>1. TypeOK /\ WorkerInv
  BY DEF ServerInv
<1>2. h \in [Handlers -> Calls] /\ h[c] \in Calls /\ h' = [h EXCEPT ![c].ctx = FALSE]
  BY <1>1 DEF TypeOK, ContextEnds
<1>3. [h[c] EXCEPT !.ctx = FALSE] \in Calls
  BY <1>2 DEF Calls
<1>4. h' \in [Handlers -> Calls] /\ OtherCalls(c) /\ CallMove(c)
  BY <1>2, <1>3 DEF OtherCalls, CallMove, Calls
<1>5. UNCHANGED <<workers, monitored, proc, status, canceled, named, processVars>> /\ ~At(c, "idle")
  BY DEF ContextEnds, supervisorVars
<1>6. ProcMove /\ CancelMove /\ StatusMove
  BY <1>1, <1>5, ProcStays, StayingMoves
<1>7. proc' \in [Pids -> Processes] /\ status' \in [Instances -> Statuses]
  BY <1>1, <1>5, Types
<1> QED BY <1>4, <1>5, <1>6, <1>7, CallStep

\* The append, the failed fork and the status after it, the wait for an exit.
LEMMA PlainCallStep ==
  ASSUME ServerInv, NEW c \in Handlers,
         \/ AppendStarted(c) \/ MarkDegraded(c) \/ AwaitExit(c)
         \/ ForkWorker(c) /\ Goto(c, "degrade") /\ UNCHANGED supervisorVars
  PROVE  ServerInv'
<1>1. TypeOK /\ WorkerInv
  BY DEF ServerInv
<1>2. UNCHANGED <<workers, monitored, proc, canceled, named, processVars>> /\ ~At(c, "idle")
  BY DEF AppendStarted, MarkDegraded, AwaitExit, ForkWorker, supervisorVars, At
<1>3. status' \in [Instances -> Statuses] /\ StatusMove
  <2>1. CASE UNCHANGED status
    BY <1>1, <2>1, Types, StayingMoves
  <2>2. CASE MarkDegraded(c)
    <3>1. "DEGRADED" \in Statuses \ {"NONE", "RUNNING"} /\ status' = Updated(c, "DEGRADED")
      BY <2>2 DEF Statuses, MarkDegraded
    <3> QED BY <1>1, <3>1, UpdatedEffect
  <2> QED BY <2>1, <2>2 DEF AppendStarted, AwaitExit, ForkWorker
<1>4. h' \in [Handlers -> Calls] /\ OtherCalls(c) /\ CallMove(c)
  <2>1. CASE Return(c) /\ h[c].pc # "terminate"
    BY <1>1, <2>1, ReturnEffect, IdleCallFields DEF CallMove
  <2>2. CASE Goto(c, "fork") /\ h[c].pc = "append"
    BY <1>1, <2>2, GotoEffect, GotoPlace DEF CallMove
  <2>3. CASE Goto(c, "degrade") /\ h[c].pc = "fork"
    BY <1>1, <2>3, GotoEffect, GotoPlace DEF CallMove
  <2>4. CASE Goto(c, "update") /\ h[c].pc = "wait" /\ proc'[h[c].pid].state = "dead"
    BY <1>1, <2>4, GotoEffect, GotoPlace DEF CallMove
  <2> QED BY <1>2, <2>1, <2>2, <2>3, <2>4
          DEF AppendStarted, MarkDegraded, AwaitExit, ForkWorker, At
<1>6. ProcMove /\ CancelMove /\ proc' \in [Pids -> Processes]
  BY <1>1, <1>2, ProcStays, StayingMoves, Types
<1> QED BY <1>2, <1>3, <1>4, <1>6, CallStep

\* The two signals.
LEMMA SignalStep ==
  ASSUME ServerInv, NEW c \in Handlers, SendTerm(c) \/ TenSecondsPass(c)
  PROVE  ServerInv'
<1>1. TypeOK /\ WorkerInv
  BY DEF ServerInv
<1>2. UNCHANGED <<workers, monitored, status, canceled, named, processVars>> /\ ~At(c, "idle")
  BY DEF SendTerm, TenSecondsPass, Terminate, ForceKill, At
<1>3. h[c].pid \in Pids /\ proc[h[c].pid].state # "free"
  BY <1>1 DEF WorkerInv, CallInv, SendTerm, TenSecondsPass, At
<1>4. /\ proc' \in [Pids -> Processes] /\ ProcMove
      /\ proc'[h[c].pid].state \notin {"boot", "up"}
      /\ TenSecondsPass(c) => proc'[h[c].pid].state = "dead"
  <2>1. CASE SendTerm(c)
    <3>1. ~TenSecondsPass(c)
      BY <2>1 DEF SendTerm, TenSecondsPass, At
    <3> QED BY <1>1, <1>3, <2>1, <3>1, TerminateEffect DEF SendTerm
  <2>2. CASE TenSecondsPass(c)
    BY <1>1, <1>3, <2>2, EndEffect DEF TenSecondsPass, ForceKill
  <2> QED BY <2>1, <2>2
<1>5. h' \in [Handlers -> Calls] /\ OtherCalls(c) /\ CallMove(c)
  <2>1. CASE SendTerm(c)
    BY <1>1, <1>4, <2>1, GotoEffect, GotoPlace DEF CallMove, SendTerm, At
  <2>2. CASE TenSecondsPass(c)
    BY <1>1, <1>4, <2>2, GotoEffect, GotoPlace DEF CallMove, TenSecondsPass, At
  <2> QED BY <2>1, <2>2
<1>6. CancelMove /\ StatusMove /\ status' \in [Instances -> Statuses]
  BY <1>1, <1>2, StayingMoves, Types
<1> QED BY <1>2, <1>4, <1>5, <1>6, CallStep

\* The final status: with CANCELED the process of the instance is dead.
LEMMA FinalStatusStep ==
  ASSUME ServerInv, NEW c \in Handlers, WriteFinalStatus(c)
  PROVE  ServerInv'
<1>1. TypeOK /\ OrchInv /\ WorkerInv
  BY DEF ServerInv
<1>2. UNCHANGED <<workers, monitored, proc, named, processVars>> /\ h[c].pc = "update"
  BY DEF WriteFinalStatus, supervisorVars, At
<1>3. h[c] \in Calls /\ h[c].becomes # "RUNNING"
  BY <1>1, <1>2 DEF WorkerInv, CallInv, TypeOK
<1>4. h[c].becomes \in Statuses \ {"NONE", "RUNNING"} /\ status' = Updated(c, h[c].becomes)
  BY <1>3 DEF WriteFinalStatus, Calls, Statuses
<1>5. status' \in [Instances -> Statuses] /\ StatusMove
  BY <1>1, <1>4, UpdatedEffect
<1>6. h' \in [Handlers -> Calls] /\ OtherCalls(c) /\ CallMove(c)
  BY <1>1, <1>2, ReturnEffect, IdleCallFields DEF CallMove, WriteFinalStatus
<1>7. CancelMove
  <2>1. CASE UNCHANGED canceled
    BY <1>1, <2>1, StayingMoves
  <2>2. CASE canceled' = canceled \cup {h[c].inst} /\ h[c].ctx /\ h[c].becomes = "CANCELED"
    <3>1. Canceling(c) /\ h[c].inst \in Instances
      BY <1>3, <2>2 DEF Canceling, Calls
    <3>2. /\ status[h[c].inst] # "NONE"
          /\ \A p \in monitored : proc[p].inst = h[c].inst => proc[p].state = "dead"
      BY <1>1, <1>2, <3>1 DEF WorkerInv, CancelInv
    <3>3. status'[h[c].inst] = "CANCELED"
      BY <1>1, <1>4, <2>2, <3>1, <3>2, Types DEF Updated
    <3>4. todo = {}
      BY <1>1, <1>2 DEF OrchInv
    <3>5. \A d \in Handlers : Forking(d) => h[d].inst # h[c].inst
      BY <1>1, <1>2, <3>1 DEF WorkerInv, ForkInv, Forking
    <3> QED BY <1>1, <2>2, <3>1, <3>2, <3>3, <3>4, <3>5, Types DEF CancelMove
  <2> QED BY <2>1, <2>2 DEF WriteFinalStatus
<1>8. ProcMove /\ proc' \in [Pids -> Processes] /\ ~At(c, "idle")
  BY <1>1, <1>2, ProcStays, Types DEF At
<1> QED BY <1>2, <1>5, <1>6, <1>7, <1>8, CallStep

\* StartWorkflow and DeployWorkflow.
LEMMA CreateInv ==
  ASSUME ServerInv, NEW c \in Handlers, NEW i \in Instances, NEW b \in BOOLEAN,
         CreateInstance(c, i, b)
  PROVE  ServerInv'
<1>1. TypeOK /\ OrchInv /\ WorkerInv
  BY DEF ServerInv
<1>2. h' \in [Handlers -> Calls] /\ Serving
  BY <1>1, HandleEffect DEF CreateInstance
<1>3. TypeOK'
  <2>1. status' \in [Instances -> Statuses]
    BY <1>1, Types DEF CreateInstance, Statuses
  <2>2. named' \in [Instances -> BOOLEAN]
    BY <1>1, Zenon DEF CreateInstance, TypeOK
  <2> QED BY <1>1, <1>2, <2>1, <2>2
          DEF TypeOK, SupervisorTypeOK, supervisorVars, processVars, CreateInstance
<1>4. OrchInv'
  BY <1>1, <1>2 DEF OrchInv, Serving, processVars, CreateInstance
<1>5. WorkerInv'
  BY <1>1, CreateStep
<1> QED BY <1>3, <1>4, <1>5 DEF ServerInv

\* CancelWorkflow, and StopInstance of an instance with an entry.
LEMMA TakeInv ==
  ASSUME ServerInv, NEW c \in Handlers, NEW i \in Instances,
         NEW s \in {"CANCELED", "STOPPED", "ARCHIVED"},
         TakeEntry(i), Handle(c, "terminate", i, workers[i], s),
         UNCHANGED <<status, named, processVars, canceled>>
  PROVE  ServerInv'
<1>1. TypeOK /\ OrchInv /\ WorkerInv /\ UNCHANGED <<status, todo, canceled>>
  BY DEF ServerInv, processVars
<1>2. WorkerInv' /\ h' \in [Handlers -> Calls] /\ SupervisorTypeOK'
  BY <1>1, EntryStep
<1>3. TypeOK'
  BY <1>1, <1>2 DEF TypeOK, processVars
<1>4. OrchInv'
  BY <1>1 DEF OrchInv, Serving, processVars, Handle
<1> QED BY <1>2, <1>3, <1>4 DEF ServerInv

\* StopInstance of an instance without one.
LEMMA StopInv ==
  ASSUME ServerInv, NEW c \in Handlers, NEW i \in Instances, NEW s \in {"STOPPED", "ARCHIVED"},
         Handle(c, "update", i, NoPid, s), UNCHANGED supervisorVars,
         UNCHANGED <<status, named, processVars, canceled>>
  PROVE  ServerInv'
<1>1. TypeOK /\ OrchInv /\ WorkerInv
  BY DEF ServerInv
<1>2. UNCHANGED <<workers, monitored, proc>>
  BY DEF supervisorVars
<1>3. h' \in [Handlers -> Calls] /\ OtherCalls(c) /\ CallMove(c) /\ Serving
  BY <1>1, HandleEffect DEF CallMove
<1>4. ProcMove /\ CancelMove /\ StatusMove
  BY <1>1, <1>2, ProcStays, StayingMoves
<1>5. proc' \in [Pids -> Processes] /\ status' \in [Instances -> Statuses]
  BY <1>1, <1>2, Types
<1> QED BY <1>2, <1>3, <1>4, <1>5, CallStep

\* The calls that begin.
LEMMA NewCallStep ==
  ASSUME ServerInv, NEW c \in Handlers, NewCall(c)
  PROVE  ServerInv'
<1>1. ASSUME NEW i \in Instances, NEW req \in StartWorkflowRequest, StartWorkflow(c, i, req)
      PROVE  ServerInv'
  <2>1. (DefinitionNamed(req) /\ req.tenant # "") \in BOOLEAN
    OBVIOUS
  <2> QED BY <1>1, <2>1, CreateInv DEF StartWorkflow
<1>2. ASSUME NEW i \in Instances, NEW req \in DeployWorkflowRequest, DeployWorkflow(c, i, req)
      PROVE  ServerInv'
  BY <1>2, CreateInv DEF DeployWorkflow
<1>3. ASSUME NEW req \in CancelWorkflowRequest, CancelWorkflow(c, req)
      PROVE  ServerInv'
  <2>1. req.workflow_instance_id \in Instances
    BY DEF CancelWorkflowRequest
  <2> QED BY <1>3, <2>1, TakeInv DEF CancelWorkflow
<1>4. ASSUME NEW req \in StopInstanceRequest, StopInstance(c, req)
      PROVE  ServerInv'
  <2> DEFINE s == IF req.archive THEN "ARCHIVED" ELSE "STOPPED"
  <2>1. req.id \in Instances /\ s \in {"STOPPED", "ARCHIVED"}
    BY DEF StopInstanceRequest
  <2>2. \/ TakeEntry(req.id) /\ Handle(c, "terminate", req.id, workers[req.id], s)
        \/ Handle(c, "update", req.id, NoPid, s) /\ UNCHANGED supervisorVars
    BY <1>4 DEF StopInstance
  <2>3. UNCHANGED <<status, named, processVars, canceled>>
    BY <1>4 DEF StopInstance
  <2> HIDE DEF s
  <2> QED BY <2>1, <2>2, <2>3, TakeInv, StopInv
<1> QED BY <1>1, <1>2, <1>3, <1>4 DEF NewCall

\* A step of a call in progress.
LEMMA StepInv ==
  ASSUME ServerInv, NEW c \in Handlers, Step(c)
  PROVE  ServerInv'
<1>1. TypeOK /\ OrchInv /\ WorkerInv
  BY DEF ServerInv
<1>2. CASE ForkWorker(c)
  <2> DEFINE i == h[c].inst
  <2>0. h[c].pc = "fork" /\ i \in Instances /\ named[i] \in BOOLEAN
    BY <1>1, <1>2 DEF ForkWorker, At, TypeOK, Calls
  <2>1. CASE StartWorker(i, named[i]) /\ Return(c)
    <3>1. /\ status[i] # "NONE" /\ i \notin canceled /\ Unmonitored(i)
          /\ \A d \in Handlers : (Forking(d) \/ Canceling(d)) /\ h[d].inst = i => d = c
      BY <1>1, <2>0 DEF WorkerInv, ForkInv, Forking
    <3>2. orch \notin {"down", "recovering"} /\ todo = {}
      BY <1>1, <2>0 DEF OrchInv
    <3>3. h' \in [Handlers -> Calls] /\ h'[c].pc = "idle" /\ h'[c].becomes = "RUNNING"
          /\ \A d \in Handlers : d # c => h'[d] = h[d]
      BY <1>1, <2>1, ReturnEffect, IdleCallFields DEF OtherCalls
    <3>4. \A d \in Handlers : Forking(d)' \/ Canceling(d)' => h'[d].inst # i
      BY <3>1, <3>3 DEF Forking, Canceling
    <3>5. UNCHANGED <<status, canceled, named, orch, todo, agent, boots>>
      BY <1>2 DEF ForkWorker, processVars
    <3> HIDE DEF i
    <3>6. WorkerInv' /\ SupervisorTypeOK'
      BY <1>1, <2>0, <2>1, <3>1, <3>2, <3>3, <3>4, <3>5, ForkStep
    <3>7. TypeOK'
      BY <1>1, <3>3, <3>5, <3>6 DEF TypeOK
    <3>8. OrchInv'
      BY <3>2, <3>5 DEF OrchInv
    <3> QED BY <3>6, <3>7, <3>8 DEF ServerInv
  <2>2. CASE StartWorkerFails /\ Goto(c, "degrade")
    BY <1>2, <2>2, PlainCallStep DEF StartWorkerFails
  <2> QED BY <1>2, <2>1, <2>2 DEF ForkWorker
<1> QED BY <1>2, PlainCallStep, SignalStep, FinalStatusStep DEF Step

\* The recovery of an instance at the start.
LEMMA RecoverStep ==
  ASSUME ServerInv, NEW i \in Instances, Recover(i)
  PROVE  ServerInv'
<1>1. TypeOK /\ OrchInv /\ WorkerInv
  BY DEF ServerInv
<1>2. /\ UNCHANGED <<status, named, h, orch, agent, boots, canceled>>
      /\ orch = "recovering" /\ i \in todo /\ todo' = todo \ {i}
  BY DEF Recover
<1>3. \A c \in Handlers : h[c].pc = "idle" /\ ~Forking(c) /\ ~Canceling(c)
  BY <1>1, <1>2 DEF OrchInv, WorkerInv, CancelInv, Forking
<1>4. WorkerInv' /\ SupervisorTypeOK'
  <2>1. CASE StartWorker(i, named[i])
    <3>1. named[i] \in BOOLEAN /\ todo' \subseteq todo /\ i \notin todo'
      BY <1>1, <1>2 DEF TypeOK
    <3>2. status[i] # "NONE" /\ i \notin canceled /\ Unmonitored(i)
      BY <1>1, <1>2 DEF WorkerInv, ForkInv
    <3>3. \A c \in Handlers : Forking(c)' \/ Canceling(c)' => h'[c].inst # i
      BY <1>2, <1>3 DEF Forking, Canceling
    <3> QED BY <1>1, <1>2, <2>1, <3>1, <3>2, <3>3, ForkStep
  <2>2. CASE StartWorkerFails
    <3>1. UNCHANGED <<workers, proc, monitored>>
      BY <2>2 DEF StartWorkerFails, supervisorVars
    <3>2. ProcMove /\ MapMove /\ CancelMove /\ StatusMove /\ \A c \in Handlers : CallMove(c)
      BY <1>1, <1>2, <3>1, ProcStays, StayingMoves
    <3>3. WorkerInv'
      BY <1>1, <1>2, <3>1, <3>2, CalmStep
    <3> QED BY <1>1, <3>1, <3>3 DEF TypeOK, SupervisorTypeOK
  <2> QED BY <2>1, <2>2 DEF Recover
<1>5. TypeOK'
  BY <1>1, <1>2, <1>4 DEF TypeOK
<1>6. OrchInv'
  BY <1>1, <1>2 DEF OrchInv
<1> QED BY <1>4, <1>5, <1>6 DEF ServerInv

\* Steps of workers and of engines.
LEMMA ProcessStep ==
  ASSUME ServerInv,
         (\E p \in Pids : WorkerStep(p)) \/ (\E i \in Instances : EngineEnds(i))
  PROVE  ServerInv'
<1>1. TypeOK /\ OrchInv /\ WorkerInv
  BY DEF ServerInv
<1>2. UNCHANGED <<workers, monitored, named, h, orch, todo, agent, boots, canceled>>
  BY DEF WorkerStep, WorkerReady, WorkerExits, EngineEnds, supervisorVars, processVars
<1>3. proc' \in [Pids -> Processes] /\ ProcMove
  <2>1. ASSUME NEW p \in Pids, WorkerReady(p)
        PROVE  proc' \in [Pids -> Processes] /\ ProcMove
    BY <1>1, <2>1, ReadyEffect
  <2>2. ASSUME NEW p \in Pids, WorkerExits(p)
        PROVE  proc' \in [Pids -> Processes] /\ ProcMove
    BY <1>1, <2>2, EndEffect DEF WorkerExits, Alive
  <2>3. ASSUME NEW i \in Instances, EngineEnds(i)
        PROVE  proc' \in [Pids -> Processes] /\ ProcMove
    BY <1>1, <2>3, ProcStays, Types DEF EngineEnds, supervisorVars
  <2> QED BY <2>1, <2>2, <2>3 DEF WorkerStep
<1>4. status' \in [Instances -> Statuses] /\ StatusMove
  <2>1. ASSUME NEW i \in Instances, EngineEnds(i)
        PROVE  status' \in [Instances -> Statuses] /\ StatusMove
    <3>1. PICK s \in {"COMPLETED", "FAILED"} : status' = [status EXCEPT ![i] = s]
      BY <2>1 DEF EngineEnds
    <3> QED BY <1>1, <3>1, Types DEF Statuses, StatusMove
  <2>2. ASSUME UNCHANGED status
        PROVE  status' \in [Instances -> Statuses] /\ StatusMove
    BY <1>1, <2>2, Types, StayingMoves
  <2> QED BY <2>1, <2>2 DEF WorkerStep
<1>5. MapMove /\ CancelMove /\ \A c \in Handlers : CallMove(c)
  BY <1>1, <1>2, StayingMoves
<1>6. WorkerInv'
  BY <1>1, <1>2, <1>3, <1>4, <1>5, CalmStep
<1>7. TypeOK'
  BY <1>1, <1>2, <1>3, <1>4 DEF TypeOK, SupervisorTypeOK
<1>8. OrchInv'
  BY <1>1, <1>2 DEF OrchInv
<1> QED BY <1>6, <1>7, <1>8 DEF ServerInv

\* monitorWorker: the entry that goes is the dead process's own.
LEMMA MonitorStep ==
  ASSUME ServerInv, NEW p \in Pids, Monitor(p)
  PROVE  ServerInv'
<1>1. TypeOK /\ OrchInv /\ WorkerInv
  BY DEF ServerInv
<1>2. /\ UNCHANGED <<proc, status, named, h, orch, todo, agent, boots, canceled>>
      /\ p \in monitored /\ proc[p].state = "dead" /\ monitored' = monitored \ {p}
      /\ workers' = [workers EXCEPT ![proc[p].inst] = NoPid]
  BY DEF Monitor, MonitorWorker, processVars
<1>3. proc[p].inst \in Instances /\ workers \in [Instances -> Pids \cup {NoPid}]
      /\ monitored \subseteq Pids
  BY <1>1, Types
<1>4. SupervisorTypeOK'
  BY <1>1, <1>2, <1>3, Types DEF SupervisorTypeOK
<1>5. MapMove
  <2> SUFFICES ASSUME NEW i \in Instances
               PROVE  \/ workers'[i] = workers[i] /\ (workers[i] # NoPid => workers[i] \in monitored')
                      \/ /\ workers'[i] = NoPid
                         /\ workers[i] # NoPid => proc'[workers[i]].state \notin {"boot", "up"}
    BY DEF MapMove
  <2>1. workers[i] # NoPid => workers[i] \in monitored /\ proc[workers[i]].inst = i
    BY <1>1 DEF WorkerInv, MapInv
  <2>2. \A q \in monitored : proc[q].inst = proc[p].inst => q = p
    BY <1>1, <1>2 DEF WorkerInv, MapInv
  <2>3. CASE i = proc[p].inst
    BY <1>2, <1>3, <2>1, <2>2, <2>3
  <2>4. CASE i # proc[p].inst
    BY <1>2, <1>3, <2>1, <2>4
  <2> QED BY <2>3, <2>4
<1>6. ProcMove /\ StatusMove /\ CancelMove /\ \A c \in Handlers : CallMove(c)
  BY <1>1, <1>2, ProcStays, StayingMoves
<1>7. WorkerInv'
  BY <1>1, <1>2, <1>5, <1>6, CalmStep
<1>8. TypeOK' /\ OrchInv'
  BY <1>1, <1>2, <1>4 DEF TypeOK, OrchInv
<1> QED BY <1>7, <1>8 DEF ServerInv

\* Streams open and close, the server starts to serve and to drain; stuttering.
LEMMA PlainProcessStep ==
  ASSUME ServerInv, Connect \/ Disconnect \/ Serve \/ GracefulStop \/ UNCHANGED vars
  PROVE  ServerInv'
<1>1. TypeOK /\ OrchInv /\ WorkerInv
  BY DEF ServerInv
<1>2. UNCHANGED <<workers, proc, monitored, status, named, h, todo, boots, canceled>>
  BY DEF Connect, Disconnect, Serve, GracefulStop, vars, supervisorVars, processVars
<1>3. agent' \in BOOLEAN /\ orch' \in {"down", "recovering", "up", "stopping", "draining"}
  BY <1>1 DEF TypeOK, Connect, Disconnect, Serve, GracefulStop, vars, processVars
<1>4. UNCHANGED orch \/ (todo = {} /\ orch' \in {"up", "draining"})
  BY <1>1 DEF OrchInv, Connect, Disconnect, Serve, GracefulStop, vars, processVars
<1>5. MapMove /\ ProcMove /\ StatusMove /\ CancelMove /\ \A c \in Handlers : CallMove(c)
  BY <1>1, <1>2, ProcStays, StayingMoves
<1>6. WorkerInv'
  BY <1>1, <1>2, <1>5, CalmStep
<1>7. TypeOK'
  BY <1>1, <1>2, <1>3 DEF TypeOK, SupervisorTypeOK
<1>8. OrchInv'
  BY <1>1, <1>2, <1>4 DEF OrchInv
<1> QED BY <1>6, <1>7, <1>8 DEF ServerInv

\* StopAll signals whatever the map holds.
LEMMA ShutdownStep ==
  ASSUME ServerInv, Shutdown
  PROVE  ServerInv'
<1>1. TypeOK /\ OrchInv /\ WorkerInv
  BY DEF ServerInv
<1>2. /\ UNCHANGED <<monitored, status, named, h, todo, agent, boots, canceled>>
      /\ orch = "up" /\ orch' = "stopping"
      /\ workers' = [i \in Instances |-> NoPid]
  BY DEF Shutdown, StopAll
<1>3. \A p \in Pids :
        /\ Terminated(proc[p]) \in Processes /\ Terminated(proc[p]).inst = proc[p].inst
        /\ Terminated(proc[p]).state = IF proc[p].state = "boot" THEN "dead"
                                       ELSE IF proc[p].state = "up" THEN "deaf" ELSE proc[p].state
  BY <1>1, Types DEF Processes, Terminated
<1>4. \A p \in Pids : proc'[p] = IF \E i \in Instances : workers[i] = p
                                 THEN Terminated(proc[p]) ELSE proc[p]
  BY DEF Shutdown, StopAll
<1>5. proc' \in [Pids -> Processes] /\ proc \in [Pids -> Processes]
  <2>1. \A p \in Pids : (IF \E i \in Instances : workers[i] = p
                         THEN Terminated(proc[p]) ELSE proc[p]) \in Processes
    BY <1>1, <1>3, Types
  <2> QED BY <1>1, <2>1, Types DEF Shutdown, StopAll
<1>6. ProcMove
  <2> SUFFICES ASSUME NEW p \in Pids
               PROVE  /\ proc'[p].inst = proc[p].inst
                      /\ proc'[p].state = "free" <=> proc[p].state = "free"
                      /\ proc[p].state = "dead" => proc'[p].state = "dead"
                      /\ proc'[p].state \in {"boot", "up"} => proc[p].state \in {"boot", "up"}
                      /\ proc'[p].state = "deaf" => proc[p].state \in {"up", "deaf"}
    BY DEF ProcMove
  <2>1. proc'[p] = Terminated(proc[p]) \/ proc'[p] = proc[p]
    BY <1>4
  <2> QED BY <1>3, <1>5, <2>1 DEF Processes
<1>7. MapMove
  <2>1. ASSUME NEW i \in Instances, workers[i] # NoPid
        PROVE  proc'[workers[i]].state \notin {"boot", "up"}
    <3>1. workers[i] \in Pids
      BY <1>1, <2>1, Types
    <3> QED BY <1>3, <1>4, <3>1
  <2> QED BY <1>2, <2>1 DEF MapMove
<1>8. StatusMove /\ CancelMove /\ \A c \in Handlers : CallMove(c)
  BY <1>1, <1>2, StayingMoves
<1>9. WorkerInv'
  BY <1>1, <1>2, <1>6, <1>7, <1>8, CalmStep
<1>10. TypeOK' /\ OrchInv'
  BY <1>1, <1>2, <1>5 DEF TypeOK, SupervisorTypeOK, OrchInv
<1> QED BY <1>9, <1>10 DEF ServerInv

\* The end of the process leaves nothing in it.
LEMMA GoneStep ==
  ASSUME ServerInv, Gone
  PROVE  ServerInv'
<1>1. TypeOK /\ OrchInv /\ WorkerInv
  BY DEF ServerInv
<1>2. h' \in [Handlers -> Calls]
      /\ \A c \in Handlers : h'[c].pc = "idle" /\ h'[c].becomes = "RUNNING"
  BY <1>1, IdleCallFields DEF Gone
<1>3. TypeOK'
  BY <1>1, <1>2 DEF TypeOK, SupervisorTypeOK, Gone
<1>4. OrchInv'
  BY <1>2 DEF OrchInv, Gone
<1>5. MapInv' /\ CallInv' /\ NoWorkerEscapes'
  BY <1>2 DEF MapInv, CallInv, NoWorkerEscapes, Gone
<1>6. ForkInv'
  BY <1>2 DEF ForkInv, Forking, Gone
<1>7. CancelInv'
  BY <1>1, <1>2 DEF CancelInv, Canceling, WorkerInv, Gone
<1> QED BY <1>3, <1>4, <1>5, <1>6, <1>7 DEF ServerInv, WorkerInv

\* A new process recovers instances that are RUNNING, hence not cancelled.
LEMMA BootStep ==
  ASSUME ServerInv, Boot
  PROVE  ServerInv'
<1>1. TypeOK /\ OrchInv /\ WorkerInv
  BY DEF ServerInv
<1>2. UNCHANGED <<workers, proc, monitored, status, named, h, agent, canceled>>
      /\ orch = "down" /\ orch' = "recovering" /\ boots' \in 0 .. MaxBoots
  BY <1>1, BootAssumption DEF Boot, TypeOK, supervisorVars
<1>3. todo' \subseteq {i \in Instances : status[i] = "RUNNING"}
  BY DEF Boot
<1>4. monitored = {} /\ todo = {} /\ \A c \in Handlers : h[c].pc = "idle"
  BY <1>1, <1>2 DEF OrchInv
<1>5. TypeOK'
  BY <1>1, <1>2, <1>3 DEF TypeOK, SupervisorTypeOK
<1>6. OrchInv'
  BY <1>2, <1>4 DEF OrchInv
<1>7. MapInv' /\ CallInv' /\ NoWorkerEscapes'
  BY <1>1, <1>2, <1>4 DEF WorkerInv, MapInv, CallInv, NoWorkerEscapes
<1>8. \A i \in todo' : i \notin canceled /\ status[i] # "NONE"
  BY <1>1, <1>3 DEF WorkerInv, CancelInv
<1>9. ForkInv'
  BY <1>2, <1>4, <1>8 DEF ForkInv, Forking, Unmonitored
<1>10. CancelInv'
  BY <1>1, <1>2, <1>4, <1>8 DEF WorkerInv, CancelInv, Canceling
<1> QED BY <1>5, <1>6, <1>7, <1>9, <1>10 DEF ServerInv, WorkerInv

-------------------------------------------------------------------------------

\* No row, no process and no call: the invariant holds at the beginning.
LEMMA ServerInit ==
  ASSUME Init
  PROVE  ServerInv
<1>1. PICK i0 \in Instances :
         proc = [p \in Pids |-> [state |-> "free", inst |-> i0, named |-> FALSE]]
  BY DEF Init, SupervisorInit
<1>2. (CHOOSE i \in Instances : TRUE) \in Instances
  BY <1>1
<1>3. IdleCall \in Calls /\ IdleCall.pc = "idle" /\ IdleCall.becomes = "RUNNING"
  BY <1>2 DEF IdleCall, Calls
<1>4. /\ h \in [Handlers -> Calls]
      /\ \A c \in Handlers : h[c].pc = "idle" /\ h[c].becomes = "RUNNING"
  BY <1>3 DEF Init
<1>5. proc \in [Pids -> Processes]
  BY <1>1 DEF Processes
<1>6. workers \in [Instances -> Pids \cup {NoPid}] /\ monitored = {} /\ todo = {} /\ canceled = {}
      /\ \A i \in Instances : workers[i] = NoPid
  BY DEF Init, SupervisorInit, NewSupervisor
<1>7. TypeOK
  <2>1. status \in [Instances -> Statuses] /\ named \in [Instances -> BOOLEAN]
        /\ orch = "down" /\ agent \in BOOLEAN
    BY DEF Init, Statuses
  <2>2. boots \in 0 .. MaxBoots
    BY BootAssumption DEF Init
  <2> QED BY <1>4, <1>5, <1>6, <2>1, <2>2 DEF TypeOK, SupervisorTypeOK
<1>8. OrchInv
  BY <1>4, <1>6 DEF OrchInv
<1>9. MapInv /\ CallInv /\ NoWorkerEscapes
  BY <1>4, <1>6 DEF MapInv, CallInv, NoWorkerEscapes
<1>10. ForkInv /\ CancelInv
  BY <1>4, <1>6 DEF ForkInv, Forking, CancelInv, Canceling
<1> QED BY <1>7, <1>8, <1>9, <1>10 DEF ServerInv, WorkerInv

\* The invariant is inductive.
LEMMA ServerInductive ==
  ASSUME ServerInv, [Next]_vars
  PROVE  ServerInv'
<1>1. ASSUME NEW c \in Handlers, NewCall(c) \/ Step(c) \/ ContextEnds(c)
      PROVE  ServerInv'
  BY <1>1, NewCallStep, StepInv, ContextStep
<1>2. ASSUME NEW p \in Pids, WorkerStep(p) \/ Monitor(p)
      PROVE  ServerInv'
  BY <1>2, ProcessStep, MonitorStep
<1>3. ASSUME NEW i \in Instances, EngineEnds(i) \/ Recover(i)
      PROVE  ServerInv'
  BY <1>3, ProcessStep, RecoverStep
<1>4. CASE Connect \/ Disconnect \/ Serve \/ GracefulStop \/ UNCHANGED vars
  BY <1>4, PlainProcessStep
<1>5. CASE Exit \/ Crash
  BY <1>5, GoneStep DEF Exit, Crash
<1> QED BY <1>1, <1>2, <1>3, <1>4, <1>5, BootStep, ShutdownStep DEF Next

(* Type correctness of the server, the supervisor and the processes.        *)
THEOREM ServerTypeCorrect == Spec => []TypeOK
<1>1. ServerInv => TypeOK
  BY DEF ServerInv
<1> QED BY <1>1, ServerInit, ServerInductive, PTL DEF Spec

(* No worker escapes, however many calls, crashes and starts interleave: a  *)
(* running worker of this orchestrator is in the map or about to be         *)
(* signalled by StopWorker.                                                 *)
THEOREM WorkersDoNotEscape == Spec => []NoWorkerEscapes
<1>1. ServerInv => NoWorkerEscapes
  BY DEF ServerInv, WorkerInv
<1> QED BY <1>1, ServerInit, ServerInductive, PTL DEF Spec

(* A cancellation that CancelWorkflow accepted is effective: no process of  *)
(* the instance that this orchestrator forked lives, and no later start of  *)
(* the orchestrator recovers it.                                            *)
THEOREM CancellationIsEffective == Spec => []CancelEffective
<1>1. ServerInv => CancelEffective
  BY DEF ServerInv, WorkerInv, CancelInv, CancelEffective
<1> QED BY <1>1, ServerInit, ServerInductive, PTL DEF Spec
===============================================================================
