------------------------------ MODULE WorkerQueue -----------------------------
(***************************************************************************)
(* The queue of task results of one instance and the workers that consume   *)
(* it: one as a rule, two when a worker outlived its orchestrator.  The     *)
(* queue is durable, deliveries are acknowledged by hand, and a consumer    *)
(* has one delivery at a time (Qos(1, 0, false)).  A delivery that is not   *)
(* acknowledged when its consumer or its connection goes, or that is put    *)
(* back, returns to the head of the queue.                                  *)
(*                                                                         *)
(* A lost connection does not stop the handler: it goes on with a context   *)
(* of its own and writes the result that RabbitMQ has already taken back,   *)
(* while another worker may handle the same message.  Its Ack or Nack then  *)
(* reaches nobody, its loop ends, and the process stays without consuming   *)
(* again: a worker never reconnects.                                        *)
(***************************************************************************)
EXTENDS Naturals, Sequences, FiniteSets, SequencesExt

CONSTANTS
    Results,       \* the messages; each is published at most once
    Kind,          \* "good", "stray" (no such task) or "malformed" (body, id or status)
    Consumers,     \* the workers
    NoResult,
    MaxFailures    \* bound on failed statements, lost connections and dead workers

ASSUME QueueAssumption ==
    /\ NoResult \notin Results
    /\ Kind \in [Results -> {"good", "stray", "malformed"}]
    /\ MaxFailures \in Nat

VARIABLES
    published,
    queue,
    delivery,      \* what the handler of each consumer has in hand
    pc,            \* where each consumer is in handleTaskMessage
    connected,     \* the consumers that RabbitMQ knows
    written,       \* results that were written to their task
    failures

vars == <<published, queue, delivery, pc, connected, written, failures>>

\* The type invariant.
TypeOK ==
    /\ published \subseteq Results
    /\ queue \in Seq(Results)
    /\ delivery \in [Consumers -> Results \cup {NoResult}]
    /\ pc \in [Consumers -> {"down", "idle", "parse", "getTask", "write", "ack"}]
    /\ connected \subseteq Consumers
    /\ written \subseteq Results
    /\ failures \in 0 .. MaxFailures

Init ==
    /\ published = {}
    /\ queue = << >>
    /\ delivery = [c \in Consumers |-> NoResult]
    /\ pc = [c \in Consumers |-> "down"]
    /\ connected = {}
    /\ written = {}
    /\ failures = 0

-------------------------------------------------------------------------------

At(c, l) == pc[c] = l

Goto(c, l) == pc' = [pc EXCEPT ![c] = l]

Failure == failures < MaxFailures /\ failures' = failures + 1

\* The delivery that RabbitMQ waits for c to acknowledge.
Unacked(c) == IF c \in connected THEN delivery[c] ELSE NoResult

\* RabbitMQ puts what c has not acknowledged back into the queue.
TakeBack(c) == queue' = IF Unacked(c) = NoResult THEN queue ELSE <<Unacked(c)>> \o queue

\* The delivery is done with, and the handler returns.
Settle(c) ==
    /\ delivery' = [delivery EXCEPT ![c] = NoResult]
    /\ Goto(c, "idle")

\* A seeded bug: the flags of Nack are swapped.
NackDrops(c) == Settle(c) /\ UNCHANGED queue

\* Nack(false, true); without a connection it fails, which is not looked at.
NackRequeue(c) == Settle(c) /\ TakeBack(c)

\* Nack(false, false)
NackDrop(c) == Settle(c) /\ UNCHANGED queue

\* An agent publishes a result.
Publish(r) ==
    /\ r \notin published
    /\ published' = published \cup {r}
    /\ queue' = Append(queue, r)
    /\ UNCHANGED <<delivery, pc, connected, written, failures>>

\* New declares the queue, Start consumes from it.
StartConsuming(c) ==
    /\ At(c, "down")
    /\ Goto(c, "idle")
    /\ connected' = connected \cup {c}
    /\ UNCHANGED <<published, queue, delivery, written, failures>>

\* The loop of Start receives a delivery; without a connection it has ended.
Deliver(c) ==
    /\ At(c, "idle")
    /\ c \in connected
    /\ queue # << >>
    /\ delivery' = [delivery EXCEPT ![c] = Head(queue)]
    /\ queue' = Tail(queue)
    /\ Goto(c, "parse")
    /\ UNCHANGED <<published, connected, written, failures>>

\* A seeded bug: what cannot be parsed is put back.
ParseMessageKeeps(c) ==
    /\ At(c, "parse")
    /\ IF Kind[delivery[c]] = "malformed" THEN NackRequeue(c)
       ELSE Goto(c, "getTask") /\ UNCHANGED <<queue, delivery>>
    /\ UNCHANGED <<published, connected, written, failures>>

\* A body that is no JSON, an id that is no UUID or an unknown status.
ParseMessage(c) ==
    /\ At(c, "parse")
    /\ IF Kind[delivery[c]] = "malformed" THEN NackDrop(c)
       ELSE Goto(c, "getTask") /\ UNCHANGED <<queue, delivery>>
    /\ UNCHANGED <<published, connected, written, failures>>

\* CompleteTask and FailTask of the engine read the task, ...
GetTask(c) ==
    /\ At(c, "getTask")
    /\ \/ Kind[delivery[c]] = "good" /\ Goto(c, "write") /\ UNCHANGED <<queue, delivery, failures>>
       \/ Kind[delivery[c]] = "stray" /\ NackRequeue(c) /\ UNCHANGED failures
       \/ Failure /\ NackRequeue(c)
    /\ UNCHANGED <<published, connected, written>>

\* ... write the result and start a goroutine that resumes the workflow.
WriteResult(c) ==
    /\ At(c, "write")
    /\ \/ /\ written' = written \cup {delivery[c]}
          /\ Goto(c, "ack")
          /\ UNCHANGED <<queue, delivery, failures>>
       \/ Failure /\ NackRequeue(c) /\ UNCHANGED written
    /\ UNCHANGED <<published, connected>>

\* Ack(false); without a connection it fails, which is not looked at.
AckDelivery(c) ==
    /\ At(c, "ack")
    /\ Settle(c)
    /\ UNCHANGED <<published, queue, connected, written, failures>>

\* The connection goes; RabbitMQ takes the delivery back, the handler goes on.
ConnectionLost(c) ==
    /\ c \in connected
    /\ Failure
    /\ connected' = connected \ {c}
    /\ TakeBack(c)
    /\ UNCHANGED <<published, delivery, pc, written>>

\* A seeded bug: something is put back although nothing was delivered.
ConsumerDiesEmptyHanded(c) ==
    /\ ~At(c, "down")
    /\ Failure
    /\ connected' = connected \ {c}
    /\ delivery' = [delivery EXCEPT ![c] = NoResult]
    /\ queue' = <<Unacked(c)>> \o queue
    /\ Goto(c, "down")
    /\ UNCHANGED <<published, written>>

\* The worker process ends, and with it the handler and the connection.
ConsumerDies(c) ==
    /\ ~At(c, "down")
    /\ Failure
    /\ connected' = connected \ {c}
    /\ delivery' = [delivery EXCEPT ![c] = NoResult]
    /\ TakeBack(c)
    /\ Goto(c, "down")
    /\ UNCHANGED <<published, written>>

-------------------------------------------------------------------------------

\* handleTaskMessage
Handle(c) == ParseMessage(c) \/ GetTask(c) \/ WriteResult(c) \/ AckDelivery(c)

Next ==
    \/ \E r \in Results : Publish(r)
    \/ \E c \in Consumers : StartConsuming(c) \/ Deliver(c) \/ Handle(c)
                            \/ ConnectionLost(c) \/ ConsumerDies(c)

Spec == Init /\ [][Next]_vars

\* A consumer that is connected gets deliveries and handles them.
FairSpec == Spec /\ \A c \in Consumers : WF_vars(Deliver(c) \/ Handle(c))

-------------------------------------------------------------------------------

InFlight == {Unacked(c) : c \in Consumers} \ {NoResult}

(* No result is lost: until it was written to its task RabbitMQ has it, in  *)
(* the queue or unacknowledged with a connected consumer, whatever          *)
(* statements fail and whenever connections break and workers die; a        *)
(* handler that lost its connection is not counted on.  And RabbitMQ never  *)
(* has it twice, although such handlers go on to settle what it took back:  *)
(* of the connected workers at most one handles it.                         *)
ResultKept ==
    /\ \A r \in published :
         Kind[r] # "malformed" => r \in ToSet(queue) \cup InFlight \cup written
    /\ Cardinality(ToSet(queue)) = Len(queue)
    /\ ToSet(queue) \cap InFlight = {}
    /\ \A c, d \in connected : (delivery[c] = delivery[d] /\ delivery[c] # NoResult) => c = d

NoStray == \A r \in published : Kind[r] # "stray"

(* As long as there is a connected worker from time to time and every       *)
(* message names an existing task, every good result is written to its      *)
(* task: messages that cannot be parsed do not block the queue.  A message  *)
(* for a task that does not exist does: it returns to the head of the queue *)
(* for ever.                                                                *)
EventuallyWritten ==
    ([]<>(connected # {}) /\ []NoStray) =>
        \A r \in Results : (r \in published /\ Kind[r] = "good") ~> (r \in written)
===============================================================================
