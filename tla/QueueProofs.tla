------------------------------ MODULE QueueProofs -----------------------------
(***************************************************************************)
(* RabbitMQ loses no result of an agent and has none twice: ResultKept of   *)
(* module WorkerQueue for any number of messages, consumers and failures.   *)
(*                                                                         *)
(* ResultKept is not inductive.  QueueInv adds that only published messages *)
(* are in the queue or unacknowledged (so that publishing one makes no      *)
(* copy), that a consumer holds a delivery exactly while it handles it,     *)
(* that a worker that is down has no connection, and that what a handler is *)
(* about to acknowledge was written.                                        *)
(***************************************************************************)
EXTENDS WorkerQueue, FiniteSetTheorems, SequenceTheorems, TLAPS

Distinct(s) == \A i, j \in 1 .. Len(s) : s[i] = s[j] => i = j

-------------------------------------------------------------------------------
(* The three moves of the queue.                                            *)

\* A message published joins the end.
LEMMA JoinEnd ==
  ASSUME NEW s \in Seq(Results), NEW e \in Results
  PROVE  /\ Append(s, e) \in Seq(Results)
         /\ ToSet(Append(s, e)) = ToSet(s) \cup {e}
         /\ (Distinct(s) /\ e \notin ToSet(s)) => Distinct(Append(s, e))
<1>1. /\ Append(s, e) \in Seq(Results) /\ Len(s) \in Nat
      /\ DOMAIN s = 1 .. Len(s) /\ DOMAIN Append(s, e) = 1 .. Len(s) + 1
      /\ Len(Append(s, e)) = Len(s) + 1
      /\ \A i \in 1 .. Len(s) : Append(s, e)[i] = s[i]
      /\ Append(s, e)[Len(s) + 1] = e
  OBVIOUS
<1>2. ToSet(Append(s, e)) = ToSet(s) \cup {e}
  BY <1>1 DEF ToSet
<1>3. ASSUME Distinct(s), e \notin ToSet(s) PROVE Distinct(Append(s, e))
  <2> SUFFICES ASSUME NEW i \in 1 .. Len(s) + 1, NEW j \in 1 .. Len(s) + 1,
                      Append(s, e)[i] = Append(s, e)[j]
               PROVE  i = j
    BY <1>1 DEF Distinct
  <2>1. \A k \in 1 .. Len(s) : s[k] # e
    BY <1>1, <1>3 DEF ToSet
  <2> QED BY <1>1, <1>3, <2>1 DEF Distinct
<1> QED BY <1>1, <1>2, <1>3

\* A message that is put back goes to the head.
LEMMA JoinHead ==
  ASSUME NEW s \in Seq(Results), NEW e \in Results
  PROVE  /\ <<e>> \o s \in Seq(Results)
         /\ ToSet(<<e>> \o s) = ToSet(s) \cup {e}
         /\ (Distinct(s) /\ e \notin ToSet(s)) => Distinct(<<e>> \o s)
<1> DEFINE t == <<e>> \o s
<1>1. /\ t \in Seq(Results) /\ Len(s) \in Nat
      /\ DOMAIN s = 1 .. Len(s) /\ DOMAIN t = 1 .. Len(s) + 1
      /\ Len(t) = Len(s) + 1
      /\ \A i \in 1 .. Len(s) : t[i + 1] = s[i]
      /\ t[1] = e
  OBVIOUS
<1>2. \A i \in 2 .. Len(s) + 1 : i - 1 \in 1 .. Len(s) /\ t[i] = s[i - 1]
  BY <1>1
<1> HIDE DEF t
<1>3. ToSet(t) = ToSet(s) \cup {e}
  <2>1. \A i \in 1 .. Len(s) : i + 1 \in 1 .. Len(s) + 1
    BY <1>1
  <2>2. 1 \in 1 .. Len(s) + 1 /\ \A i \in 1 .. Len(s) + 1 : i = 1 \/ i \in 2 .. Len(s) + 1
    BY <1>1
  <2>3. ToSet(s) \cup {e} \subseteq ToSet(t)
    BY <1>1, <2>1, <2>2 DEF ToSet
  <2>4. ASSUME NEW i \in 1 .. Len(s) + 1 PROVE t[i] \in ToSet(s) \cup {e}
    BY <1>1, <1>2, <2>2 DEF ToSet
  <2>5. ToSet(t) \subseteq ToSet(s) \cup {e}
    BY <1>1, <2>4 DEF ToSet
  <2> QED BY <2>3, <2>5
<1>4. ASSUME Distinct(s), e \notin ToSet(s) PROVE Distinct(t)
  <2> SUFFICES ASSUME NEW i \in 1 .. Len(s) + 1, NEW j \in 1 .. Len(s) + 1, t[i] = t[j]
               PROVE  i = j
    BY <1>1 DEF Distinct
  <2>1. \A k \in 1 .. Len(s) : s[k] # e
    BY <1>1, <1>4 DEF ToSet
  <2>2. CASE i = 1 \/ j = 1
    BY <1>1, <1>2, <2>1, <2>2
  <2>3. CASE i # 1 /\ j # 1
    <3>1. i \in 2 .. Len(s) + 1 /\ j \in 2 .. Len(s) + 1
      BY <1>1, <2>3
    <3>2. i - 1 = j - 1
      BY <1>2, <1>4, <3>1 DEF Distinct
    <3> QED BY <3>2
  <2> QED BY <2>2, <2>3
<1> QED BY <1>1, <1>3, <1>4 DEF t

\* A delivery takes the head away.
LEMMA TakeHead ==
  ASSUME NEW s \in Seq(Results), s # << >>
  PROVE  /\ Head(s) \in Results /\ Tail(s) \in Seq(Results)
         /\ ToSet(s) = ToSet(Tail(s)) \cup {Head(s)}
         /\ Distinct(s) => Distinct(Tail(s)) /\ Head(s) \notin ToSet(Tail(s))
<1> DEFINE u == Tail(s)
<1>1. /\ Head(s) \in Results /\ u \in Seq(Results) /\ Len(s) \in Nat /\ Len(s) >= 1
      /\ Len(u) = Len(s) - 1 /\ Head(s) = s[1]
      /\ DOMAIN s = 1 .. Len(s) /\ DOMAIN u = 1 .. Len(s) - 1
      /\ \A i \in 1 .. Len(s) - 1 : u[i] = s[i + 1]
  BY EmptySeq, HeadTailProperties
<1> HIDE DEF u
<1>2. \A i \in 2 .. Len(s) : i - 1 \in 1 .. Len(s) - 1 /\ s[i] = u[i - 1]
  BY <1>1
<1>3. ToSet(s) = ToSet(u) \cup {Head(s)}
  <2>1. \A i \in 1 .. Len(s) - 1 : i + 1 \in 1 .. Len(s)
    BY <1>1
  <2>2. 1 \in 1 .. Len(s) /\ \A i \in 1 .. Len(s) : i = 1 \/ i \in 2 .. Len(s)
    BY <1>1
  <2>3. ToSet(u) \cup {Head(s)} \subseteq ToSet(s)
    <3>1. \A i \in 1 .. Len(s) : s[i] \in ToSet(s)
      BY <1>1 DEF ToSet
    <3>2. \A i \in 1 .. Len(s) - 1 : u[i] \in ToSet(s)
      BY <1>1, <2>1, <3>1
    <3>3. ToSet(u) \subseteq ToSet(s)
      BY <1>1, <3>2 DEF ToSet
    <3> QED BY <1>1, <2>2, <3>1, <3>3
  <2>4. ASSUME NEW i \in 1 .. Len(s) PROVE s[i] \in ToSet(u) \cup {Head(s)}
    BY <1>1, <1>2, <2>2 DEF ToSet
  <2>5. ToSet(s) \subseteq ToSet(u) \cup {Head(s)}
    BY <1>1, <2>4 DEF ToSet
  <2> QED BY <2>3, <2>5
<1>4. ASSUME Distinct(s) PROVE Distinct(u) /\ Head(s) \notin ToSet(u)
  <2>1. \A i \in 1 .. Len(s) - 1 : i + 1 \in 1 .. Len(s) /\ 1 \in 1 .. Len(s) /\ i + 1 # 1
    BY <1>1
  <2>2. Head(s) \notin ToSet(u)
    BY <1>1, <1>4, <2>1 DEF Distinct, ToSet
  <2>3. ASSUME NEW i \in 1 .. Len(s) - 1, NEW j \in 1 .. Len(s) - 1, u[i] = u[j] PROVE i = j
    <3>1. i + 1 = j + 1
      BY <1>1, <1>4, <2>1, <2>3 DEF Distinct
    <3> QED BY <3>1
  <2> QED BY <1>1, <2>2, <2>3 DEF Distinct
<1> QED BY <1>1, <1>3, <1>4 DEF u

\* A queue without repetition is as long as its set of messages is large.
LEMMA DistinctCardinality ==
  ASSUME NEW s \in Seq(Results), Distinct(s)
  PROVE  Cardinality(ToSet(s)) = Len(s)
<1>1. Len(s) \in Nat /\ DOMAIN s = 1 .. Len(s) /\ s \in [1 .. Len(s) -> ToSet(s)]
  BY LenProperties DEF ToSet
<1>2. s \in Surjection(1 .. Len(s), ToSet(s))
  BY <1>1 DEF Surjection, ToSet
<1>3. s \in Injection(1 .. Len(s), ToSet(s))
  BY <1>1 DEF Injection, IsInjective, Distinct
<1>4. IsFiniteSet(1 .. Len(s)) /\ Cardinality(1 .. Len(s)) = Len(s)
  BY <1>1, FS_Interval
<1> QED BY <1>2, <1>3, <1>4, FS_Surjection

-------------------------------------------------------------------------------
(* The invariant.                                                           *)

Handling(c) == pc[c] \in {"parse", "getTask", "write", "ack"}

\* What a consumer holds, and what it knows of it.
Held ==
    \A c \in Consumers :
        /\ Handling(c) <=> delivery[c] # NoResult
        /\ pc[c] \in {"getTask", "write", "ack"} => Kind[delivery[c]] # "malformed"
        /\ pc[c] = "ack" => delivery[c] \in written
        /\ pc[c] = "down" => c \notin connected

\* RabbitMQ has no message in two places, and none comes from nowhere.
Once ==
    /\ ToSet(queue) \subseteq published
    /\ Distinct(queue)
    /\ \A c \in Consumers : Unacked(c) # NoResult =>
         /\ Unacked(c) \in published
         /\ Unacked(c) \notin ToSet(queue)
         /\ \A d \in Consumers : Unacked(d) = Unacked(c) => d = c

\* What has not been written is somewhere.
Kept ==
    \A r \in published :
        \/ Kind[r] = "malformed" \/ r \in ToSet(queue) \/ r \in written
        \/ \E c \in Consumers : Unacked(c) = r

QueueInv == TypeOK /\ Held /\ Once /\ Kept

\* Only c has less to acknowledge after the step: nothing.
Relieved(c) == Unacked(c)' = NoResult /\ \A d \in Consumers \ {c} : Unacked(d)' = Unacked(d)

\* A handler that returns, a lost connection and a dead worker leave nothing unacknowledged.
LEMMA RelievedBy ==
  ASSUME TypeOK, NEW c \in Consumers,
         \/ delivery' = [delivery EXCEPT ![c] = NoResult] /\ connected' = connected
         \/ delivery' = delivery /\ connected' = connected \ {c}
         \/ delivery' = [delivery EXCEPT ![c] = NoResult] /\ connected' = connected \ {c}
  PROVE  Relieved(c)
<1>1. /\ delivery'[c] = NoResult \/ c \notin connected'
      /\ \A d \in Consumers \ {c} : delivery'[d] = delivery[d] /\ (d \in connected' <=> d \in connected)
  BY DEF TypeOK
<1> QED BY <1>1 DEF Relieved, Unacked

\* A delivery that is taken back moves from its consumer to the head of the queue.
LEMMA PutBack ==
  ASSUME QueueInv, NEW c \in Consumers, Relieved(c), TakeBack(c), UNCHANGED <<published, written>>
  PROVE  queue' \in Seq(Results) /\ Once' /\ Kept'
<1>0. queue \in Seq(Results) /\ NoResult \notin published
      /\ Unacked(c)' = NoResult /\ \A d \in Consumers \ {c} : Unacked(d)' = Unacked(d)
  BY QueueAssumption DEF QueueInv, TypeOK, Relieved
<1>1. CASE Unacked(c) = NoResult
  <2>1. queue' = queue
    BY <1>1 DEF TakeBack
  <2>2. Once'
    BY <1>0, <2>1 DEF QueueInv, Once
  <2>3. Kept'
    BY <1>0, <1>1, <2>1 DEF QueueInv, Kept
  <2> QED BY <1>0, <2>1, <2>2, <2>3
<1>2. CASE Unacked(c) # NoResult
  <2>1. Unacked(c) \in Results
    BY <1>2 DEF Unacked, QueueInv, TypeOK
  <2>2. /\ Unacked(c) \notin ToSet(queue) /\ Unacked(c) \in published /\ Distinct(queue)
        /\ ToSet(queue) \subseteq published
        /\ \A d \in Consumers : Unacked(d) = Unacked(c) => d = c
    BY <1>2 DEF QueueInv, Once
  <2>3. queue' = <<Unacked(c)>> \o queue
    BY <1>2 DEF TakeBack
  <2>4. /\ queue' \in Seq(Results) /\ Distinct(queue')
        /\ ToSet(queue') = ToSet(queue) \cup {Unacked(c)}
    BY <1>0, <2>1, <2>2, <2>3, JoinHead
  <2>5. Once'
    BY <1>0, <2>2, <2>4 DEF QueueInv, Once
  <2>6. Kept'
    BY <1>0, <2>4 DEF QueueInv, Kept
  <2> QED BY <2>4, <2>5, <2>6
<1> QED BY <1>1, <1>2

\* A delivery that is settled and not put back leaves its consumer.
LEMMA LetGo ==
  ASSUME QueueInv, NEW c \in Consumers, Relieved(c),
         Kind[delivery[c]] = "malformed" \/ delivery[c] \in written,
         UNCHANGED <<published, queue, written>>
  PROVE  Once' /\ Kept'
<1>1. Unacked(c)' = NoResult /\ \A d \in Consumers \ {c} : Unacked(d)' = Unacked(d)
  BY DEF Relieved
<1>2. Once'
  BY <1>1 DEF QueueInv, Once
<1>3. NoResult \notin published
  BY QueueAssumption DEF QueueInv, TypeOK
<1>4. \A r \in published : Unacked(c) = r => Kind[r] = "malformed" \/ r \in written
  BY <1>3 DEF Unacked
<1>5. Kept'
  BY <1>1, <1>4 DEF QueueInv, Kept
<1> QED BY <1>2, <1>5

\* A step that moves no message keeps the invariant's parts about places.
LEMMA StayPut ==
  ASSUME QueueInv, UNCHANGED <<published, queue>>, written \subseteq written',
         \A c \in Consumers : Unacked(c)' = Unacked(c)
  PROVE  Once' /\ Kept'
  BY DEF QueueInv, Once, Kept

\* Where a consumer stands afterwards.
LEMMA HeldAfter ==
  ASSUME QueueInv, NEW c \in Consumers, NEW l, pc' = [pc EXCEPT ![c] = l],
         \A d \in Consumers \ {c} : delivery'[d] = delivery[d] /\ (d \in connected' => d \in connected),
         written \subseteq written',
         l \in {"parse", "getTask", "write", "ack"} <=> delivery'[c] # NoResult,
         l \in {"getTask", "write", "ack"} => Kind[delivery'[c]] # "malformed",
         l = "ack" => delivery'[c] \in written',
         l = "down" => c \notin connected'
  PROVE  Held'
<1>1. pc'[c] = l /\ \A d \in Consumers \ {c} : pc'[d] = pc[d]
  BY DEF QueueInv, TypeOK
<1> QED BY <1>1 DEF QueueInv, Held, Handling

\* QueueInv is inductive: one step per action.
LEMMA QueueInductive ==
  ASSUME QueueInv, [Next]_vars
  PROVE  QueueInv'
<1>t. /\ published \subseteq Results /\ queue \in Seq(Results)
      /\ delivery \in [Consumers -> Results \cup {NoResult}]
      /\ pc \in [Consumers -> {"down", "idle", "parse", "getTask", "write", "ack"}]
      /\ connected \subseteq Consumers
      /\ written \subseteq Results /\ failures \in 0 .. MaxFailures /\ MaxFailures \in Nat
      /\ NoResult \notin Results /\ TypeOK
  BY QueueAssumption DEF QueueInv, TypeOK
<1>h. \A c \in Consumers :
        /\ pc[c] \in {"parse", "getTask", "write", "ack"} <=> delivery[c] # NoResult
        /\ pc[c] \in {"getTask", "write", "ack"} => Kind[delivery[c]] # "malformed"
        /\ pc[c] = "ack" => delivery[c] \in written
        /\ pc[c] = "down" => c \notin connected
  BY DEF QueueInv, Held, Handling
<1>f. Failure => failures' \in 0 .. MaxFailures
  BY <1>t DEF Failure
<1>u. UNCHANGED <<delivery, connected>> => \A c \in Consumers : Unacked(c)' = Unacked(c)
  BY DEF Unacked
<1>1. ASSUME NEW r \in Results, Publish(r) PROVE QueueInv'
  <2>1. /\ queue' \in Seq(Results) /\ ToSet(queue') = ToSet(queue) \cup {r}
        /\ (Distinct(queue) /\ r \notin ToSet(queue)) => Distinct(queue')
    BY <1>1, <1>t, JoinEnd DEF Publish
  <2>2. r \notin published /\ published' = published \cup {r}
        /\ UNCHANGED <<delivery, pc, connected, written, failures>>
    BY <1>1 DEF Publish
  <2>3. TypeOK'
    BY <1>t, <2>1, <2>2 DEF TypeOK
  <2>4. Held'
    BY <2>2 DEF QueueInv, Held, Handling
  <2>5. Once'
    BY <1>u, <2>1, <2>2 DEF QueueInv, Once
  <2>6. Kept'
    BY <1>u, <2>1, <2>2 DEF QueueInv, Kept
  <2> QED BY <2>3, <2>4, <2>5, <2>6 DEF QueueInv
<1>2. ASSUME NEW c \in Consumers, StartConsuming(c) PROVE QueueInv'
  <2>1. /\ pc' = [pc EXCEPT ![c] = "idle"] /\ pc[c] = "down" /\ connected' = connected \cup {c}
        /\ UNCHANGED <<published, queue, delivery, written, failures>>
    BY <1>2 DEF StartConsuming, At, Goto
  <2>2. TypeOK'
    BY <1>t, <2>1 DEF TypeOK
  <2>3. Held'
    BY <1>h, <2>1, HeldAfter
  <2>4. \A d \in Consumers : Unacked(d)' = Unacked(d)
    BY <1>h, <2>1 DEF Unacked
  <2> QED BY <2>1, <2>2, <2>3, <2>4, StayPut DEF QueueInv
<1>3. ASSUME NEW c \in Consumers, Deliver(c) PROVE QueueInv'
  <2>1. /\ pc[c] = "idle" /\ c \in connected /\ queue # << >> /\ queue' = Tail(queue)
        /\ delivery' = [delivery EXCEPT ![c] = Head(queue)]
        /\ pc' = [pc EXCEPT ![c] = "parse"] /\ UNCHANGED <<published, connected, written, failures>>
    BY <1>3 DEF Deliver, At, Goto
  <2>2. /\ Head(queue) \in Results /\ queue' \in Seq(Results)
        /\ ToSet(queue) = ToSet(queue') \cup {Head(queue)}
        /\ Distinct(queue) => Distinct(queue') /\ Head(queue) \notin ToSet(queue')
    BY <1>t, <2>1, TakeHead
  <2>3. /\ delivery[c] = NoResult /\ delivery'[c] = Head(queue) /\ Head(queue) # NoResult
        /\ \A d \in Consumers \ {c} : delivery'[d] = delivery[d]
    BY <1>t, <1>h, <2>1, <2>2
  <2>4. TypeOK'
    BY <1>t, <2>1, <2>2 DEF TypeOK
  <2>5. Held'
    BY <2>1, <2>3, HeldAfter
  <2>6. /\ Unacked(c) = NoResult /\ Unacked(c)' = Head(queue)
        /\ \A d \in Consumers \ {c} : Unacked(d)' = Unacked(d)
    BY <2>1, <2>3 DEF Unacked
  <2>7. Once'
    BY <2>1, <2>2, <2>3, <2>6 DEF QueueInv, Once
  <2>8. Kept'
    <3> SUFFICES ASSUME NEW r \in published,
                        Kind[r] # "malformed", r \notin ToSet(queue'), r \notin written
                 PROVE  \E d \in Consumers : Unacked(d)' = r
      BY <2>1 DEF Kept
    <3>1. CASE r = Head(queue)
      BY <2>6, <3>1
    <3>2. CASE r # Head(queue)
      <4>1. PICK d \in Consumers : Unacked(d) = r
        BY <2>2, <3>2 DEF QueueInv, Kept
      <4>2. d # c
        BY <1>t, <2>6, <4>1
      <4> QED BY <2>6, <4>1, <4>2
    <3> QED BY <3>1, <3>2
  <2> QED BY <2>4, <2>5, <2>7, <2>8 DEF QueueInv
<1>4. ASSUME NEW c \in Consumers, Failure \/ UNCHANGED failures, NackRequeue(c),
             UNCHANGED <<published, connected, written>>
      PROVE  QueueInv'
  <2>1. /\ delivery' = [delivery EXCEPT ![c] = NoResult] /\ pc' = [pc EXCEPT ![c] = "idle"]
        /\ TakeBack(c)
    BY <1>4 DEF NackRequeue, Settle, Goto
  <2>2. queue' \in Seq(Results) /\ Once' /\ Kept'
    BY <1>4, <1>t, <2>1, RelievedBy, PutBack
  <2>3. TypeOK'
    BY <1>4, <1>t, <1>f, <2>1, <2>2 DEF TypeOK
  <2>4. delivery'[c] = NoResult /\ \A d \in Consumers \ {c} : delivery'[d] = delivery[d]
    BY <1>t, <2>1
  <2>5. Held'
    BY <1>4, <2>1, <2>4, HeldAfter
  <2> QED BY <2>2, <2>3, <2>5 DEF QueueInv
<1>5. ASSUME NEW c \in Consumers, Settle(c),
             UNCHANGED <<published, queue, connected, written, failures>>,
             Kind[delivery[c]] = "malformed" \/ delivery[c] \in written
      PROVE  QueueInv'
  <2>1. delivery' = [delivery EXCEPT ![c] = NoResult] /\ pc' = [pc EXCEPT ![c] = "idle"]
    BY <1>5 DEF Settle, Goto
  <2>2. delivery'[c] = NoResult /\ \A d \in Consumers \ {c} : delivery'[d] = delivery[d]
    BY <1>t, <2>1
  <2>3. TypeOK'
    BY <1>5, <1>t, <2>1 DEF TypeOK
  <2>4. Held'
    BY <1>5, <2>1, <2>2, HeldAfter
  <2>5. Relieved(c)
    BY <1>5, <1>t, <2>1, RelievedBy
  <2> QED BY <1>5, <2>3, <2>4, <2>5, LetGo DEF QueueInv
<1>6. ASSUME NEW c \in Consumers, ParseMessage(c) PROVE QueueInv'
  <2>1. CASE Kind[delivery[c]] = "malformed"
    BY <1>5, <1>6, <2>1 DEF ParseMessage, NackDrop
  <2>2. CASE Kind[delivery[c]] # "malformed"
    <3>1. pc' = [pc EXCEPT ![c] = "getTask"] /\ pc[c] = "parse"
          /\ UNCHANGED <<published, queue, delivery, connected, written, failures>>
      BY <1>6, <2>2 DEF ParseMessage, At, Goto
    <3>2. TypeOK'
      BY <1>t, <3>1 DEF TypeOK
    <3>3. Held'
      BY <1>h, <2>2, <3>1, HeldAfter
    <3> QED BY <1>u, <3>1, <3>2, <3>3, StayPut DEF QueueInv
  <2> QED BY <2>1, <2>2
<1>7. ASSUME NEW c \in Consumers, GetTask(c) PROVE QueueInv'
  <2>1. pc[c] = "getTask" /\ UNCHANGED <<published, connected, written>>
    BY <1>7 DEF GetTask, At
  <2>2. CASE Goto(c, "write") /\ UNCHANGED <<queue, delivery, failures>>
    <3>1. TypeOK'
      BY <1>t, <2>1, <2>2 DEF TypeOK, Goto
    <3>2. Held'
      BY <1>h, <2>1, <2>2, HeldAfter DEF Goto
    <3> QED BY <1>u, <2>1, <2>2, <3>1, <3>2, StayPut DEF QueueInv
  <2>3. CASE NackRequeue(c) /\ (Failure \/ UNCHANGED failures)
    BY <1>4, <2>1, <2>3
  <2> QED BY <1>7, <2>2, <2>3 DEF GetTask
<1>8. ASSUME NEW c \in Consumers, WriteResult(c) PROVE QueueInv'
  <2>1. pc[c] = "write" /\ UNCHANGED <<published, connected>>
    BY <1>8 DEF WriteResult, At
  <2>2. CASE /\ written' = written \cup {delivery[c]} /\ Goto(c, "ack")
             /\ UNCHANGED <<queue, delivery, failures>>
    <3>1. delivery[c] \in Results
      BY <1>t, <1>h, <2>1
    <3>2. TypeOK'
      BY <1>t, <2>1, <2>2, <3>1 DEF TypeOK, Goto
    <3>3. Held'
      BY <1>h, <2>1, <2>2, HeldAfter DEF Goto
    <3> QED BY <1>u, <2>1, <2>2, <3>2, <3>3, StayPut DEF QueueInv
  <2>3. CASE Failure /\ NackRequeue(c) /\ UNCHANGED written
    BY <1>4, <2>1, <2>3
  <2> QED BY <1>8, <2>2, <2>3 DEF WriteResult
<1>9. ASSUME NEW c \in Consumers, AckDelivery(c) PROVE QueueInv'
  <2>1. delivery[c] \in written
    BY <1>9, <1>h DEF AckDelivery, At
  <2> QED BY <1>5, <1>9, <2>1 DEF AckDelivery
<1>10. ASSUME NEW c \in Consumers, ConsumerDies(c) PROVE QueueInv'
  <2>1. /\ delivery' = [delivery EXCEPT ![c] = NoResult] /\ pc' = [pc EXCEPT ![c] = "down"]
        /\ connected' = connected \ {c} /\ TakeBack(c)
        /\ failures' \in 0 .. MaxFailures /\ UNCHANGED <<published, written>>
    BY <1>10, <1>f DEF ConsumerDies, Goto
  <2>2. queue' \in Seq(Results) /\ Once' /\ Kept'
    BY <1>t, <2>1, RelievedBy, PutBack
  <2>3. delivery'[c] = NoResult /\ \A d \in Consumers \ {c} : delivery'[d] = delivery[d]
    BY <1>t, <2>1
  <2>4. TypeOK'
    BY <1>t, <2>1, <2>2 DEF TypeOK
  <2>5. Held'
    BY <2>1, <2>3, HeldAfter
  <2> QED BY <2>2, <2>4, <2>5 DEF QueueInv
<1>11. ASSUME NEW c \in Consumers, ConnectionLost(c) PROVE QueueInv'
  <2>1. /\ connected' = connected \ {c} /\ TakeBack(c) /\ failures' \in 0 .. MaxFailures
        /\ UNCHANGED <<published, delivery, pc, written>>
    BY <1>11, <1>f DEF ConnectionLost
  <2>2. queue' \in Seq(Results) /\ Once' /\ Kept'
    BY <1>t, <2>1, RelievedBy, PutBack
  <2>3. TypeOK'
    BY <1>t, <2>1, <2>2 DEF TypeOK
  <2>4. Held'
    BY <2>1 DEF QueueInv, Held, Handling
  <2> QED BY <2>2, <2>3, <2>4 DEF QueueInv
<1>12. CASE UNCHANGED vars
  <2>1. UNCHANGED <<published, queue, delivery, pc, connected, written, failures>>
    BY <1>12 DEF vars
  <2>2. Once' /\ Kept'
    BY <1>u, <2>1, StayPut
  <2> QED BY <2>1, <2>2 DEF QueueInv, TypeOK, Held, Handling
<1>13. CASE Next
  BY <1>13, <1>1, <1>2, <1>3, <1>6, <1>7, <1>8, <1>9, <1>10, <1>11 DEF Next, Handle
<1> QED BY <1>12, <1>13

\* It holds initially.
LEMMA QueueInitial == Init => QueueInv
<1> SUFFICES ASSUME Init PROVE QueueInv
  OBVIOUS
<1>1. TypeOK
  BY QueueAssumption DEF Init, TypeOK
<1>2. ToSet(queue) = {} /\ Distinct(queue)
  BY DEF Init, ToSet, Distinct
<1>3. Held /\ Once /\ Kept
  BY <1>2 DEF Init, Held, Handling, Once, Kept, Unacked
<1> QED BY <1>1, <1>3 DEF QueueInv

(* The queue, the deliveries and the places of the consumers in             *)
(* handleTaskMessage keep their types: nothing but a message that was       *)
(* published is ever delivered or put back.                                 *)
THEOREM QueueTypeCorrect == Spec => []TypeOK
<1>1. QueueInv => TypeOK
  BY DEF QueueInv
<1> QED BY <1>1, QueueInitial, QueueInductive, PTL DEF Spec

(* Until a result is written to its task RabbitMQ has it, exactly once, in  *)
(* the queue or unacknowledged: handleTaskMessage acknowledges only after   *)
(* the write, puts back what failed, and what a dead worker or a lost       *)
(* connection held is taken back, although the handler behind a lost        *)
(* connection goes on.  For any number of results, workers and failures.    *)
THEOREM ResultsAreKept == Spec => []ResultKept
<1>1. ASSUME QueueInv PROVE ResultKept
  <2>0. NoResult \notin published /\ connected \subseteq Consumers
    BY <1>1, QueueAssumption DEF QueueInv, TypeOK
  <2>1. \A r \in published :
          Kind[r] # "malformed" => r \in ToSet(queue) \cup InFlight \cup written
    <3> SUFFICES ASSUME NEW r \in published, Kind[r] # "malformed", r \notin ToSet(queue),
                        r \notin written
                 PROVE  r \in InFlight
      OBVIOUS
    <3>1. PICK c \in Consumers : Unacked(c) = r
      BY <1>1 DEF QueueInv, Kept
    <3> QED BY <2>0, <3>1 DEF InFlight
  <2>2. Cardinality(ToSet(queue)) = Len(queue)
    BY <1>1, DistinctCardinality DEF QueueInv, TypeOK, Once
  <2>3. ToSet(queue) \cap InFlight = {}
    BY <1>1 DEF QueueInv, Once, InFlight
  <2>4. \A c, d \in connected : (delivery[c] = delivery[d] /\ delivery[c] # NoResult) => c = d
    BY <1>1, <2>0 DEF QueueInv, Once, Unacked
  <2> QED BY <2>1, <2>2, <2>3, <2>4 DEF ResultKept
<1> QED BY <1>1, QueueInitial, QueueInductive, PTL DEF Spec
===============================================================================
