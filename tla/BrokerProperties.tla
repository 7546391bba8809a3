-------------------------- MODULE BrokerProperties --------------------------
(***************************************************************************)
(* What the queues of the broker promise, over the behaviours of Broker.   *)
(***************************************************************************)
EXTENDS Broker

Message == [queue : Queues, prio : Priorities, ttl : BOOLEAN, from : 0..MaxMessages]

\* The event loop and the database queue hold tasks, whose work is made of steps.
TasksTypeOK ==
  /\ running \in Tasks \cup {NoTask}
  /\ todo \in [Tasks -> Seq(Step)]
  /\ dbq \in Seq(Tasks)

DataTypeOK ==
  /\ up \in {"down", "restoring", "up"}
  /\ msgs \in Seq(Message) /\ Len(msgs) <= MaxMessages
  /\ created \in Seq(Queues)
  /\ qtype \in [Queues -> QueueType \cup {"absent"}]
  /\ ready \in [Queues -> Seq(Ids)]
  /\ inflight \in [Ids -> Nat]
  /\ consumers \in [Queues -> Seq(Consumer)]
  /\ turn \in [Queues -> Nat]
  /\ subs \in [Conns -> [Subs -> Queues \cup {NoQueue}]]
  /\ link \in [Conns -> {"none", "open", "lost", "gone"}]
  /\ queueRows \in [Queues -> QueueType \cup {"absent"}]
  /\ rows \in [Ids -> Status]
  /\ counts \in [Ids -> 0..MaxCount]
  /\ inbox \in [Conns -> SUBSET Ids]
  /\ expired \subseteq Ids /\ handed \subseteq Ids /\ confirmed \subseteq Ids /\ acked \subseteq Ids
  /\ crashes \in 0..MaxCrashes /\ dbFailures \in 0..MaxDbFailures

\* Every variable has its type.
TypeOK == TasksTypeOK /\ DataTypeOK
-----------------------------------------------------------------------------
(* Where a message is. *)

Known == 1..Len(msgs)
ReadyAt(id) ==
  UNION {{<<q, i>> : i \in {k \in 1..Len(ready[q]) : ready[q][k] = id}} : q \in Queues}
FailedBy(id) ==
  UNION {{<<t, i>> : i \in {k \in 1..Len(todo[t]) :
                              todo[t][k].do = "Failed" /\ todo[t][k].id = id}} : t \in Tasks}
InMemory(id) == ReadyAt(id) # {} \/ inflight[id] > 0 \/ FailedBy(id) # {}

\* A message is over once a consumer acknowledged it or its time ran out; it
\* has moved once a copy of it was made for a dead letter queue.
Over(id) == id \in acked \cup expired
Copies(id) == {j \in Known : msgs[j].from = id}
Moved(id) == Copies(id) # {}

\* Sets with a message, the copies of it, the copies of these, and so on: a copy
\* that fails goes to the dead letter queue of the dead letter queue.
Lineages(id) == {S \in SUBSET Known : id \in S /\ \A j \in S : Copies(j) \subseteq S}

\* a is due before b when neither was handed out yet.
Precedes(a, b, type) ==
  \/ msgs[a].prio > msgs[b].prio
  \/ msgs[a].prio = msgs[b].prio /\ (IF type = "LIFO" THEN a > b ELSE a < b)
-----------------------------------------------------------------------------
\* While the server is up, every message it confirmed or has a row of is in the
\* heap, in flight or in the hands of a task, or it is over, or this is so of a
\* copy that took its place: no order of handlers, scans and restarts drops one
\* that nobody acknowledged.
Held ==
  up = "up" => \A id \in confirmed \cup {i \in Ids : rows[i] # "absent"} :
    \A S \in Lineages(id) : \E j \in S : InMemory(j) \/ Over(j)

\* A message is in one place at a time: not twice in the heap, not in the heap
\* while it is in flight, not failed by two tasks.
Exclusive ==
  \A id \in Known :
    Cardinality(ReadyAt(id)) + Cardinality(FailedBy(id))
      + (IF inflight[id] > 0 THEN 1 ELSE 0) <= 1

\* No lost wakeup: when every task rests, no queue has both a ready message and
\* a consumer; nothing else would bring them together.
NoLostWakeup ==
  (\A t \in Tasks : Idle(t)) =>
    \A q \in Queues : ready[q] = <<>> \/ consumers[q] = <<>>

\* A row of a message has a row of its queue: restore() only loads the messages
\* of the queues load_queues returns.
QueueRowFirst ==
  \A id \in Known : rows[id] # "absent" => queueRows[msgs[id].queue] # "absent"

\* A confirmed message has a row until it is over or has moved, so that a crash
\* at any point leaves it to restore().
Durable == \A id \in confirmed : rows[id] # "absent" \/ Over(id) \/ Moved(id)

\* The queue has one type, in memory and in the database, whoever names which.
OneQueueType ==
  \A q \in Queues : Exists(q) /\ queueRows[q] # "absent" => qtype[q] = queueRows[q]

\* A connection that was unregistered consumes nothing: no handler or failed
\* delivery puts its consumer back.
NoGhostConsumer ==
  \A q \in Queues : \A i \in 1..Len(consumers[q]) :
    LET c == consumers[q][i][1] IN link[c] \in {"open", "lost"}

\* Messages are first handed out by priority and, among equals, in the order of
\* publication or its reverse in a LIFO queue; a restart keeps that order.
ServedInOrder ==
  [][\A b \in handed' \ handed :
       LET q == msgs[b].queue IN
       \A i \in 1..Len(ready[q]) :
         LET a == ready[q][i] IN
         a \in handed \cup {b} \/ Precedes(b, a, qtype[q])]_vars

\* A row goes only when its message is over or was copied.
RowsGoForAReason ==
  [][\A id \in Ids : rows[id] # "absent" /\ rows'[id] = "absent"
        => Over(id)' \/ Moved(id)']_vars

\* What REPORT.md says of the dead letter queue: a message that failed
\* max_deliveries times is not delivered once more.
DeliveriesBounded ==
  \A id \in Known : counts[id] <= MaxDeliveries[msgs[id].queue]
-----------------------------------------------------------------------------
\* A message whose consumer never answers does not stay in flight for ever,
\* unless the timeout loop itself waits in the drain of a consumer that does not
\* read: no other task that does holds it up.
Redelivered ==
  \A id \in Ids : inflight[id] > 0 ~> inflight[id] = 0 \/ []HeldUp(TimeoutLoop)

\* A confirmed message is handed to a consumer, unless its time runs out first
\* or its queue is left without consumers, by a crash for instance.
Delivered ==
  \A id \in Ids :
    id \in confirmed ~>
      \/ id \in handed \/ Over(id)
      \/ id \in Known /\ consumers[msgs[id].queue] = <<>>

\* A scan of the timeout loop ends, so that the next one can begin.
ScanEnds == ~Idle(TimeoutLoop) ~> Idle(TimeoutLoop) \/ []HeldUp(TimeoutLoop)
=============================================================================
