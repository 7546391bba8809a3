------------------------------- MODULE Broker -------------------------------
(***************************************************************************)
(* The queues of the PyBroker server (broker.py, queue.py, storage.py and  *)
(* the two loops of server.py), at the granularity of its awaits.          *)
(*                                                                         *)
(* The server is one asyncio event loop.  Its tasks are one handler per    *)
(* connection, the timeout loop, the expiry loop and, before the socket is *)
(* opened, main, which runs restore().  A task holds the loop (`running')  *)
(* until it awaits a storage call or a drain that has to wait; only then   *)
(* another task, a new frame or the database thread goes on.               *)
(*                                                                         *)
(* todo[t] is what task t still has to do, one record per step of code     *)
(* between two awaits or per await; an idle task has nothing to do.  A     *)
(* frame gives the task of its connection the steps of its handler; a step *)
(* is replaced by the steps of the call it makes.                          *)
(***************************************************************************)
EXTENDS MessageQueue, Storage, SequencesExt

CONSTANTS
  Conns,          \* client connections; each is opened once per server run
  Subs,           \* subscription ids a client uses on a connection
  Queues,         \* queue names, dead letter queues included
  DlqOf,          \* the queue named name + ".DLQ"
  MaxDeliveries,  \* max_deliveries of every queue
  Configured,     \* queues whose row is in the database before the first start
  Main, TimeoutLoop, ExpiryLoop,   \* the tasks that are not connections
  NoTask, NoQueue, NoConsumer

\* What the environment does, and the bounds of the model.
CONSTANTS
  Publishers,     \* connections that send messages
  Consumers,      \* connections that subscribe
  Nackers,        \* connections that answer some messages with NACK
  Lossy,          \* connections that may break
  Slow,           \* connections whose send buffer may fill up
  Targets,        \* queues that clients send and subscribe to
  Priorities, QueueTypes, Ttls,  \* headers clients use; Ttls \subseteq BOOLEAN
  MaxMessages,    \* messages created, copies in dead letter queues included
  MaxSends,       \* messages sent by clients
  MaxCount,       \* where delivery_count saturates
  MaxCrashes,     \* crashes of the server process
  MaxDbFailures   \* storage calls that raise

Ids == 1..MaxMessages
Tasks == Conns \cup {Main, TimeoutLoop, ExpiryLoop}
Consumer == Conns \X Subs

ASSUME ConstantsOK ==
  /\ IsFiniteSet(Queues) /\ DlqOf \in [Queues -> Queues]
  /\ MaxDeliveries \in [Queues -> Nat \ {0}]
  /\ Configured \subseteq Queues /\ Targets \subseteq Queues
  /\ Priorities \subseteq Int /\ QueueTypes \subseteq QueueType
  /\ Ttls \subseteq BOOLEAN
  /\ {MaxMessages, MaxSends, MaxCount, MaxCrashes, MaxDbFailures} \subseteq Nat
  /\ NoTask \notin Tasks /\ NoQueue \notin Queues /\ NoConsumer \notin Consumer
  /\ Main \notin Conns /\ TimeoutLoop \notin Conns /\ ExpiryLoop \notin Conns
  /\ Main # TimeoutLoop /\ Main # ExpiryLoop /\ TimeoutLoop # ExpiryLoop

VARIABLES
  up,         \* the server process: "down", "restoring" or "up"
  running,    \* the task that holds the event loop
  todo,       \* what every task has left to do
  dbq,        \* tasks whose storage call waits for the database thread
  msgs,       \* every message created: queue, priority, x-ttl, x-original-id (0: none)
  created,    \* QueueManager._queues, in the order of the dict
  qtype,      \* queue_type of every queue there is, "absent" of the others
  ready,      \* ready messages of every queue, next pop first
  inflight,   \* attempt stored in in_flight, 0 when there is no entry
  consumers,  \* consumers of every queue
  turn,       \* _consumer_index of every queue
  subs,       \* Connection.subscriptions: the queue of each subscription
  link,       \* "none", "open", "lost" (broken, not noticed yet) or "gone"
  queueRows, rows, counts,   \* the database, see Storage
  inbox,      \* MESSAGE frames a client has and has not answered
  expired,    \* messages whose expires_at has passed
  handed,     \* messages a MESSAGE frame was ever written of
  confirmed,  \* messages whose publisher was sent a RECEIPT
  acked,      \* messages some ACK removed from in_flight
  crashes, dbFailures

control == <<running, todo, dbq>>
memory == <<created, qtype, ready, inflight, consumers, turn>>
sessions == <<subs, link>>
database == <<queueRows, rows, counts>>
clients == <<inbox, handed, confirmed, acked, expired>>
faults == <<crashes, dbFailures>>
vars == <<up, control, msgs, memory, sessions, database, clients, faults>>
-----------------------------------------------------------------------------
(* Steps of a task. *)

Calls == {"SaveQueue", "SaveMessage", "SetReady", "SetInFlight", "DeleteMessage",
          "ResetInFlight", "LoadQueues", "LoadMessages"}
Kinds == Calls \cup {"Drain", "Deliver", "Failed", "Receipt", "CheckTimeouts",
                     "PurgeExpired", "Restore", "Serve"}

Step == [do : Kinds, q : Queues \cup {NoQueue}, id : 0..MaxMessages,
         att : Nat, to : Consumer \cup {NoConsumer}]

Do(kind, q, id, att, to) == [do |-> kind, q |-> q, id |-> id, att |-> att, to |-> to]
OnQueue(kind, q) == Do(kind, q, 0, 0, NoConsumer)
OnMessage(kind, q, id) == Do(kind, q, id, 0, NoConsumer)

Free == running = NoTask
Idle(t) == todo[t] = <<>>
Doing(t, kind) == running = t /\ ~Idle(t) /\ Head(todo[t]).do = kind

\* Task t goes on with these steps, the calls in `waiting' being those the
\* database thread has yet to answer.  It leaves the loop when it has nothing
\* left, until its next frame or scan, and when a storage call is next, which
\* it makes and awaits.
Proceed(t, steps, waiting) ==
  LET calls == steps # <<>> /\ Head(steps).do \in Calls IN
  /\ todo' = [todo EXCEPT ![t] = steps]
  /\ running' = IF steps = <<>> \/ calls THEN NoTask ELSE t
  /\ dbq' = IF calls THEN Append(waiting, t) ELSE waiting

Continue(t, steps) == Proceed(t, steps, dbq)

\* Task t replaces its current step by these steps.
Become(t, steps) == Continue(t, steps \o Tail(todo[t]))

Prio == [i \in 1..Len(msgs) |-> msgs[i].prio]
NewId == Len(msgs) + 1
Exists(q) == qtype[q] # "absent"

\* is_expired: the wall clock is left out, Expire lets any x-ttl run out.
IsExpired(id) == id \in expired
-----------------------------------------------------------------------------
(* Mistakes: each of these, put in the place of the definition it is named *)
(* after, must make a property of some run fail.  The model uses none, nor *)
(* MoveToDlq_notQueued below.                                              *)

GetOrCreate_retypes(q, type) ==
  /\ created' = IF Exists(q) THEN created ELSE Append(created, q)
  /\ qtype' = [qtype EXCEPT ![q] = type]
TakeOut_keeps(ids) == inflight
PublishSteps_receiptFirst(q, id) ==
  <<OnQueue("SaveQueue", q), OnMessage("Receipt", q, id),
    OnMessage("SaveMessage", q, id), OnQueue("Deliver", q)>>
PublishSteps_messageFirst(q, id) ==
  <<OnMessage("SaveMessage", q, id), OnQueue("SaveQueue", q),
    OnQueue("Deliver", q), OnMessage("Receipt", q, id)>>
SubscribeSteps_noDeliver(q) == <<OnQueue("SaveQueue", q)>>
NackSteps_dropped(q, id, att) == <<OnQueue("Deliver", q)>>
DlqSteps_noQueue(q, id, dlq, copy) ==
  <<OnMessage("DeleteMessage", q, id), OnMessage("SaveMessage", dlq, copy),
    OnQueue("Deliver", dlq)>>
DlqSteps_noDeliver(q, id, dlq, copy) ==
  <<OnQueue("SaveQueue", dlq), OnMessage("DeleteMessage", q, id),
    OnMessage("SaveMessage", dlq, copy)>>
DlqSteps_otherDeleted(q, id, dlq, copy) ==
  <<OnQueue("SaveQueue", dlq), OnMessage("SaveMessage", dlq, copy),
    OnMessage("DeleteMessage", dlq, copy), OnQueue("Deliver", dlq)>>
DispatchSteps_notSent(q, id, att, to) ==
  <<Do("Failed", q, id, att, NoConsumer), OnQueue("Deliver", q)>>
GiveUp_stops(t, rest, waiting) ==
  LET s == Head(todo[t]) IN
  /\ inflight' = [inflight EXCEPT ![s.id] = 0]
  /\ consumers' = [consumers EXCEPT ![s.q] = RemoveConsumer(@, s.to)]
  /\ Proceed(t, <<Do("Failed", s.q, s.id, s.att, NoConsumer)>> \o Tail(rest), waiting)
GiveUp_forgets(t, rest, waiting) ==
  LET s == Head(todo[t]) IN
  /\ inflight' = [inflight EXCEPT ![s.id] = 0]
  /\ consumers' = [consumers EXCEPT ![s.q] = RemoveConsumer(@, s.to)]
  /\ Proceed(t, rest, waiting)
InFlightOf_byRow(q) ==
  {id \in 1..Len(msgs) : msgs[id].queue = q /\ inflight[id] > 0 /\ rows[id] = "IN_FLIGHT"}
ExpiredOf_anyTtl(q) ==
  {id \in 1..Len(msgs) : msgs[id].ttl
     /\ \/ msgs[id].queue = q /\ inflight[id] > 0
        \/ \E i \in 1..Len(ready[q]) : ready[q][i] = id}
-----------------------------------------------------------------------------
(* The queues in memory. *)

\* QueueManager.get_or_create: the first caller's queue_type is kept.
GetOrCreate(q, type) ==
  IF Exists(q) THEN UNCHANGED <<created, qtype>>
  ELSE /\ created' = Append(created, q)
       /\ qtype' = [qtype EXCEPT ![q] = type]

\* in_flight without these messages: ack, take_in_flight and the scans.
TakeOut(ids) == [id \in Ids |-> IF id \in ids THEN 0 ELSE inflight[id]]

\* add_message on a queue of this type.
Enqueue(q, id, prio, type) ==
  ready' = [ready EXCEPT ![q] = AddMessage(@, id, prio, type)]

NewMessage(q, prio, ttl, from) ==
  [queue |-> q, prio |-> prio, ttl |-> ttl, from |-> from]
-----------------------------------------------------------------------------
(* What each handler does after its first, synchronous part.               *)

PublishSteps(q, id) ==
  <<OnQueue("SaveQueue", q), OnMessage("SaveMessage", q, id),
    OnQueue("Deliver", q), OnMessage("Receipt", q, id)>>
SubscribeSteps(q) == <<OnQueue("SaveQueue", q), OnQueue("Deliver", q)>>
AckSteps(q, id) == <<OnMessage("DeleteMessage", q, id), OnQueue("Deliver", q)>>
NackSteps(q, id, att) ==
  <<Do("Failed", q, id, att, NoConsumer), OnQueue("Deliver", q)>>
RequeueSteps(q, id) == <<OnMessage("SetReady", q, id)>>
DlqSteps(q, id, dlq, copy) ==
  <<OnQueue("SaveQueue", dlq), OnMessage("DeleteMessage", q, id),
    OnMessage("SaveMessage", dlq, copy), OnQueue("Deliver", dlq)>>
\* send_frame and update_status; a drain of an open connection that takes all
\* it is sent returns at once.
DispatchSteps(q, id, att, to) ==
  (IF to[1] \in Slow \/ link[to[1]] # "open" THEN <<Do("Drain", q, id, att, to)>> ELSE <<>>)
    \o <<Do("SetInFlight", q, id, att, to), OnQueue("Deliver", q)>>

\* One step of a kind for each message of a sequence.
ForEach(kind, q, ids) ==
  [i \in 1..Len(ids) |-> Do(kind, q, ids[i], inflight[ids[i]], NoConsumer)]
Ascending(S) == [i \in 1..Cardinality(S) |-> Nth(S, i)]
-----------------------------------------------------------------------------
(* Frames.  A handler starts when its connection has no other to finish;   *)
(* the frames of a broken connection that had arrived are still handled,   *)
(* but for UNSUBSCRIBE, which bounds them.                                 *)

Frame(c) == Free /\ Idle(c) /\ link[c] \in {"open", "lost"}
SentByClients == Cardinality({i \in 1..Len(msgs) : msgs[i].from = 0})

Connect(c) ==
  /\ up = "up" /\ Free /\ link[c] = "none"
  /\ link' = [link EXCEPT ![c] = "open"]
  /\ UNCHANGED <<up, control, msgs, memory, subs, database, clients, faults>>

\* The peer closes, the network fails, or the client sends DISCONNECT: the
\* transport may still take bytes, and may report the loss at any drain.
Lose(c) ==
  /\ c \in Lossy /\ Free /\ link[c] = "open"
  /\ link' = [link EXCEPT ![c] = "lost"]
  /\ UNCHANGED <<up, control, msgs, memory, subs, database, clients, faults>>

\* The reader is at its end: unregister.
Unregister(c) ==
  /\ Free /\ Idle(c) /\ link[c] = "lost"
  /\ link' = [link EXCEPT ![c] = "gone"]
  /\ subs' = [subs EXCEPT ![c] = [s \in Subs |-> NoQueue]]
  /\ consumers' = [q \in Queues |-> RemoveConnection(consumers[q], c, Subs)]
  /\ inbox' = [inbox EXCEPT ![c] = {}]
  /\ UNCHANGED <<up, control, msgs, created, qtype, ready, inflight, turn,
                 database, handed, confirmed, acked, expired, faults>>

\* SEND to a queue: the message is in the heap before it is in the database.
Send(c, q, type, prio, ttl) ==
  /\ c \in Publishers /\ Frame(c)
  /\ SentByClients < MaxSends /\ Len(msgs) < MaxMessages
  /\ GetOrCreate(q, type)
  /\ msgs' = Append(msgs, NewMessage(q, prio, ttl, 0))
  /\ Enqueue(q, NewId, Append(Prio, prio), IF Exists(q) THEN qtype[q] ELSE type)
  /\ Continue(c, PublishSteps(q, NewId))
  /\ UNCHANGED <<up, inflight, consumers, turn, sessions, database, clients, faults>>

\* SEND with an x-ttl so short that it has run out: the queue is created, the
\* message dropped.
SendExpired(c, q, type) ==
  /\ c \in Publishers /\ Frame(c) /\ TRUE \in Ttls
  /\ GetOrCreate(q, type)
  /\ UNCHANGED <<up, control, msgs, ready, inflight, consumers, turn,
                 sessions, database, clients, faults>>

\* SUBSCRIBE to a queue, under a subscription id the client is not using.
Subscribe(c, s, q, type) ==
  /\ c \in Consumers /\ Frame(c) /\ subs[c][s] = NoQueue
  /\ subs' = [subs EXCEPT ![c][s] = q]
  /\ GetOrCreate(q, type)
  /\ consumers' = [consumers EXCEPT ![q] = Append(@, <<c, s>>)]
  /\ Continue(c, SubscribeSteps(q))
  /\ UNCHANGED <<up, msgs, ready, inflight, turn, link, database, clients, faults>>

Unsubscribe(c, s) ==
  /\ Frame(c) /\ link[c] = "open" /\ subs[c][s] # NoQueue
  /\ subs' = [subs EXCEPT ![c][s] = NoQueue]
  /\ consumers' = [consumers EXCEPT ![subs[c][s]] = RemoveConsumer(@, <<c, s>>)]
  /\ UNCHANGED <<up, control, msgs, created, qtype, ready, inflight, turn,
                 link, database, clients, faults>>

\* ACK: any queue that has the message in flight loses it, else nothing happens.
Ack(c, id) ==
  /\ Frame(c) /\ id \in inbox[c]
  /\ inbox' = [inbox EXCEPT ![c] = @ \ {id}]
  /\ inflight' = TakeOut({id})
  /\ IF inflight[id] > 0
     THEN /\ acked' = acked \cup {id}
          /\ Continue(c, AckSteps(msgs[id].queue, id))
     ELSE UNCHANGED <<acked, control>>
  /\ UNCHANGED <<up, msgs, created, qtype, ready, consumers, turn, sessions,
                 database, handed, confirmed, expired, faults>>

Nack(c, id) ==
  /\ c \in Nackers /\ Frame(c) /\ id \in inbox[c]
  /\ inbox' = [inbox EXCEPT ![c] = @ \ {id}]
  /\ inflight' = TakeOut({id})
  /\ IF inflight[id] > 0
     THEN Continue(c, NackSteps(msgs[id].queue, id, inflight[id]))
     ELSE UNCHANGED control
  /\ UNCHANGED <<up, msgs, created, qtype, ready, consumers, turn, sessions,
                 database, handed, confirmed, acked, expired, faults>>
-----------------------------------------------------------------------------
(* The delivery loop. *)

\* One turn of the loop of _deliver_from_queue, to its first await.
Deliver(t) ==
  LET q == Head(todo[t]).q
      next == NextIndex(consumers[q], turn[q])
      to == consumers[q][next + 1]
      id == Head(ready[q])
      att == inflight[id] + 1
  IN
  /\ Doing(t, "Deliver")
  /\ IF ready[q] = <<>> \/ consumers[q] = <<>>
     THEN Become(t, <<>>) /\ UNCHANGED <<ready, turn, inflight, inbox, handed>>
     ELSE
     /\ turn' = [turn EXCEPT ![q] = next + 1]
     /\ ready' = [ready EXCEPT ![q] = Tail(@)]
     /\ IF IsExpired(id)
        THEN /\ Become(t, <<OnMessage("DeleteMessage", q, id), OnQueue("Deliver", q)>>)
             /\ UNCHANGED <<inflight, inbox, handed>>
        ELSE /\ inflight' = [inflight EXCEPT ![id] = att]
             /\ handed' = handed \cup {id}
             /\ inbox' = IF link[to[1]] = "open"
                         THEN [inbox EXCEPT ![to[1]] = @ \cup {id}] ELSE inbox
             /\ Become(t, DispatchSteps(q, id, att, to))
  /\ UNCHANGED <<up, msgs, created, qtype, consumers, sessions, database,
                 confirmed, acked, expired, faults>>

\* A drain may wait, for room in the send buffer or for a closing transport.
Suspend(t) ==
  /\ Doing(t, "Drain")
  /\ running' = NoTask
  /\ UNCHANGED <<up, todo, dbq, msgs, memory, sessions, database, clients, faults>>

AtDrain(t) ==
  /\ running \in {t, NoTask}
  /\ ~Idle(t) /\ Head(todo[t]).do = "Drain"

DrainOk(t) ==
  /\ AtDrain(t)
  /\ Become(t, <<>>)
  /\ UNCHANGED <<up, msgs, memory, sessions, database, clients, faults>>


\* The except clause of the delivery loop: the in_flight entry is dropped,
\* whoever made it, and the message goes the way of a failed delivery.
GiveUp(t, rest, waiting) ==
  LET s == Head(todo[t]) IN
  /\ inflight' = TakeOut({s.id})
  /\ consumers' = [consumers EXCEPT ![s.q] = RemoveConsumer(@, s.to)]
  /\ Proceed(t, <<Do("Failed", s.q, s.id, s.att, NoConsumer)>> \o rest, waiting)

\* drain raises: the connection is lost, update_status is skipped.
DrainFails(t) ==
  /\ AtDrain(t)
  /\ link[Head(todo[t]).to[1]] \in {"lost", "gone"}
  /\ GiveUp(t, Tail(Tail(todo[t])), dbq)
  /\ UNCHANGED <<up, msgs, created, qtype, ready, turn, sessions, database,
                 clients, faults>>

\* _handle_failed_delivery, first part: back to the heap, or a copy with a new
\* id and no x-ttl in the dead letter queue.
Requeue(t, q, id) ==
  /\ Enqueue(q, id, Prio, qtype[q])
  /\ Become(t, RequeueSteps(q, id))
  /\ UNCHANGED <<msgs, created, qtype>>

MoveToDlq_notQueued(t, q, id) ==
  LET dlq == DlqOf[q] IN
  /\ Len(msgs) < MaxMessages
  /\ GetOrCreate(dlq, "FIFO")
  /\ msgs' = Append(msgs, NewMessage(dlq, msgs[id].prio, FALSE, id))
  /\ Become(t, DlqSteps(q, id, dlq, NewId))
  /\ UNCHANGED ready

MoveToDlq(t, q, id) ==
  LET dlq == DlqOf[q]
      prio == msgs[id].prio
  IN
  /\ Len(msgs) < MaxMessages
  /\ GetOrCreate(dlq, "FIFO")
  /\ msgs' = Append(msgs, NewMessage(dlq, prio, FALSE, id))
  /\ Enqueue(dlq, NewId, Append(Prio, prio), IF Exists(dlq) THEN qtype[dlq] ELSE "FIFO")
  /\ Become(t, DlqSteps(q, id, dlq, NewId))

Failed(t) ==
  LET s == Head(todo[t]) IN
  /\ Doing(t, "Failed")
  /\ IF s.att >= MaxDeliveries[s.q] THEN MoveToDlq(t, s.q, s.id)
                                    ELSE Requeue(t, s.q, s.id)
  /\ UNCHANGED <<up, inflight, consumers, turn, sessions, database, clients, faults>>

\* The end of handle_frame for a SEND that asked for a receipt.
Receipt(t) ==
  /\ Doing(t, "Receipt")
  /\ confirmed' = IF link[t] = "open" THEN confirmed \cup {Head(todo[t]).id}
                                      ELSE confirmed
  /\ Become(t, <<>>)
  /\ UNCHANGED <<up, msgs, memory, sessions, database, inbox, handed, acked,
                 expired, faults>>
-----------------------------------------------------------------------------
(* The two loops of server.py; a scan takes the queues there are now.  One *)
(* that would find nothing to do is left out.                              *)

Tick(t, kind) ==
  /\ up = "up" /\ Free /\ Idle(t)
  /\ Continue(t, [i \in 1..Len(created) |-> OnQueue(kind, created[i])])
  /\ UNCHANGED <<up, msgs, memory, sessions, database, clients, faults>>

InFlightOf(q) == {id \in 1..Len(msgs) : msgs[id].queue = q /\ inflight[id] > 0}
ExpiredOf(q) ==
  {id \in expired : id \in InFlightOf(q) \/ \E i \in 1..Len(ready[q]) : ready[q][i] = id}

TimeoutTick ==
  /\ \E q \in Queues : InFlightOf(q) # {}
  /\ Tick(TimeoutLoop, "CheckTimeouts")
ExpiryTick ==
  /\ \E q \in Queues : ExpiredOf(q) # {}
  /\ Tick(ExpiryLoop, "PurgeExpired")

\* check_timeouts of one queue: any of its messages may be overdue.  All of
\* them leave in_flight at once and are then failed one after the other.
CheckTimeouts(t) ==
  LET q == Head(todo[t]).q IN
  /\ Doing(t, "CheckTimeouts")
  /\ \E overdue \in SUBSET InFlightOf(q) : \E ids \in SetToSeqs(overdue) :
       /\ inflight' = TakeOut(overdue)
       /\ Become(t, IF overdue = {} THEN <<>>
                    ELSE Append(ForEach("Failed", q, ids), OnQueue("Deliver", q)))
  /\ UNCHANGED <<up, msgs, created, qtype, ready, consumers, turn, sessions,
                 database, clients, faults>>

\* purge_expired of one queue: the messages leave memory, then their rows go.
PurgeExpired(t) ==
  LET q == Head(todo[t]).q
      dead == ExpiredOf(q)
  IN
  /\ Doing(t, "PurgeExpired")
  /\ ready' = [ready EXCEPT ![q] = Without(@, dead)]
  /\ inflight' = TakeOut(dead)
  /\ \E ids \in SetToSeqs(dead) : Become(t, ForEach("DeleteMessage", q, ids))
  /\ UNCHANGED <<up, msgs, created, qtype, consumers, turn, sessions,
                 database, clients, faults>>

\* The wall clock passes expires_at.
Expire(id) ==
  /\ Free /\ id \in 1..Len(msgs) /\ msgs[id].ttl /\ id \notin expired
  /\ expired' = expired \cup {id}
  /\ UNCHANGED <<up, control, msgs, memory, sessions, database, inbox,
                 handed, confirmed, acked, faults>>
-----------------------------------------------------------------------------
(* Storage.  Calls reach the database thread in the order they were made,  *)
(* and are committed and answered in that order.                           *)

\* The first call is committed; its task goes on, with these steps first.
Answers(t, kind, steps) ==
  /\ Free /\ dbq # <<>> /\ t = Head(dbq) /\ Head(todo[t]).do = kind
  /\ Proceed(t, steps \o Tail(todo[t]), Tail(dbq))
  /\ UNCHANGED <<up, msgs, inflight, consumers, turn, sessions, clients, faults>>

QueueSaved(t) ==
  LET q == Head(todo[t]).q IN
  /\ Answers(t, "SaveQueue", <<>>)
  /\ queueRows' = SaveQueue(queueRows, q, qtype[q])
  /\ UNCHANGED <<rows, counts, created, qtype, ready>>

MessageSaved(t) ==
  /\ Answers(t, "SaveMessage", <<>>)
  /\ rows' = SaveMessage(rows, Head(todo[t]).id)
  /\ UNCHANGED <<queueRows, counts, created, qtype, ready>>

StatusUpdated(t) ==
  LET id == Head(todo[t]).id IN
  /\ \/ /\ Answers(t, "SetReady", <<>>)
        /\ rows' = UpdateStatus(rows, id, "READY")
        /\ UNCHANGED counts
     \/ /\ Answers(t, "SetInFlight", <<>>)
        /\ rows' = UpdateStatus(rows, id, "IN_FLIGHT")
        /\ counts' = CountDelivery(rows, counts, id, MaxCount)
  /\ UNCHANGED <<queueRows, created, qtype, ready>>

MessageDeleted(t) ==
  /\ Answers(t, "DeleteMessage", <<>>)
  /\ rows' = DeleteMessage(rows, Head(todo[t]).id)
  /\ UNCHANGED <<queueRows, counts, created, qtype, ready>>

\* What the statement of a step does to the tables.
Executed(s) ==
  \/ /\ s.do = "SaveQueue"
     /\ queueRows' = SaveQueue(queueRows, s.q, qtype[s.q])
     /\ UNCHANGED <<rows, counts>>
  \/ /\ s.do = "SaveMessage"
     /\ rows' = SaveMessage(rows, s.id)
     /\ UNCHANGED <<queueRows, counts>>
  \/ /\ s.do = "SetReady"
     /\ rows' = UpdateStatus(rows, s.id, "READY")
     /\ UNCHANGED <<queueRows, counts>>
  \/ /\ s.do = "SetInFlight"
     /\ rows' = UpdateStatus(rows, s.id, "IN_FLIGHT")
     /\ counts' = CountDelivery(rows, counts, s.id, MaxCount)
     /\ UNCHANGED queueRows
  \/ /\ s.do = "DeleteMessage"
     /\ rows' = DeleteMessage(rows, s.id)
     /\ UNCHANGED <<queueRows, counts>>

\* A call raises.  Its statement had no effect, or the commit raised after it
\* and the next commit keeps the effect; nothing reads the tables in between,
\* and a crash in between leaves what no effect leaves.  From
\* update_status(IN_FLIGHT) the except clause of the delivery loop goes on;
\* from any other call the handler or the scan ends.
StorageFails(t) ==
  /\ Free /\ dbq # <<>> /\ t = Head(dbq) /\ t # Main
  /\ dbFailures < MaxDbFailures
  /\ dbFailures' = dbFailures + 1
  /\ UNCHANGED database \/ Executed(Head(todo[t]))
  /\ IF Head(todo[t]).do = "SetInFlight"
     THEN GiveUp(t, Tail(todo[t]), Tail(dbq))
     ELSE Proceed(t, <<>>, Tail(dbq)) /\ UNCHANGED <<inflight, consumers>>
  /\ UNCHANGED <<up, msgs, created, qtype, ready, turn, sessions, clients, crashes>>
-----------------------------------------------------------------------------
(* Crash and restart.  A crash of the process keeps what is committed.     *)

RestoreSteps == <<OnQueue("ResetInFlight", NoQueue), OnQueue("LoadQueues", NoQueue),
                  OnQueue("Serve", NoQueue)>>

Crash ==
  /\ up # "down" /\ crashes < MaxCrashes
  /\ crashes' = crashes + 1
  /\ up' = "down" /\ running' = NoTask
  /\ todo' = [t \in Tasks |-> <<>>] /\ dbq' = <<>>
  /\ created' = <<>>
  /\ qtype' = [q \in Queues |-> "absent"]
  /\ ready' = [q \in Queues |-> <<>>]
  /\ inflight' = [id \in Ids |-> 0]
  /\ consumers' = [q \in Queues |-> <<>>]
  /\ turn' = [q \in Queues |-> 0]
  /\ subs' = [c \in Conns |-> [s \in Subs |-> NoQueue]]
  /\ link' = [c \in Conns |-> "none"]
  /\ inbox' = [c \in Conns |-> {}]
  /\ UNCHANGED <<msgs, database, handed, confirmed, acked, expired, dbFailures>>

Start ==
  /\ up = "down"
  /\ up' = "restoring"
  /\ Continue(Main, RestoreSteps)
  /\ UNCHANGED <<msgs, memory, sessions, database, clients, faults>>

InFlightReset ==
  /\ Answers(Main, "ResetInFlight", <<>>)
  /\ rows' = ResetInFlight(rows)
  /\ UNCHANGED <<queueRows, counts, created, qtype, ready>>

\* load_queues: the rows come in no particular order.
QueuesLoaded ==
  /\ \E names \in SetToSeqs(StoredQueues(queueRows)) :
       Answers(Main, "LoadQueues",
               [i \in 1..Len(names) |-> OnQueue("LoadMessages", names[i])])
  /\ UNCHANGED <<database, created, qtype, ready>>

\* get_or_create and load_messages, ORDER BY created_at.
MessagesLoaded ==
  LET q == Head(todo[Main]).q
      ids == {id \in StoredMessages(rows) : msgs[id].queue = q}
  IN
  /\ Answers(Main, "LoadMessages", ForEach("Restore", q, Ascending(ids)))
  /\ GetOrCreate(q, queueRows[q])
  /\ UNCHANGED <<database, ready>>

Restore ==
  LET s == Head(todo[Main]) IN
  /\ Doing(Main, "Restore")
  /\ IF IsExpired(s.id)
     THEN /\ Become(Main, <<OnMessage("DeleteMessage", s.q, s.id)>>)
          /\ UNCHANGED ready
     ELSE /\ Enqueue(s.q, s.id, Prio, qtype[s.q])
          /\ Become(Main, <<>>)
  /\ UNCHANGED <<up, msgs, created, qtype, inflight, consumers, turn, sessions,
                 database, clients, faults>>

\* The socket is opened.
Serve ==
  /\ Doing(Main, "Serve")
  /\ up' = "up"
  /\ Become(Main, <<>>)
  /\ UNCHANGED <<msgs, memory, sessions, database, clients, faults>>
-----------------------------------------------------------------------------
Init ==
  /\ up = "down" /\ running = NoTask
  /\ todo = [t \in Tasks |-> <<>>] /\ dbq = <<>>
  /\ msgs = <<>>
  /\ created = <<>>
  /\ qtype = [q \in Queues |-> "absent"]
  /\ ready = [q \in Queues |-> <<>>]
  /\ inflight = [id \in Ids |-> 0]
  /\ consumers = [q \in Queues |-> <<>>]
  /\ turn = [q \in Queues |-> 0]
  /\ subs = [c \in Conns |-> [s \in Subs |-> NoQueue]]
  /\ link = [c \in Conns |-> "none"]
  /\ queueRows = [q \in Queues |-> IF q \in Configured THEN "FIFO" ELSE "absent"]
  /\ rows = [id \in Ids |-> "absent"]
  /\ counts = [id \in Ids |-> 0]
  /\ inbox = [c \in Conns |-> {}]
  /\ expired = {} /\ handed = {} /\ confirmed = {} /\ acked = {}
  /\ crashes = 0 /\ dbFailures = 0

Clients ==
  \E c \in Conns :
    \/ Connect(c) \/ Lose(c)
    \/ \E q \in Targets, type \in QueueTypes :
         \/ \E prio \in Priorities, ttl \in Ttls : Send(c, q, type, prio, ttl)
         \/ SendExpired(c, q, type)
         \/ \E s \in Subs : Subscribe(c, s, q, type)
    \/ \E s \in Subs : Unsubscribe(c, s)
    \/ \E id \in Ids : Ack(c, id) \/ Nack(c, id)

\* The steps of a task, and the answers it gets.
Run(t) ==
  \/ QueueSaved(t) \/ MessageSaved(t) \/ StatusUpdated(t) \/ MessageDeleted(t)
  \/ Deliver(t) \/ DrainOk(t) \/ DrainFails(t) \/ Failed(t) \/ Receipt(t)
  \/ CheckTimeouts(t) \/ PurgeExpired(t)

Restart == Start \/ InFlightReset \/ QueuesLoaded \/ MessagesLoaded \/ Restore \/ Serve

Next ==
  \/ Clients
  \/ \E c \in Conns : Unregister(c)
  \/ \E t \in Tasks : Run(t) \/ Suspend(t) \/ StorageFails(t)
  \/ TimeoutTick \/ ExpiryTick
  \/ \E id \in Ids : Expire(id)
  \/ Crash \/ Restart

Spec == Init /\ [][Next]_vars

\* t waits in the drain of a connection that is open and not read.
HeldUp(t) ==
  ~Idle(t) /\ Head(todo[t]).do = "Drain" /\ running # t /\ link[Head(todo[t]).to[1]] = "open"

(* The event loop goes on while some task can, and restore() with it; the     *)
(* timeout loop wakes every second, though the event loop may be taken then   *)
(* (strong fairness), and a message that is in flight at scan after scan is   *)
(* overdue in the end.  Nothing is assumed of clients, nor of a drain that    *)
(* waits for one that does not read.                                          *)
TimesOut(id) == CheckTimeouts(TimeoutLoop) /\ inflight[id] > 0 /\ inflight'[id] = 0

Fairness ==
  /\ WF_vars(Restart \/ \E t \in Tasks : Run(t) /\ ~HeldUp(t))
  /\ SF_vars(TimeoutTick)
  /\ \A id \in Ids : SF_vars(TimesOut(id))

FairSpec == Spec /\ Fairness
=============================================================================
