--------------------------- MODULE BrokerMessages ---------------------------
(***************************************************************************)
(* What becomes of messages, for every value of the constants of Broker:   *)
(* none is dropped as long as the failures that drop one have not happened *)
(* (Held), and they are first delivered in order (ServedInOrder).          *)
(***************************************************************************)
EXTENDS BrokerDelivery

\* The steps that put a message back in a heap, those that will give it a row or
\* a receipt, and those of restore() that will find it in the database.
Failers(id) == {s \in Step : s.do = "Failed" /\ s.id = id}
Dues(id) == {s \in Step : s.do \in {"SaveMessage", "Receipt"} /\ s.id = id}
Reloaders(q, id) == {s \in Step : Loading(s, q) \/ (s.do = "Restore" /\ s.id = id)}

\* A message is in memory, or on its way there from the database.
Failing(t, id) == Some(todo[t], Failers(id))
Here(id) ==
  id \in Flying \/ (\E q \in Queues : id \in Queued(q)) \/ \E t \in Tasks : Failing(t, id)
Returning(id) ==
  rows[id] # "absent" /\ (up = "down" \/ Some(todo[Main], Reloaders(msgs[id].queue, id)))
Settled(id) == Here(id) \/ Returning(id) \/ id \in Justified

\* Messages somebody may ask for: before the first crash every one, and then those
\* that have a row, a receipt, or a task that will see to either.
Owed(id) ==
  \/ crashes = 0 \/ id \in confirmed \/ rows[id] # "absent"
  \/ \E t \in Tasks : Some(todo[t], Dues(id))

Accounted == \A id \in Known : Owed(id) => Settled(id)

\* What a step does for this: none becomes due, none leaves memory without a
\* reason, restore() loses none, and new ones are there.
NoneDue == \A t \in Tasks, id \in Known : Some(todo'[t], Dues(id)) => Some(todo[t], Dues(id))
StillHere == \A id \in Known : Here(id) => Here(id)' \/ id \in Justified'
StillReturning == \A id \in Known : Returning(id) => Settled(id)'
Newcomers == \A id \in Known' : id \in Known \/ Settled(id)'

\* A delivery writes a frame, and nothing of what is counted here.
LEMMA DeliverLeaves ==
  ASSUME NEW t, Deliver(t)
  PROVE  UNCHANGED <<msgs, acked, expired, confirmed, rows, crashes>>
<1>1. UNCHANGED <<msgs, acked, expired, confirmed>>
  BY ZenonT(40) DEF Deliver
<1>2. UNCHANGED <<database, faults>>
  BY ZenonT(40) DEF Deliver
<1> QED
  BY <1>1, <1>2 DEF database, faults

\* Only crashes are counted; acks, expiries and messages only come.
LEMMA NothingForgotten ==
  ASSUME ConstantsOK, Typed, [Next]_vars, ~Crash
  PROVE  /\ crashes' = crashes /\ Justified \subseteq Justified' /\ Known \subseteq Known'
         /\ \A id \in Known : msgs'[id] = msgs[id]
<1>1. PICK P : P <=> /\ crashes' = crashes /\ acked \subseteq acked' /\ expired \subseteq expired'
                     /\ (msgs' = msgs \/ \E m : msgs' = Append(msgs, m))
  OBVIOUS
<1>2. UNCHANGED vars => P
  BY <1>1 DEF vars, faults, clients
<1>3. Clients => P
  <2>1. ASSUME NEW c \in Conns
        PROVE  /\ Connect(c) \/ Lose(c) => P
               /\ \A q, type, prio, ttl : Send(c, q, type, prio, ttl) => P
               /\ \A q, type : SendExpired(c, q, type) => P
               /\ \A s, q, type : Subscribe(c, s, q, type) => P
               /\ \A s : Unsubscribe(c, s) => P
               /\ \A id : Ack(c, id) \/ Nack(c, id) => P
    BY <1>1 DEF Connect, Lose, Send, SendExpired, Subscribe, Unsubscribe, Ack, Nack, faults, clients
  <2> QED
    BY <2>1 DEF Clients
<1>4. ASSUME NEW t \in Tasks, Run(t) \/ Suspend(t) \/ StorageFails(t)
      PROVE  P
  <2>1. CASE QueueSaved(t) \/ MessageSaved(t) \/ StatusUpdated(t) \/ MessageDeleted(t)
    BY <1>1, <2>1 DEF QueueSaved, MessageSaved, StatusUpdated, MessageDeleted, Answers, faults, clients
  <2>2. CASE Deliver(t)
    BY <1>1, <2>2, DeliverLeaves
  <2>3. CASE DrainOk(t) \/ DrainFails(t) \/ Receipt(t) \/ Suspend(t)
    BY <1>1, <2>3 DEF DrainOk, DrainFails, Receipt, Suspend, faults, clients
  <2>4. CASE StorageFails(t)
    BY <1>1, <2>4 DEF StorageFails, clients
  <2>5. CASE Failed(t)
    BY <1>1, <2>5 DEF Failed, MoveToDlq, Requeue, faults, clients
  <2>6. CASE CheckTimeouts(t) \/ PurgeExpired(t)
    BY <1>1, <2>6 DEF CheckTimeouts, PurgeExpired, faults, clients
  <2> QED
    BY <1>4, <2>1, <2>2, <2>3, <2>4, <2>5, <2>6 DEF Run
<1>5. \A c : Unregister(c) => P
  BY <1>1 DEF Unregister, faults
<1>6. TimeoutTick \/ ExpiryTick \/ (\E id \in Ids : Expire(id)) => P
  BY <1>1 DEF TimeoutTick, ExpiryTick, Tick, Expire, faults, clients
<1>7. Restart => P
  BY <1>1 DEF Restart, Start, InFlightReset, QueuesLoaded, MessagesLoaded, Answers, Restore, Serve,
              faults, clients
<1>8. P
  BY <1>2, <1>3, <1>4, <1>5, <1>6, <1>7 DEF Next
<1>9. Known \subseteq Known' /\ \A id \in Known : msgs'[id] = msgs[id]
  <2>1. msgs \in Seq(Message) /\ Known = 1..Len(msgs) /\ Known' = 1..Len(msgs') /\ Len(msgs) \in Nat
    BY MessagesTyped DEF Typed, DataTypeOK, Known
  <2>2. CASE msgs' = msgs
    BY <2>1, <2>2
  <2>3. ASSUME NEW m, msgs' = Append(msgs, m)
        PROVE  Known \subseteq Known' /\ \A id \in Known : msgs'[id] = msgs[id]
    <3>1. Len(msgs') = Len(msgs) + 1 /\ \A id \in 1..Len(msgs) : msgs'[id] = msgs[id]
      BY <2>1, <2>3
    <3> QED
      BY <2>1, <3>1
  <2> QED
    BY <1>1, <1>8, <2>2, <2>3
<1>10. Justified \subseteq Justified'
  <2>1. \A id \in Known : Over(id) => id \in Justified'
    BY <1>1, <1>8, <1>9 DEF Justified, Over
  <2>2. \A id \in Known : Moved(id) => id \in Justified'
    BY <1>9 DEF Justified, Moved, Copies
  <2> QED
    BY <2>1, <2>2 DEF Justified
<1> QED
  BY <1>1, <1>8, <1>9, <1>10

\* A row or a receipt comes from a step that was due.
LEMMA RowsAreDue ==
  ASSUME ConstantsOK, Typed, Kept, [Next]_vars, NEW id \in Ids,
         id \in confirmed' \/ rows'[id] # "absent"
  PROVE  Owed(id)
<1>1. CASE id \in confirmed \/ rows[id] # "absent"
  BY <1>1 DEF Owed
<1>2. ASSUME NEW t \in Tasks, todo[t] # <<>>, Head(todo[t]).do \in {"SaveMessage", "Receipt"},
             Head(todo[t]).id = id
      PROVE  Owed(id)
  <2>1. todo[t] \in Seq(StepUpTo(Len(msgs)))
    BY <1>2, Current DEF Work
  <2>2. 1 \in 1..Len(todo[t]) /\ Head(todo[t]) = todo[t][1]
    BY <1>2, <2>1, HeadTailProperties, LenProperties, EmptySeq
  <2>3. Head(todo[t]) \in Dues(id)
    BY <1>2, Current DEF Dues, StepUpTo
  <2> QED
    BY <2>2, <2>3 DEF Owed, Some
<1>3. ASSUME NEW t \in Tasks, MessageSaved(t)
      PROVE  Owed(id)
  <2>1. /\ Answers(t, "SaveMessage", <<>>) /\ rows' = SaveMessage(rows, Head(todo[t]).id)
        /\ confirmed' = confirmed
    BY <1>3 DEF MessageSaved, Answers, clients
  <2>2. id = Head(todo[t]).id \/ rows'[id] = rows[id]
    BY <2>1 DEF SaveMessage, Typed, DataTypeOK
  <2> QED
    BY <1>1, <1>2, <2>1, <2>2, AnswersTyped
<1>4. ASSUME NEW t \in Tasks, Receipt(t)
      PROVE  Owed(id)
  <2>1. /\ todo[t] # <<>> /\ Head(todo[t]).do = "Receipt" /\ rows' = rows
        /\ confirmed' \subseteq confirmed \cup {Head(todo[t]).id}
    BY <1>4 DEF Receipt, Doing, Idle, database
  <2> QED
    BY <1>1, <1>2, <2>1
<1>5. ASSUME NEW t \in Tasks, StatusUpdated(t) \/ MessageDeleted(t)
      PROVE  Owed(id)
  <2>1. confirmed' = confirmed
    BY <1>5 DEF StatusUpdated, MessageDeleted, Answers, clients
  <2> QED
    BY <1>1, <1>5, <2>1, RowsGo
<1>6. CASE InFlightReset
  <2>1. confirmed' = confirmed /\ rows' = ResetInFlight(rows)
    BY <1>6 DEF InFlightReset, Answers, clients
  <2> QED
    BY <1>1, <2>1 DEF ResetInFlight, Typed, DataTypeOK
<1>7. CASE UNCHANGED vars \/ Crash \/ TimeoutTick \/ ExpiryTick \/ \E m \in Ids : Expire(m)
  <2>1. UNCHANGED <<rows, confirmed>>
    BY <1>7 DEF vars, database, clients, Crash, TimeoutTick, ExpiryTick, Tick, Expire
  <2> QED
    BY <1>1, <2>1
<1>8. CASE Clients \/ \E c \in Conns : Unregister(c)
  <2>1. ASSUME NEW c \in Conns
        PROVE  /\ Connect(c) \/ Lose(c) \/ Unregister(c) => UNCHANGED <<rows, confirmed>>
               /\ \A q, type :
                    /\ \A prio, ttl : Send(c, q, type, prio, ttl) => UNCHANGED <<rows, confirmed>>
                    /\ SendExpired(c, q, type) => UNCHANGED <<rows, confirmed>>
                    /\ \A s : Subscribe(c, s, q, type) => UNCHANGED <<rows, confirmed>>
               /\ \A s : Unsubscribe(c, s) => UNCHANGED <<rows, confirmed>>
               /\ \A m : Ack(c, m) \/ Nack(c, m) => UNCHANGED <<rows, confirmed>>
    BY DEF Connect, Lose, Unregister, Send, SendExpired, Subscribe, Unsubscribe, Ack, Nack,
           database, clients
  <2>2. UNCHANGED <<rows, confirmed>>
    BY <1>8, <2>1 DEF Clients
  <2> QED
    BY <1>1, <2>2
<1>9. CASE Restart /\ ~InFlightReset
  <2>1. Start \/ Restore \/ Serve => UNCHANGED <<rows, confirmed>>
    BY DEF Start, Restore, Serve, database, clients
  <2>2. QueuesLoaded => UNCHANGED <<rows, confirmed>>
    BY DEF QueuesLoaded, Answers, database, clients
  <2>3. MessagesLoaded => UNCHANGED <<rows, confirmed>>
    BY DEF MessagesLoaded, Answers, database, clients
  <2>4. UNCHANGED <<rows, confirmed>>
    BY <1>9, <2>1, <2>2, <2>3 DEF Restart
  <2> QED
    BY <1>1, <2>4
<1>10. ASSUME NEW t \in Tasks,
              \/ QueueSaved(t) \/ Deliver(t) \/ DrainOk(t) \/ DrainFails(t) \/ Failed(t)
              \/ CheckTimeouts(t) \/ PurgeExpired(t) \/ Suspend(t)
       PROVE  Owed(id)
  <2>1. /\ QueueSaved(t) => UNCHANGED <<rows, confirmed>>
        /\ Deliver(t) => UNCHANGED <<rows, confirmed>>
    BY DeliverLeaves DEF QueueSaved, Answers, database, clients
  <2>2. DrainOk(t) \/ DrainFails(t) \/ Failed(t) => UNCHANGED <<rows, confirmed>>
    BY DEF DrainOk, DrainFails, Failed, database, clients
  <2>3. CheckTimeouts(t) \/ PurgeExpired(t) \/ Suspend(t) => UNCHANGED <<rows, confirmed>>
    BY DEF CheckTimeouts, PurgeExpired, Suspend, database, clients
  <2>4. UNCHANGED <<rows, confirmed>>
    BY <1>10, <2>1, <2>2, <2>3
  <2> QED
    BY <1>1, <2>4
<1>11. ASSUME NEW t \in Tasks, StorageFails(t)
       PROVE  Owed(id)
  <2>1. /\ dbq # <<>> /\ t = Head(dbq) /\ UNCHANGED <<msgs, qtype, clients>>
        /\ UNCHANGED database \/ Executed(Head(todo[t]))
    BY <1>11 DEF StorageFails
  <2>2. todo[t] # <<>> /\ confirmed' = confirmed
    BY <2>1, FirstCall, MessagesTyped DEF Typed, clients
  <2>3. CASE UNCHANGED database
    BY <1>1, <2>2, <2>3 DEF database
  <2>4. CASE Executed(Head(todo[t]))
    <3>1. PICK s : s = Head(todo[t])
      OBVIOUS
    <3>2. \/ s.do = "SaveMessage" /\ rows' = SaveMessage(rows, s.id)
          \/ rows' = rows \/ rows' = DeleteMessage(rows, s.id)
          \/ \E status : rows' = UpdateStatus(rows, s.id, status)
      BY <2>4, <3>1 DEF Executed
    <3>3. rows'[id] = "absent" \/ rows[id] # "absent" \/ (s.do = "SaveMessage" /\ s.id = id)
      BY <3>2 DEF SaveMessage, DeleteMessage, UpdateStatus, Typed, DataTypeOK
    <3> QED
      BY <1>1, <1>2, <2>2, <3>1, <3>3
  <2> QED
    BY <2>1, <2>3, <2>4
<1> QED
  BY <1>3, <1>4, <1>5, <1>6, <1>7, <1>8, <1>9, <1>10, <1>11 DEF Next, Run

\* A step that drops nothing.
LEMMA AccountedWhen ==
  ASSUME ConstantsOK, Typed, Typed', Kept, Accounted, [Next]_vars, ~Crash,
         NoneDue, StillHere, StillReturning, Newcomers
  PROVE  Accounted'
<1>1. SUFFICES ASSUME NEW id \in Known', Owed(id)', id \in Known
               PROVE  Settled(id)'
  BY DEF Accounted, Newcomers
<1>2. id \in Ids /\ crashes' = crashes /\ Justified \subseteq Justified'
  BY <1>1, NothingForgotten, MessagesTyped
<1>3. (\E t \in Tasks : Some(todo[t], Dues(id)))' => Owed(id)
  BY <1>1 DEF NoneDue, Owed
<1>4. crashes' = 0 => Owed(id)
  BY <1>2 DEF Owed
<1>5. id \in confirmed' \/ rows'[id] # "absent" => Owed(id)
  BY <1>2, RowsAreDue
<1>6. Owed(id)
  BY <1>1, <1>3, <1>4, <1>5 DEF Owed
<1>7. Settled(id)
  BY <1>1, <1>6 DEF Accounted
<1> QED
  BY <1>1, <1>2, <1>7 DEF Settled, StillHere, StillReturning

\* Which steps a task has after it replaced the one it was at.
LEMMA SplicedAny ==
  ASSUME Typed, NEW t \in Tasks, todo[t] # <<>>, NEW A, NEW v \in Seq(A),
         todo' = [todo EXCEPT ![t] = v \o Tail(todo[t])]
  PROVE  /\ \A u \in Tasks : u # t => todo'[u] = todo[u]
         /\ \A C : Some(todo'[t], C) <=> Some(v, C) \/ Later(todo[t], C)
         /\ \A C : Some(todo[t], C) <=> Head(todo[t]) \in C \/ Later(todo[t], C)
<1>1. PICK w : w = todo[t]
  OBVIOUS
<1>2. todo'[t] = v \o Tail(w) /\ \A u \in Tasks : u # t => todo'[u] = todo[u]
  BY <1>1 DEF Typed, TasksOK
<1>3. w \in Seq(StepUpTo(Len(msgs))) /\ w # <<>>
  BY <1>1 DEF Typed, TasksOK, Work
<1>4. ASSUME NEW C
      PROVE  /\ Some(v \o Tail(w), C) <=> Some(v, C) \/ Later(w, C)
             /\ Some(w, C) <=> Head(w) \in C \/ Later(w, C)
  BY <1>3, SplicedSome
<1> QED
  BY <1>1, <1>2, <1>4

\* A task goes on: what left its places is accounted for.
LEMMA SplicedHere ==
  ASSUME Typed, NEW t \in Tasks, todo[t] # <<>>, NEW A, NEW v \in Seq(A),
         todo' = [todo EXCEPT ![t] = v \o Tail(todo[t])],
         \A id \in Known : /\ ~Some(v, Dues(id))
                           /\ (\/ id \in Flying \/ (\E q \in Queues : id \in Queued(q))
                               \/ Head(todo[t]) \in Failers(id))
                              => Here(id)' \/ id \in Justified'
  PROVE  NoneDue /\ StillHere
<1>1. /\ \A u \in Tasks : u # t => todo'[u] = todo[u]
      /\ \A C : Some(todo'[t], C) <=> Some(v, C) \/ Later(todo[t], C)
      /\ \A C : Some(todo[t], C) <=> Head(todo[t]) \in C \/ Later(todo[t], C)
  BY SplicedAny
<1>2. NoneDue
  BY <1>1 DEF NoneDue
<1>3. ASSUME NEW id \in Known, NEW u \in Tasks, Failing(u, id)
      PROVE  Here(id)' \/ id \in Justified'
  <2>1. Some(todo'[u], Failers(id)) \/ Head(todo[t]) \in Failers(id)
    <3>1. CASE u = t
      BY <1>1, <1>3, <3>1 DEF Failing
    <3>2. CASE u # t
      BY <1>1, <1>3, <3>2 DEF Failing
    <3> QED
      BY <3>1, <3>2
  <2>2. CASE Some(todo'[u], Failers(id))
    BY <2>2 DEF Here, Failing
  <2> QED
    BY <2>1, <2>2
<1>4. ASSUME NEW id \in Known, Here(id)
      PROVE  Here(id)' \/ id \in Justified'
  <2>1. CASE id \in Flying \/ \E q \in Queues : id \in Queued(q)
    BY <2>1
  <2> QED
    BY <1>3, <1>4, <2>1 DEF Here
<1> QED
  BY <1>2, <1>4 DEF StillHere

\* A task that rested starts.
LEMMA StartedHere ==
  ASSUME Typed, NEW t \in Tasks, todo[t] = <<>>, NEW v, todo' = [todo EXCEPT ![t] = v],
         \A id \in Known : /\ ~Some(v, Dues(id))
                           /\ id \in Flying \/ (\E q \in Queues : id \in Queued(q))
                                => Here(id)' \/ id \in Justified'
  PROVE  NoneDue /\ StillHere
<1>1. todo'[t] = v /\ \A u \in Tasks : u # t => todo'[u] = todo[u]
  BY DEF Typed, TasksOK
<1>2. \A C : ~Some(todo[t], C)
  BY DEF Some
<1>3. NoneDue
  BY <1>1 DEF NoneDue
<1>4. ASSUME NEW id \in Known, NEW u \in Tasks, Failing(u, id)
      PROVE  Failing(u, id)'
  BY <1>1, <1>2, <1>4 DEF Failing
<1> QED
  BY <1>3, <1>4 DEF StillHere, Here

\* Memory that stays as it is keeps what is in it.
LEMMA SamePlaces ==
  ASSUME UNCHANGED <<ready, inflight>>
  PROVE  \A id : id \in Flying \/ (\E q \in Queues : id \in Queued(q)) => Here(id)'
<1>1. Flying' = Flying /\ \A q \in Queues : Queued(q)' = Queued(q)
  BY DEF Flying, Queued
<1> QED
  BY <1>1 DEF Here

\* No task does anything.
LEMMA IdleHere ==
  ASSUME UNCHANGED <<todo, ready, inflight>>
  PROVE  NoneDue /\ StillHere
<1>1. Flying' = Flying /\ \A q \in Queues : Queued(q)' = Queued(q)
  BY DEF Flying, Queued
<1> QED
  BY <1>1 DEF Here, NoneDue, StillHere, Failing

\* Steps that give no message a row or a receipt.
Plainly(v) == \A k \in 1..Len(v) : v[k].do \notin {"SaveMessage", "Receipt"}

\* They are not due.
LEMMA PlainlyNotDue ==
  ASSUME NEW v, Plainly(v), NEW id
  PROVE  ~Some(v, Dues(id))
BY DEF Plainly, Some, Dues

\* A task goes on with such steps, and no place changes.
LEMMA GoesOnHere ==
  ASSUME Typed, NEW t \in Tasks, todo[t] # <<>>, NEW A, NEW v \in Seq(A), Plainly(v),
         todo' = [todo EXCEPT ![t] = v \o Tail(todo[t])], UNCHANGED <<ready, inflight>>,
         Head(todo[t]).do # "Failed"
  PROVE  NoneDue /\ StillHere
<1>1. \A id : ~Some(v, Dues(id)) /\ Head(todo[t]) \notin Failers(id)
  BY PlainlyNotDue DEF Failers
<1>2. \A id : id \in Flying \/ (\E q \in Queues : id \in Queued(q)) => Here(id)'
  BY SamePlaces
<1> QED
  BY <1>1, <1>2, SplicedHere

\* add_message: the message is in memory, and every other stays there.
LEMMA EnqueuedHere ==
  ASSUME Typed, NEW q \in Queues, NEW id \in Ids, NEW prio, NEW type,
         Enqueue(q, id, prio, type), inflight' = inflight
  PROVE  /\ Here(id)'
         /\ \A i : i \in Flying \/ (\E p \in Queues : i \in Queued(p)) => Here(i)'
<1>1. /\ ready'[q] = AddMessage(ready[q], id, prio, type) /\ ready[q] \in Seq(Ids)
      /\ \A p \in Queues : p # q => ready'[p] = ready[p]
  BY DEF Enqueue, Typed, DataTypeOK
<1>2. Queued(q)' = Queued(q) \cup {id}
  BY <1>1, AddMessageMembers DEF Queued
<1>3. \A p \in Queues : p # q => Queued(p)' = Queued(p)
  BY <1>1 DEF Queued
<1>4. Flying' = Flying
  BY DEF Flying
<1> QED
  BY <1>2, <1>3, <1>4 DEF Here

\* No new message.
LEMMA NoNewcomers ==
  ASSUME msgs' = msgs
  PROVE  Newcomers
BY DEF Newcomers, Known

\* SEND: the new message is in its heap when it is first due.
LEMMA SendHere ==
  ASSUME ConstantsOK, Typed, NEW c \in Conns, NEW q \in Targets, NEW type, NEW prio, NEW ttl,
         Send(c, q, type, prio, ttl)
  PROVE  NoneDue /\ StillHere /\ Newcomers
<1>1. /\ c \in Tasks /\ todo[c] = <<>> /\ inflight' = inflight /\ q \in Queues
  BY DEF Send, Frame, Idle, Tasks, ConstantsOK
<1>2. PICK new : new = NewId
  OBVIOUS
<1>3. /\ msgs' = Append(msgs, NewMessage(q, prio, ttl, 0)) /\ Len(msgs) < MaxMessages
      /\ todo' = [todo EXCEPT ![c] = PublishSteps(q, new)]
      /\ Enqueue(q, new, Append(Prio, prio), IF Exists(q) THEN qtype[q] ELSE type)
  BY <1>2 DEF Send, Continue, Proceed
<1>4. new \in Ids /\ new \notin Known /\ Known' = Known \cup {new}
  <2>1. Len(msgs') = Len(msgs) + 1
    BY <1>3 DEF Typed, DataTypeOK
  <2>2. new = Len(msgs) + 1 /\ Len(msgs) \in Nat /\ MaxMessages \in Nat
        /\ Known = 1..Len(msgs) /\ Known' = 1..(Len(msgs) + 1)
    BY <1>2, <2>1, MessagesTyped DEF NewId, Known
  <2> QED
    BY <1>3, <2>2 DEF Ids
<1>5. /\ Here(new)'
      /\ \A i : i \in Flying \/ (\E p \in Queues : i \in Queued(p)) => Here(i)'
  BY <1>1, <1>3, <1>4, EnqueuedHere
<1>6. PICK v : v = PublishSteps(q, new)
  OBVIOUS
<1>7. \A id \in Known : ~Some(v, Dues(id))
  <2>1. PICK a : a = OnQueue("SaveQueue", q) /\ a.do = "SaveQueue"
    BY Fields
  <2>2. PICK b : b = OnMessage("SaveMessage", q, new) /\ b.id = new
    BY Fields
  <2>3. PICK d : d = OnQueue("Deliver", q) /\ d.do = "Deliver"
    BY Fields
  <2>4. PICK r : r = OnMessage("Receipt", q, new) /\ r.id = new
    BY Fields
  <2>5. v = <<a, b, d, r>>
    BY <1>6, <2>1, <2>2, <2>3, <2>4 DEF PublishSteps
  <2>6. Len(v) = 4 /\ v[1] = a /\ v[2] = b /\ v[3] = d /\ v[4] = r
    BY <2>5
  <2>7. \A k \in 1..Len(v) : v[k].do \in {"SaveQueue", "Deliver"} \/ v[k].id = new
    BY <2>1, <2>2, <2>3, <2>4, <2>6
  <2> QED
    BY <1>4, <2>7 DEF Some, Dues
<1>8. NoneDue /\ StillHere
  BY <1>1, <1>3, <1>5, <1>6, <1>7, StartedHere
<1> QED
  BY <1>4, <1>5, <1>8 DEF Newcomers, Settled

\* An answer takes a message out of in_flight: it is acknowledged, or a handler
\* sees to it.
LEMMA AnswerHere ==
  ASSUME ConstantsOK, Typed, NEW c \in Conns, NEW id0 \in Ids, Ack(c, id0) \/ Nack(c, id0)
  PROVE  NoneDue /\ StillHere /\ Newcomers
<1>1. /\ c \in Tasks /\ todo[c] = <<>> /\ inflight' = TakeOut({id0}) /\ ready' = ready
      /\ msgs' = msgs
  BY DEF Ack, Nack, Frame, Idle, Tasks
<1>2. /\ Flying' = Flying \ {id0} /\ \A q \in Queues : Queued(q)' = Queued(q)
      /\ Known' = Known /\ Newcomers
  BY <1>1, TakeOutFlying, NoNewcomers DEF Queued, Known
<1>3. /\ \A id : (\E q \in Queues : id \in Queued(q)) => Here(id)'
      /\ \A id : id \in Flying /\ id # id0 => Here(id)'
  BY <1>2 DEF Here
<1>4. CASE inflight[id0] = 0
  <2>1. id0 \notin Flying /\ todo' = todo
    BY <1>4 DEF Flying, Ack, Nack, control
  <2>2. Flying' = Flying
    BY <1>2, <2>1
  <2> QED
    BY <1>2, <2>1, <2>2 DEF NoneDue, StillHere, Here, Failing
<1>5. CASE Ack(c, id0) /\ inflight[id0] > 0
  <2>1. acked' = acked \cup {id0} /\ todo' = [todo EXCEPT ![c] = AckSteps(msgs[id0].queue, id0)]
    BY <1>5 DEF Ack, Continue, Proceed
  <2>2. PICK q : q = msgs[id0].queue
    OBVIOUS
  <2>3. PICK a : a = OnMessage("DeleteMessage", q, id0) /\ a.do = "DeleteMessage"
    BY Fields
  <2>4. PICK d : d = OnQueue("Deliver", q) /\ d.do = "Deliver"
    BY Fields
  <2>5. PICK v : v = <<a, d>>
    OBVIOUS
  <2>6. Len(v) = 2 /\ v[1] = a /\ v[2] = d
    BY <2>5
  <2>7. Plainly(v)
    BY <2>3, <2>4, <2>6 DEF Plainly
  <2>8. todo' = [todo EXCEPT ![c] = v]
    BY <2>1, <2>2, <2>3, <2>4, <2>5 DEF AckSteps
  <2>9. id0 \in Known => id0 \in Justified'
    BY <1>2, <2>1 DEF Justified, Over
  <2>10. \A id \in Known : /\ ~Some(v, Dues(id))
                           /\ id \in Flying \/ (\E p \in Queues : id \in Queued(p))
                                => Here(id)' \/ id \in Justified'
    BY <1>3, <2>7, <2>9, PlainlyNotDue
  <2> QED
    BY <1>1, <1>2, <2>8, <2>10, StartedHere
<1>6. CASE Nack(c, id0) /\ inflight[id0] > 0
  <2>1. PICK q : q = msgs[id0].queue
    OBVIOUS
  <2>2. PICK a : a = Do("Failed", q, id0, inflight[id0], NoConsumer) /\ a.do = "Failed" /\ a.id = id0
    BY Fields
  <2>3. PICK d : d = OnQueue("Deliver", q) /\ d.do = "Deliver"
    BY Fields
  <2>4. PICK v : v = <<a, d>>
    OBVIOUS
  <2>5. Len(v) = 2 /\ v[1] = a /\ v[2] = d
    BY <2>4
  <2>6. todo' = [todo EXCEPT ![c] = v]
    BY <1>6, <2>1, <2>2, <2>3, <2>4 DEF Nack, Continue, Proceed, NackSteps
  <2>7. Plainly(v)
    BY <2>2, <2>3, <2>5 DEF Plainly
  <2>8. id0 \in Known => Here(id0)'
    <3>1. SUFFICES ASSUME id0 \in Known
                   PROVE  Here(id0)'
      OBVIOUS
    <3>2. a \in Step
      <4>1. q \in Queues /\ inflight[id0] \in Nat
        BY <2>1, <3>1, MessagesTyped
      <4> QED
        BY <2>2, <4>1 DEF Step, Do, Kinds, Ids, ConstantsOK
    <3>3. Some(v, Failers(id0))
      <4>1. a \in Failers(id0) /\ 1 \in 1..Len(v)
        BY <2>2, <2>5, <3>2 DEF Failers
      <4> QED
        BY <2>5, <4>1 DEF Some
    <3>4. todo'[c] = v
      BY <1>1, <2>6 DEF Typed, TasksOK
    <3> QED
      BY <1>1, <3>3, <3>4 DEF Here, Failing
  <2>9. \A id \in Known : /\ ~Some(v, Dues(id))
                          /\ id \in Flying \/ (\E p \in Queues : id \in Queued(p))
                               => Here(id)' \/ id \in Justified'
    BY <1>3, <2>7, <2>8, PlainlyNotDue
  <2> QED
    BY <1>1, <1>2, <2>6, <2>9, StartedHere
<1>7. inflight[id0] \in Nat
  BY DEF Typed, DataTypeOK
<1> QED
  BY <1>4, <1>5, <1>6, <1>7

\* Clients.
LEMMA ClientsHere ==
  ASSUME ConstantsOK, Typed, Clients
  PROVE  NoneDue /\ StillHere /\ Newcomers
<1>1. ASSUME NEW c \in Conns, Connect(c) \/ Lose(c)
      PROVE  NoneDue /\ StillHere /\ Newcomers
  BY <1>1, IdleHere, NoNewcomers DEF Connect, Lose, control, memory
<1>2. ASSUME NEW c \in Conns, NEW q, NEW type, SendExpired(c, q, type)
      PROVE  NoneDue /\ StillHere /\ Newcomers
  BY <1>2, IdleHere, NoNewcomers DEF SendExpired, control
<1>3. ASSUME NEW c \in Conns, NEW s \in Subs, Unsubscribe(c, s)
      PROVE  NoneDue /\ StillHere /\ Newcomers
  BY <1>3, IdleHere, NoNewcomers DEF Unsubscribe, control
<1>4. ASSUME NEW c \in Conns, NEW s \in Subs, NEW q \in Targets, NEW type \in QueueTypes,
             Subscribe(c, s, q, type)
      PROVE  NoneDue /\ StillHere /\ Newcomers
  <2>1. /\ c \in Tasks /\ todo[c] = <<>> /\ todo' = [todo EXCEPT ![c] = SubscribeSteps(q)]
        /\ UNCHANGED <<ready, inflight, msgs>>
    BY <1>4 DEF Subscribe, Frame, Idle, Continue, Proceed, Tasks
  <2>2. PICK a : a = OnQueue("SaveQueue", q) /\ a.do = "SaveQueue"
    BY Fields
  <2>3. PICK d : d = OnQueue("Deliver", q) /\ d.do = "Deliver"
    BY Fields
  <2>4. PICK v : v = <<a, d>>
    OBVIOUS
  <2>5. Len(v) = 2 /\ v[1] = a /\ v[2] = d
    BY <2>4
  <2>6. Plainly(v)
    BY <2>2, <2>3, <2>5 DEF Plainly
  <2>7. todo' = [todo EXCEPT ![c] = v]
    BY <2>1, <2>2, <2>3, <2>4 DEF SubscribeSteps
  <2>8. \A id \in Known : /\ ~Some(v, Dues(id))
                          /\ id \in Flying \/ (\E p \in Queues : id \in Queued(p))
                               => Here(id)' \/ id \in Justified'
    BY <2>1, <2>6, PlainlyNotDue, SamePlaces
  <2>9. Newcomers
    BY <2>1, NoNewcomers
  <2> QED
    BY <2>1, <2>7, <2>8, <2>9, StartedHere
<1> QED
  BY <1>1, <1>2, <1>3, <1>4, SendHere, AnswerHere DEF Clients

\* Connections that end, scans that start and the clock.
LEMMA LoopsHere ==
  ASSUME ConstantsOK, Typed,
         \/ \E c \in Conns : Unregister(c)
         \/ TimeoutTick \/ ExpiryTick \/ \E id \in Ids : Expire(id)
  PROVE  NoneDue /\ StillHere /\ Newcomers
<1>1. ASSUME NEW c \in Conns, Unregister(c)
      PROVE  NoneDue /\ StillHere /\ Newcomers
  BY <1>1, IdleHere, NoNewcomers DEF Unregister, control
<1>2. ASSUME NEW t \in Tasks, NEW kind \in {"CheckTimeouts", "PurgeExpired"}, Tick(t, kind)
      PROVE  NoneDue /\ StillHere /\ Newcomers
  <2>1. PICK v : v = [i \in 1..Len(created) |-> OnQueue(kind, created[i])]
    OBVIOUS
  <2>2. todo[t] = <<>> /\ todo' = [todo EXCEPT ![t] = v] /\ UNCHANGED <<ready, inflight, msgs>>
    BY <1>2, <2>1 DEF Tick, Idle, Continue, Proceed, memory
  <2>3. Plainly(v)
    <3>1. Len(created) \in Nat
      BY DEF Typed, DataTypeOK
    <3>2. Len(v) = Len(created)
      BY <2>1, <3>1
    <3>3. \A k \in 1..Len(created) : v[k] = OnQueue(kind, created[k])
      BY <2>1
    <3>4. \A p : OnQueue(kind, p).do = kind
      BY Fields
    <3>5. \A k \in 1..Len(created) : v[k].do = kind
      BY <3>3, <3>4
    <3> QED
      BY <3>2, <3>5 DEF Plainly
  <2>4. \A id \in Known : /\ ~Some(v, Dues(id))
                          /\ id \in Flying \/ (\E p \in Queues : id \in Queued(p))
                               => Here(id)' \/ id \in Justified'
    BY <2>2, <2>3, PlainlyNotDue, SamePlaces
  <2>5. Newcomers
    BY <2>2, NoNewcomers
  <2> QED
    BY <2>2, <2>4, <2>5, StartedHere
<1>3. ASSUME NEW id \in Ids, Expire(id)
      PROVE  NoneDue /\ StillHere /\ Newcomers
  BY <1>3, IdleHere, NoNewcomers DEF Expire, control, memory
<1> QED
  BY <1>1, <1>2, <1>3 DEF TimeoutTick, ExpiryTick, Tasks

\* Storage calls, drains that wait or return, and receipts.
LEMMA StoredHere ==
  ASSUME ConstantsOK, Typed, NEW t \in Tasks,
         QueueSaved(t) \/ MessageSaved(t) \/ StatusUpdated(t) \/ MessageDeleted(t)
         \/ DrainOk(t) \/ Receipt(t) \/ Suspend(t)
  PROVE  NoneDue /\ StillHere /\ Newcomers
<1>1. PICK v : v = <<>> /\ v \in Seq({}) /\ Plainly(v)
  BY NoSteps DEF Plainly
<1>2. ASSUME todo[t] # <<>>, todo' = [todo EXCEPT ![t] = v \o Tail(todo[t])],
             UNCHANGED <<ready, inflight, msgs>>, Head(todo[t]).do # "Failed"
      PROVE  NoneDue /\ StillHere /\ Newcomers
  BY <1>1, <1>2, GoesOnHere, NoNewcomers
<1>3. CASE QueueSaved(t) \/ MessageSaved(t) \/ StatusUpdated(t) \/ MessageDeleted(t)
  <2>1. \E kind \in Calls : Answers(t, kind, v) /\ ready' = ready
    BY <1>1, <1>3 DEF QueueSaved, MessageSaved, StatusUpdated, MessageDeleted, Calls
  <2>2. PICK kind \in Calls : Answers(t, kind, v) /\ ready' = ready
    BY SMTT(30), <2>1
  <2>3. /\ todo[t] # <<>> /\ todo' = [todo EXCEPT ![t] = v \o Tail(todo[t])]
        /\ UNCHANGED <<inflight, msgs>> /\ Head(todo[t]).do = kind
    BY <2>2, AnswersTyped DEF Answers, Proceed
  <2> QED
    BY <1>2, <2>2, <2>3 DEF Calls
<1>4. CASE DrainOk(t) \/ Receipt(t)
  <2>1. /\ Become(t, v) /\ todo[t] # <<>> /\ UNCHANGED <<ready, inflight, msgs>>
        /\ Head(todo[t]).do \in {"Drain", "Receipt"}
    BY <1>1, <1>4 DEF DrainOk, AtDrain, Receipt, Doing, Idle, memory
  <2>2. todo' = [todo EXCEPT ![t] = v \o Tail(todo[t])]
    BY <2>1 DEF Become, Continue, Proceed
  <2> QED
    BY <1>2, <2>1, <2>2
<1>5. CASE Suspend(t)
  BY SMTT(30), <1>5, IdleHere, NoNewcomers DEF Suspend, memory
<1> QED
  BY <1>3, <1>4, <1>5

\* What one turn of the delivery loop does: it ends, drops a message whose time has
\* run out, or writes a message out.
LEMMA DeliverParts ==
  ASSUME ConstantsOK, Typed, NEW t \in Tasks, Deliver(t)
  PROVE  /\ todo[t] # <<>> /\ Head(todo[t]).do = "Deliver"
         /\ UNCHANGED <<msgs, qtype, up>>
         /\ \E q, id, att, to :
              /\ q = Head(todo[t]).q /\ q \in Queues
              /\ \/ Become(t, <<>>) /\ UNCHANGED <<ready, inflight, handed>>
                 \/ /\ ready[q] # <<>> /\ id = Head(ready[q])
                    /\ ready' = [ready EXCEPT ![q] = Tail(@)]
                    /\ \/ /\ id \in expired /\ UNCHANGED <<inflight, handed>>
                          /\ Become(t, <<OnMessage("DeleteMessage", q, id), OnQueue("Deliver", q)>>)
                       \/ /\ inflight' = [inflight EXCEPT ![id] = att] /\ att = inflight[id] + 1
                          /\ handed' = handed \cup {id}
                          /\ Become(t, DispatchSteps(q, id, att, to))
<1> DEFINE theQueue == Head(todo[t]).q
           theConsumer == consumers[theQueue][NextIndex(consumers[theQueue], turn[theQueue]) + 1]
           theMessage == Head(ready[theQueue])
           theAttempt == inflight[theMessage] + 1
           nothing == ready[theQueue] = <<>> \/ consumers[theQueue] = <<>>
<1>1. PICK q, id, att, to :
        /\ q = theQueue /\ id = theMessage /\ att = theAttempt /\ to = theConsumer
        /\ id = Head(ready[q]) /\ att = inflight[id] + 1
        /\ ~nothing => ready[q] # <<>>
  OBVIOUS
<1>2. nothing => Become(t, <<>>) /\ UNCHANGED <<ready, inflight, handed>>
  BY ZenonT(60) DEF Deliver
<1>3. ~nothing => ready' = [ready EXCEPT ![theQueue] = Tail(@)]
  BY ZenonT(60) DEF Deliver
<1>4. ~nothing /\ IsExpired(theMessage)
        => /\ Become(t, <<OnMessage("DeleteMessage", theQueue, theMessage),
                          OnQueue("Deliver", theQueue)>>)
           /\ UNCHANGED <<inflight, inbox, handed>>
  BY ZenonT(60) DEF Deliver
<1>5. ~nothing /\ ~IsExpired(theMessage)
        => /\ Become(t, DispatchSteps(theQueue, theMessage, theAttempt, theConsumer))
           /\ inflight' = [inflight EXCEPT ![theMessage] = theAttempt]
           /\ handed' = handed \cup {theMessage}
  BY ZenonT(60) DEF Deliver
<1>6. todo[t] # <<>> /\ Head(todo[t]).do = "Deliver"
  BY NextStep DEF Idle
<1>7. theQueue \in Queues
  BY <1>6, Current DEF OfQueue, Kinds
<1>8. UNCHANGED <<msgs, qtype, up>>
  BY ZenonT(40) DEF Deliver
<1>9. q = Head(todo[t]).q
  BY <1>1
<1> HIDE DEF theQueue, theMessage, theAttempt, theConsumer, nothing
<1> QED
  BY <1>1, <1>2, <1>3, <1>4, <1>5, <1>6, <1>7, <1>8, <1>9 DEF IsExpired

\* Delivery takes a message out of its heap, and puts it in flight unless its
\* time has run out.
LEMMA DeliverHere ==
  ASSUME ConstantsOK, Typed, NEW t \in Tasks, Deliver(t)
  PROVE  NoneDue /\ StillHere /\ Newcomers
<1>1. todo[t] # <<>> /\ Head(todo[t]).do = "Deliver"
  BY DeliverParts
<1>2. PICK q, id0, att, to :
        /\ q \in Queues
        /\ \/ Become(t, <<>>) /\ UNCHANGED <<ready, inflight>>
           \/ /\ ready[q] # <<>> /\ id0 = Head(ready[q])
              /\ ready' = [ready EXCEPT ![q] = Tail(@)]
              /\ \/ /\ id0 \in expired /\ inflight' = inflight
                    /\ Become(t, <<OnMessage("DeleteMessage", q, id0), OnQueue("Deliver", q)>>)
                 \/ /\ inflight' = [inflight EXCEPT ![id0] = att] /\ att = inflight[id0] + 1
                    /\ Become(t, DispatchSteps(q, id0, att, to))
  BY DeliverParts
<1>3. Known' = Known /\ Newcomers /\ \A id : Head(todo[t]) \notin Failers(id)
  BY <1>1, DeliverLeaves, NoNewcomers DEF Known, Failers
<1>4. CASE Become(t, <<>>) /\ UNCHANGED <<ready, inflight>>
  <2>1. PICK v : v = <<>> /\ v \in Seq({}) /\ Plainly(v)
    BY NoSteps DEF Plainly
  <2>2. todo' = [todo EXCEPT ![t] = v \o Tail(todo[t])]
    BY <1>4, <2>1 DEF Become, Continue, Proceed
  <2> QED
    BY <1>1, <1>3, <1>4, <2>1, <2>2, GoesOnHere
<1>5. ASSUME ready' = [ready EXCEPT ![q] = Tail(@)], ready[q] # <<>>, id0 = Head(ready[q])
      PROVE  /\ \A p \in Queues : \A id \in Queued(p) : id = id0 \/ id \in Queued(p)'
             /\ id0 \in Known /\ id0 \in Ids
  <2>1. ready'[q] = Tail(ready[q]) /\ \A p \in Queues : p # q => ready'[p] = ready[p]
    BY <1>2, <1>5 DEF Typed, DataTypeOK
  <2>2. ready[q] \in Seq(Known)
    BY <1>2 DEF Typed, OnlyKnown
  <2>3. Queued(q) = Queued(q)' \cup {id0}
    <3>1. Members(ready[q]) = Members(Tail(ready[q])) \cup {Head(ready[q])}
      BY <1>5, <2>2, PopMembers
    <3> QED
      BY <1>5, <2>1, <3>1 DEF Queued
  <2>4. \A p \in Queues : p # q => Queued(p)' = Queued(p)
    BY <2>1 DEF Queued
  <2>5. id0 \in Known
    BY <1>5, <2>2, HeadTailProperties
  <2> QED
    BY <2>3, <2>4, <2>5, MessagesTyped
<1>6. CASE /\ ready' = [ready EXCEPT ![q] = Tail(@)] /\ ready[q] # <<>> /\ id0 = Head(ready[q])
           /\ Become(t, <<OnMessage("DeleteMessage", q, id0), OnQueue("Deliver", q)>>)
           /\ inflight' = inflight /\ id0 \in expired
  <2>1. PICK a : a = OnMessage("DeleteMessage", q, id0) /\ a.do = "DeleteMessage"
    BY Fields
  <2>2. PICK d : d = OnQueue("Deliver", q) /\ d.do = "Deliver"
    BY Fields
  <2>3. PICK v : v = <<a, d>>
    OBVIOUS
  <2>4. v \in Seq({a, d}) /\ Len(v) = 2 /\ v[1] = a /\ v[2] = d
    BY <2>3
  <2>5. Plainly(v)
    BY <2>1, <2>2, <2>4 DEF Plainly
  <2>6. todo' = [todo EXCEPT ![t] = v \o Tail(todo[t])]
    BY <1>6, <2>1, <2>2, <2>3 DEF Become, Continue, Proceed
  <2>7. id0 \in Justified' /\ Flying' = Flying
    BY <1>3, <1>5, <1>6, DeliverLeaves DEF Justified, Over, Flying
  <2>8. \A id \in Known : /\ ~Some(v, Dues(id))
                          /\ id \in Flying \/ (\E p \in Queues : id \in Queued(p))
                               => Here(id)' \/ id \in Justified'
    BY <1>5, <1>6, <2>5, <2>7, PlainlyNotDue DEF Here
  <2> QED
    BY <1>1, <1>3, <2>4, <2>6, <2>8, SplicedHere
<1>7. CASE /\ ready' = [ready EXCEPT ![q] = Tail(@)] /\ ready[q] # <<>> /\ id0 = Head(ready[q])
           /\ Become(t, DispatchSteps(q, id0, att, to))
           /\ inflight' = [inflight EXCEPT ![id0] = att] /\ att = inflight[id0] + 1
  <2>1. PICK a, b, d : /\ a.do = "Drain" /\ b.do = "SetInFlight" /\ d.do = "Deliver"
                       /\ \/ DispatchSteps(q, id0, att, to) = <<a, b, d>>
                          \/ DispatchSteps(q, id0, att, to) = <<b, d>>
    BY DispatchShape
  <2>2. PICK v : v = DispatchSteps(q, id0, att, to)
    OBVIOUS
  <2>3. v \in Seq({a, b, d}) /\ \A k \in 1..Len(v) : v[k] \in {a, b, d}
    <3>1. CASE v = <<a, b, d>>
      BY <3>1
    <3>2. CASE v = <<b, d>>
      BY <3>2
    <3> QED
      BY <2>1, <2>2, <3>1, <3>2
  <2>4. Plainly(v)
    BY SMTT(30), <2>1, <2>3 DEF Plainly
  <2>5. todo' = [todo EXCEPT ![t] = v \o Tail(todo[t])]
    BY <1>7, <2>2 DEF Become, Continue, Proceed
  <2>6. id0 \in Flying' /\ Flying \subseteq Flying'
    <3>1. inflight \in [Ids -> Nat] /\ id0 \in Ids
      BY <1>5, <1>7 DEF Typed, DataTypeOK
    <3>2. inflight'[id0] = att /\ \A id \in Ids : id # id0 => inflight'[id] = inflight[id]
      BY <1>7, <3>1
    <3>3. att > 0
      BY <1>7, <3>1
    <3> QED
      BY <3>1, <3>2, <3>3 DEF Flying
  <2>7. \A id \in Known : /\ ~Some(v, Dues(id))
                          /\ id \in Flying \/ (\E p \in Queues : id \in Queued(p))
                               => Here(id)' \/ id \in Justified'
    BY <1>5, <1>7, <2>4, <2>6, PlainlyNotDue DEF Here
  <2> QED
    BY <1>1, <1>3, <2>3, <2>5, <2>7, SplicedHere
<1> QED
  BY <1>2, <1>4, <1>6, <1>7

\* A drain that raises: what it took out of in_flight is failed by this task, and
\* the step that is skipped is the update of its status.
LEMMA DrainFailsHere ==
  ASSUME ConstantsOK, Typed, Kept, NEW t \in Tasks, DrainFails(t)
  PROVE  NoneDue /\ StillHere /\ Newcomers
<1>1. PICK s : s = Head(todo[t])
  OBVIOUS
<1>2. PICK f : f = Do("Failed", s.q, s.id, s.att, NoConsumer) /\ f.do = "Failed" /\ f.id = s.id
  BY Fields
<1>3. PICK w : w = todo[t]
  OBVIOUS
<1>4. PICK x : x = Tail(w)
  OBVIOUS
<1>5. PICK v : v = <<f>> /\ v \in Seq({f}) /\ Len(v) = 1 /\ v[1] = f
  BY OneStep
<1>6. /\ w # <<>> /\ s.do = "Drain" /\ UNCHANGED <<ready, msgs>> /\ inflight' = TakeOut({s.id})
      /\ todo' = [todo EXCEPT ![t] = v \o Tail(x)]
  BY <1>1, <1>2, <1>3, <1>4, <1>5 DEF DrainFails, AtDrain, Idle, GiveUp, Proceed
<1>7. w \in Work(Len(msgs)) /\ w \in Seq(StepUpTo(Len(msgs))) /\ s \in StepUpTo(Len(msgs))
      /\ Head(w) = s
  BY <1>1, <1>3, <1>6, Current DEF Work
<1>8. x # <<>> /\ x \in Seq(StepUpTo(Len(msgs))) /\ Head(x).do = "SetInFlight"
  <2>1. Backed(w, Facts)
    BY <1>3 DEF Kept, AllBacked
  <2>2. Len(msgs) \in Nat
    BY MessagesTyped
  <2>3. x # <<>> /\ Head(x).do = "SetInFlight"
    BY <1>4, <1>6, <1>7, <2>1, <2>2, AfterDrain
  <2> QED
    BY <1>4, <1>6, <1>7, <2>3, HeadTailProperties
<1>9. ASSUME NEW C
      PROVE  /\ Some(v \o Tail(x), C) <=> Some(v, C) \/ Later(x, C)
             /\ Some(x, C) <=> Head(x) \in C \/ Later(x, C)
             /\ Some(w, C) <=> s \in C \/ Some(x, C)
  <2>1. /\ Some(v \o Tail(x), C) <=> Some(v, C) \/ Later(x, C)
        /\ Some(x, C) <=> Head(x) \in C \/ Later(x, C)
    BY <1>5, <1>8, SplicedSome
  <2>2. Some(w, C) <=> s \in C \/ Later(w, C)
    BY <1>6, <1>7, <1>8, SplicedSome
  <2>3. Later(w, C) <=> Some(x, C)
    <3>1. /\ Len(w) \in Nat /\ Len(w) >= 1 /\ Len(x) = Len(w) - 1
          /\ \A k \in 1..Len(x) : x[k] = w[k + 1]
      BY <1>4, <1>6, <1>7, HeadTailProperties, LenProperties, EmptySeq
    <3>2. (\A k \in 1..Len(x) : k + 1 \in 2..Len(w)) /\ \A k \in 2..Len(w) : k - 1 \in 1..Len(x) /\ (k - 1) + 1 = k
      BY SMTT(30), <3>1
    <3> QED
      BY <3>1, <3>2 DEF Later, Some
  <2> QED
    BY <2>1, <2>2, <2>3
<1>10. todo'[t] = v \o Tail(x) /\ \A u \in Tasks : u # t => todo'[u] = todo[u]
  BY <1>6 DEF Typed, TasksOK
<1>11. \A id : Head(x) \notin Dues(id) /\ s \notin Dues(id) /\ Head(x) \notin Failers(id)
              /\ s \notin Failers(id)
  BY <1>6, <1>8 DEF Dues, Failers
<1>12. NoneDue
  <2>1. Plainly(v)
    BY <1>2, <1>5 DEF Plainly
  <2>2. \A id : ~Some(v, Dues(id))
    BY <2>1, PlainlyNotDue
  <2>3. \A id : Some(todo'[t], Dues(id)) => Some(todo[t], Dues(id))
    BY <1>3, <1>9, <1>10, <2>2
  <2> QED
    BY <1>10, <2>3 DEF NoneDue
<1>13. \A id : Failing(t, id) => Failing(t, id)'
  BY <1>3, <1>9, <1>10, <1>11 DEF Failing
<1>14. \A u \in Tasks : \A id : Failing(u, id) => Failing(u, id)'
  BY <1>10, <1>13 DEF Failing
<1>15. s.id \in Ids => Failing(t, s.id)'
  <2>1. f \in Step
    BY <1>2, <1>7 DEF Step, StepUpTo, Do, Kinds, OfQueue, OfMessage
  <2>2. 1 \in 1..Len(v) /\ v[1] \in Failers(s.id)
    BY <1>2, <1>5, <2>1 DEF Failers
  <2>3. Some(v, Failers(s.id))
    BY <2>2 DEF Some
  <2> QED
    BY <1>9, <1>10, <2>3 DEF Failing
<1>16. Flying' = Flying \ {s.id} /\ \A q \in Queues : Queued(q)' = Queued(q)
  BY <1>6, TakeOutFlying DEF Queued
<1>17. StillHere
  <2>1. ASSUME NEW id \in Known, Here(id)
        PROVE  Here(id)'
    <3>1. CASE id = s.id
      <4>1. id \in Ids
        BY MessagesTyped
      <4> QED
        BY <1>15, <3>1, <4>1 DEF Here
    <3>2. CASE id # s.id
      <4>1. id \in Flying => id \in Flying'
        BY <1>16, <3>2
      <4>2. (\E q \in Queues : id \in Queued(q)) => \E q \in Queues : id \in Queued(q)'
        BY <1>16
      <4>3. (\E u \in Tasks : Failing(u, id)) => \E u \in Tasks : Failing(u, id)'
        BY <1>14
      <4> QED
        BY <2>1, <4>1, <4>2, <4>3 DEF Here
    <3> QED
      BY <3>1, <3>2
  <2> QED
    BY <2>1 DEF StillHere
<1> QED
  BY <1>6, <1>12, <1>17, NoNewcomers

\* A failed message goes back to its heap, or has a copy in the heap of the dead
\* letter queue before it is due.
LEMMA FailedHere ==
  ASSUME ConstantsOK, Typed, NEW t \in Tasks, Failed(t)
  PROVE  NoneDue /\ StillHere /\ Newcomers
<1>1. /\ todo[t] # <<>> /\ Head(todo[t]).do = "Failed" /\ inflight' = inflight
      /\ \/ MoveToDlq(t, Head(todo[t]).q, Head(todo[t]).id)
         \/ Requeue(t, Head(todo[t]).q, Head(todo[t]).id)
  BY DEF Failed, Doing, Idle
<1>2. PICK q \in Queues, id0 \in Known : q = Head(todo[t]).q /\ id0 = Head(todo[t]).id
  BY <1>1, Current DEF OfQueue, OfMessage, Kinds
<1>3. id0 \in Ids /\ \A id : Head(todo[t]) \in Failers(id) => id = id0
  BY <1>2, MessagesTyped DEF Failers
<1>4. CASE Requeue(t, q, id0)
  <2>1. PICK a : a = OnMessage("SetReady", q, id0) /\ a.do = "SetReady"
    BY Fields
  <2>2. PICK v : v = <<a>> /\ v \in Seq({a}) /\ Len(v) = 1 /\ v[1] = a
    BY OneStep
  <2>3. /\ todo' = [todo EXCEPT ![t] = v \o Tail(todo[t])]
        /\ Enqueue(q, id0, Prio, qtype[q]) /\ msgs' = msgs
    BY <1>4, <2>1, <2>2 DEF Requeue, RequeueSteps, Become, Continue, Proceed
  <2>4. Plainly(v)
    BY <2>1, <2>2 DEF Plainly
  <2>5. /\ Here(id0)'
        /\ \A i : i \in Flying \/ (\E p \in Queues : i \in Queued(p)) => Here(i)'
    BY <1>1, <1>3, <2>3, EnqueuedHere
  <2>6. \A id \in Known : /\ ~Some(v, Dues(id))
                          /\ (\/ id \in Flying \/ (\E p \in Queues : id \in Queued(p))
                              \/ Head(todo[t]) \in Failers(id))
                             => Here(id)' \/ id \in Justified'
    BY <1>3, <2>4, <2>5, PlainlyNotDue
  <2> QED
    BY <1>1, <2>2, <2>3, <2>6, SplicedHere, NoNewcomers
<1>5. CASE MoveToDlq(t, q, id0)
  <2>1. PICK dlq \in Queues : dlq = DlqOf[q]
    BY DEF ConstantsOK
  <2>2. PICK copy : copy = NewId
    OBVIOUS
  <2>3. PICK m : m = NewMessage(dlq, msgs[id0].prio, FALSE, id0) /\ m.from = id0
    <3>1. \A p, from : NewMessage(dlq, p, FALSE, from).from = from
      BY DEF NewMessage
    <3>2. NewMessage(dlq, msgs[id0].prio, FALSE, id0).from = id0
      BY <3>1
    <3> QED
      BY <3>2
  <2>4. /\ msgs' = Append(msgs, m) /\ Len(msgs) < MaxMessages
        /\ todo' = [todo EXCEPT ![t] = DlqSteps(q, id0, dlq, copy) \o Tail(todo[t])]
        /\ \E prio, type : Enqueue(dlq, copy, prio, type)
    BY <1>5, <2>1, <2>2, <2>3 DEF MoveToDlq, Become, Continue, Proceed
  <2>5. copy \in Ids /\ copy \notin Known /\ Known' = Known \cup {copy} /\ msgs'[copy] = m
    <3>1. Len(msgs') = Len(msgs) + 1 /\ msgs'[Len(msgs) + 1] = m
      BY <2>4 DEF Typed, DataTypeOK
    <3>2. copy = Len(msgs) + 1 /\ Len(msgs) \in Nat /\ MaxMessages \in Nat
          /\ Known = 1..Len(msgs) /\ Known' = 1..(Len(msgs) + 1)
      BY <2>2, <3>1, MessagesTyped DEF NewId, Known
    <3> QED
      BY SMTT(30), <2>4, <3>1, <3>2 DEF Ids
  <2>6. id0 \in Justified'
    BY <2>3, <2>5 DEF Justified, Moved, Copies
  <2>7. PICK prio, type : Enqueue(dlq, copy, prio, type)
    BY <2>4
  <2>8. /\ Here(copy)'
        /\ \A i : i \in Flying \/ (\E p \in Queues : i \in Queued(p)) => Here(i)'
    BY <1>1, <2>5, <2>7, EnqueuedHere
  <2>9. PICK a : a = OnQueue("SaveQueue", dlq) /\ a.do = "SaveQueue"
    BY Fields
  <2>10. PICK b : b = OnMessage("DeleteMessage", q, id0) /\ b.do = "DeleteMessage"
    BY Fields
  <2>11. PICK e : e = OnMessage("SaveMessage", dlq, copy) /\ e.id = copy
    BY Fields
  <2>12. PICK d : d = OnQueue("Deliver", dlq) /\ d.do = "Deliver"
    BY Fields
  <2>13. PICK v : v = <<a, b, e, d>>
    OBVIOUS
  <2>14. v \in Seq({a, b, e, d}) /\ Len(v) = 4 /\ v[1] = a /\ v[2] = b /\ v[3] = e /\ v[4] = d
    BY <2>13
  <2>15. todo' = [todo EXCEPT ![t] = v \o Tail(todo[t])]
    BY <2>4, <2>9, <2>10, <2>11, <2>12, <2>13 DEF DlqSteps
  <2>16. \A id \in Known : ~Some(v, Dues(id))
    <3>1. \A k \in 1..Len(v) : v[k].do \in {"SaveQueue", "DeleteMessage", "Deliver"} \/ v[k].id = copy
      BY <2>9, <2>10, <2>11, <2>12, <2>14
    <3> QED
      BY <2>5, <3>1 DEF Some, Dues
  <2>17. \A id \in Known : /\ ~Some(v, Dues(id))
                           /\ (\/ id \in Flying \/ (\E p \in Queues : id \in Queued(p))
                               \/ Head(todo[t]) \in Failers(id))
                              => Here(id)' \/ id \in Justified'
    BY <1>3, <2>6, <2>8, <2>16
  <2>18. NoneDue /\ StillHere
    BY <1>1, <2>14, <2>15, <2>17, SplicedHere
  <2> QED
    BY <2>5, <2>8, <2>18 DEF Newcomers, Settled
<1> QED
  BY <1>1, <1>2, <1>4, <1>5

\* What check_timeouts takes out of in_flight it fails next.
LEMMA CheckTimeoutsHere ==
  ASSUME ConstantsOK, Typed, NEW t \in Tasks, CheckTimeouts(t)
  PROVE  NoneDue /\ StillHere /\ Newcomers
<1>1. PICK q \in Queues : q = Head(todo[t]).q
  BY Current DEF CheckTimeouts, Doing, Idle, OfQueue, Kinds
<1>2. PICK overdue, ids : /\ overdue \in SUBSET InFlightOf(q) /\ ids \in SetToSeqs(overdue)
                          /\ inflight' = TakeOut(overdue)
                          /\ Become(t, IF overdue = {} THEN <<>>
                                       ELSE Append(ForEach("Failed", q, ids),
                                                   OnQueue("Deliver", q)))
  BY <1>1 DEF CheckTimeouts
<1>3. /\ todo[t] # <<>> /\ Head(todo[t]).do = "CheckTimeouts" /\ UNCHANGED <<ready, msgs>>
      /\ Flying' = Flying \ overdue
  BY <1>2, TakeOutFlying DEF CheckTimeouts, Doing, Idle
<1>4. /\ \A id : Head(todo[t]) \notin Failers(id)
      /\ \A p \in Queues : Queued(p)' = Queued(p)
      /\ Newcomers
  BY <1>3, NoNewcomers DEF Failers, Queued
<1>5. CASE overdue = {}
  <2>1. PICK v : v = <<>> /\ v \in Seq({}) /\ Plainly(v)
    BY NoSteps DEF Plainly
  <2>2. todo' = [todo EXCEPT ![t] = v \o Tail(todo[t])]
    BY <1>2, <1>5, <2>1 DEF Become, Continue, Proceed
  <2>3. \A id \in Known : /\ ~Some(v, Dues(id))
                          /\ id \in Flying \/ (\E p \in Queues : id \in Queued(p)) => Here(id)'
    BY <1>3, <1>4, <1>5, <2>1, PlainlyNotDue DEF Here
  <2> QED
    BY <1>3, <1>4, <2>1, <2>2, <2>3, SplicedHere
<1>6. CASE overdue # {}
  <2>1. /\ \A id \in overdue : id \in 1..Len(msgs) /\ id \in Known /\ inflight[id] \in Nat
        /\ IsFiniteSet(overdue)
    <3>1. \A id \in overdue : id \in 1..Len(msgs)
      BY <1>2 DEF InFlightOf
    <3> QED
      BY <3>1, MessagesTyped, Positions
  <2>2. /\ ids \in Seq(overdue) /\ \A id \in overdue : \E i \in 1..Len(ids) : ids[i] = id
    BY <1>2, <2>1, OrderingIsOnto
  <2>3. PICK fs : fs = ForEach("Failed", q, ids)
    OBVIOUS
  <2>4. PICK d : d = OnQueue("Deliver", q) /\ d.do = "Deliver"
    BY Fields
  <2>5. PICK n \in Nat : n = Len(ids)
    BY <2>2, LenProperties
  <2>6. fs = [i \in 1..n |-> Do("Failed", q, ids[i], inflight[ids[i]], NoConsumer)]
    BY <2>3, <2>5 DEF ForEach
  <2>7. PICK A : A = {fs[i] : i \in 1..n} \cup {d}
    OBVIOUS
  <2>8. fs \in Seq(A) /\ Len(fs) = n
    BY <2>6, <2>7
  <2>9. \A i \in 1..n : fs[i].do = "Failed" /\ fs[i] \in Failers(ids[i])
    <3>1. \A i \in 1..n : fs[i] = Do("Failed", q, ids[i], inflight[ids[i]], NoConsumer)
      BY <2>6
    <3>2. \A i \in 1..n : ids[i] \in overdue
      BY <2>2, <2>5, ElementOfSeq
    <3>3. \A i \in 1..n : ids[i] \in 0..MaxMessages /\ inflight[ids[i]] \in Nat
      BY SMTT(30), <2>1, <3>2, MessagesTyped
    <3>4. \A i \in 1..n : fs[i].do = "Failed" /\ fs[i].id = ids[i]
      BY <3>1, Fields
    <3>5. \A i \in 1..n : fs[i] \in Step
      <4>1. \A id \in 0..MaxMessages, att \in Nat : Do("Failed", q, id, att, NoConsumer) \in Step
        BY <1>1 DEF Do, Step, Kinds
      <4> QED
        BY <3>1, <3>3, <4>1
    <3> QED
      BY <3>4, <3>5 DEF Failers
  <2>10. PICK v : v = Append(fs, d)
    OBVIOUS
  <2>11. /\ v \in Seq(A) /\ Len(v) = n + 1 /\ v[n + 1] = d
         /\ \A i \in 1..n : v[i] = fs[i]
    <3>1. d \in A
      BY <2>7
    <3>2. /\ Append(fs, d) \in Seq(A) /\ Len(Append(fs, d)) = Len(fs) + 1
          /\ \A i \in 1..Len(fs) : Append(fs, d)[i] = fs[i]
          /\ Append(fs, d)[Len(fs) + 1] = d
      BY <2>8, <3>1, AppendProperties
    <3> QED
      BY <2>8, <2>10, <3>2
  <2>12. todo' = [todo EXCEPT ![t] = v \o Tail(todo[t])]
    BY <1>2, <1>6, <2>3, <2>4, <2>10 DEF Become, Continue, Proceed
  <2>13. Plainly(v)
    <3>1. \A k \in 1..Len(v) : k \in 1..n \/ k = n + 1
      BY <2>11
    <3> QED
      BY <2>4, <2>9, <2>11, <3>1 DEF Plainly
  <2>14. ASSUME NEW id \in overdue
         PROVE  Here(id)'
    <3>1. PICK i \in 1..n : ids[i] = id
      BY <2>2, <2>5
    <3>2. i \in 1..Len(v) /\ v[i] \in Failers(id)
      BY <2>9, <2>11, <3>1
    <3>3. Some(v, Failers(id))
      BY <3>2 DEF Some
    <3>4. \A C : Some(todo'[t], C) <=> Some(v, C) \/ Later(todo[t], C)
      BY <1>3, <2>11, <2>12, SplicedAny
    <3> QED
      BY <3>3, <3>4 DEF Here, Failing
  <2>15. \A id \in Known : /\ ~Some(v, Dues(id))
                           /\ id \in Flying \/ (\E p \in Queues : id \in Queued(p)) => Here(id)'
    <3>1. \A id \in Known : id \in Flying \/ (\E p \in Queues : id \in Queued(p)) => Here(id)'
      BY <1>3, <1>4, <2>14 DEF Here
    <3> QED
      BY <2>13, <3>1, PlainlyNotDue
  <2> QED
    BY <1>3, <1>4, <2>11, <2>12, <2>15, SplicedHere
<1> QED
  BY <1>5, <1>6

\* What purge_expired takes out has expired.
LEMMA PurgeExpiredHere ==
  ASSUME ConstantsOK, Typed, NEW t \in Tasks, PurgeExpired(t)
  PROVE  NoneDue /\ StillHere /\ Newcomers
<1>1. PICK q : q = Head(todo[t]).q
  OBVIOUS
<1>2. PICK dead : dead = ExpiredOf(q)
  OBVIOUS
<1>3. /\ todo[t] # <<>> /\ Head(todo[t]).do = "PurgeExpired" /\ UNCHANGED <<msgs, expired>>
      /\ ready' = [ready EXCEPT ![q] = Without(@, dead)]
      /\ inflight' = TakeOut(dead)
  <2>1. todo[t] # <<>> /\ Head(todo[t]).do = "PurgeExpired"
    BY DEF PurgeExpired, Doing, Idle
  <2>2. /\ ready' = [ready EXCEPT ![q] = Without(@, dead)] /\ inflight' = TakeOut(dead)
        /\ msgs' = msgs
    BY <1>1, <1>2 DEF PurgeExpired
  <2>3. expired' = expired
    BY DEF PurgeExpired, clients
  <2> QED
    BY <2>1, <2>2, <2>3
<1>4. PICK ids \in SetToSeqs(dead) : Become(t, ForEach("DeleteMessage", q, ids))
  BY <1>1, <1>2 DEF PurgeExpired
<1>5. PICK n \in Nat : n = Len(ids)
  <2>1. \A id \in dead : id \in 1..Len(msgs)
    BY <1>2, MessagesTyped DEF ExpiredOf, Typed, OnlyKnown
  <2>2. ids \in Seq(1..Len(msgs))
    BY <2>1, MessagesTyped, OrderingTyped
  <2> QED
    BY <2>2, LenProperties
<1>6. PICK v : v = ForEach("DeleteMessage", q, ids)
  OBVIOUS
<1>7. v = [i \in 1..n |-> Do("DeleteMessage", q, ids[i], inflight[ids[i]], NoConsumer)]
  BY <1>5, <1>6 DEF ForEach
<1>8. PICK A : v \in Seq(A) /\ Len(v) = n
  <2>1. PICK A : A = {v[i] : i \in 1..n}
    OBVIOUS
  <2>2. v \in Seq(A) /\ Len(v) = n
    BY <1>7, <2>1
  <2> QED
    BY <2>2
<1>9. Plainly(v)
  <2>1. \A i \in 1..n : v[i] = Do("DeleteMessage", q, ids[i], inflight[ids[i]], NoConsumer)
    BY <1>7
  <2>2. \A i \in 1..n : v[i].do = "DeleteMessage"
    BY <2>1, Fields
  <2> QED
    BY <1>8, <2>2 DEF Plainly
<1>10. todo' = [todo EXCEPT ![t] = v \o Tail(todo[t])]
  BY <1>4, <1>6 DEF Become, Continue, Proceed
<1>11. \A p \in Queues : \A id \in Queued(p) : id \in dead \/ id \in Queued(p)'
  <2>1. \A p \in Queues : ready'[p] = ready[p] \/ ready'[p] = Without(ready[p], dead)
    BY <1>3 DEF Typed, DataTypeOK
  <2>2. \A p \in Queues : ready[p] \in Seq(Ids)
    BY DEF Typed, DataTypeOK
  <2>3. \A p \in Queues : Members(Without(ready[p], dead)) = Members(ready[p]) \ dead
    BY <2>2, WithoutMembers
  <2> QED
    BY <2>1, <2>2, <2>3 DEF Queued
<1>12. Flying' = Flying \ dead
  BY <1>3, TakeOutFlying
<1>13. \A id \in Known : id \in dead => id \in Justified'
  BY <1>2, <1>3 DEF ExpiredOf, Justified, Over, Known
<1>14. \A id \in Known : /\ ~Some(v, Dues(id))
                         /\ (\/ id \in Flying \/ (\E p \in Queues : id \in Queued(p))
                             \/ Head(todo[t]) \in Failers(id))
                            => Here(id)' \/ id \in Justified'
  <2>1. \A id : Head(todo[t]) \notin Failers(id)
    BY <1>3 DEF Failers
  <2>2. \A id \in Known : id \in Flying \/ (\E p \in Queues : id \in Queued(p))
                            => Here(id)' \/ id \in Justified'
    BY <1>11, <1>12, <1>13 DEF Here
  <2> QED
    BY <1>9, <2>1, <2>2, PlainlyNotDue
<1> QED
  BY <1>3, <1>8, <1>10, <1>14, SplicedHere, NoNewcomers

\* While the socket is open nothing is dropped, as long as no storage call raises.
LEMMA OpenHere ==
  ASSUME ConstantsOK, Typed, Opening, Kept, up = "up", [Next]_vars, ~Crash,
         \A t \in Tasks : ~StorageFails(t)
  PROVE  NoneDue /\ StillHere /\ StillReturning /\ Newcomers
<1>1. StillReturning
  <2>1. todo[Main] = <<>>
    BY DEF Opening, Idle
  <2>2. \A id : ~Returning(id)
    BY <2>1 DEF Returning, Some
  <2> QED
    BY <2>2 DEF StillReturning
<1>2. CASE UNCHANGED vars
  <2>1. UNCHANGED <<todo, ready, inflight, msgs>>
    BY <1>2 DEF vars, control, memory
  <2>2. NoneDue /\ StillHere
    BY <2>1, IdleHere
  <2>3. Newcomers
    BY <2>1, NoNewcomers
  <2> QED
    BY <2>2, <2>3, <1>1
<1>3. ASSUME NEW t \in Tasks, Run(t) \/ Suspend(t)
      PROVE  NoneDue /\ StillHere /\ Newcomers
  BY <1>3, StoredHere, DeliverHere, DrainFailsHere, FailedHere, CheckTimeoutsHere, PurgeExpiredHere
     DEF Run
<1> QED
  BY <1>1, <1>2, <1>3, After, ClientsHere, LoopsHere

\* A message that restore() will find is still to be found once its first step is
\* done, unless that step was the one to find it.
LEMMA SplicedReturning ==
  ASSUME ConstantsOK, Typed, up # "down", todo[Main] # <<>>, NEW A, NEW v \in Seq(A),
         todo' = [todo EXCEPT ![Main] = v \o Tail(todo[Main])], UNCHANGED <<msgs, up>>,
         \A id \in Known : rows[id] # "absent" =>
           /\ rows'[id] # "absent" \/ id \in Justified'
           /\ Head(todo[Main]) \in Reloaders(msgs[id].queue, id)
                => Settled(id)' \/ Some(v, Reloaders(msgs[id].queue, id))
  PROVE  StillReturning
<1>1. Main \in Tasks
  BY DEF Tasks
<1>2. /\ \A C : Some(todo'[Main], C) <=> Some(v, C) \/ Later(todo[Main], C)
      /\ \A C : Some(todo[Main], C) <=> Head(todo[Main]) \in C \/ Later(todo[Main], C)
  BY <1>1, SplicedAny
<1>3. ASSUME NEW id \in Known, Returning(id)
      PROVE  Settled(id)'
  <2>1. PICK C : C = Reloaders(msgs[id].queue, id)
    OBVIOUS
  <2>2. rows[id] # "absent" /\ Some(todo[Main], C)
    BY <1>3, <2>1 DEF Returning
  <2>3. rows'[id] # "absent" \/ id \in Justified'
    BY <2>2
  <2>4. Head(todo[Main]) \in C => Settled(id)' \/ Some(v, C)
    BY <2>1, <2>2
  <2>5. Some(todo'[Main], C) \/ Settled(id)'
    BY <1>2, <2>2, <2>4
  <2>6. CASE Some(todo'[Main], C) /\ rows'[id] # "absent"
    <3>1. Reloaders(msgs'[id].queue, id) = C
      BY <2>1
    <3> QED
      BY <2>6, <3>1 DEF Settled, Returning
  <2> QED
    BY <2>3, <2>5, <2>6 DEF Settled
<1> QED
  BY <1>3 DEF StillReturning

\* A row that goes had a reason to.
LEMMA RowsStay ==
  ASSUME ConstantsOK, Typed, Typed', Kept, [Next]_vars, ~Crash, NEW id \in Known,
         rows[id] # "absent"
  PROVE  rows'[id] # "absent" \/ id \in Justified'
<1>1. id \in Ids /\ id \in Known'
  BY MessagesTyped, NothingForgotten
<1>2. CASE rows'[id] = "absent"
  BY <1>1, <1>2, RowsStep DEF Justified
<1> QED
  BY <1>2

\* main starts restore(), which will find every row.
LEMMA StartHere ==
  ASSUME ConstantsOK, Typed, Rests, Start
  PROVE  NoneDue /\ StillHere /\ StillReturning /\ Newcomers
<1>1. PICK a : a = OnQueue("ResetInFlight", NoQueue) /\ a.do = "ResetInFlight"
  BY Fields
<1>2. PICK b : b = OnQueue("LoadQueues", NoQueue) /\ b.do = "LoadQueues"
  BY Fields
<1>3. PICK c : c = OnQueue("Serve", NoQueue) /\ c.do = "Serve"
  BY Fields
<1>4. PICK v : v = <<a, b, c>> /\ v = RestoreSteps
  BY <1>1, <1>2, <1>3 DEF RestoreSteps
<1>5. /\ todo[Main] = <<>> /\ todo' = [todo EXCEPT ![Main] = v] /\ Main \in Tasks
      /\ UNCHANGED <<ready, inflight, msgs, rows>>
  BY <1>4 DEF Start, Rests, Idle, Continue, Proceed, memory, database, Tasks
<1>6. Len(v) = 3 /\ v[1] = a /\ v[2] = b /\ v[3] = c
  BY <1>4
<1>7. Plainly(v)
  <2>1. \A k \in 1..Len(v) : k = 1 \/ k = 2 \/ k = 3
    BY <1>6
  <2> QED
    BY <1>1, <1>2, <1>3, <1>6, <2>1 DEF Plainly
<1>8. NoneDue /\ StillHere
  <2>1. \A id \in Known : /\ ~Some(v, Dues(id))
                          /\ id \in Flying \/ (\E p \in Queues : id \in Queued(p))
                               => Here(id)' \/ id \in Justified'
    BY <1>5, <1>7, PlainlyNotDue, SamePlaces
  <2> QED
    BY <1>5, <2>1, StartedHere
<1>9. StillReturning
  <2>1. b \in Step
    <3>1. "LoadQueues" \in Kinds
      BY DEF Kinds, Calls
    <3>2. MaxMessages \in Nat
      BY MessagesTyped
    <3> QED
      BY <1>2, <3>1, <3>2 DEF OnQueue, Do, Step
  <2>2. \A q, id : b \in Reloaders(q, id)
    BY <1>2, <2>1 DEF Reloaders, Loading
  <2>3. 2 \in 1..Len(v) /\ todo'[Main] = v
    BY <1>5, <1>6 DEF Typed, TasksOK
  <2>4. \A q, id : Some(todo'[Main], Reloaders(q, id))
    BY <1>6, <2>2, <2>3 DEF Some
  <2>5. \A id : Returning(id) => Returning(id)'
    BY <1>5, <2>4 DEF Returning
  <2> QED
    BY <2>5 DEF StillReturning, Settled
<1> QED
  BY <1>5, <1>8, <1>9, NoNewcomers

\* load_queues and load_messages: what was to be loaded is to be restored.
LEMMA LoadsHere ==
  ASSUME ConstantsOK, Typed, Kept, up # "down", QueuesLoaded \/ MessagesLoaded
  PROVE  NoneDue /\ StillHere /\ StillReturning /\ Newcomers
<1>1. ASSUME NEW kind, kind # "Failed", NEW v \in Work(Len(msgs)), Answers(Main, kind, v),
             UNCHANGED <<ready, database>>,
             \A k \in 1..Len(v) : v[k].do \in {"LoadMessages", "Restore"},
             \A id \in Known : rows[id] # "absent"
                               /\ Head(todo[Main]) \in Reloaders(msgs[id].queue, id)
                               => Some(v, Reloaders(msgs[id].queue, id))
      PROVE  NoneDue /\ StillHere /\ StillReturning /\ Newcomers
  <2>1. /\ Main \in Tasks /\ todo[Main] # <<>> /\ Head(todo[Main]).do = kind
        /\ UNCHANGED <<msgs, inflight, up, rows>>
    BY <1>1, AnswersTyped DEF database
  <2>2. todo' = [todo EXCEPT ![Main] = v \o Tail(todo[Main])]
    BY <1>1 DEF Answers, Proceed
  <2>3. v \in Seq(StepUpTo(Len(msgs))) /\ Plainly(v)
    BY <1>1 DEF Plainly, Work
  <2>4. NoneDue /\ StillHere
    BY <1>1, <2>1, <2>2, <2>3, GoesOnHere
  <2>5. \A id \in Known : rows[id] # "absent" =>
           /\ rows'[id] # "absent" \/ id \in Justified'
           /\ Head(todo[Main]) \in Reloaders(msgs[id].queue, id)
                => Settled(id)' \/ Some(v, Reloaders(msgs[id].queue, id))
    BY <1>1, <2>1
  <2>6. StillReturning
    BY <2>1, <2>2, <2>3, <2>5, SplicedReturning
  <2> QED
    BY <2>1, <2>4, <2>6, NoNewcomers
<1>2. ASSUME NEW v \in Work(Len(msgs)), NEW k \in 1..Len(v)
      PROVE  v[k] \in Step
  <2>1. v[k] \in StepUpTo(Len(msgs))
    BY ElementOfSeq DEF Work
  <2> QED
    BY <2>1 DEF StepUpTo
<1>3. CASE QueuesLoaded
  <2>1. PICK v \in Work(Len(msgs)) :
          /\ Answers(Main, "LoadQueues", v)
          /\ \A k \in 1..Len(v) : v[k].do = "LoadMessages"
          /\ \A q \in Queues : queueRows[q] # "absent" => \E k \in 1..Len(v) : v[k].q = q
    BY <1>3, QueuesLoadedWork
  <2>2. ASSUME NEW id \in Known, rows[id] # "absent"
        PROVE  Some(v, Reloaders(msgs[id].queue, id))
    <3>1. queueRows[msgs[id].queue] # "absent" /\ msgs[id].queue \in Queues
      BY <2>2, MessagesTyped DEF Kept, Stored, Homed
    <3>2. PICK k \in 1..Len(v) : v[k].q = msgs[id].queue
      BY <2>1, <3>1
    <3>3. v[k] \in Reloaders(msgs[id].queue, id)
      BY <1>2, <2>1, <3>2 DEF Reloaders, Loading
    <3> QED
      BY <3>3 DEF Some
  <2>3. UNCHANGED <<ready, database>>
    BY <1>3 DEF QueuesLoaded
  <2> QED
    BY <1>1, <2>1, <2>2, <2>3
<1>4. CASE MessagesLoaded
  <2>1. PICK v \in Work(Len(msgs)) :
          /\ Answers(Main, "LoadMessages", v)
          /\ \A k \in 1..Len(v) : /\ v[k].do = "Restore" /\ v[k].q = Head(todo[Main]).q
                                  /\ v[k].id \in Known /\ rows[v[k].id] # "absent"
                                  /\ msgs[v[k].id].queue = v[k].q
          /\ \A id \in Known : rows[id] # "absent" /\ msgs[id].queue = Head(todo[Main]).q
                                 => \E k \in 1..Len(v) : v[k].id = id
    BY <1>4, MessagesLoadedWork
  <2>2. Head(todo[Main]).do = "LoadMessages"
    BY <2>1, AnswersTyped
  <2>3. ASSUME NEW id \in Known, rows[id] # "absent",
               Head(todo[Main]) \in Reloaders(msgs[id].queue, id)
        PROVE  Some(v, Reloaders(msgs[id].queue, id))
    <3>1. msgs[id].queue = Head(todo[Main]).q
      BY <2>2, <2>3 DEF Reloaders, Loading
    <3>2. PICK k \in 1..Len(v) : v[k].id = id
      BY <2>1, <2>3, <3>1
    <3>3. v[k] \in Reloaders(msgs[id].queue, id)
      BY <1>2, <2>1, <3>2 DEF Reloaders
    <3> QED
      BY <3>3 DEF Some
  <2>4. UNCHANGED <<ready, database>>
    BY <1>4 DEF MessagesLoaded
  <2> QED
    BY <1>1, <2>1, <2>3, <2>4
<1> QED
  BY <1>3, <1>4

\* restore() puts a message back into its heap, unless its time has run out.
LEMMA RestoreHere ==
  ASSUME ConstantsOK, Typed, up # "down", Restore
  PROVE  NoneDue /\ StillHere /\ StillReturning /\ Newcomers
<1>1. PICK q : q = Head(todo[Main]).q
  OBVIOUS
<1>2. PICK id0 : id0 = Head(todo[Main]).id
  OBVIOUS
<1>3. /\ Main \in Tasks /\ todo[Main] # <<>> /\ Head(todo[Main]).do = "Restore"
      /\ q \in Queues /\ id0 \in Known
      /\ UNCHANGED <<up, msgs, inflight, database, clients>>
      /\ \/ /\ IsExpired(id0) /\ ready' = ready
            /\ \E d \in StepUpTo(Len(msgs)) : d.do = "DeleteMessage" /\ Become(Main, <<d>>)
         \/ Become(Main, <<>>) /\ Enqueue(q, id0, Prio, qtype[q])
  BY <1>1, <1>2, RestoreWork
<1>4. id0 \in Ids /\ rows' = rows
  BY <1>3, MessagesTyped DEF database
<1>5. \A id : Head(todo[Main]) \notin Failers(id)
  BY <1>3 DEF Failers
<1>6. \A p, id : Head(todo[Main]) \in Reloaders(p, id) => id = id0
  BY <1>2, <1>3 DEF Reloaders, Loading
<1>7. ASSUME NEW A, NEW v \in Seq(A), Plainly(v),
             todo' = [todo EXCEPT ![Main] = v \o Tail(todo[Main])],
             \A id : id \in Flying \/ (\E p \in Queues : id \in Queued(p)) => Here(id)',
             Settled(id0)'
      PROVE  NoneDue /\ StillHere /\ StillReturning /\ Newcomers
  <2>1. \A id \in Known : /\ ~Some(v, Dues(id))
                          /\ (\/ id \in Flying \/ (\E p \in Queues : id \in Queued(p))
                              \/ Head(todo[Main]) \in Failers(id))
                             => Here(id)' \/ id \in Justified'
    BY <1>5, <1>7, PlainlyNotDue
  <2>2. NoneDue /\ StillHere
    BY <1>3, <1>7, <2>1, SplicedHere
  <2>3. \A id \in Known : rows[id] # "absent" =>
           /\ rows'[id] # "absent" \/ id \in Justified'
           /\ Head(todo[Main]) \in Reloaders(msgs[id].queue, id)
                => Settled(id)' \/ Some(v, Reloaders(msgs[id].queue, id))
    <3>1. \A id \in Known : Head(todo[Main]) \in Reloaders(msgs[id].queue, id) => Settled(id)'
      BY <1>6, <1>7
    <3> QED
      BY <1>4, <3>1
  <2>4. StillReturning
    BY <1>3, <1>7, <2>3, SplicedReturning
  <2> QED
    BY <1>3, <2>2, <2>4, NoNewcomers
<1>8. ASSUME NEW d, d.do = "DeleteMessage", Become(Main, <<d>>), ready' = ready, IsExpired(id0)
      PROVE  NoneDue /\ StillHere /\ StillReturning /\ Newcomers
  <2>1. PICK v : v = <<d>> /\ v \in Seq({d}) /\ Len(v) = 1 /\ v[1] = d
    BY OneStep
  <2>2. todo' = [todo EXCEPT ![Main] = v \o Tail(todo[Main])]
    BY <1>8, <2>1 DEF Become, Continue, Proceed
  <2>3. Plainly(v)
    BY <1>8, <2>1 DEF Plainly
  <2>4. \A id : id \in Flying \/ (\E p \in Queues : id \in Queued(p)) => Here(id)'
    BY <1>3, <1>8, SamePlaces
  <2>5. id0 \in Justified'
    BY <1>3, <1>8 DEF Justified, Known, Over, IsExpired, clients
  <2> QED
    BY <1>7, <2>1, <2>2, <2>3, <2>4, <2>5 DEF Settled
<1>9. CASE Become(Main, <<>>) /\ Enqueue(q, id0, Prio, qtype[q])
  <2>1. PICK v : v = <<>> /\ v \in Seq({}) /\ Plainly(v)
    BY NoSteps DEF Plainly
  <2>2. todo' = [todo EXCEPT ![Main] = v \o Tail(todo[Main])]
    BY <1>9, <2>1 DEF Become, Continue, Proceed
  <2>3. inflight' = inflight
    BY <1>3
  <2>4. /\ Here(id0)'
        /\ \A id : id \in Flying \/ (\E p \in Queues : id \in Queued(p)) => Here(id)'
    BY <1>3, <1>4, <1>9, <2>3, EnqueuedHere
  <2> QED
    BY <1>7, <2>1, <2>2, <2>4 DEF Settled
<1> QED
  BY <1>3, <1>8, <1>9

\* The first and the last call of restore(), and the deletions in between.
LEMMA AnsweredHere ==
  ASSUME ConstantsOK, Typed, Typed', Kept, up # "down", [Next]_vars, ~Crash,
         InFlightReset \/ MessageDeleted(Main)
  PROVE  NoneDue /\ StillHere /\ StillReturning /\ Newcomers
<1>1. PICK v : v = <<>> /\ v \in Seq({}) /\ Plainly(v)
  BY NoSteps DEF Plainly
<1>2. PICK kind \in {"ResetInFlight", "DeleteMessage"} : Answers(Main, kind, v) /\ ready' = ready
  BY <1>1 DEF InFlightReset, MessageDeleted
<1>3. /\ Main \in Tasks /\ todo[Main] # <<>> /\ Head(todo[Main]).do = kind
      /\ UNCHANGED <<ready, inflight, msgs, up>>
      /\ todo' = [todo EXCEPT ![Main] = v \o Tail(todo[Main])]
  BY <1>2, AnswersTyped DEF Answers, Proceed
<1>4. NoneDue /\ StillHere
  BY <1>1, <1>3, GoesOnHere
<1>5. \A q, id : Head(todo[Main]) \notin Reloaders(q, id)
  BY <1>3 DEF Reloaders, Loading
<1>6. \A id \in Known : rows[id] # "absent" =>
         /\ rows'[id] # "absent" \/ id \in Justified'
         /\ Head(todo[Main]) \in Reloaders(msgs[id].queue, id)
              => Settled(id)' \/ Some(v, Reloaders(msgs[id].queue, id))
  BY <1>5, RowsStay
<1>7. StillReturning
  BY <1>1, <1>3, <1>6, SplicedReturning
<1> QED
  BY <1>3, <1>4, <1>7, NoNewcomers

\* The socket is opened when nothing is left to be restored.
LEMMA ServeHere ==
  ASSUME ConstantsOK, Typed, Opening, up = "restoring", Serve
  PROVE  NoneDue /\ StillHere /\ StillReturning /\ Newcomers
<1>1. PICK v : v = <<>> /\ v \in Seq({}) /\ Plainly(v)
  BY NoSteps DEF Plainly
<1>2. /\ Main \in Tasks /\ todo[Main] # <<>> /\ Head(todo[Main]).do = "Serve"
      /\ UNCHANGED <<ready, inflight, msgs>> /\ Become(Main, v)
  BY <1>1 DEF Serve, Doing, Idle, memory, Tasks
<1>3. todo' = [todo EXCEPT ![Main] = v \o Tail(todo[Main])]
  BY <1>2 DEF Become, Continue, Proceed
<1>4. NoneDue /\ StillHere
  BY <1>1, <1>2, <1>3, GoesOnHere
<1>5. Len(todo[Main]) = 1
  <2>1. todo[Main] \in Seq(StepUpTo(Len(msgs))) /\ Restoring(todo[Main])
    BY <1>2, Current DEF Work, Opening
  <2> QED
    BY <1>2, <2>1, RestoringEnds
<1>6. \A q, id : ~Some(todo[Main], Reloaders(q, id))
  <2>1. todo[Main] \in Seq(StepUpTo(Len(msgs)))
    BY <1>2, Current DEF Work
  <2>2. Head(todo[Main]) = todo[Main][1]
    BY <1>2, <2>1, HeadTailProperties
  <2>3. \A k \in 1..Len(todo[Main]) : todo[Main][k].do = "Serve"
    BY <1>2, <1>5, <2>2
  <2>4. \A q, id : \A k \in 1..Len(todo[Main]) : todo[Main][k] \notin Reloaders(q, id)
    BY <2>3 DEF Reloaders, Loading
  <2> QED
    BY <2>4 DEF Some
<1>7. \A id : ~Returning(id)
  BY <1>6 DEF Returning
<1> QED
  BY <1>2, <1>4, <1>7, NoNewcomers DEF StillReturning

\* restore() drops nothing.
LEMMA RestartHere ==
  ASSUME ConstantsOK, Typed, Typed', Rests, Opening, Kept, up # "up", [Next]_vars, ~Crash
  PROVE  NoneDue /\ StillHere /\ StillReturning /\ Newcomers
<1>1. ASSUME UNCHANGED <<up, todo, ready, inflight, msgs, rows>>
      PROVE  NoneDue /\ StillHere /\ StillReturning /\ Newcomers
  <2>1. \A id : Returning(id) => Returning(id)'
    BY <1>1 DEF Returning
  <2>2. StillReturning
    BY <2>1 DEF StillReturning, Settled
  <2> QED
    BY <1>1, <2>2, IdleHere, NoNewcomers
<1>2. CASE UNCHANGED vars
  BY <1>1, <1>2 DEF vars, control, memory, database
<1>3. ASSUME NEW id \in Ids, Expire(id)
      PROVE  NoneDue /\ StillHere /\ StillReturning /\ Newcomers
  BY <1>1, <1>3 DEF Expire, control, memory, database
<1>4. ASSUME InFlightReset \/ QueuesLoaded \/ MessagesLoaded \/ Restore \/ Serve
             \/ MessageDeleted(Main)
      PROVE  up = "restoring" /\ up # "down"
  <2>1. todo[Main] # <<>>
    <3>1. \A kind, steps : Answers(Main, kind, steps) => todo[Main] # <<>>
      BY AnswersTyped
    <3> QED
      BY <1>4, <3>1 DEF InFlightReset, QueuesLoaded, MessagesLoaded, Restore, Serve, MessageDeleted,
                        Doing, Idle
  <2>2. Main \in Tasks /\ up \in {"down", "restoring", "up"}
    BY DEF Tasks, Typed, DataTypeOK
  <2> QED
    BY <2>1, <2>2 DEF Rests, Idle
<1> QED
  BY <1>2, <1>3, <1>4, Before, StartHere, LoadsHere, RestoreHere, AnsweredHere, ServeHere DEF Restart

\* A crash leaves a message without a row only if nobody was told of it.
LEMMA CrashHere ==
  ASSUME ConstantsOK, Typed, Kept, Crash
  PROVE  Accounted'
<1>1. /\ \A t \in Tasks : todo'[t] = <<>>
      /\ up' = "down" /\ crashes' = crashes + 1 /\ crashes \in Nat
      /\ UNCHANGED <<msgs, rows, confirmed, acked, expired>>
  BY DEF Crash, database, Typed, DataTypeOK, ConstantsOK
<1>2. Known' = Known /\ Justified' = Justified
  BY <1>1 DEF Known, Justified, Over, Moved, Copies
<1>3. \A t \in Tasks : \A C : ~Some(todo'[t], C)
  BY <1>1 DEF Some
<1>4. ASSUME NEW id \in Known, Owed(id)'
      PROVE  Settled(id)'
  <2>1. id \in confirmed \/ rows[id] # "absent"
    BY <1>1, <1>3, <1>4 DEF Owed
  <2>2. CASE rows[id] # "absent"
    BY <1>1, <2>2 DEF Settled, Returning
  <2>3. CASE id \in Justified
    BY <1>2, <2>3 DEF Settled
  <2> QED
    BY <2>1, <2>2, <2>3 DEF Kept, Safe, Stored
<1> QED
  BY <1>2, <1>4 DEF Accounted

\* As long as no storage call has raised, every message somebody may ask for is in
\* memory, on its way back there, over or moved.
NothingDropped == dbFailures = 0 => Accounted

\* No step drops a message.
LEMMA NothingDroppedStep ==
  ASSUME ConstantsOK, Typed, Typed', Rests, Kept, Opening, NothingDropped, [Next]_vars
  PROVE  NothingDropped'
<1>1. CASE Crash
  BY <1>1, CrashHere DEF NothingDropped
<1>2. CASE ~Crash
  <2>1. SUFFICES ASSUME dbFailures' = 0
                 PROVE  Accounted'
    BY DEF NothingDropped
  <2>2. Accounted /\ \A t \in Tasks : ~StorageFails(t)
    BY <2>1, NoFailureYet DEF NothingDropped
  <2>3. NoneDue /\ StillHere /\ StillReturning /\ Newcomers
    BY <1>2, <2>2, OpenHere, RestartHere
  <2> QED
    BY <1>2, <2>2, <2>3, AccountedWhen
<1> QED
  BY <1>1, <1>2

\* Only SEND and a move to the dead letter queue create messages; a copy is of a
\* message there is.
LEMMA MessagesStep ==
  ASSUME ConstantsOK, Typed, [Next]_vars
  PROVE  msgs' = msgs \/ \E m : msgs' = Append(msgs, m) /\ m.from \in 0..Len(msgs)
<1>1. Len(msgs) \in Nat /\ Known = 1..Len(msgs)
  BY MessagesTyped
<1>2. ASSUME NEW c, NEW q, NEW type, NEW prio, NEW ttl, Send(c, q, type, prio, ttl)
      PROVE  \E m : msgs' = Append(msgs, m) /\ m.from \in 0..Len(msgs)
  <2>1. msgs' = Append(msgs, NewMessage(q, prio, ttl, 0))
    BY <1>2 DEF Send
  <2>2. NewMessage(q, prio, ttl, 0).from = 0
    BY DEF NewMessage
  <2> QED
    BY <1>1, <2>1, <2>2
<1>3. ASSUME NEW t \in Tasks, Failed(t)
      PROVE  msgs' = msgs \/ \E m : msgs' = Append(msgs, m) /\ m.from \in 0..Len(msgs)
  <2>1. PICK q, id : q = Head(todo[t]).q /\ id = Head(todo[t]).id
    OBVIOUS
  <2>2. todo[t] # <<>> /\ Head(todo[t]).do = "Failed"
    BY <1>3 DEF Failed, Doing, Idle
  <2>3. id \in Known
    BY <2>1, <2>2, Current DEF OfMessage
  <2>4. msgs' = msgs \/ msgs' = Append(msgs, NewMessage(DlqOf[q], msgs[id].prio, FALSE, id))
    BY <1>3, <2>1 DEF Failed, Requeue, MoveToDlq
  <2>5. PICK m : m = NewMessage(DlqOf[q], msgs[id].prio, FALSE, id)
    OBVIOUS
  <2>6. m.from = id
    BY <2>5 DEF NewMessage
  <2>7. m.from \in 0..Len(msgs)
    BY <1>1, <2>3, <2>6
  <2>8. msgs' = msgs \/ msgs' = Append(msgs, m)
    BY <2>4, <2>5
  <2> QED
    BY <2>7, <2>8
<1>4. Clients => msgs' = msgs \/ \E m : msgs' = Append(msgs, m) /\ m.from \in 0..Len(msgs)
  <2>1. ASSUME NEW c \in Conns
        PROVE  /\ Connect(c) \/ Lose(c) => msgs' = msgs
               /\ \A q, type : SendExpired(c, q, type) => msgs' = msgs
               /\ \A s, q, type : Subscribe(c, s, q, type) => msgs' = msgs
               /\ \A s : Unsubscribe(c, s) => msgs' = msgs
               /\ \A id : Ack(c, id) \/ Nack(c, id) => msgs' = msgs
    BY DEF Connect, Lose, SendExpired, Subscribe, Unsubscribe, Ack, Nack
  <2> QED
    BY <1>2, <2>1 DEF Clients
<1>5. ASSUME NEW t \in Tasks, Run(t) \/ Suspend(t) \/ StorageFails(t), ~Failed(t)
      PROVE  msgs' = msgs
  <2>1. CASE QueueSaved(t) \/ MessageSaved(t) \/ StatusUpdated(t) \/ MessageDeleted(t)
    BY <2>1 DEF QueueSaved, MessageSaved, StatusUpdated, MessageDeleted, Answers
  <2>2. CASE Deliver(t)
    BY <2>2, DeliverLeaves
  <2>3. CASE DrainOk(t) \/ DrainFails(t) \/ Receipt(t) \/ Suspend(t) \/ StorageFails(t)
    BY <2>3 DEF DrainOk, DrainFails, Receipt, Suspend, StorageFails
  <2>4. CASE CheckTimeouts(t) \/ PurgeExpired(t)
    BY <2>4 DEF CheckTimeouts, PurgeExpired
  <2> QED
    BY <1>5, <2>1, <2>2, <2>3, <2>4 DEF Run
<1>6. UNCHANGED vars \/ Crash \/ (\E c \in Conns : Unregister(c)) \/ TimeoutTick \/ ExpiryTick
      \/ (\E id \in Ids : Expire(id))
        => msgs' = msgs
  BY DEF vars, Crash, Unregister, TimeoutTick, ExpiryTick, Tick, Expire
<1>7. Restart => msgs' = msgs
  BY DEF Restart, Start, InFlightReset, QueuesLoaded, MessagesLoaded, Answers, Restore, Serve
<1> QED
  BY <1>3, <1>4, <1>5, <1>6, <1>7 DEF Next

\* A copy comes after what it is a copy of.
CopiesAreLater == \A id \in Known : msgs[id].from < id

\* It stays there.
LEMMA CopiesStep ==
  ASSUME ConstantsOK, Typed, CopiesAreLater, [Next]_vars
  PROVE  CopiesAreLater'
<1>1. msgs \in Seq(Message) /\ Len(msgs) \in Nat
  BY MessagesTyped DEF Typed, DataTypeOK
<1>2. CASE msgs' = msgs
  BY <1>2 DEF CopiesAreLater, Known
<1>3. ASSUME NEW m, msgs' = Append(msgs, m), m.from \in 0..Len(msgs)
      PROVE  CopiesAreLater'
  <2>1. /\ Len(msgs') = Len(msgs) + 1 /\ msgs'[Len(msgs) + 1] = m
        /\ \A id \in 1..Len(msgs) : msgs'[id] = msgs[id]
    BY <1>1, <1>3
  <2>2. ASSUME NEW id \in 1..(Len(msgs) + 1)
        PROVE  msgs'[id].from < id
    <3>1. CASE id \in 1..Len(msgs)
      BY <2>1, <3>1 DEF CopiesAreLater, Known
    <3>2. CASE id = Len(msgs) + 1
      BY <1>1, <1>3, <2>1, <3>2
    <3>3. PICK n \in Nat : n = Len(msgs)
      BY <1>1
    <3>4. id \in 1..n \/ id = n + 1
      BY <3>3
    <3> QED
      BY <3>1, <3>2, <3>3, <3>4
  <2> QED
    BY <2>1, <2>2 DEF CopiesAreLater, Known
<1> QED
  BY <1>2, <1>3, MessagesStep

\* A set of messages that is not empty has a last one.
LEMMA LastOf ==
  ASSUME NEW n \in Nat, NEW S \in SUBSET (1..n), S # {}
  PROVE  \E j \in S : \A k \in S : k <= j
<1>1. \A k \in S : k \in 1..n
  OBVIOUS
<1>2. IsFiniteSet(S) /\ Cardinality(S) \in Nat
  <2>1. IsFiniteSet(S)
    BY <1>1, Positions
  <2> QED
    BY <2>1, FS_CardinalityType
<1>3. Cardinality(S) # 0
  BY <1>2, FS_EmptySet
<1>4. PICK c : c = Cardinality(S)
  OBVIOUS
<1>5. PICK j : j = Nth(S, c)
  OBVIOUS
<1>6. j \in S /\ Cardinality({k \in S : k <= j}) = c
  <2>1. Cardinality(S) \in 1..Cardinality(S)
    BY <1>2, <1>3
  <2> QED
    BY <1>1, <1>4, <1>5, <2>1, NthMember
<1>7. {k \in S : k <= j} = S
  <2>1. {k \in S : k <= j} \in SUBSET S
    OBVIOUS
  <2> QED
    BY <1>2, <1>4, <1>6, <2>1, FS_Subset
<1> QED
  BY <1>6, <1>7

\* A message that is in memory is in a heap, in flight or failed by a task.
LEMMA HereInMemory ==
  ASSUME NEW id, Here(id)
  PROVE  InMemory(id)
<1>1. CASE id \in Flying
  BY <1>1 DEF Flying, InMemory
<1>2. ASSUME NEW q \in Queues, id \in Queued(q)
      PROVE  InMemory(id)
  <2>1. PICK i \in 1..Len(ready[q]) : ready[q][i] = id
    BY <1>2 DEF Queued, Members
  <2>2. <<q, i>> \in ReadyAt(id)
    BY <2>1 DEF ReadyAt
  <2> QED
    BY <2>2 DEF InMemory
<1>3. ASSUME NEW t \in Tasks, Failing(t, id)
      PROVE  InMemory(id)
  <2>1. PICK i \in 1..Len(todo[t]) : todo[t][i].do = "Failed" /\ todo[t][i].id = id
    BY <1>3 DEF Failing, Some, Failers
  <2>2. <<t, i>> \in FailedBy(id)
    BY <2>1 DEF FailedBy
  <2> QED
    BY <2>2 DEF InMemory
<1> QED
  BY <1>1, <1>2, <1>3 DEF Here

\* No storage call has raised, and the process has not crashed or has moved nothing
\* to a dead letter queue.
Calm == dbFailures = 0 /\ (crashes = 0 \/ \A id \in Known : ~Moved(id))

\* What is accounted for is held: the last message of a lineage has not moved.
LEMMA AccountedHeld ==
  ASSUME ConstantsOK, Typed, Kept, Opening, Accounted, CopiesAreLater, Calm
  PROVE  Held
<1>1. SUFFICES ASSUME up = "up", NEW id \in Ids, id \in confirmed \/ rows[id] # "absent",
                      NEW S \in Lineages(id)
               PROVE  \E j \in S : InMemory(j) \/ Over(j)
  BY DEF Held, Typed, DataTypeOK
<1>2. id \in Known
  BY <1>1 DEF Kept, Safe, Stored, Justified, Typed, OnlyKnown
<1>3. S \in SUBSET Known /\ id \in S /\ \A j \in S : Copies(j) \subseteq S
  BY <1>1 DEF Lineages
<1>4. \A j : ~Returning(j)
  <2>1. todo[Main] = <<>>
    BY <1>1 DEF Opening, Idle
  <2> QED
    BY <1>1, <2>1 DEF Returning, Some
<1>5. \A j \in Known : Owed(j) => InMemory(j) \/ Over(j) \/ Moved(j)
  BY <1>4, HereInMemory DEF Accounted, Settled, Justified
<1>6. CASE \A j \in Known : ~Moved(j)
  <2>1. Owed(id)
    BY <1>1 DEF Owed
  <2> QED
    BY <1>2, <1>3, <1>5, <1>6, <2>1
<1>7. CASE crashes = 0
  <2>1. Len(msgs) \in Nat /\ Known = 1..Len(msgs)
    BY MessagesTyped
  <2>2. PICK j \in S : \A k \in S : k <= j
    BY <1>3, <2>1, LastOf
  <2>3. j \in Known /\ Owed(j)
    BY <1>3, <1>7 DEF Owed
  <2>4. ~Moved(j)
    <3>1. ASSUME NEW k \in Known, msgs[k].from = j
          PROVE  FALSE
      <4>1. k \in S
        BY <1>3, <3>1 DEF Copies
      <4>2. j < k /\ k <= j
        BY <2>2, <3>1, <4>1 DEF CopiesAreLater
      <4> QED
        BY <2>1, <2>3, <4>2
    <3> QED
      BY <3>1 DEF Moved, Copies
  <2> QED
    BY <1>5, <2>3, <2>4
<1> QED
  BY <1>6, <1>7 DEF Calm

\* While the server is up, every message that was confirmed or has a row is in a
\* heap, in flight or in the hands of a task, or over, or a copy that took its
\* place is: no order of handlers, deliveries, failed drains, scans and purges
\* drops one, and restore() finds those a crash left in the database.  Two things
\* do: a storage call that raises while its task still has messages to put back,
\* and a crash between the deletion of a row and the insertion of its copy's row.
THEOREM NothingIsDropped == Spec => [](Calm => Held)
<1> USE ConstantsOK
<1>1. Init => NothingDropped /\ CopiesAreLater
  <2>1. SUFFICES ASSUME Init
                 PROVE  NothingDropped /\ CopiesAreLater
    OBVIOUS
  <2>2. Len(msgs) = 0
    BY <2>1 DEF Init
  <2>3. Known = {}
    BY <2>2 DEF Known
  <2> QED
    BY <2>3 DEF NothingDropped, Accounted, CopiesAreLater
<1>2. Typed /\ Typed' /\ Rests /\ Kept /\ Opening /\ NothingDropped /\ CopiesAreLater /\ [Next]_vars
        => (NothingDropped /\ CopiesAreLater)'
  BY NothingDroppedStep, CopiesStep
<1>3. Typed /\ Kept /\ Opening /\ NothingDropped /\ CopiesAreLater => (Calm => Held)
  BY AccountedHeld DEF NothingDropped, Calm
<1> QED
  BY <1>1, <1>2, <1>3, PlacesAlways, PTL DEF Spec
-----------------------------------------------------------------------------
(* First deliveries are in order. *)

\* Steps that carry a message of their queue; all but those of restore() carry one
\* that was delivered.
Bound == {"Failed", "SetInFlight", "Drain", "Restore"}
Right(s) ==
  s.do \in Bound => msgs[s.id].queue = s.q /\ (s.do # "Restore" => s.id \in handed)
AllRight(w) == \A k \in 1..Len(w) : Right(w[k])

\* Messages are where they belong, and those in flight were delivered.
Placed ==
  /\ \A id \in Flying : id \in handed
  /\ \A q \in Queues : \A id \in Queued(q) : msgs[id].queue = q
Rightly == Placed /\ \A t \in Tasks : AllRight(todo[t])

\* Messages and deliveries stay.
Staying ==
  /\ Known \subseteq Known' /\ handed \subseteq handed'
  /\ \A id \in Known : msgs'[id] = msgs[id]

\* What was right remains so.
LEMMA RightLasts ==
  ASSUME NEW n \in Nat, Known = 1..n, NEW w \in Seq(StepUpTo(n)), Staying, AllRight(w)
  PROVE  AllRight(w)'
<1>1. SUFFICES ASSUME NEW k \in 1..Len(w), w[k].do \in Bound
               PROVE  Right(w[k])'
  BY DEF AllRight, Right
<1>2. w[k] \in StepUpTo(n)
  BY ElementOfSeq
<1>3. w[k].id \in Known
  BY <1>1, <1>2 DEF StepUpTo, OfMessage, Bound
<1>4. Right(w[k])
  BY DEF AllRight
<1> QED
  BY <1>1, <1>3, <1>4 DEF Right, Staying

\* So it does in the tail of what a task had to do.
LEMMA RightSpliced ==
  ASSUME ConstantsOK, Typed, Staying, NEW w \in Work(Len(msgs)), w # <<>>, AllRight(w),
         NEW A, NEW v \in Seq(A), AllRight(v)'
  PROVE  AllRight(v \o Tail(w))'
<1>1. w \in Seq(StepUpTo(Len(msgs))) /\ AllRight(w)'
  BY MessagesTyped, RightLasts DEF Work
<1>2. PICK S : v \in Seq(S) /\ w \in Seq(S)
  <2>1. v \in Seq(A \cup StepUpTo(Len(msgs))) /\ w \in Seq(A \cup StepUpTo(Len(msgs)))
    BY <1>1, SeqMonotonic
  <2> QED
    BY <2>1
<1>3. PICK x : x = v \o Tail(w)
  OBVIOUS
<1>4. /\ Len(v) \in Nat /\ Len(w) \in Nat /\ Len(x) = Len(v) + (Len(w) - 1)
      /\ \A k \in 1..Len(v) : x[k] = v[k]
      /\ \A k \in 1..Len(x) : k > Len(v) => /\ (k - Len(v)) + 1 \in 2..Len(w)
                                            /\ x[k] = w[(k - Len(v)) + 1]
  BY <1>2, <1>3, Spliced
<1>5. ASSUME NEW k \in 1..Len(x)
      PROVE  Right(x[k])'
  <2>1. CASE k <= Len(v)
    BY <1>4, <2>1 DEF AllRight
  <2>2. CASE k > Len(v)
    <3>1. PICK j \in 1..Len(w) : x[k] = w[j]
      BY <1>4, <2>2
    <3> QED
      BY <1>1, <3>1 DEF AllRight
  <2> QED
    BY <1>4, <2>1, <2>2
<1> QED
  BY <1>3, <1>5 DEF AllRight

\* A task has new steps, the others what they had.
LEMMA RightWhen ==
  ASSUME ConstantsOK, Typed, Rightly, Staying, Placed', NEW t \in Tasks, NEW v,
         todo' = [todo EXCEPT ![t] = v], AllRight(v)'
  PROVE  Rightly'
<1>1. todo'[t] = v /\ \A u \in Tasks : u # t => todo'[u] = todo[u]
  BY DEF Typed, TasksOK
<1>2. ASSUME NEW u \in Tasks, NEW w, w = todo[u]
      PROVE  AllRight(w)'
  <2>1. w \in Seq(StepUpTo(Len(msgs))) /\ AllRight(w)
    BY <1>2 DEF Typed, TasksOK, Work, Rightly
  <2> QED
    BY <2>1, MessagesTyped, RightLasts
<1>3. ASSUME NEW u \in Tasks
      PROVE  AllRight(todo[u])'
  <2>1. PICK w : w = todo[u]
    OBVIOUS
  <2>2. AllRight(w)'
    BY <1>2, <2>1
  <2>3. u # t => todo'[u] = w
    BY <1>1, <2>1
  <2> QED
    BY <1>1, <2>2, <2>3
<1> QED
  BY <1>3 DEF Rightly

\* A task replaces its current step.
LEMMA RightNext ==
  ASSUME ConstantsOK, Typed, Rightly, Staying, Placed', NEW t \in Tasks, todo[t] # <<>>,
         NEW A, NEW v \in Seq(A), todo' = [todo EXCEPT ![t] = v \o Tail(todo[t])], AllRight(v)'
  PROVE  Rightly'
<1>1. PICK w : w = todo[t]
  OBVIOUS
<1>2. w \in Work(Len(msgs)) /\ AllRight(w)
  BY <1>1, Current DEF Rightly
<1>3. PICK x : x = v \o Tail(w)
  OBVIOUS
<1>4. AllRight(v \o Tail(w))'
  BY <1>1, <1>2, RightSpliced
<1>5. AllRight(x)'
  BY <1>3, <1>4
<1> QED
  BY <1>1, <1>3, <1>5, RightWhen

\* Steps that carry no message of their queue.
Loose(v) == \A k \in 1..Len(v) : v[k].do \notin Bound

\* They ask nothing of their message.
LEMMA LooseRight ==
  ASSUME NEW v, Loose(v)
  PROVE  AllRight(v)'
  BY DEF Loose, AllRight, Right

\* Nothing was written and no message moved.
LEMMA SamePlaced ==
  ASSUME ConstantsOK, Typed, Rightly, UNCHANGED <<msgs, ready, inflight, handed>>
  PROVE  Staying /\ Placed'
<1>1. Known' = Known /\ Flying' = Flying /\ \A q : Queued(q)' = Queued(q)
  BY DEF Known, Flying, Queued
<1> QED
  BY <1>1 DEF Staying, Placed, Rightly

\* Messages only leave in_flight.
LEMMA TakenPlaced ==
  ASSUME ConstantsOK, Typed, Rightly, UNCHANGED <<msgs, ready, handed>>,
         NEW S, inflight' = TakeOut(S)
  PROVE  Staying /\ Placed'
<1>1. Known' = Known /\ Flying' \subseteq Flying /\ \A q : Queued(q)' = Queued(q)
  BY TakeOutFlying DEF Known, Queued
<1> QED
  BY <1>1 DEF Staying, Placed, Rightly

\* A message enters its heap.
LEMMA EnqueuedPlaced ==
  ASSUME ConstantsOK, Typed, Rightly, UNCHANGED <<inflight, handed>>,
         Known \subseteq Known', \A id \in Known : msgs'[id] = msgs[id],
         NEW q \in Queues, NEW id \in Ids, NEW prio, NEW type, Enqueue(q, id, prio, type),
         msgs'[id].queue = q
  PROVE  Staying /\ Placed'
<1>1. Flying' = Flying /\ ready \in [Queues -> Seq(Ids)] /\ ready \in [Queues -> Seq(Known)]
  BY DEF Flying, Typed, DataTypeOK, OnlyKnown
<1>2. /\ ready'[q] = AddMessage(ready[q], id, prio, type)
      /\ \A p \in Queues : p # q => ready'[p] = ready[p]
  BY <1>1 DEF Enqueue
<1>3. Queued(q)' = Queued(q) \cup {id}
  <2>1. Members(AddMessage(ready[q], id, prio, type)) = Members(ready[q]) \cup {id}
    BY <1>1, AddMessageMembers
  <2> QED
    BY <1>2, <2>1 DEF Queued
<1>4. \A p \in Queues : Queued(p) \subseteq Known
  <2>1. \A p \in Queues : \A i \in 1..Len(ready[p]) : ready[p][i] \in Known
    BY <1>1, ElementOfSeq
  <2> QED
    BY <2>1 DEF Queued, Members
<1>5. \A p \in Queues : p # q => Queued(p)' = Queued(p)
  BY <1>2 DEF Queued
<1>6. ASSUME NEW p \in Queues, NEW i \in Queued(p)'
      PROVE  msgs'[i].queue = p
  <2>1. (p = q /\ i = id) \/ i \in Queued(p)
    BY <1>3, <1>5, <1>6
  <2>2. i \in Queued(p) => msgs'[i].queue = p
    BY <1>4 DEF Rightly, Placed
  <2> QED
    BY <2>1, <2>2
<1> QED
  BY <1>1, <1>6 DEF Staying, Placed, Rightly

\* A step that carries nothing of this kind starts or continues a task.
LEMMA LooseStarts ==
  ASSUME ConstantsOK, Typed, Rightly, Staying, Placed', NEW t \in Tasks,
         NEW v, Loose(v), todo' = [todo EXCEPT ![t] = v]
  PROVE  Rightly'
  BY LooseRight, RightWhen

\* Such steps take the place of the first step of a task.
LEMMA LooseNext ==
  ASSUME ConstantsOK, Typed, Rightly, Staying, Placed', NEW t \in Tasks, todo[t] # <<>>,
         NEW A, NEW v \in Seq(A), Loose(v), todo' = [todo EXCEPT ![t] = v \o Tail(todo[t])]
  PROVE  Rightly'
  BY LooseRight, RightNext

\* The steps of the handlers, but for those that fail a message.
LEMMA HandlersLoose ==
  ASSUME NEW q, NEW id, NEW dlq, NEW copy
  PROVE  /\ Loose(PublishSteps(q, id)) /\ Loose(SubscribeSteps(q)) /\ Loose(AckSteps(q, id))
         /\ Loose(DlqSteps(q, id, dlq, copy)) /\ Loose(RequeueSteps(q, id))
<1>1. \A p : /\ OnQueue("SaveQueue", p).do = "SaveQueue" /\ OnQueue("Deliver", p).do = "Deliver"
             /\ \A m : /\ OnMessage("SaveMessage", p, m).do = "SaveMessage"
                       /\ OnMessage("DeleteMessage", p, m).do = "DeleteMessage"
                       /\ OnMessage("Receipt", p, m).do = "Receipt"
                       /\ OnMessage("SetReady", p, m).do = "SetReady"
  BY Fields
<1>2. \A a, b, c, d :
        /\ a.do \notin Bound => Loose(<<a>>)
        /\ a.do \notin Bound /\ b.do \notin Bound => Loose(<<a, b>>)
        /\ a.do \notin Bound /\ b.do \notin Bound /\ c.do \notin Bound /\ d.do \notin Bound
             => Loose(<<a, b, c, d>>)
  BY DEF Loose
<1>3. "SaveQueue" \notin Bound /\ "Deliver" \notin Bound /\ "SaveMessage" \notin Bound
      /\ "DeleteMessage" \notin Bound /\ "Receipt" \notin Bound /\ "SetReady" \notin Bound
  BY DEF Bound
<1> QED
  BY <1>1, <1>2, <1>3 DEF PublishSteps, SubscribeSteps, AckSteps, DlqSteps, RequeueSteps

\* No task does anything.
LEMMA IdleRight ==
  ASSUME ConstantsOK, Typed, Rightly, UNCHANGED <<todo, msgs, ready, inflight, handed>>
  PROVE  Rightly'
<1>1. Staying /\ Placed'
  BY SamePlaced
<1>2. ASSUME NEW u \in Tasks
      PROVE  AllRight(todo[u])'
  <2>1. PICK w : w = todo[u]
    OBVIOUS
  <2>2. w \in Seq(StepUpTo(Len(msgs))) /\ AllRight(w)
    BY <2>1 DEF Typed, TasksOK, Work, Rightly
  <2>3. AllRight(w)'
    BY <1>1, <2>2, MessagesTyped, RightLasts
  <2> QED
    BY <2>1, <2>3
<1> QED
  BY <1>1, <1>2 DEF Rightly

\* A new message is the last one.
LEMMA Appended ==
  ASSUME ConstantsOK, Typed, NEW m, msgs' = Append(msgs, m), Len(msgs) < MaxMessages
  PROVE  /\ NewId \in Ids /\ NewId \in Known' /\ msgs'[NewId] = m
         /\ Known \subseteq Known' /\ Known' = Known \cup {NewId}
         /\ \A id \in Known : msgs'[id] = msgs[id] /\ id < NewId
<1>1. Len(msgs) \in Nat /\ MaxMessages \in Nat /\ Known = 1..Len(msgs)
  BY MessagesTyped
<1>2. /\ Len(msgs') = Len(msgs) + 1 /\ msgs'[Len(msgs) + 1] = m
      /\ \A id \in 1..Len(msgs) : msgs'[id] = msgs[id]
  BY DEF Typed, DataTypeOK
<1>3. Known' = 1..(Len(msgs) + 1)
  BY <1>2 DEF Known
<1> QED
  BY <1>1, <1>2, <1>3 DEF NewId, Ids

\* SEND.
LEMMA SendRight ==
  ASSUME ConstantsOK, Typed, Rightly, NEW c \in Conns, NEW q \in Targets, NEW type, NEW prio,
         NEW ttl, Send(c, q, type, prio, ttl)
  PROVE  Rightly'
<1>1. c \in Tasks /\ UNCHANGED <<inflight, handed>> /\ q \in Queues
  BY DEF Send, Tasks, ConstantsOK, clients
<1>2. PICK new : new = NewId
  OBVIOUS
<1>3. PICK m : m = NewMessage(q, prio, ttl, 0) /\ m.queue = q
  <2>1. \A p, from : NewMessage(q, p, ttl, from).queue = q
    BY DEF NewMessage
  <2>2. NewMessage(q, prio, ttl, 0).queue = q
    BY <2>1
  <2> QED
    BY <2>2
<1>4. /\ msgs' = Append(msgs, m) /\ Len(msgs) < MaxMessages
      /\ todo' = [todo EXCEPT ![c] = PublishSteps(q, new)]
      /\ \E p, ty : Enqueue(q, new, p, ty)
  BY <1>2, <1>3 DEF Send, Continue, Proceed
<1>5. new \in Ids /\ msgs'[new] = m /\ Known \subseteq Known' /\ \A id \in Known : msgs'[id] = msgs[id]
  BY <1>2, <1>4, Appended
<1>6. Staying /\ Placed'
  <2>1. PICK p, ty : Enqueue(q, new, p, ty)
    BY <1>4
  <2> QED
    BY <1>1, <1>3, <1>5, <2>1, EnqueuedPlaced
<1>7. PICK v : v = PublishSteps(q, new)
  OBVIOUS
<1>8. Loose(v)
  BY <1>7, HandlersLoose
<1> QED
  BY <1>1, <1>4, <1>6, <1>7, <1>8, LooseStarts

\* ACK and NACK: what is failed was in flight.
LEMMA AnswerRight ==
  ASSUME ConstantsOK, Typed, Rightly, NEW c \in Conns, NEW id0 \in Ids, Ack(c, id0) \/ Nack(c, id0)
  PROVE  Rightly'
<1>1. /\ c \in Tasks /\ UNCHANGED <<msgs, ready, handed>> /\ inflight' = TakeOut({id0})
  BY DEF Ack, Nack, Tasks
<1>2. Staying /\ Placed'
  BY <1>1, TakenPlaced
<1>3. PICK q : q = msgs[id0].queue
  OBVIOUS
<1>4. CASE inflight[id0] > 0 /\ Ack(c, id0)
  <2>1. PICK v : v = AckSteps(q, id0) /\ Loose(v)
    BY HandlersLoose
  <2>2. todo' = [todo EXCEPT ![c] = v]
    BY <1>3, <1>4, <2>1 DEF Ack, Continue, Proceed
  <2> QED
    BY <1>1, <1>2, <2>1, <2>2, LooseStarts
<1>5. CASE inflight[id0] > 0 /\ Nack(c, id0)
  <2>1. PICK a : a = Do("Failed", q, id0, inflight[id0], NoConsumer) /\ a.do = "Failed" /\ a.q = q
                 /\ a.id = id0
    BY Fields
  <2>2. PICK d : d = OnQueue("Deliver", q) /\ d.do = "Deliver"
    BY Fields
  <2>3. PICK v : v = <<a, d>>
    OBVIOUS
  <2>4. Len(v) = 2 /\ v[1] = a /\ v[2] = d
    BY <2>3
  <2>5. todo' = [todo EXCEPT ![c] = v]
    BY <1>3, <1>5, <2>1, <2>2, <2>3 DEF Nack, Continue, Proceed, NackSteps
  <2>6. msgs'[id0].queue = q /\ id0 \in handed'
    BY <1>1, <1>3, <1>5 DEF Rightly, Placed, Flying
  <2>7. AllRight(v)'
    <3>1. \A k \in 1..Len(v) : k = 1 \/ k = 2
      BY <2>4
    <3> QED
      BY <2>1, <2>2, <2>4, <2>6, <3>1 DEF AllRight, Right, Bound
  <2> QED
    BY <1>1, <1>2, <2>5, <2>7, RightWhen
<1>6. CASE inflight[id0] = 0
  <2>1. todo' = todo
    BY <1>6 DEF Ack, Nack, control
  <2>2. inflight' = inflight
    BY <1>1, <1>6 DEF TakeOut, Typed, DataTypeOK
  <2> QED
    BY <1>1, <2>1, <2>2, IdleRight
<1>7. inflight[id0] \in Nat
  BY DEF Typed, DataTypeOK
<1> QED
  BY <1>4, <1>5, <1>6, <1>7

\* Clients.
LEMMA ClientsRight ==
  ASSUME ConstantsOK, Typed, Rightly, Clients
  PROVE  Rightly'
<1>1. ASSUME NEW c \in Conns, Connect(c) \/ Lose(c)
      PROVE  Rightly'
  BY <1>1, IdleRight DEF Connect, Lose, control, memory, clients
<1>2. ASSUME NEW c \in Conns, NEW q, NEW type, SendExpired(c, q, type)
      PROVE  Rightly'
  BY <1>2, IdleRight DEF SendExpired, control, clients
<1>3. ASSUME NEW c \in Conns, NEW s \in Subs, NEW q, NEW type, Subscribe(c, s, q, type)
      PROVE  Rightly'
  <2>1. /\ c \in Tasks /\ todo' = [todo EXCEPT ![c] = SubscribeSteps(q)]
        /\ UNCHANGED <<msgs, ready, inflight, handed>>
    BY <1>3 DEF Subscribe, Continue, Proceed, Tasks, clients
  <2>2. PICK v : v = SubscribeSteps(q) /\ Loose(v)
    BY HandlersLoose
  <2> QED
    BY <2>1, <2>2, SamePlaced, LooseStarts
<1>4. ASSUME NEW c \in Conns, NEW s \in Subs, Unsubscribe(c, s)
      PROVE  Rightly'
  BY <1>4, IdleRight DEF Unsubscribe, control, clients
<1> QED
  BY <1>1, <1>2, <1>3, <1>4, SendRight, AnswerRight DEF Clients

\* Connections end, the loops start scans, and the clock goes on.
LEMMA LoopsRight ==
  ASSUME ConstantsOK, Typed, Rightly,
         \/ \E c \in Conns : Unregister(c)
         \/ TimeoutTick \/ ExpiryTick \/ \E id \in Ids : Expire(id)
  PROVE  Rightly'
<1>1. ASSUME NEW c \in Conns, Unregister(c)
      PROVE  Rightly'
  BY <1>1, IdleRight DEF Unregister, control
<1>2. ASSUME NEW t \in Tasks, NEW kind \in {"CheckTimeouts", "PurgeExpired"}, Tick(t, kind)
      PROVE  Rightly'
  <2>1. PICK v : v = [i \in 1..Len(created) |-> OnQueue(kind, created[i])]
    OBVIOUS
  <2>2. todo' = [todo EXCEPT ![t] = v] /\ UNCHANGED <<msgs, ready, inflight, handed>>
    BY <1>2, <2>1 DEF Tick, Continue, Proceed, memory, clients
  <2>3. Loose(v)
    <3>1. Len(created) \in Nat
      BY DEF Typed, DataTypeOK
    <3>2. Len(v) = Len(created)
      BY <2>1, <3>1
    <3>3. \A k \in 1..Len(created) : v[k] = OnQueue(kind, created[k])
      BY <2>1
    <3>4. \A p : OnQueue(kind, p).do = kind
      BY Fields
    <3>5. \A k \in 1..Len(created) : v[k].do = kind
      BY <3>3, <3>4
    <3> QED
      BY <3>2, <3>5 DEF Loose, Bound
  <2> QED
    BY <2>2, <2>3, SamePlaced, LooseStarts
<1>3. ASSUME NEW id \in Ids, Expire(id)
      PROVE  Rightly'
  BY <1>3, IdleRight DEF Expire, control, memory
<1> QED
  BY <1>1, <1>2, <1>3 DEF TimeoutTick, ExpiryTick, Tasks

\* Storage calls, drains that wait or return, and receipts.
LEMMA StoredRight ==
  ASSUME ConstantsOK, Typed, Rightly, NEW t \in Tasks,
         QueueSaved(t) \/ MessageSaved(t) \/ StatusUpdated(t) \/ MessageDeleted(t)
         \/ DrainOk(t) \/ Receipt(t) \/ Suspend(t) \/ InFlightReset \/ QueuesLoaded \/ Serve
  PROVE  Rightly'
<1>1. PICK v : v = <<>> /\ v \in Seq({}) /\ Loose(v)
  BY NoSteps DEF Loose
<1>2. ASSUME NEW u, NEW kind, NEW A, NEW w \in Seq(A), Loose(w), Answers(u, kind, w), ready' = ready
      PROVE  Rightly'
  <2>1. /\ u \in Tasks /\ todo[u] # <<>> /\ todo' = [todo EXCEPT ![u] = w \o Tail(todo[u])]
        /\ UNCHANGED <<inflight, msgs, handed>>
    BY <1>2, AnswersTyped DEF Answers, Proceed, clients
  <2> QED
    BY <1>2, <2>1, SamePlaced, LooseNext
<1>3. CASE QueueSaved(t) \/ MessageSaved(t) \/ StatusUpdated(t) \/ MessageDeleted(t) \/ InFlightReset
  <2>1. \E u, kind : Answers(u, kind, v) /\ ready' = ready
    BY <1>1, <1>3 DEF QueueSaved, MessageSaved, StatusUpdated, MessageDeleted, InFlightReset
  <2> QED
    BY <1>1, <1>2, <2>1
<1>4. CASE DrainOk(t) \/ Receipt(t) \/ Serve
  <2>1. PICK u \in Tasks : /\ Become(u, v) /\ todo[u] # <<>>
                           /\ UNCHANGED <<ready, inflight, msgs, handed>>
    BY <1>1, <1>4 DEF DrainOk, AtDrain, Receipt, Serve, Doing, Idle, memory, clients, Tasks
  <2>2. todo' = [todo EXCEPT ![u] = v \o Tail(todo[u])]
    BY <2>1 DEF Become, Continue, Proceed
  <2> QED
    BY <1>1, <2>1, <2>2, SamePlaced, LooseNext
<1>5. CASE QueuesLoaded
  <2>1. PICK w \in Work(Len(msgs)) : /\ Answers(Main, "LoadQueues", w)
                                     /\ \A k \in 1..Len(w) : w[k].do = "LoadMessages"
    BY <1>5, QueuesLoadedWork
  <2>2. w \in Seq(StepUpTo(Len(msgs))) /\ ready' = ready /\ Loose(w)
    BY SMTT(60), <1>5, <2>1 DEF Work, QueuesLoaded, Loose, Bound
  <2> QED
    BY <1>2, <2>1, <2>2
<1>6. CASE Suspend(t)
  BY <1>6, IdleRight DEF Suspend, memory, clients
<1> QED
  BY <1>3, <1>4, <1>5, <1>6

\* The first message of a queue is popped: it was there, and is the one that leaves.
LEMMA Popped ==
  ASSUME ConstantsOK, Typed, NEW q \in Queues, ready[q] # <<>>,
         ready' = [ready EXCEPT ![q] = Tail(@)]
  PROVE  /\ Head(ready[q]) \in Known /\ Head(ready[q]) \in Ids /\ Head(ready[q]) \in Queued(q)
         /\ ready'[q] = Tail(ready[q]) /\ \A p \in Queues : p # q => ready'[p] = ready[p]
         /\ Queued(q) = Queued(q)' \cup {Head(ready[q])}
         /\ \A p \in Queues : p # q => Queued(p)' = Queued(p)
<1>1. ready'[q] = Tail(ready[q]) /\ \A p \in Queues : p # q => ready'[p] = ready[p]
  BY DEF Typed, DataTypeOK
<1>2. ready[q] \in Seq(Known)
  BY DEF Typed, OnlyKnown
<1>3. Queued(q) = Queued(q)' \cup {Head(ready[q])}
  <2>1. Members(ready[q]) = Members(Tail(ready[q])) \cup {Head(ready[q])}
    BY <1>2, PopMembers
  <2> QED
    BY <1>1, <2>1 DEF Queued
<1>4. \A p \in Queues : p # q => Queued(p)' = Queued(p)
  BY <1>1 DEF Queued
<1>5. Head(ready[q]) \in Known
  BY <1>2, HeadTailProperties
<1> QED
  BY <1>1, <1>3, <1>4, <1>5, MessagesTyped

\* A message that is written out was in the heap of its queue.
LEMMA DeliverRight ==
  ASSUME ConstantsOK, Typed, Rightly, NEW t \in Tasks, Deliver(t)
  PROVE  Rightly'
<1>1. /\ todo[t] # <<>> /\ msgs' = msgs /\ Known' = Known
  BY DeliverParts DEF Known
<1>2. PICK q, id, att, to :
        /\ q \in Queues
        /\ \/ Become(t, <<>>) /\ UNCHANGED <<ready, inflight, handed>>
           \/ /\ ready[q] # <<>> /\ id = Head(ready[q])
              /\ ready' = [ready EXCEPT ![q] = Tail(@)]
              /\ \/ /\ id \in expired /\ UNCHANGED <<inflight, handed>>
                    /\ Become(t, <<OnMessage("DeleteMessage", q, id), OnQueue("Deliver", q)>>)
                 \/ /\ inflight' = [inflight EXCEPT ![id] = att] /\ att = inflight[id] + 1
                    /\ handed' = handed \cup {id}
                    /\ Become(t, DispatchSteps(q, id, att, to))
  BY DeliverParts
<1>3. ASSUME NEW v, Become(t, v)
      PROVE  todo' = [todo EXCEPT ![t] = v \o Tail(todo[t])]
  BY <1>3 DEF Become, Continue, Proceed
<1>4. CASE Become(t, <<>>) /\ UNCHANGED <<ready, inflight, handed>>
  <2>1. PICK v : v = <<>> /\ v \in Seq({}) /\ Loose(v)
    BY NoSteps DEF Loose
  <2>2. Staying /\ Placed'
    BY <1>1, <1>4, SamePlaced
  <2> QED
    BY <1>1, <1>3, <1>4, <2>1, <2>2, LooseNext
<1>5. CASE /\ ready[q] # <<>> /\ id = Head(ready[q]) /\ UNCHANGED <<inflight, handed>>
           /\ ready' = [ready EXCEPT ![q] = Tail(@)]
           /\ Become(t, <<OnMessage("DeleteMessage", q, id), OnQueue("Deliver", q)>>)
  <2>1. PICK a : a = OnMessage("DeleteMessage", q, id) /\ a.do = "DeleteMessage"
    BY Fields
  <2>2. PICK d : d = OnQueue("Deliver", q) /\ d.do = "Deliver"
    BY Fields
  <2>3. PICK v : v = <<a, d>>
    OBVIOUS
  <2>4. v \in Seq({a, d}) /\ Len(v) = 2 /\ v[1] = a /\ v[2] = d
    BY <2>3
  <2>5. Loose(v)
    BY <2>1, <2>2, <2>4 DEF Loose, Bound
  <2>6. todo' = [todo EXCEPT ![t] = v \o Tail(todo[t])]
    BY <1>3, <1>5, <2>1, <2>2, <2>3
  <2>7. Staying /\ Placed'
    <3>1. \A p \in Queues : Queued(p)' \subseteq Queued(p)
      BY <1>2, <1>5, Popped
    <3>2. Flying' = Flying
      BY <1>5 DEF Flying
    <3> QED
      BY <1>1, <1>5, <3>1, <3>2 DEF Staying, Placed, Rightly
  <2> QED
    BY <1>1, <2>4, <2>5, <2>6, <2>7, LooseNext
<1>6. CASE /\ ready[q] # <<>> /\ id = Head(ready[q])
           /\ inflight' = [inflight EXCEPT ![id] = att] /\ handed' = handed \cup {id}
           /\ ready' = [ready EXCEPT ![q] = Tail(@)]
           /\ Become(t, DispatchSteps(q, id, att, to))
  <2>1. PICK a, b, d :
          /\ a.do = "Drain" /\ a.q = q /\ b.do = "SetInFlight" /\ b.q = q
          /\ d.do = "Deliver" /\ a.id = id /\ b.id = id
          /\ \/ DispatchSteps(q, id, att, to) = <<a, b, d>>
             \/ DispatchSteps(q, id, att, to) = <<b, d>>
    BY DispatchShape
  <2>2. PICK v : v = DispatchSteps(q, id, att, to)
    OBVIOUS
  <2>3. v \in Seq({a, b, d}) /\ \A k \in 1..Len(v) : v[k] \in {a, b, d}
    <3>1. CASE v = <<a, b, d>>
      BY <3>1
    <3>2. CASE v = <<b, d>>
      BY <3>2
    <3> QED
      BY <2>1, <2>2, <3>1, <3>2
  <2>4. id \in Queued(q) /\ id \in Ids /\ \A p \in Queues : Queued(p)' \subseteq Queued(p)
    BY <1>2, <1>6, Popped
  <2>5. msgs[id].queue = q /\ id \in handed'
    BY <1>2, <1>6, <2>4 DEF Rightly, Placed
  <2>6. AllRight(v)'
    BY <1>1, <2>1, <2>3, <2>5 DEF AllRight, Right, Bound
  <2>7. Staying /\ Placed'
    <3>1. inflight \in [Ids -> Nat]
      BY DEF Typed, DataTypeOK
    <3>2. Flying' \subseteq Flying \cup {id}
      BY <1>6, <3>1 DEF Flying
    <3> QED
      BY <1>1, <1>6, <2>4, <3>2 DEF Staying, Placed, Rightly
  <2>8. todo' = [todo EXCEPT ![t] = v \o Tail(todo[t])]
    BY <1>3, <1>6, <2>2
  <2> QED
    BY <1>1, <2>3, <2>6, <2>7, <2>8, RightNext
<1> QED
  BY <1>2, <1>4, <1>5, <1>6

\* The except clause of the delivery loop: the message that is failed now is the one
\* that was written out.
LEMMA GiveUpRight ==
  ASSUME ConstantsOK, Typed, Rightly, NEW t \in Tasks, todo[t] # <<>>,
         Head(todo[t]).do \in {"Drain", "SetInFlight"}, NEW x \in Work(Len(msgs)), x # <<>>,
         AllRight(x), NEW waiting, GiveUp(t, Tail(x), waiting), UNCHANGED <<msgs, ready, handed>>
  PROVE  Rightly'
<1>1. PICK s : s = Head(todo[t])
  OBVIOUS
<1>2. PICK f : /\ f = Do("Failed", s.q, s.id, s.att, NoConsumer) /\ f.do = "Failed"
               /\ f.id = s.id /\ f.q = s.q
  BY Fields
<1>3. PICK v : v = <<f>> /\ v \in Seq({f}) /\ Len(v) = 1 /\ v[1] = f
  BY OneStep
<1>4. inflight' = TakeOut({s.id}) /\ todo' = [todo EXCEPT ![t] = v \o Tail(x)]
  BY <1>1, <1>2, <1>3 DEF GiveUp, Proceed
<1>5. Staying /\ Placed'
  BY <1>4, TakenPlaced
<1>6. msgs'[s.id].queue = s.q /\ s.id \in handed'
  <2>1. PICK w : w = todo[t]
    OBVIOUS
  <2>2. w \in Work(Len(msgs)) /\ AllRight(w) /\ w # <<>> /\ s = Head(w)
    BY <1>1, <2>1, Current DEF Rightly
  <2>3. 1 \in 1..Len(w) /\ s = w[1]
    BY <2>2, LenProperties, EmptySeq DEF Work
  <2>4. Right(s) /\ s.do \in Bound /\ s.do # "Restore"
    BY <1>1, <2>2, <2>3 DEF AllRight, Bound
  <2> QED
    BY <2>4 DEF Right
<1>7. AllRight(v)'
  BY <1>2, <1>3, <1>6 DEF AllRight, Right
<1>8. PICK z : z = v \o Tail(x)
  OBVIOUS
<1>9. AllRight(v \o Tail(x))'
  BY <1>3, <1>5, <1>7, RightSpliced
<1>10. AllRight(z)'
  BY <1>8, <1>9
<1> QED
  BY <1>4, <1>5, <1>8, <1>10, RightWhen

\* A drain that raises.
LEMMA DrainFailsRight ==
  ASSUME ConstantsOK, Typed, Kept, Rightly, NEW t \in Tasks, DrainFails(t)
  PROVE  Rightly'
<1>1. PICK w : w = todo[t]
  OBVIOUS
<1>2. PICK x : x = Tail(w)
  OBVIOUS
<1>3. /\ w # <<>> /\ Head(todo[t]).do = "Drain" /\ UNCHANGED <<msgs, ready, handed>>
      /\ GiveUp(t, Tail(x), dbq)
  BY <1>1, <1>2 DEF DrainFails, AtDrain, Idle, clients
<1>4. w \in Work(Len(msgs)) /\ x \in Work(Len(msgs)) /\ Len(msgs) \in Nat /\ AllRight(w)
      /\ w \in Seq(StepUpTo(Len(msgs)))
  BY <1>1, <1>2, <1>3, Current, MessagesTyped DEF Work, Rightly
<1>5. x # <<>>
  <2>1. Backed(w, Facts)
    BY <1>1 DEF Kept, AllBacked
  <2> QED
    BY <1>1, <1>2, <1>3, <1>4, <2>1, AfterDrain
<1>6. AllRight(x)
  <2>1. /\ Len(w) \in Nat /\ Len(w) >= 1 /\ Len(x) = Len(w) - 1
        /\ \A k \in 1..Len(x) : x[k] = w[k + 1]
    BY <1>2, <1>3, <1>4, HeadTailProperties, LenProperties, EmptySeq
  <2>2. \A k \in 1..Len(x) : k + 1 \in 1..Len(w)
    BY <2>1
  <2> QED
    BY <1>4, <2>1, <2>2 DEF AllRight
<1> QED
  BY <1>1, <1>3, <1>4, <1>5, <1>6, GiveUpRight

\* A storage call that raises.
LEMMA StorageFailsRight ==
  ASSUME ConstantsOK, Typed, Rightly, NEW t \in Tasks, StorageFails(t)
  PROVE  Rightly'
<1>1. PICK w : w = todo[t]
  OBVIOUS
<1>2. /\ UNCHANGED <<msgs, ready, handed>> /\ todo[t] # <<>>
      /\ \/ Head(todo[t]).do = "SetInFlight" /\ GiveUp(t, Tail(w), Tail(dbq))
         \/ Proceed(t, <<>>, Tail(dbq)) /\ UNCHANGED <<inflight, consumers>>
  <2>1. dbq # <<>> /\ t = Head(dbq) /\ UNCHANGED <<msgs, ready, handed>>
    BY DEF StorageFails, clients
  <2>2. todo[t] # <<>>
    BY <2>1, FirstCall, MessagesTyped DEF Typed
  <2> QED
    BY <1>1, <2>1, <2>2 DEF StorageFails
<1>3. w \in Work(Len(msgs)) /\ AllRight(w)
  BY <1>1, <1>2, Current DEF Rightly
<1>4. CASE Head(todo[t]).do = "SetInFlight" /\ GiveUp(t, Tail(w), Tail(dbq))
  BY <1>1, <1>2, <1>3, <1>4, GiveUpRight
<1>5. CASE Proceed(t, <<>>, Tail(dbq)) /\ UNCHANGED <<inflight, consumers>>
  <2>1. PICK v : v = <<>> /\ Loose(v)
    BY NoSteps DEF Loose
  <2>2. todo' = [todo EXCEPT ![t] = v]
    BY <1>5, <2>1 DEF Proceed
  <2> QED
    BY <1>2, <1>5, <2>1, <2>2, SamePlaced, LooseStarts
<1> QED
  BY <1>2, <1>4, <1>5

\* A failed message returns to its queue; its copy goes to the dead letter queue.
LEMMA FailedRight ==
  ASSUME ConstantsOK, Typed, Rightly, NEW t \in Tasks, Failed(t)
  PROVE  Rightly'
<1>1. /\ todo[t] # <<>> /\ Head(todo[t]).do = "Failed" /\ UNCHANGED <<inflight, handed>>
      /\ \/ MoveToDlq(t, Head(todo[t]).q, Head(todo[t]).id)
         \/ Requeue(t, Head(todo[t]).q, Head(todo[t]).id)
  BY DEF Failed, Doing, Idle, clients
<1>2. PICK q \in Queues, id \in Known : q = Head(todo[t]).q /\ id = Head(todo[t]).id
  BY <1>1, Current DEF OfQueue, OfMessage, Kinds
<1>3. id \in Ids /\ msgs[id].queue = q
  <2>1. PICK w : w = todo[t]
    OBVIOUS
  <2>2. w \in Work(Len(msgs)) /\ AllRight(w) /\ w # <<>>
    BY <1>1, <2>1, Current DEF Rightly
  <2>3. 1 \in 1..Len(w) /\ Head(w) = w[1]
    BY <2>2, LenProperties, EmptySeq DEF Work
  <2>4. Right(Head(w)) /\ Head(w).do \in Bound
    BY <1>1, <2>1, <2>2, <2>3 DEF AllRight, Bound
  <2> QED
    BY <1>2, <2>1, <2>4, MessagesTyped DEF Right
<1>4. CASE Requeue(t, q, id)
  <2>1. PICK v : v = RequeueSteps(q, id) /\ Loose(v)
    BY HandlersLoose
  <2>2. PICK A : v \in Seq(A)
    BY <2>1, OneStep DEF RequeueSteps
  <2>3. /\ todo' = [todo EXCEPT ![t] = v \o Tail(todo[t])]
        /\ Enqueue(q, id, Prio, qtype[q]) /\ msgs' = msgs
    BY <1>4, <2>1 DEF Requeue, Become, Continue, Proceed
  <2>4. Staying /\ Placed'
    BY <1>1, <1>3, <2>3, EnqueuedPlaced DEF Known
  <2> QED
    BY <1>1, <2>1, <2>2, <2>3, <2>4, LooseNext
<1>5. CASE MoveToDlq(t, q, id)
  <2>1. PICK dlq \in Queues : dlq = DlqOf[q]
    BY DEF ConstantsOK
  <2>2. PICK copy : copy = NewId
    OBVIOUS
  <2>3. PICK m : m = NewMessage(dlq, msgs[id].prio, FALSE, id) /\ m.queue = dlq
    <3>1. \A p, ttl, from : NewMessage(dlq, p, ttl, from).queue = dlq
      BY DEF NewMessage
    <3>2. NewMessage(dlq, msgs[id].prio, FALSE, id).queue = dlq
      BY <3>1
    <3> QED
      BY <3>2
  <2>4. PICK v : v = DlqSteps(q, id, dlq, copy) /\ Loose(v)
    BY HandlersLoose
  <2>5. PICK A : v \in Seq(A)
    BY <2>4, HandlersHoldNothing
  <2>6. /\ msgs' = Append(msgs, m) /\ Len(msgs) < MaxMessages
        /\ todo' = [todo EXCEPT ![t] = v \o Tail(todo[t])]
        /\ \E prio, type : Enqueue(dlq, copy, prio, type)
    BY <1>5, <2>1, <2>2, <2>3, <2>4 DEF MoveToDlq, Become, Continue, Proceed
  <2>7. copy \in Ids /\ msgs'[copy] = m /\ Known \subseteq Known'
        /\ \A i \in Known : msgs'[i] = msgs[i]
    BY <2>2, <2>6, Appended
  <2>8. PICK prio, type : Enqueue(dlq, copy, prio, type)
    BY <2>6
  <2>9. Staying /\ Placed'
    BY <1>1, <2>3, <2>7, <2>8, EnqueuedPlaced
  <2> QED
    BY <1>1, <2>4, <2>5, <2>6, <2>9, LooseNext
<1> QED
  BY <1>1, <1>2, <1>4, <1>5

\* What check_timeouts fails was in flight, in the queue it scans.
LEMMA CheckTimeoutsRight ==
  ASSUME ConstantsOK, Typed, Rightly, NEW t \in Tasks, CheckTimeouts(t)
  PROVE  Rightly'
<1>1. PICK q \in Queues : q = Head(todo[t]).q
  BY Current DEF CheckTimeouts, Doing, Idle, OfQueue, Kinds
<1>2. PICK overdue, ids : /\ overdue \in SUBSET InFlightOf(q) /\ ids \in SetToSeqs(overdue)
                          /\ inflight' = TakeOut(overdue)
                          /\ Become(t, IF overdue = {} THEN <<>>
                                       ELSE Append(ForEach("Failed", q, ids),
                                                   OnQueue("Deliver", q)))
  BY <1>1 DEF CheckTimeouts
<1>3. todo[t] # <<>> /\ UNCHANGED <<ready, msgs, handed>>
  BY DEF CheckTimeouts, Doing, Idle, clients
<1>4. Staying /\ Placed'
  BY <1>2, <1>3, TakenPlaced
<1>5. CASE overdue = {}
  <2>1. PICK v : v = <<>> /\ v \in Seq({}) /\ Loose(v)
    BY NoSteps DEF Loose
  <2>2. todo' = [todo EXCEPT ![t] = v \o Tail(todo[t])]
    BY <1>2, <1>5, <2>1 DEF Become, Continue, Proceed
  <2> QED
    BY <1>3, <1>4, <2>1, <2>2, LooseNext
<1>6. CASE overdue # {}
  <2>1. /\ \A id \in overdue : /\ id \in 1..Len(msgs) /\ msgs[id].queue = q
                               /\ id \in handed
        /\ IsFiniteSet(overdue)
    <3>1. \A id \in overdue : id \in 1..Len(msgs) /\ msgs[id].queue = q /\ inflight[id] > 0
      BY <1>2 DEF InFlightOf
    <3>2. IsFiniteSet(overdue)
      BY <3>1, MessagesTyped, Positions
    <3>3. \A id \in overdue : id \in Flying
      BY <3>1, MessagesTyped DEF Flying
    <3> QED
      BY <3>1, <3>2, <3>3 DEF Rightly, Placed
  <2>2. ids \in Seq(overdue)
    BY <1>2, <2>1, OrderingIsOnto
  <2>3. PICK fs : fs = ForEach("Failed", q, ids)
    OBVIOUS
  <2>4. PICK d : d = OnQueue("Deliver", q) /\ d.do = "Deliver"
    BY Fields
  <2>5. PICK n \in Nat : n = Len(ids)
    BY <2>2, LenProperties
  <2>6. fs = [i \in 1..n |-> Do("Failed", q, ids[i], inflight[ids[i]], NoConsumer)]
    BY <2>3, <2>5 DEF ForEach
  <2>7. PICK A : A = {fs[i] : i \in 1..n} \cup {d}
    OBVIOUS
  <2>8. fs \in Seq(A) /\ Len(fs) = n
    BY <2>6, <2>7
  <2>9. \A i \in 1..n : fs[i].q = q /\ fs[i].id \in overdue
    <3>1. \A i \in 1..n : fs[i] = Do("Failed", q, ids[i], inflight[ids[i]], NoConsumer)
      BY <2>6
    <3>2. \A i \in 1..n : ids[i] \in overdue
      BY <2>2, <2>5, ElementOfSeq
    <3>3. \A i \in 1..n : fs[i].q = q /\ fs[i].id = ids[i]
      BY <3>1, Fields
    <3> QED
      BY <3>2, <3>3
  <2>10. PICK v : v = Append(fs, d)
    OBVIOUS
  <2>11. v \in Seq(A) /\ Len(v) = n + 1 /\ v[n + 1] = d /\ \A i \in 1..n : v[i] = fs[i]
    <3>1. d \in A
      BY <2>7
    <3>2. /\ Append(fs, d) \in Seq(A) /\ Len(Append(fs, d)) = Len(fs) + 1
          /\ \A i \in 1..Len(fs) : Append(fs, d)[i] = fs[i]
          /\ Append(fs, d)[Len(fs) + 1] = d
      BY <2>8, <3>1, AppendProperties
    <3> QED
      BY <2>8, <2>10, <3>2
  <2>12. todo' = [todo EXCEPT ![t] = v \o Tail(todo[t])]
    BY <1>2, <1>6, <2>3, <2>4, <2>10 DEF Become, Continue, Proceed
  <2>13. AllRight(v)'
    <3>1. \A k \in 1..Len(v) : k \in 1..n \/ k = n + 1
      BY <2>11
    <3>2. \A id \in overdue : msgs'[id].queue = q /\ id \in handed'
      BY <1>3, <2>1
    <3>3. \A i \in 1..n : Right(fs[i])'
      BY <2>9, <3>2 DEF Right
    <3>4. Right(d)'
      BY <2>4 DEF Right, Bound
    <3> QED
      BY <2>11, <3>1, <3>3, <3>4 DEF AllRight
  <2> QED
    BY <1>3, <1>4, <2>11, <2>12, <2>13, RightNext
<1> QED
  BY <1>5, <1>6

\* purge_expired: messages only leave memory.
LEMMA PurgeExpiredRight ==
  ASSUME ConstantsOK, Typed, Rightly, NEW t \in Tasks, PurgeExpired(t)
  PROVE  Rightly'
<1>1. PICK q : q = Head(todo[t]).q
  OBVIOUS
<1>2. PICK dead : dead = ExpiredOf(q)
  OBVIOUS
<1>3. /\ todo[t] # <<>> /\ UNCHANGED <<msgs, handed>>
      /\ ready' = [ready EXCEPT ![q] = Without(@, dead)]
      /\ inflight' = TakeOut(dead)
  BY <1>1, <1>2 DEF PurgeExpired, Doing, Idle, clients
<1>4. PICK ids \in SetToSeqs(dead) : Become(t, ForEach("DeleteMessage", q, ids))
  BY <1>1, <1>2 DEF PurgeExpired
<1>5. PICK n \in Nat : n = Len(ids)
  <2>1. \A id \in dead : id \in 1..Len(msgs)
    BY <1>2, MessagesTyped DEF ExpiredOf, Typed, OnlyKnown
  <2>2. ids \in Seq(1..Len(msgs))
    BY <2>1, MessagesTyped, OrderingTyped
  <2> QED
    BY <2>2, LenProperties
<1>6. PICK v : v = ForEach("DeleteMessage", q, ids)
  OBVIOUS
<1>7. v = [i \in 1..n |-> Do("DeleteMessage", q, ids[i], inflight[ids[i]], NoConsumer)]
  BY <1>5, <1>6 DEF ForEach
<1>8. PICK A : v \in Seq(A) /\ Len(v) = n
  <2>1. PICK A : A = {v[i] : i \in 1..n}
    OBVIOUS
  <2>2. v \in Seq(A) /\ Len(v) = n
    BY <1>7, <2>1
  <2> QED
    BY <2>2
<1>9. Loose(v)
  <2>1. \A i \in 1..n : v[i] = Do("DeleteMessage", q, ids[i], inflight[ids[i]], NoConsumer)
    BY <1>7
  <2>2. \A i \in 1..n : v[i].do = "DeleteMessage"
    BY <2>1, Fields
  <2> QED
    BY <1>8, <2>2 DEF Loose, Bound
<1>10. todo' = [todo EXCEPT ![t] = v \o Tail(todo[t])]
  BY <1>4, <1>6 DEF Become, Continue, Proceed
<1>11. \A p \in Queues : Queued(p)' \subseteq Queued(p)
  <2>1. \A p \in Queues : ready'[p] = ready[p] \/ ready'[p] = Without(ready[p], dead)
    BY <1>3 DEF Typed, DataTypeOK
  <2>2. \A p \in Queues : ready[p] \in Seq(Ids)
    BY DEF Typed, DataTypeOK
  <2>3. \A p \in Queues : Members(Without(ready[p], dead)) = Members(ready[p]) \ dead
    BY <2>2, WithoutMembers
  <2> QED
    BY <2>1, <2>2, <2>3 DEF Queued
<1>12. Staying /\ Placed'
  <2>1. Flying' = Flying \ dead
    BY <1>3, TakeOutFlying
  <2> QED
    BY <1>3, <1>11, <2>1 DEF Staying, Placed, Rightly, Known
<1> QED
  BY <1>3, <1>8, <1>9, <1>10, <1>12, LooseNext

\* restore() loads messages of the queue it asks for, and puts them in its heap.
LEMMA LoadedRight ==
  ASSUME ConstantsOK, Typed, Rightly, MessagesLoaded \/ Restore
  PROVE  Rightly'
<1>1. CASE MessagesLoaded
  <2>1. PICK v \in Work(Len(msgs)) : /\ Answers(Main, "LoadMessages", v)
                                     /\ \A k \in 1..Len(v) : /\ v[k].do = "Restore"
                                                             /\ msgs[v[k].id].queue = v[k].q
    BY <1>1, MessagesLoadedWork
  <2>2. /\ Main \in Tasks /\ todo[Main] # <<>> /\ ready' = ready
        /\ UNCHANGED <<msgs, inflight, handed>>
        /\ todo' = [todo EXCEPT ![Main] = v \o Tail(todo[Main])]
        /\ v \in Seq(StepUpTo(Len(msgs)))
    <3>1. Main \in Tasks /\ todo[Main] # <<>> /\ UNCHANGED <<msgs, inflight, handed>>
      BY <2>1, AnswersTyped DEF clients
    <3>2. todo' = [todo EXCEPT ![Main] = v \o Tail(todo[Main])]
      BY <2>1 DEF Answers, Proceed
    <3>3. ready' = ready
      BY <1>1 DEF MessagesLoaded
    <3>4. v \in Seq(StepUpTo(Len(msgs)))
      BY <2>1 DEF Work
    <3> QED
      BY <3>1, <3>2, <3>3, <3>4
  <2>3. AllRight(v)'
    BY <2>1, <2>2 DEF AllRight, Right
  <2> QED
    BY <2>2, <2>3, SamePlaced, RightNext
<1>2. CASE Restore
  <2>1. PICK q \in Queues, id \in Known : q = Head(todo[Main]).q /\ id = Head(todo[Main]).id
    BY <1>2, RestoreWork
  <2>2. /\ Main \in Tasks /\ todo[Main] # <<>> /\ Head(todo[Main]).do = "Restore"
        /\ UNCHANGED <<msgs, inflight, handed>>
        /\ \/ /\ ready' = ready
              /\ \E d \in StepUpTo(Len(msgs)) : d.do = "DeleteMessage" /\ Become(Main, <<d>>)
           \/ Become(Main, <<>>) /\ Enqueue(q, id, Prio, qtype[q])
    BY <1>2, <2>1, RestoreWork DEF clients
  <2>3. CASE /\ ready' = ready
             /\ \E d \in StepUpTo(Len(msgs)) : d.do = "DeleteMessage" /\ Become(Main, <<d>>)
    <3>1. PICK d : d.do = "DeleteMessage" /\ Become(Main, <<d>>)
      BY <2>3
    <3>2. PICK v : v = <<d>> /\ v \in Seq({d}) /\ Len(v) = 1 /\ v[1] = d
      BY OneStep
    <3>3. Loose(v)
      BY <3>1, <3>2 DEF Loose, Bound
    <3>4. todo' = [todo EXCEPT ![Main] = v \o Tail(todo[Main])]
      BY <3>1, <3>2 DEF Become, Continue, Proceed
    <3> QED
      BY <2>2, <2>3, <3>2, <3>3, <3>4, SamePlaced, LooseNext
  <2>4. CASE Become(Main, <<>>) /\ Enqueue(q, id, Prio, qtype[q])
    <3>1. PICK v : v = <<>> /\ v \in Seq({}) /\ Loose(v)
      BY NoSteps DEF Loose
    <3>2. todo' = [todo EXCEPT ![Main] = v \o Tail(todo[Main])]
      BY <2>4, <3>1 DEF Become, Continue, Proceed
    <3>3. id \in Ids /\ msgs'[id].queue = q
      <4>1. PICK w : w = todo[Main]
        OBVIOUS
      <4>2. w \in Work(Len(msgs)) /\ AllRight(w) /\ w # <<>>
        BY <2>2, <4>1, Current DEF Rightly
      <4>3. 1 \in 1..Len(w) /\ Head(w) = w[1]
        BY <4>2, LenProperties, EmptySeq DEF Work
      <4>4. Right(Head(w)) /\ Head(w).do \in Bound
        BY <2>2, <4>1, <4>2, <4>3 DEF AllRight, Bound
      <4> QED
        BY <2>1, <2>2, <4>1, <4>4, MessagesTyped DEF Right
    <3>4. Staying /\ Placed'
      BY <2>2, <2>4, <3>3, EnqueuedPlaced DEF Known
    <3> QED
      BY <2>2, <3>1, <3>2, <3>4, LooseNext
  <2> QED
    BY <2>2, <2>3, <2>4
<1> QED
  BY <1>1, <1>2

\* Memory is empty after a crash, and a start begins with three loose steps.
LEMMA StartRight ==
  ASSUME ConstantsOK, Typed, Rightly, Start \/ Crash
  PROVE  Rightly'
<1>1. CASE Start
  <2>1. PICK a : a = OnQueue("ResetInFlight", NoQueue) /\ a.do = "ResetInFlight"
    BY Fields
  <2>2. PICK b : b = OnQueue("LoadQueues", NoQueue) /\ b.do = "LoadQueues"
    BY Fields
  <2>3. PICK c : c = OnQueue("Serve", NoQueue) /\ c.do = "Serve"
    BY Fields
  <2>4. PICK v : v = <<a, b, c>> /\ v = RestoreSteps
    BY <2>1, <2>2, <2>3 DEF RestoreSteps
  <2>5. /\ todo' = [todo EXCEPT ![Main] = v] /\ Main \in Tasks
        /\ UNCHANGED <<ready, inflight, msgs, handed>>
    BY <1>1, <2>4 DEF Start, Continue, Proceed, memory, clients, Tasks
  <2>6. Len(v) = 3 /\ v[1] = a /\ v[2] = b /\ v[3] = c
    BY <2>4
  <2>7. Loose(v)
    <3>1. \A k \in 1..Len(v) : k = 1 \/ k = 2 \/ k = 3
      BY <2>6
    <3> QED
      BY <2>1, <2>2, <2>3, <2>6, <3>1 DEF Loose, Bound
  <2> QED
    BY <2>5, <2>7, SamePlaced, LooseStarts
<1>2. CASE Crash
  <2>1. /\ \A t \in Tasks : todo'[t] = <<>>
        /\ \A q \in Queues : ready'[q] = <<>>
        /\ \A id \in Ids : inflight'[id] = 0
    BY <1>2 DEF Crash
  <2>2. \A t \in Tasks : AllRight(todo[t])'
    BY <2>1, NoSteps DEF AllRight
  <2>3. \A q \in Queues : \A id : id \notin Queued(q)'
    BY <2>1, NoSteps DEF Queued, Members
  <2>4. \A id : id \notin Flying'
    BY <2>1 DEF Flying
  <2> QED
    BY <2>2, <2>3, <2>4 DEF Rightly, Placed
<1> QED
  BY <1>1, <1>2

\* Messages stay where they belong.
LEMMA RightStep ==
  ASSUME ConstantsOK, Typed, Kept, Rightly, [Next]_vars
  PROVE  Rightly'
<1>1. CASE UNCHANGED vars
  BY <1>1, IdleRight DEF vars, control, memory, clients
<1>2. ASSUME NEW t \in Tasks, Run(t) \/ Suspend(t) \/ StorageFails(t)
      PROVE  Rightly'
  BY <1>2, StoredRight, DeliverRight, DrainFailsRight, FailedRight, CheckTimeoutsRight,
     PurgeExpiredRight, StorageFailsRight DEF Run
<1>3. CASE Restart
  <2>1. Main \in Tasks
    BY DEF Tasks
  <2> QED
    BY <1>3, <2>1, StoredRight, LoadedRight, StartRight DEF Restart
<1>4. CASE Crash
  BY <1>4, StartRight
<1> QED
  BY <1>1, <1>2, <1>3, <1>4, ClientsRight, LoopsRight DEF Next

-----------------------------------------------------------------------------
(* restore() puts the messages back in the order of their ids. *)

\* Steps of restore() that change the heap of a queue, now or through those they
\* give rise to.
Touches(s, q) == Loading(s, q) \/ (s.do = "Restore" /\ s.q = q)

\* Of one queue there is one step that loads, or there are messages in ascending order.
InLine(w) ==
  \A i, j \in 1..Len(w) : i < j =>
    \A q \in Queues : Touches(w[i], q) /\ Touches(w[j], q)
                        => w[i].do = "Restore" /\ w[j].do = "Restore" /\ w[i].id < w[j].id

\* A queue that is yet to be loaded is empty; a message comes after those before it.
Stands(s) ==
  /\ \A q \in Queues : Loading(s, q) => ready[q] = <<>>
  /\ s.do = "LoadMessages" => queueRows[s.q] # "absent"
  /\ s.do = "Restore" => Exists(s.q) /\ \A id \in Queued(s.q) : id < s.id
AllStand(w) == \A k \in 1..Len(w) : Stands(w[k])

Rebuilding ==
  /\ up = "down" => \A q \in Queues : ready[q] = <<>>
  /\ InLine(todo[Main]) /\ AllStand(todo[Main])

\* What a step of restore() takes for granted stays so.
LEMMA StandsOn ==
  ASSUME NEW n \in Nat, NEW s \in StepUpTo(n), Stands(s), queueRows' = queueRows,
         \A q \in Queues : Exists(q) => qtype'[q] = qtype[q],
         \A q \in Queues : Loading(s, q) => ready'[q] = ready[q],
         s.do = "Restore" => \A id \in Queued(s.q)' : id \in Queued(s.q) \/ id < s.id
  PROVE  Stands(s)'
<1>1. s.do = "Restore" => s.q \in Queues
  BY DEF StepUpTo, OfQueue, Kinds
<1>2. s.do = "Restore" => Exists(s.q)'
  BY <1>1 DEF Stands, Exists
<1>3. \A q \in Queues : Loading(s, q) => ready'[q] = <<>>
  BY DEF Stands
<1>4. s.do = "LoadMessages" => queueRows'[s.q] # "absent"
  BY DEF Stands
<1>5. s.do = "Restore" => \A id \in Queued(s.q)' : id < s.id
  BY DEF Stands
<1> QED
  BY <1>2, <1>3, <1>4, <1>5 DEF Stands

\* restore() replaces its current step.
LEMMA RebuiltNext ==
  ASSUME ConstantsOK, Typed, up' # "down", NEW w, w = todo[Main], w # <<>>, InLine(w),
         NEW A, NEW v \in Seq(A), todo'[Main] = v \o Tail(w), InLine(v), AllStand(v)',
         \A j \in 2..Len(w) : Stands(w[j])',
         \A k \in 1..Len(v), j \in 2..Len(w), q \in Queues :
           ~(Touches(v[k], q) /\ Touches(w[j], q))
  PROVE  Rebuilding'
<1>1. PICK S : v \in Seq(S) /\ w \in Seq(S)
  <2>1. w \in Seq(StepUpTo(Len(msgs)))
    BY DEF Typed, TasksOK, Work, Tasks
  <2>2. v \in Seq(A \cup StepUpTo(Len(msgs))) /\ w \in Seq(A \cup StepUpTo(Len(msgs)))
    BY <2>1, SeqMonotonic
  <2> QED
    BY <2>2
<1>2. PICK x : x = v \o Tail(w)
  OBVIOUS
<1>3. /\ Len(v) \in Nat /\ Len(w) \in Nat /\ Len(x) = Len(v) + (Len(w) - 1)
      /\ \A k \in 1..Len(v) : x[k] = v[k]
      /\ \A k \in 1..Len(x) : k > Len(v) => /\ (k - Len(v)) + 1 \in 2..Len(w)
                                            /\ x[k] = w[(k - Len(v)) + 1]
  BY SMTT(30), <1>1, <1>2, Spliced
<1>4. ASSUME NEW i \in 1..Len(x), NEW j \in 1..Len(x), i < j, NEW q \in Queues,
             Touches(x[i], q), Touches(x[j], q)
      PROVE  x[i].do = "Restore" /\ x[j].do = "Restore" /\ x[i].id < x[j].id
  <2>1. CASE j <= Len(v)
    <3>1. i \in 1..Len(v) /\ j \in 1..Len(v) /\ x[i] = v[i] /\ x[j] = v[j]
      BY <1>3, <1>4, <2>1
    <3> QED
      BY <1>4, <3>1 DEF InLine
  <2>2. CASE i <= Len(v) /\ j > Len(v)
    <3>1. i \in 1..Len(v) /\ x[i] = v[i]
      BY <1>3, <2>2
    <3>2. PICK b \in 2..Len(w) : x[j] = w[b]
      BY <1>3, <2>2
    <3> QED
      BY <1>4, <3>1, <3>2
  <2>3. CASE i > Len(v)
    <3>1. j > Len(v)
      BY <1>3, <1>4, <2>3
    <3>2. PICK a, b \in 2..Len(w) : a = (i - Len(v)) + 1 /\ b = (j - Len(v)) + 1
      BY <1>3, <2>3, <3>1
    <3>3. a \in 1..Len(w) /\ b \in 1..Len(w) /\ a < b
      <4>1. Len(v) \in Nat /\ Len(w) \in Nat /\ i \in Nat /\ j \in Nat /\ i < j
        BY <1>3, <1>4
      <4>2. a < b
        BY <3>2, <4>1
      <4> QED
        BY <4>1, <4>2
    <3>4. x[i] = w[a] /\ x[j] = w[b]
      BY SMTT(30), <1>3, <2>3, <3>1, <3>2
    <3> QED
      BY <1>4, <3>3, <3>4 DEF InLine
  <2> QED
    BY <1>3, <2>1, <2>2, <2>3
<1>5. InLine(x)
  BY <1>4 DEF InLine
<1>6. ASSUME NEW k \in 1..Len(x)
      PROVE  Stands(x[k])'
  <2>1. CASE k <= Len(v)
    BY <1>3, <2>1 DEF AllStand
  <2>2. CASE k > Len(v)
    <3>1. PICK b \in 2..Len(w) : x[k] = w[b]
      BY <1>3, <2>2
    <3> QED
      BY <3>1
  <2> QED
    BY <1>3, <2>1, <2>2
<1>7. AllStand(x)'
  BY <1>6 DEF AllStand
<1> QED
  BY <1>2, <1>5, <1>7 DEF Rebuilding

\* Nothing is left to load once the socket is open, or after a crash.
LEMMA NothingToRebuild ==
  ASSUME todo'[Main] = <<>>, up' = "down" => \A q \in Queues : ready'[q] = <<>>
  PROVE  Rebuilding'
<1>1. InLine(<<>>) /\ AllStand(<<>>)'
  BY NoSteps DEF InLine, AllStand
<1> QED
  BY <1>1 DEF Rebuilding

\* The first step of restore() and those after it.
LEMMA RebuildingParts ==
  ASSUME ConstantsOK, Typed, Rebuilding, NEW w, w = todo[Main], w # <<>>
  PROVE  /\ Main \in Tasks /\ InLine(w) /\ w \in Seq(StepUpTo(Len(msgs))) /\ Stands(Head(w))
         /\ Head(w) = w[1] /\ Len(w) \in Nat /\ Len(msgs) \in Nat
         /\ \A j \in 2..Len(w) : /\ w[j] \in StepUpTo(Len(msgs)) /\ Stands(w[j])
                                 /\ \A q \in Queues : Touches(Head(w), q) /\ Touches(w[j], q)
                                      => /\ Head(w).do = "Restore" /\ w[j].do = "Restore"
                                         /\ Head(w).id < w[j].id
<1>1. Main \in Tasks /\ w \in Seq(StepUpTo(Len(msgs))) /\ InLine(w) /\ AllStand(w)
      /\ Len(msgs) \in Nat
  BY MessagesTyped DEF Typed, TasksOK, Work, Tasks, Rebuilding
<1>2. Head(w) = w[1] /\ Len(w) \in Nat /\ Len(w) >= 1
  BY <1>1, LenProperties, EmptySeq
<1>3. 1 \in 1..Len(w) /\ \A j \in 2..Len(w) : j \in 1..Len(w) /\ 1 < j
  BY <1>2
<1>4. Stands(Head(w)) /\ \A j \in 2..Len(w) : Stands(w[j])
  BY <1>1, <1>2, <1>3 DEF AllStand
<1>5. \A j \in 2..Len(w) : w[j] \in StepUpTo(Len(msgs))
  BY <1>1, <1>3, ElementOfSeq
<1>6. ASSUME NEW j \in 2..Len(w), NEW q \in Queues, Touches(Head(w), q), Touches(w[j], q)
      PROVE  Head(w).do = "Restore" /\ w[j].do = "Restore" /\ Head(w).id < w[j].id
  BY <1>1, <1>2, <1>3, <1>6 DEF InLine
<1> QED
  BY <1>1, <1>2, <1>4, <1>5, <1>6

\* Every queue that has a row is loaded once, and is empty until then.
LEMMA QueuesLoadedRebuild ==
  ASSUME ConstantsOK, Typed, Rebuilding, up # "down", QueuesLoaded
  PROVE  Rebuilding'
<1>1. PICK v \in Work(Len(msgs)) :
        /\ Answers(Main, "LoadQueues", v)
        /\ \A k \in 1..Len(v) : v[k].do = "LoadMessages" /\ queueRows[v[k].q] # "absent"
        /\ \A i, j \in 1..Len(v) : v[i].q = v[j].q => i = j
  BY QueuesLoadedWork
<1>2. PICK w : w = todo[Main]
  OBVIOUS
<1>3. /\ w # <<>> /\ Head(w).do = "LoadQueues" /\ up' = up
      /\ todo'[Main] = v \o Tail(w)
  <2>1. todo[Main] # <<>> /\ Head(todo[Main]).do = "LoadQueues" /\ up' = up /\ Main \in Tasks
    BY <1>1, AnswersTyped
  <2>2. todo' = [todo EXCEPT ![Main] = v \o Tail(todo[Main])]
    BY <1>1 DEF Answers, Proceed
  <2> QED
    BY <1>2, <2>1, <2>2 DEF Typed, TasksOK
<1>4. ready' = ready /\ queueRows' = queueRows /\ qtype' = qtype
  BY DEF QueuesLoaded, database
<1>5. /\ InLine(w) /\ Stands(Head(w)) /\ Len(msgs) \in Nat
      /\ \A j \in 2..Len(w) : /\ w[j] \in StepUpTo(Len(msgs)) /\ Stands(w[j])
                              /\ \A q \in Queues : ~Touches(w[j], q)
  BY SMTT(30), <1>2, <1>3, RebuildingParts DEF Touches, Loading
<1>6. \A q \in Queues : ready[q] = <<>>
  BY <1>3, <1>5 DEF Stands, Loading
<1>7. \A j \in 2..Len(w) : Stands(w[j])'
  <2>1. \A q : Queued(q)' = Queued(q)
    BY <1>4 DEF Queued
  <2> QED
    BY <1>4, <1>5, <2>1, StandsOn
<1>8. AllStand(v)'
  <2>1. ASSUME NEW k \in 1..Len(v)
        PROVE  Stands(v[k])'
    BY <1>1, <1>4, <1>6 DEF Stands
  <2> QED
    BY <2>1 DEF AllStand
<1>9. InLine(v)
  <2>1. ASSUME NEW i \in 1..Len(v), NEW j \in 1..Len(v), i < j, NEW q \in Queues,
               Touches(v[i], q), Touches(v[j], q)
        PROVE  FALSE
    <3>1. v[i].q = q /\ v[j].q = q
      BY <1>1, <2>1 DEF Touches, Loading
    <3>2. i = j
      BY <1>1, <3>1
    <3>3. Len(v) \in Nat
      BY LenProperties DEF Work
    <3> QED
      BY <2>1, <3>2, <3>3
  <2> QED
    BY <2>1 DEF InLine
<1>10. v \in Seq(StepUpTo(Len(msgs)))
  BY DEF Work
<1> QED
  BY <1>2, <1>3, <1>5, <1>7, <1>8, <1>9, <1>10, RebuiltNext

\* The messages of a queue are loaded once, in the order of their ids.
LEMMA MessagesLoadedRebuild ==
  ASSUME ConstantsOK, Typed, Rebuilding, up # "down", MessagesLoaded
  PROVE  Rebuilding'
<1>1. PICK q0 \in Queues : q0 = Head(todo[Main]).q
  BY MessagesLoadedWork
<1>2. PICK v \in Work(Len(msgs)) :
        /\ Answers(Main, "LoadMessages", v)
        /\ \A k \in 1..Len(v) : v[k].do = "Restore" /\ v[k].q = q0
        /\ \A i, j \in 1..Len(v) : i < j => v[i].id < v[j].id
  BY <1>1, MessagesLoadedWork
<1>3. PICK w : w = todo[Main]
  OBVIOUS
<1>4. /\ w # <<>> /\ Head(w).do = "LoadMessages" /\ up' = up
      /\ todo'[Main] = v \o Tail(w)
  <2>1. todo[Main] # <<>> /\ Head(todo[Main]).do = "LoadMessages" /\ up' = up /\ Main \in Tasks
    BY <1>2, AnswersTyped
  <2>2. todo' = [todo EXCEPT ![Main] = v \o Tail(todo[Main])]
    BY <1>2 DEF Answers, Proceed
  <2> QED
    BY <1>3, <2>1, <2>2 DEF Typed, TasksOK
<1>5. ready' = ready /\ queueRows' = queueRows /\ GetOrCreate(q0, queueRows[q0])
  BY <1>1 DEF MessagesLoaded, database
<1>6. /\ InLine(w) /\ Stands(Head(w)) /\ Len(msgs) \in Nat
      /\ \A j \in 2..Len(w) : w[j] \in StepUpTo(Len(msgs)) /\ Stands(w[j]) /\ ~Touches(w[j], q0)
  BY <1>1, <1>3, <1>4, RebuildingParts DEF Touches, Loading
<1>7. ready[q0] = <<>> /\ queueRows[q0] # "absent"
  BY <1>1, <1>3, <1>4, <1>6 DEF Stands, Loading
<1>8. Exists(q0)' /\ \A q \in Queues : Exists(q) => qtype'[q] = qtype[q]
  <2>1. qtype \in [Queues -> QueueType \cup {"absent"}]
    BY DEF Typed, DataTypeOK
  <2> QED
    BY <1>5, <1>7, <2>1 DEF GetOrCreate, Exists
<1>9. \A q : Queued(q)' = Queued(q)
  BY <1>5 DEF Queued
<1>10. \A j \in 2..Len(w) : Stands(w[j])'
  BY <1>5, <1>6, <1>8, <1>9, StandsOn
<1>11. \A id : id \notin Queued(q0)'
  <2>1. Queued(q0)' = Members(<<>>)
    BY <1>5, <1>7 DEF Queued
  <2> QED
    BY <2>1, NoSteps DEF Members
<1>12. AllStand(v)'
  <2>1. ASSUME NEW k \in 1..Len(v)
        PROVE  Stands(v[k])'
    BY <1>2, <1>8, <1>11 DEF Stands, Loading
  <2> QED
    BY <2>1 DEF AllStand
<1>13. InLine(v)
  BY <1>2 DEF InLine
<1>14. \A k \in 1..Len(v), j \in 2..Len(w), q \in Queues : ~(Touches(v[k], q) /\ Touches(w[j], q))
  BY <1>2, <1>6 DEF Touches, Loading
<1>15. v \in Seq(StepUpTo(Len(msgs)))
  BY DEF Work
<1> QED
  BY <1>3, <1>4, <1>6, <1>10, <1>12, <1>13, <1>14, <1>15, RebuiltNext

\* A message that is restored comes before those still to come.
LEMMA RestoreRebuild ==
  ASSUME ConstantsOK, Typed, Rebuilding, up # "down", Restore
  PROVE  Rebuilding'
<1>1. PICK w : w = todo[Main]
  OBVIOUS
<1>2. PICK q0 \in Queues, id0 \in Known : q0 = Head(w).q /\ id0 = Head(w).id
  BY <1>1, RestoreWork
<1>3. /\ w # <<>> /\ Head(w).do = "Restore" /\ Main \in Tasks
      /\ UNCHANGED <<up, qtype, queueRows>>
      /\ \/ ready' = ready /\ \E d \in StepUpTo(Len(msgs)) : d.do = "DeleteMessage" /\ Become(Main, <<d>>)
         \/ Become(Main, <<>>) /\ Enqueue(q0, id0, Prio, qtype[q0])
  BY <1>1, <1>2, RestoreWork DEF database
<1>4. /\ InLine(w) /\ Len(msgs) \in Nat
      /\ \A j \in 2..Len(w) : /\ w[j] \in StepUpTo(Len(msgs)) /\ Stands(w[j])
                              /\ ~Loading(w[j], q0)
                              /\ w[j].do = "Restore" /\ w[j].q = q0 => id0 < w[j].id
  <2>1. Touches(Head(w), q0)
    BY <1>2, <1>3 DEF Touches
  <2>2. \A s : Loading(s, q0) => Touches(s, q0) /\ s.do # "Restore"
    BY DEF Touches, Loading
  <2>3. \A s : s.do = "Restore" /\ s.q = q0 => Touches(s, q0)
    BY DEF Touches
  <2> QED
    BY <1>1, <1>2, <1>3, <2>1, <2>2, <2>3, RebuildingParts
<1>5. PICK S, v :
        v \in Seq(S) /\ Become(Main, v) /\ \A k \in 1..Len(v) : v[k].do = "DeleteMessage"
  <2>1. ASSUME NEW d, d.do = "DeleteMessage", NEW v, v = <<d>>
        PROVE  v \in Seq({d}) /\ \A k \in 1..Len(v) : v[k].do = "DeleteMessage"
    <3>1. Len(v) = 1 /\ v[1] = d /\ v \in Seq({d})
      BY <2>1, OneStep
    <3> QED
      BY <2>1, <3>1
  <2>2. <<>> \in Seq({}) /\ \A k \in 1..Len(<<>>) : <<>>[k].do = "DeleteMessage"
    BY NoSteps
  <2>3. CASE Become(Main, <<>>)
    BY <2>2, <2>3
  <2>4. CASE \E d \in StepUpTo(Len(msgs)) : d.do = "DeleteMessage" /\ Become(Main, <<d>>)
    <3>1. PICK d, v : d.do = "DeleteMessage" /\ Become(Main, v) /\ v = <<d>>
      BY SMTT(30), <2>4
    <3> QED
      BY <2>1, <3>1
  <2> QED
    BY <1>3, <2>3, <2>4
<1>6. todo'[Main] = v \o Tail(w)
  BY <1>1, <1>3, <1>5 DEF Become, Continue, Proceed, Typed, TasksOK
<1>7. /\ \A q \in Queues : q # q0 => ready'[q] = ready[q] /\ Queued(q)' = Queued(q)
      /\ \A id \in Queued(q0)' : id \in Queued(q0) \/ id = id0
  <2>1. CASE ready' = ready
    BY <2>1 DEF Queued
  <2>2. CASE Enqueue(q0, id0, Prio, qtype[q0])
    <3>1. ready \in [Queues -> Seq(Known)]
      BY DEF Typed, OnlyKnown
    <3>2. /\ ready'[q0] = AddMessage(ready[q0], id0, Prio, qtype[q0])
          /\ \A q \in Queues : q # q0 => ready'[q] = ready[q]
      BY <2>2, <3>1 DEF Enqueue
    <3>3. Members(AddMessage(ready[q0], id0, Prio, qtype[q0])) = Members(ready[q0]) \cup {id0}
      BY <3>1, AddMessageMembers
    <3> QED
      BY <3>2, <3>3 DEF Queued
  <2> QED
    BY <1>3, <2>1, <2>2
<1>8. ASSUME NEW j \in 2..Len(w)
      PROVE  Stands(w[j])'
  <2>1. PICK s \in StepUpTo(Len(msgs)) : /\ s = w[j] /\ Stands(s) /\ ~Loading(s, q0)
                                         /\ s.do = "Restore" /\ s.q = q0 => id0 < s.id
    BY <1>4
  <2>2. \A q \in Queues : Loading(s, q) => ready'[q] = ready[q]
    BY <1>7, <2>1
  <2>3. s.do = "Restore" => s.q \in Queues
    BY DEF StepUpTo, OfQueue, Kinds
  <2>4. s.do = "Restore" => \A id \in Queued(s.q)' : id \in Queued(s.q) \/ id < s.id
    BY <1>7, <2>1, <2>3
  <2>5. Stands(s)'
    BY <1>3, <1>4, <2>1, <2>2, <2>4, StandsOn
  <2> QED
    BY <2>1, <2>5
<1>9. AllStand(v)' /\ \A k \in 1..Len(v), q \in Queues : ~Touches(v[k], q)
  BY <1>5 DEF AllStand, Stands, Touches, Loading
<1>10. InLine(v)
  BY <1>9 DEF InLine
<1> QED
  BY <1>1, <1>3, <1>4, <1>5, <1>6, <1>8, <1>9, <1>10, RebuiltNext

\* A start begins with an empty memory, and every queue is loaded once.
LEMMA StartRebuild ==
  ASSUME ConstantsOK, Typed, Rebuilding, Start
  PROVE  Rebuilding'
<1>1. PICK a : a = OnQueue("ResetInFlight", NoQueue) /\ a.do = "ResetInFlight"
  BY Fields
<1>2. PICK b : b = OnQueue("LoadQueues", NoQueue) /\ b.do = "LoadQueues"
  BY Fields
<1>3. PICK c : c = OnQueue("Serve", NoQueue) /\ c.do = "Serve"
  BY Fields
<1>4. PICK v : v = <<a, b, c>> /\ v = RestoreSteps
  BY <1>1, <1>2, <1>3 DEF RestoreSteps
<1>5. todo'[Main] = v /\ ready' = ready /\ up = "down" /\ up' = "restoring"
  BY <1>4 DEF Start, Continue, Proceed, memory, Tasks, Typed, TasksOK
<1>6. Len(v) = 3 /\ v[1] = a /\ v[2] = b /\ v[3] = c
  BY <1>4
<1>7. \A k \in 1..Len(v) : k = 1 \/ k = 2 \/ k = 3
  BY <1>6
<1>8. \A q \in Queues : ready'[q] = <<>>
  BY <1>5 DEF Rebuilding
<1>9. \A k \in 1..Len(v) : v[k].do \notin {"LoadMessages", "Restore"}
  BY <1>1, <1>2, <1>3, <1>6, <1>7
<1>10. AllStand(v)'
  BY <1>8, <1>9 DEF AllStand, Stands
<1>11. InLine(v)
  <2>1. \A k \in 1..Len(v), q \in Queues : Touches(v[k], q) => k = 2
    BY <1>1, <1>2, <1>3, <1>6, <1>7 DEF Touches, Loading
  <2> QED
    BY <2>1 DEF InLine
<1> QED
  BY <1>5, <1>10, <1>11 DEF Rebuilding

\* A message was restored after all that were created before it.
LEMMA RebuildingStep ==
  ASSUME ConstantsOK, Typed, Rests, Opening, Opening', Rebuilding, [Next]_vars
  PROVE  Rebuilding'
<1>1. CASE up' = "up"
  <2>1. todo'[Main] = <<>>
    BY <1>1 DEF Opening, Idle
  <2> QED
    BY <1>1, <2>1, NothingToRebuild
<1>2. CASE Crash
  BY <1>2, NothingToRebuild DEF Crash, Tasks
<1>3. CASE UNCHANGED <<up, todo, ready, qtype, queueRows>>
  <2>1. PICK w : w = todo[Main]
    OBVIOUS
  <2>2. AllStand(w)'
    <3>1. AllStand(w) /\ \A q : Queued(q)' = Queued(q)
      BY <1>3, <2>1 DEF Rebuilding, Queued
    <3> QED
      BY <1>3, <3>1 DEF AllStand, Stands, Exists
  <2> QED
    BY <1>3, <2>1, <2>2 DEF Rebuilding
<1>4. CASE UNCHANGED vars \/ \E id \in Ids : Expire(id)
  <2>1. UNCHANGED <<up, todo, ready, qtype, queueRows>>
    BY <1>4 DEF vars, Expire, control, memory, database
  <2> QED
    BY <1>3, <2>1
<1>5. CASE up = "up" /\ ~Crash
  BY <1>1, <1>5, StaysUp
<1>6. CASE up # "up" /\ (InFlightReset \/ MessageDeleted(Main))
  <2>1. PICK v : v = <<>> /\ v \in Seq({}) /\ Len(v) = 0
    BY NoSteps
  <2>2. PICK kind \in {"ResetInFlight", "DeleteMessage"} : Answers(Main, kind, v)
    BY <1>6, <2>1 DEF InFlightReset, MessageDeleted
  <2>3. PICK w : w = todo[Main]
    OBVIOUS
  <2>4. /\ w # <<>> /\ up' = up /\ todo'[Main] = v \o Tail(w) /\ up # "down"
    <3>1. todo[Main] # <<>> /\ up' = up /\ Main \in Tasks
      BY <2>2, AnswersTyped
    <3>2. todo' = [todo EXCEPT ![Main] = v \o Tail(todo[Main])]
      BY <2>2 DEF Answers, Proceed
    <3> QED
      BY <2>3, <3>1, <3>2 DEF Typed, TasksOK, Rests, Idle
  <2>5. UNCHANGED <<ready, qtype, queueRows>>
    BY <1>6 DEF InFlightReset, MessageDeleted
  <2>6. /\ InLine(w) /\ Len(msgs) \in Nat
        /\ \A j \in 2..Len(w) : w[j] \in StepUpTo(Len(msgs)) /\ Stands(w[j])
    BY <2>3, <2>4, RebuildingParts
  <2>7. \A j \in 2..Len(w) : Stands(w[j])'
    <3>1. \A q : Queued(q)' = Queued(q)
      BY <2>5 DEF Queued
    <3> QED
      BY <2>5, <2>6, <3>1, StandsOn
  <2>8. InLine(v) /\ AllStand(v)' /\ \A k : k \notin 1..Len(v)
    BY <2>1 DEF InLine, AllStand
  <2> QED
    BY <2>1, <2>3, <2>4, <2>6, <2>7, <2>8, RebuiltNext
<1>7. CASE up # "up" /\ (QueuesLoaded \/ MessagesLoaded \/ Restore)
  <2>1. \A kind, steps : Answers(Main, kind, steps) => todo[Main] # <<>> /\ Main \in Tasks
    BY AnswersTyped
  <2>2. todo[Main] # <<>> /\ Main \in Tasks
    BY <1>7, <2>1, RestoreWork DEF QueuesLoaded, MessagesLoaded
  <2>3. up # "down"
    BY <2>2 DEF Rests, Idle
  <2> QED
    BY <1>7, <2>3, QueuesLoadedRebuild, MessagesLoadedRebuild, RestoreRebuild
<1>8. CASE Start
  BY <1>8, StartRebuild
<1>9. CASE Serve
  BY <1>1, <1>9 DEF Serve
<1> QED
  BY <1>2, <1>4, <1>5, <1>6, <1>7, <1>8, <1>9, Before DEF Restart

-----------------------------------------------------------------------------
(* The heap of a queue is in turn. *)

\* a may pop before b: its priority is not lower, and it is due first unless one of
\* them was delivered before.
Due(a, b, q) ==
  /\ msgs[a].prio >= msgs[b].prio
  /\ a \notin handed /\ b \notin handed => Precedes(a, b, qtype[q])
InTurn(q) ==
  /\ \A i, j \in 1..Len(ready[q]) : i < j => Due(ready[q][i], ready[q][j], q)
  /\ \A id \in Queued(q) : id \notin handed => Exists(q)
Turns == \A q \in Queues : InTurn(q)

\* Queues keep their type.
TypesStay == \A q \in Queues : Exists(q) => qtype'[q] = qtype[q]

\* The order of two messages stays.
LEMMA DueStays ==
  ASSUME Staying, TypesStay, NEW q \in Queues, NEW a \in Known, NEW b \in Known, Due(a, b, q),
         a \notin handed => Exists(q)
  PROVE  Due(a, b, q)'
<1>1. msgs'[a] = msgs[a] /\ msgs'[b] = msgs[b] /\ handed \subseteq handed'
  BY DEF Staying
<1>2. a \notin handed' /\ b \notin handed' => Precedes(a, b, qtype[q]) /\ qtype'[q] = qtype[q]
  BY <1>1 DEF Due, TypesStay
<1>3. a \notin handed' /\ b \notin handed' => Precedes(a, b, qtype[q])'
  BY <1>1, <1>2 DEF Precedes
<1> QED
  BY <1>1, <1>3 DEF Due

\* Ready messages were created.
LEMMA ReadyKnown ==
  ASSUME ConstantsOK, Typed, NEW q \in Queues
  PROVE  /\ ready[q] \in Seq(Known) /\ Len(ready[q]) \in Nat
         /\ \A i \in 1..Len(ready[q]) : ready[q][i] \in Known /\ ready[q][i] \in Queued(q)
         /\ Queued(q) \subseteq Known
<1>1. ready[q] \in Seq(Known)
  BY DEF Typed, OnlyKnown
<1>2. Len(ready[q]) \in Nat /\ \A i \in 1..Len(ready[q]) : ready[q][i] \in Known
  BY <1>1, LenProperties, ElementOfSeq
<1> QED
  BY <1>1, <1>2 DEF Queued, Members

\* Messages leave a heap in which the others stay in order.
LEMMA TurnLeaves ==
  ASSUME ConstantsOK, Typed, Staying, TypesStay, NEW q \in Queues, InTurn(q),
         \A i, j \in 1..Len(ready'[q]) : i < j =>
           \E k, l \in 1..Len(ready[q]) :
             k < l /\ ready'[q][i] = ready[q][k] /\ ready'[q][j] = ready[q][l],
         Queued(q)' \subseteq Queued(q)
  PROVE  InTurn(q)'
<1>1. ASSUME NEW i \in 1..Len(ready'[q]), NEW j \in 1..Len(ready'[q]), i < j
      PROVE  Due(ready[q][i], ready[q][j], q)'
  <2>1. PICK k, l \in 1..Len(ready[q]) :
          k < l /\ ready'[q][i] = ready[q][k] /\ ready'[q][j] = ready[q][l]
    BY <1>1
  <2>2. PICK a, b : a = ready[q][k] /\ b = ready[q][l]
    OBVIOUS
  <2>3. Due(a, b, q) /\ a \in Known /\ b \in Known /\ (a \notin handed => Exists(q))
    BY <2>1, <2>2, ReadyKnown DEF InTurn
  <2>4. Due(a, b, q)'
    BY <2>3, DueStays
  <2> QED
    BY <2>1, <2>2, <2>4
<1>2. ASSUME NEW id \in Queued(q)', id \notin handed'
      PROVE  Exists(q)'
  BY <1>2 DEF InTurn, Staying, TypesStay, Exists
<1> QED
  BY <1>1, <1>2 DEF InTurn

\* Nothing changes in a heap.
LEMMA TurnStays ==
  ASSUME ConstantsOK, Typed, Staying, TypesStay, NEW q \in Queues, InTurn(q),
         ready'[q] = ready[q]
  PROVE  InTurn(q)'
<1>1. Queued(q)' = Queued(q)
  BY DEF Queued
<1> QED
  BY <1>1, TurnLeaves

\* A message enters a heap: one that was delivered before, or the last that was created.
LEMMA TurnEnters ==
  ASSUME ConstantsOK, Typed, Staying, TypesStay, NEW q \in Queues, InTurn(q),
         NEW id \in Known', NEW prio, NEW type,
         ready'[q] = AddMessage(ready[q], id, prio, type),
         \A i \in Known' : prio[i] = msgs'[i].prio /\ prio[i] \in Int,
         \/ id \in handed'
         \/ qtype'[q] = type /\ type # "absent" /\ \A i \in Queued(q) : i < id
  PROVE  InTurn(q)'
<1>1. PICK s : s = ready[q]
  OBVIOUS
<1>2. /\ s \in Seq(Known') /\ Len(s) \in Nat
      /\ \A i \in 1..Len(s) : s[i] \in Known /\ s[i] \in Known' /\ s[i] \in Queued(q)
  <2>1. s \in Seq(Known) /\ Known \subseteq Known'
    BY <1>1, ReadyKnown DEF Staying
  <2> QED
    BY <1>1, <2>1, ReadyKnown, SeqMonotonic
<1>3. \A i, j \in 1..Len(s) : i < j => Due(s[i], s[j], q)'
  <2>1. ASSUME NEW i \in 1..Len(s), NEW j \in 1..Len(s), i < j
        PROVE  Due(s[i], s[j], q)'
    <3>1. PICK a, b : a = s[i] /\ b = s[j]
      OBVIOUS
    <3>2. Due(a, b, q) /\ a \in Known /\ b \in Known /\ (a \notin handed => Exists(q))
      BY <1>1, <1>2, <2>1, <3>1 DEF InTurn
    <3>3. Due(a, b, q)'
      BY <3>2, DueStays
    <3> QED
      BY <3>1, <3>3
  <2> QED
    BY <2>1
<1>4. Falling(s, prio)
  BY <1>2, <1>3 DEF Due, Falling
<1>5. PICK n, u :
        /\ u = AddMessage(s, id, prio, type) /\ Falling(u, prio)
        /\ n \in 0..Len(s) /\ Len(u) = Len(s) + 1
        /\ \A i \in 1..Len(u) :
             u[i] = IF i <= n THEN s[i] ELSE IF i = n + 1 THEN id ELSE s[i - 1]
        /\ \A i \in 1..Len(s) :
             /\ i <= n => prio[s[i]] > prio[id] \/ (prio[s[i]] = prio[id] /\ type # "LIFO")
             /\ i > n => prio[s[i]] < prio[id] \/ (prio[s[i]] = prio[id] /\ type = "LIFO")
  <2>1. (\A i \in 1..Len(s) : prio[s[i]] \in Int) /\ prio[id] \in Int
    BY <1>2
  <2>2. PICK n, u : u = AddMessage(s, id, prio, type) /\ Inserted(s, id, prio, type, n, u)
    BY <1>2, <1>4, <2>1, AddMessageFalls
  <2> QED
    BY <2>2 DEF Inserted
<1>6. ready'[q] = u /\ n \in Nat /\ Len(u) \in Nat
  BY <1>1, <1>2, <1>5
<1>7. ASSUME NEW i \in 1..Len(s), id \notin handed'
      PROVE  /\ i <= n => Precedes(s[i], id, type)'
             /\ i > n => Precedes(id, s[i], type)'
  <2>1. s[i] < id /\ s[i] \in Nat /\ id \in Nat
    BY SMTT(30), <1>2, <1>7 DEF Known
  <2>2. prio[s[i]] = msgs'[s[i]].prio /\ prio[id] = msgs'[id].prio
    BY <1>2
  <2>3. prio[s[i]] \in Int /\ prio[id] \in Int
    BY <1>2
  <2> QED
    BY <1>5, <2>1, <2>2, <2>3 DEF Precedes
<1>8. ASSUME NEW i \in 1..Len(u), NEW j \in 1..Len(u), i < j
      PROVE  Due(u[i], u[j], q)'
  <2>1. CASE i # n + 1 /\ j # n + 1
    <3>1. PICK k, l \in 1..Len(s) : k < l /\ u[i] = s[k] /\ u[j] = s[l]
      <4>1. CASE j <= n
        <5>1. i \in 1..Len(s) /\ j \in 1..Len(s) /\ u[i] = s[i] /\ u[j] = s[j]
          BY <1>2, <1>5, <1>6, <1>8, <4>1
        <5> QED
          BY <1>8, <5>1
      <4>2. CASE i <= n /\ j > n + 1
        <5>1. i \in 1..Len(s) /\ j - 1 \in 1..Len(s) /\ u[i] = s[i] /\ u[j] = s[j - 1] /\ i < j - 1
          BY <1>2, <1>5, <1>6, <1>8, <4>2
        <5> QED
          BY <5>1
      <4>3. CASE i > n + 1
        <5>1. i - 1 \in 1..Len(s) /\ j - 1 \in 1..Len(s) /\ u[i] = s[i - 1] /\ u[j] = s[j - 1]
              /\ i - 1 < j - 1
          BY <1>2, <1>5, <1>6, <1>8, <4>3
        <5> QED
          BY <5>1
      <4> QED
        BY <1>6, <1>8, <2>1, <4>1, <4>2, <4>3
    <3> QED
      BY <1>3, <3>1
  <2>2. CASE i = n + 1
    <3>1. PICK l \in 1..Len(s) : l = j - 1 /\ u[j] = s[l] /\ l > n /\ u[i] = id
      BY SMTT(30), <1>2, <1>5, <1>6, <1>8, <2>2
    <3>2. prio[id] >= prio[s[l]] /\ prio[id] = msgs'[id].prio /\ prio[s[l]] = msgs'[s[l]].prio
      <4>1. prio[id] \in Int /\ prio[s[l]] \in Int
        BY <1>2
      <4>2. prio[s[l]] < prio[id] \/ prio[s[l]] = prio[id]
        BY <1>5, <3>1
      <4> QED
        BY SMTT(30), <1>2, <4>1, <4>2
    <3>3. id \notin handed' => Precedes(id, s[l], qtype[q])'
      BY <1>7, <3>1 DEF Precedes
    <3> QED
      BY <3>1, <3>2, <3>3 DEF Due
  <2>3. CASE j = n + 1
    <3>1. i \in 1..Len(s) /\ u[i] = s[i] /\ i <= n /\ u[j] = id
      <4>1. n \in 0..Len(s) /\ Len(s) \in Nat /\ i \in Nat /\ i >= 1 /\ i < n + 1
        BY <1>2, <1>5, <1>6, <1>8, <2>3
      <4>2. i <= n /\ i \in 1..Len(s) /\ ~(n + 1 <= n)
        BY <4>1
      <4> QED
        BY SMTT(30), <1>5, <1>8, <2>3, <4>2
    <3>2. prio[s[i]] >= prio[id] /\ prio[id] = msgs'[id].prio /\ prio[s[i]] = msgs'[s[i]].prio
      <4>1. prio[id] \in Int /\ prio[s[i]] \in Int
        BY <1>2, <3>1
      <4>2. prio[s[i]] > prio[id] \/ prio[s[i]] = prio[id]
        BY <1>5, <3>1
      <4> QED
        BY SMTT(30), <1>2, <3>1, <4>1, <4>2
    <3>3. id \notin handed' => Precedes(s[i], id, qtype[q])'
      BY <1>7, <3>1 DEF Precedes
    <3> QED
      BY <3>1, <3>2, <3>3 DEF Due
  <2> QED
    BY <2>1, <2>2, <2>3
<1>9. ASSUME NEW i \in Queued(q)', i \notin handed'
      PROVE  Exists(q)'
  <2>1. Queued(q)' = Queued(q) \cup {id}
    BY <1>1, <1>2, AddMessageMembers DEF Queued
  <2>2. i \in Queued(q) => Exists(q)'
    BY <1>9 DEF InTurn, Staying, TypesStay, Exists
  <2>3. i = id => Exists(q)'
    BY <1>9 DEF Exists
  <2> QED
    BY <2>1, <2>2, <2>3
<1> QED
  BY <1>6, <1>8, <1>9 DEF InTurn

\* get_or_create keeps the type of a queue that is there.
LEMMA CreatedStays ==
  ASSUME Typed, NEW q, NEW type, GetOrCreate(q, type)
  PROVE  TypesStay
<1>1. qtype \in [Queues -> QueueType \cup {"absent"}]
  BY DEF Typed, DataTypeOK
<1> QED
  BY <1>1 DEF GetOrCreate, TypesStay, Exists

\* What changes the heaps, and what delivers.
Moves ==
  \/ \E c \in Conns, q \in Targets, type \in QueueTypes, prio \in Priorities, ttl \in Ttls :
       Send(c, q, type, prio, ttl)
  \/ \E t \in Tasks : Failed(t) \/ PurgeExpired(t)
  \/ Restore

\* Apart from deliveries and these actions a heap stays as it is, and no step
\* changes the type of a queue.
LEMMA HeapsMove ==
  ASSUME ConstantsOK, Typed, [Next]_vars, ~Crash
  PROVE  /\ TypesStay
         /\ \/ \E t \in Tasks : Deliver(t)
            \/ handed' = handed /\ (ready' = ready \/ Moves)
<1>1. UNCHANGED qtype => TypesStay
  BY DEF TypesStay
<1>2. CASE UNCHANGED vars
  BY <1>1, <1>2 DEF vars, memory, clients
<1>3. CASE Clients
  <2>1. ASSUME NEW c \in Conns, Connect(c) \/ Lose(c) \/ (\E s \in Subs : Unsubscribe(c, s))
                                \/ (\E id \in Ids : Ack(c, id) \/ Nack(c, id))
        PROVE  UNCHANGED <<qtype, handed, ready>>
    BY <2>1 DEF Connect, Lose, Unsubscribe, Ack, Nack, memory, clients
  <2>2. ASSUME NEW c \in Conns, NEW q \in Targets, NEW type \in QueueTypes,
               \/ SendExpired(c, q, type) \/ \E s \in Subs : Subscribe(c, s, q, type)
        PROVE  TypesStay /\ UNCHANGED <<handed, ready>>
    BY <2>2, CreatedStays DEF SendExpired, Subscribe, clients
  <2>3. ASSUME NEW c \in Conns, NEW q \in Targets, NEW type \in QueueTypes,
               NEW prio \in Priorities, NEW ttl \in Ttls, Send(c, q, type, prio, ttl)
        PROVE  TypesStay /\ handed' = handed /\ Moves
    BY <2>3, CreatedStays DEF Send, clients, Moves
  <2> QED
    BY <1>1, <1>3, <2>1, <2>2, <2>3 DEF Clients
<1>4. CASE (\E c \in Conns : Unregister(c)) \/ TimeoutTick \/ ExpiryTick
           \/ \E id \in Ids : Expire(id)
  BY <1>1, <1>4 DEF Unregister, TimeoutTick, ExpiryTick, Tick, Expire, memory, clients
<1>5. \A u, kind, steps : Answers(u, kind, steps) => handed' = handed
  BY DEF Answers, clients
<1>6. ASSUME NEW t \in Tasks, Run(t) \/ Suspend(t) \/ StorageFails(t), ~Deliver(t)
      PROVE  TypesStay /\ handed' = handed /\ (ready' = ready \/ Moves)
  <2>1. CASE QueueSaved(t) \/ MessageSaved(t) \/ StatusUpdated(t) \/ MessageDeleted(t)
    <3>1. UNCHANGED <<qtype, ready>>
      BY <2>1 DEF QueueSaved, MessageSaved, StatusUpdated, MessageDeleted
    <3>2. \E kind, steps : Answers(t, kind, steps)
      BY <2>1 DEF QueueSaved, MessageSaved, StatusUpdated, MessageDeleted
    <3> QED
      BY <1>1, <1>5, <3>1, <3>2
  <2>2. CASE DrainOk(t) \/ DrainFails(t) \/ Receipt(t) \/ CheckTimeouts(t) \/ Suspend(t)
             \/ StorageFails(t)
    BY <1>1, <2>2 DEF DrainOk, DrainFails, Receipt, CheckTimeouts, Suspend, StorageFails,
                      memory, clients
  <2>3. CASE PurgeExpired(t)
    <3>1. qtype' = qtype /\ handed' = handed
      BY <2>3 DEF PurgeExpired, clients
    <3> QED
      BY <1>1, <2>3, <3>1 DEF Moves
  <2>4. CASE Failed(t)
    <3>1. handed' = handed /\ (qtype' = qtype \/ \E q : GetOrCreate(q, "FIFO"))
      BY <2>4 DEF Failed, Requeue, MoveToDlq, clients
    <3> QED
      BY <1>1, <2>4, <3>1, CreatedStays DEF Moves
  <2> QED
    BY <1>6, <2>1, <2>2, <2>3, <2>4 DEF Run
<1>7. CASE Restart
  <2>1. CASE Start \/ Serve
    BY <1>1, <2>1 DEF Start, Serve, memory, clients
  <2>2. CASE InFlightReset \/ QueuesLoaded
    <3>1. UNCHANGED <<qtype, ready>> /\ \E kind, steps : Answers(Main, kind, steps)
      BY <2>2 DEF InFlightReset, QueuesLoaded
    <3> QED
      BY <1>1, <1>5, <3>1
  <2>3. CASE MessagesLoaded
    <3>1. ready' = ready /\ (\E kind, steps : Answers(Main, kind, steps))
          /\ \E q, type : GetOrCreate(q, type)
      BY <2>3 DEF MessagesLoaded
    <3> QED
      BY <1>5, <3>1, CreatedStays
  <2>4. CASE Restore
    <3>1. UNCHANGED <<qtype, handed>>
      BY <2>4 DEF Restore, clients
    <3> QED
      BY <1>1, <2>4, <3>1 DEF Moves
  <2> QED
    BY <1>7, <2>1, <2>2, <2>3, <2>4 DEF Restart
<1>8. ASSUME NEW t \in Tasks, Deliver(t)
      PROVE  TypesStay
  BY <1>1, <1>8, DeliverParts
<1> QED
  BY <1>2, <1>3, <1>4, <1>6, <1>7, <1>8 DEF Next

\* Messages and deliveries stay.
LEMMA StayingStep ==
  ASSUME ConstantsOK, Typed, [Next]_vars
  PROVE  Staying
<1>1. handed \subseteq handed'
  <2>1. ASSUME NEW t \in Tasks, Deliver(t)
        PROVE  handed \subseteq handed'
    BY <2>1, DeliverParts
  <2>2. Crash => handed' = handed
    BY DEF Crash
  <2> QED
    BY <2>1, <2>2, HeapsMove
<1>2. Known = 1..Len(msgs) /\ Len(msgs) \in Nat
  BY MessagesTyped
<1>3. CASE msgs' = msgs
  BY <1>1, <1>3 DEF Staying, Known
<1>4. ASSUME NEW m, msgs' = Append(msgs, m)
      PROVE  Staying
  <2>1. Len(msgs') = Len(msgs) + 1 /\ \A id \in 1..Len(msgs) : msgs'[id] = msgs[id]
    BY <1>4 DEF Typed, DataTypeOK
  <2>2. Known' = 1..(Len(msgs) + 1)
    BY <2>1 DEF Known
  <2> QED
    BY <1>1, <1>2, <2>1, <2>2 DEF Staying
<1> QED
  BY <1>3, <1>4, MessagesStep

\* A new message takes its turn in its queue.
LEMMA CreatedTurn ==
  ASSUME ConstantsOK, Typed, Turns, Staying, TypesStay, NEW q0 \in Queues,
         NEW type \in QueueType, GetOrCreate(q0, type), NEW m, m.prio \in Int,
         msgs' = Append(msgs, m), Len(msgs) < MaxMessages,
         Enqueue(q0, NewId, Append(Prio, m.prio), IF Exists(q0) THEN qtype[q0] ELSE type)
  PROVE  Turns'
<1>1. PICK id, prio, ty : /\ id = NewId /\ prio = Append(Prio, m.prio)
                          /\ ty = IF Exists(q0) THEN qtype[q0] ELSE type
  OBVIOUS
<1>2. /\ id \in Known' /\ msgs'[id] = m /\ Known' = Known \cup {id}
      /\ \A i \in Known : msgs'[i] = msgs[i] /\ i < id
  BY <1>1, Appended
<1>3. /\ ready'[q0] = AddMessage(ready[q0], id, prio, ty)
      /\ \A q \in Queues : q # q0 => ready'[q] = ready[q]
  BY <1>1 DEF Enqueue, Typed, DataTypeOK
<1>4. qtype'[q0] = ty /\ ty # "absent"
  <2>1. qtype \in [Queues -> QueueType \cup {"absent"}] /\ type # "absent"
    BY DEF Typed, DataTypeOK, QueueType
  <2> QED
    BY <1>1, <2>1 DEF GetOrCreate, Exists
<1>5. \A i \in Known' : prio[i] = msgs'[i].prio /\ prio[i] \in Int
  <2>1. Len(msgs) \in Nat /\ Known = 1..Len(msgs) /\ \A i \in Known : msgs[i].prio \in Int
    BY MessagesTyped DEF Message, ConstantsOK
  <2>2. Prio \in Seq(Int) /\ Len(Prio) = Len(msgs) /\ \A i \in Known : Prio[i] = msgs[i].prio
    BY <2>1 DEF Prio
  <2>3. /\ \A i \in 1..Len(Prio) : Append(Prio, m.prio)[i] = Prio[i]
        /\ Append(Prio, m.prio)[Len(Prio) + 1] = m.prio
    BY <2>2, AppendProperties
  <2>4. prio[id] = m.prio /\ \A i \in Known : prio[i] = msgs[i].prio
    BY <1>1, <2>1, <2>2, <2>3 DEF NewId
  <2> QED
    BY <1>2, <2>1, <2>4
<1>6. \A i \in Queued(q0) : i < id
  BY <1>2, ReadyKnown
<1>7. ASSUME NEW q \in Queues
      PROVE  InTurn(q)'
  <2>1. CASE q = q0
    <3>1. InTurn(q0)
      BY DEF Turns
    <3>2. id \in handed' \/ (qtype'[q0] = ty /\ ty # "absent" /\ \A i \in Queued(q0) : i < id)
      BY <1>4, <1>6
    <3>3. id \in Known' /\ ready'[q0] = AddMessage(ready[q0], id, prio, ty)
      BY <1>2, <1>3
    <3>4. InTurn(q0)'
      BY <1>5, <3>1, <3>2, <3>3, TurnEnters
    <3> QED
      BY <2>1, <3>4
  <2>2. CASE q # q0
    BY <1>3, <2>2, TurnStays DEF Turns
  <2> QED
    BY <2>1, <2>2
<1> QED
  BY <1>7 DEF Turns

\* A message that is there returns to a heap.
LEMMA ReturnedTurn ==
  ASSUME ConstantsOK, Typed, Turns, Staying, TypesStay, msgs' = msgs, qtype' = qtype,
         NEW q0 \in Queues, NEW id \in Known, Enqueue(q0, id, Prio, qtype[q0]),
         \/ id \in handed
         \/ Exists(q0) /\ \A i \in Queued(q0) : i < id
  PROVE  Turns'
<1>1. PICK prio, ty : prio = Prio /\ ty = qtype[q0]
  OBVIOUS
<1>2. /\ ready'[q0] = AddMessage(ready[q0], id, prio, ty)
      /\ \A q \in Queues : q # q0 => ready'[q] = ready[q]
  BY <1>1 DEF Enqueue, Typed, DataTypeOK
<1>3. id \in Known' /\ \A i \in Known' : prio[i] = msgs'[i].prio /\ prio[i] \in Int
  <2>1. Len(msgs) \in Nat /\ Known = 1..Len(msgs) /\ \A i \in Known : msgs[i].prio \in Int
    BY MessagesTyped DEF Message, ConstantsOK
  <2>2. Known' = Known
    BY DEF Known
  <2> QED
    BY <1>1, <2>1, <2>2 DEF Prio
<1>4. id \in handed' \/ (qtype'[q0] = ty /\ ty # "absent" /\ \A i \in Queued(q0) : i < id)
  BY <1>1 DEF Staying, Exists
<1>5. ASSUME NEW q \in Queues
      PROVE  InTurn(q)'
  <2>1. CASE q = q0
    BY <1>2, <1>3, <1>4, <2>1, TurnEnters DEF Turns
  <2>2. CASE q # q0
    BY <1>2, <2>2, TurnStays DEF Turns
  <2> QED
    BY <2>1, <2>2
<1> QED
  BY <1>5 DEF Turns

\* Messages that leave a heap leave the others in turn.
LEMMA LeavingTurn ==
  ASSUME ConstantsOK, Typed, Turns, Staying, TypesStay, NEW q0 \in Queues, NEW s,
         ready' = [ready EXCEPT ![q0] = s],
         \A i, j \in 1..Len(s) : i < j =>
           \E k, l \in 1..Len(ready[q0]) : k < l /\ s[i] = ready[q0][k] /\ s[j] = ready[q0][l],
         Members(s) \subseteq Queued(q0)
  PROVE  Turns'
<1>1. ready'[q0] = s /\ \A q \in Queues : q # q0 => ready'[q] = ready[q]
  BY DEF Typed, DataTypeOK
<1>2. Queued(q0)' \subseteq Queued(q0)
  BY <1>1 DEF Queued
<1>3. InTurn(q0)'
  <2>1. InTurn(q0)
    BY DEF Turns
  <2>2. \A i, j \in 1..Len(ready'[q0]) : i < j =>
          \E k, l \in 1..Len(ready[q0]) :
            k < l /\ ready'[q0][i] = ready[q0][k] /\ ready'[q0][j] = ready[q0][l]
    BY <1>1
  <2> QED
    BY <1>2, <2>1, <2>2, TurnLeaves
<1>4. \A q \in Queues : q # q0 => InTurn(q)'
  BY <1>1, TurnStays DEF Turns
<1> QED
  BY <1>3, <1>4 DEF Turns

\* The heaps of all queues are in turn.
LEMMA TurnsStep ==
  ASSUME ConstantsOK, Typed, Rightly, Rebuilding, Turns, [Next]_vars
  PROVE  Turns'
<1>1. CASE Crash
  <2>1. ASSUME NEW q \in Queues
        PROVE  InTurn(q)'
    <3>1. ready'[q] = <<>>
      BY <1>1 DEF Crash
    <3>2. Queued(q)' = Members(<<>>)
      BY <3>1 DEF Queued
    <3> QED
      BY <3>1, <3>2, NoSteps DEF InTurn, Members
  <2> QED
    BY <2>1 DEF Turns
<1>2. Staying /\ (~Crash => TypesStay)
  BY StayingStep, HeapsMove
<1>3. CASE ~Crash /\ ready' = ready
  BY <1>2, <1>3, TurnStays DEF Turns
<1>4. ASSUME ~Crash, NEW t \in Tasks, Deliver(t)
      PROVE  Turns'
  <2>1. PICK q \in Queues :
          ready' = ready \/ (ready[q] # <<>> /\ ready' = [ready EXCEPT ![q] = Tail(@)])
    BY <1>4, DeliverParts
  <2>2. CASE ready[q] # <<>> /\ ready' = [ready EXCEPT ![q] = Tail(@)]
    <3>1. PICK s : s = Tail(ready[q])
      OBVIOUS
    <3>2. ready[q] \in Seq(Known)
      BY ReadyKnown
    <3>3. Members(s) \subseteq Queued(q)
      BY <2>2, <3>1, <3>2, PopMembers DEF Queued
    <3>4. /\ Len(ready[q]) \in Nat /\ Len(s) = Len(ready[q]) - 1
          /\ \A i \in 1..Len(s) : s[i] = ready[q][i + 1]
      BY <2>2, <3>1, <3>2, HeadTailProperties, LenProperties, EmptySeq
    <3>5. ASSUME NEW i \in 1..Len(s), NEW j \in 1..Len(s), i < j
          PROVE  \E k, l \in 1..Len(ready[q]) :
                   k < l /\ s[i] = ready[q][k] /\ s[j] = ready[q][l]
      <4>1. i + 1 \in 1..Len(ready[q]) /\ j + 1 \in 1..Len(ready[q]) /\ i + 1 < j + 1
        BY <3>4, <3>5
      <4> QED
        BY <3>4, <4>1
    <3>6. ready' = [ready EXCEPT ![q] = s]
      BY <2>2, <3>1
    <3> QED
      BY <1>2, <1>4, <3>3, <3>5, <3>6, LeavingTurn
  <2> QED
    BY <1>3, <1>4, <2>1, <2>2
<1>5. ASSUME ~Crash, NEW c \in Conns, NEW q \in Targets, NEW type \in QueueTypes,
             NEW prio \in Priorities, NEW ttl \in Ttls, Send(c, q, type, prio, ttl)
      PROVE  Turns'
  <2>1. PICK m : m = NewMessage(q, prio, ttl, 0) /\ m.prio = prio
    <3>1. \A p, from : NewMessage(q, p, ttl, from).prio = p
      BY DEF NewMessage
    <3>2. NewMessage(q, prio, ttl, 0).prio = prio
      BY <3>1
    <3> QED
      BY <3>2
  <2>2. /\ msgs' = Append(msgs, m) /\ Len(msgs) < MaxMessages /\ GetOrCreate(q, type)
        /\ Enqueue(q, NewId, Append(Prio, m.prio), IF Exists(q) THEN qtype[q] ELSE type)
    BY <1>5, <2>1 DEF Send
  <2>3. q \in Queues /\ type \in QueueType /\ m.prio \in Int
    BY <2>1 DEF ConstantsOK
  <2> QED
    BY <1>2, <1>5, <2>2, <2>3, CreatedTurn
<1>6. ASSUME ~Crash, NEW t \in Tasks, Failed(t)
      PROVE  Turns'
  <2>1. /\ todo[t] # <<>> /\ Head(todo[t]).do = "Failed" /\ handed' = handed
        /\ \/ MoveToDlq(t, Head(todo[t]).q, Head(todo[t]).id)
           \/ Requeue(t, Head(todo[t]).q, Head(todo[t]).id)
    BY <1>6 DEF Failed, Doing, Idle, clients
  <2>2. PICK q \in Queues, id \in Known : q = Head(todo[t]).q /\ id = Head(todo[t]).id
    BY <2>1, Current DEF OfQueue, OfMessage, Kinds
  <2>3. CASE Requeue(t, q, id)
    <3>1. id \in handed
      <4>1. PICK w : w = todo[t]
        OBVIOUS
      <4>2. w \in Work(Len(msgs)) /\ AllRight(w) /\ w # <<>>
        BY <2>1, <4>1, Current DEF Rightly
      <4>3. 1 \in 1..Len(w) /\ Head(w) = w[1]
        BY <4>2, LenProperties, EmptySeq DEF Work
      <4>4. Right(Head(w)) /\ Head(w).do = "Failed"
        BY <2>1, <4>1, <4>2, <4>3 DEF AllRight
      <4> QED
        BY <2>2, <4>1, <4>4 DEF Right, Bound
    <3>2. Enqueue(q, id, Prio, qtype[q]) /\ UNCHANGED <<msgs, qtype>>
      BY <2>3 DEF Requeue
    <3> QED
      BY <1>2, <1>6, <3>1, <3>2, ReturnedTurn
  <2>4. CASE MoveToDlq(t, q, id)
    <3>1. PICK dlq \in Queues : dlq = DlqOf[q]
      BY DEF ConstantsOK
    <3>2. PICK m : m = NewMessage(dlq, msgs[id].prio, FALSE, id) /\ m.prio = msgs[id].prio
      <4>1. \A p, ttl, from : NewMessage(dlq, p, ttl, from).prio = p
        BY DEF NewMessage
      <4>2. NewMessage(dlq, msgs[id].prio, FALSE, id).prio = msgs[id].prio
        BY <4>1
      <4> QED
        BY <4>2
    <3>3. /\ msgs' = Append(msgs, m) /\ Len(msgs) < MaxMessages /\ GetOrCreate(dlq, "FIFO")
          /\ Enqueue(dlq, NewId, Append(Prio, m.prio),
                     IF Exists(dlq) THEN qtype[dlq] ELSE "FIFO")
      BY <2>4, <3>1, <3>2 DEF MoveToDlq
    <3>4. m.prio \in Int /\ "FIFO" \in QueueType
      BY <3>2, MessagesTyped DEF Message, ConstantsOK, QueueType
    <3> QED
      BY <1>2, <1>6, <3>3, <3>4, CreatedTurn
  <2> QED
    BY <2>1, <2>2, <2>3, <2>4
<1>7. ASSUME ~Crash, NEW t \in Tasks, PurgeExpired(t)
      PROVE  Turns'
  <2>1. PICK q \in Queues : q = Head(todo[t]).q
    BY <1>7, Current DEF PurgeExpired, Doing, Idle, OfQueue, Kinds
  <2>2. PICK dead, r, s : /\ r = ready[q] /\ s = Without(r, dead)
                          /\ ready' = [ready EXCEPT ![q] = Without(@, dead)]
    BY <1>7, <2>1 DEF PurgeExpired
  <2>3. r \in Seq(Known)
    BY <2>2, ReadyKnown
  <2>4. Members(s) \subseteq Queued(q)
    BY <2>2, <2>3, WithoutMembers DEF Queued
  <2>5. \A i, j \in 1..Len(Without(r, dead)) :
          i < j => \E k, l \in 1..Len(r) :
                     k < l /\ Without(r, dead)[i] = r[k] /\ Without(r, dead)[j] = r[l]
    BY <2>3, WithoutOrder
  <2>6. ASSUME NEW i \in 1..Len(s), NEW j \in 1..Len(s), i < j
        PROVE  \E k, l \in 1..Len(ready[q]) :
                 k < l /\ s[i] = ready[q][k] /\ s[j] = ready[q][l]
    <3>1. s = Without(r, dead) /\ r = ready[q]
      BY <2>2
    <3>2. \E k, l \in 1..Len(r) : k < l /\ s[i] = r[k] /\ s[j] = r[l]
      BY <2>5, <2>6, <3>1
    <3> QED
      BY <3>1, <3>2
  <2>7. ready' = [ready EXCEPT ![q] = s]
    BY <2>2
  <2> QED
    BY <1>2, <1>7, <2>4, <2>6, <2>7, LeavingTurn
<1>8. CASE ~Crash /\ Restore
  <2>1. PICK w : w = todo[Main]
    OBVIOUS
  <2>2. PICK q \in Queues, id \in Known : q = Head(w).q /\ id = Head(w).id
    BY <1>8, <2>1, RestoreWork
  <2>3. /\ w # <<>> /\ Head(w).do = "Restore" /\ UNCHANGED <<msgs, qtype>>
        /\ ready' = ready \/ Enqueue(q, id, Prio, qtype[q])
    BY <1>8, <2>1, <2>2, RestoreWork
  <2>4. Exists(q) /\ \A i \in Queued(q) : i < id
    BY <2>1, <2>2, <2>3, RebuildingParts DEF Stands
  <2>5. Enqueue(q, id, Prio, qtype[q]) => Turns'
    BY <1>2, <1>8, <2>3, <2>4, ReturnedTurn
  <2> QED
    BY <1>3, <1>8, <2>3, <2>5
<1> QED
  BY <1>1, <1>3, <1>4, <1>5, <1>6, <1>7, <1>8, HeapsMove DEF Moves

\* A message that is delivered for the first time was the first that was due.
LEMMA FirstIsDue ==
  ASSUME ConstantsOK, Typed, Rightly, Turns, [Next]_vars, NEW b \in handed' \ handed,
         NEW i \in 1..Len(ready[msgs[b].queue])
  PROVE  LET a == ready[msgs[b].queue][i]
         IN  a \in handed \cup {b} \/ Precedes(b, a, qtype[msgs[b].queue])
<1>1. PICK t \in Tasks : Deliver(t)
  <2>1. Crash => handed' = handed
    BY DEF Crash
  <2> QED
    BY <2>1, HeapsMove
<1>2. PICK q \in Queues : ready[q] # <<>> /\ b = Head(ready[q])
  <2>1. PICK q, id :
          /\ q \in Queues
          /\ \/ handed' = handed
             \/ ready[q] # <<>> /\ id = Head(ready[q]) /\ handed' \subseteq handed \cup {id}
    BY <1>1, DeliverParts
  <2> QED
    BY <2>1
<1>3. PICK s : s = ready[q]
  OBVIOUS
<1>4. /\ s \in Seq(Known) /\ Len(s) \in Nat /\ s # <<>> /\ b = Head(s)
      /\ \A k \in 1..Len(s) : s[k] \in Known /\ s[k] \in Queued(q)
  BY <1>2, <1>3, ReadyKnown
<1>5. b = s[1] /\ 1 \in 1..Len(s)
  BY <1>4, HeadTailProperties, LenProperties, EmptySeq
<1>6. msgs[b].queue = q
  BY <1>4, <1>5 DEF Rightly, Placed
<1>7. PICK a : a = s[i] /\ i \in 1..Len(s)
  BY <1>3, <1>6
<1>8. a # b => 1 < i
  BY <1>4, <1>5, <1>7
<1>9. a # b => Due(b, a, q)
  BY <1>3, <1>5, <1>7, <1>8 DEF Turns, InTurn
<1>10. a \in handed \cup {b} \/ Precedes(b, a, qtype[q])
  BY <1>9 DEF Due
<1> QED
  BY <1>3, <1>6, <1>7, <1>10

\* Messages are first delivered by priority and, among equals, in the order of
\* publication or its reverse in a LIFO queue (add_message and pop_message of queue.py,
\* and restore(), which adds what storage.py selects ORDER BY created_at).
THEOREM FirstInOrder == Spec => ServedInOrder
<1> USE ConstantsOK
<1>1. Init => Rightly /\ Rebuilding /\ Turns
  <2>1. SUFFICES ASSUME Init PROVE Rightly /\ Rebuilding /\ Turns
    OBVIOUS
  <2>2. /\ \A t \in Tasks : todo[t] = <<>>
        /\ \A q \in Queues : ready[q] = <<>> /\ Queued(q) = Members(<<>>)
        /\ Flying = {} /\ todo[Main] = <<>>
    <3>1. Main \in Tasks /\ \A t \in Tasks : todo[t] = <<>>
      BY <2>1 DEF Init, Tasks
    <3>2. \A q \in Queues : ready[q] = <<>>
      BY <2>1 DEF Init
    <3>3. Flying = {}
      BY <2>1 DEF Init, Flying
    <3> QED
      BY <3>1, <3>2, <3>3 DEF Queued
  <2>3. \A x : x \notin Members(<<>>)
    BY NoSteps DEF Members
  <2>4. AllRight(<<>>) /\ InLine(<<>>) /\ AllStand(<<>>)
    BY NoSteps DEF AllRight, InLine, AllStand
  <2>5. Rightly
    BY <2>2, <2>3, <2>4 DEF Rightly, Placed
  <2>6. Rebuilding
    BY <2>2, <2>4 DEF Rebuilding
  <2>7. Turns
    BY <2>2, <2>3, NoSteps DEF Turns, InTurn
  <2> QED
    BY <2>5, <2>6, <2>7
<1>2. Typed /\ Rests /\ Kept /\ Opening /\ Opening' /\ Rightly /\ Rebuilding /\ Turns /\ [Next]_vars
        => Rightly' /\ Rebuilding' /\ Turns'
  BY RightStep, RebuildingStep, TurnsStep
<1>3. ASSUME Typed, Rightly, Turns, [Next]_vars
      PROVE  [\A b \in handed' \ handed :
                LET q == msgs[b].queue IN
                \A i \in 1..Len(ready[q]) :
                  LET a == ready[q][i] IN
                  a \in handed \cup {b} \/ Precedes(b, a, qtype[q])]_vars
  BY <1>3, FirstIsDue
<1> QED
  BY <1>1, <1>2, <1>3, PlacesAlways, PTL DEF Spec, ServedInOrder
=============================================================================
