--------------------------- MODULE BrokerDelivery ---------------------------
(***************************************************************************)
(* Where the messages and the consumers of the broker are, for every value *)
(* of the constants: NoGhostConsumer, OneQueueType, NoLostWakeup and       *)
(* Exclusive, the last two as long as the failures that break them have    *)
(* not happened.                                                           *)
(***************************************************************************)
EXTENDS BrokerDurability

\* The steps restore() is made of; the socket is opened by the last.
LoadSteps == {"ResetInFlight", "LoadQueues", "LoadMessages", "Restore", "DeleteMessage"}
Restoring(w) ==
  /\ w # <<>>
  /\ \A k \in 1..Len(w) : w[k].do = "Serve" <=> k = Len(w)
  /\ \A k \in 1..Len(w) : w[k].do \in LoadSteps \cup {"Serve"}

\* Main is at work until the socket is opened, and alone until then.
Opening ==
  /\ up = "up" => Idle(Main)
  /\ up = "restoring" => Restoring(todo[Main])
  /\ up # "up" => /\ \A t \in Tasks \ {Main} : Idle(t)
                  /\ \A c \in Conns : link[c] = "none"
-----------------------------------------------------------------------------
(* What can happen before and after the socket is opened. *)

\* A task that takes a step, or is answered, has that step next.
LEMMA NextStep ==
  ASSUME ConstantsOK, Typed, NEW t \in Tasks
  PROVE  /\ QueueSaved(t) => ~Idle(t) /\ Head(todo[t]).do = "SaveQueue"
         /\ MessageSaved(t) => ~Idle(t) /\ Head(todo[t]).do = "SaveMessage"
         /\ StatusUpdated(t) => ~Idle(t) /\ Head(todo[t]).do \in {"SetReady", "SetInFlight"}
         /\ MessageDeleted(t) => ~Idle(t) /\ Head(todo[t]).do = "DeleteMessage"
         /\ Deliver(t) => ~Idle(t) /\ Head(todo[t]).do = "Deliver"
         /\ DrainOk(t) \/ DrainFails(t) \/ Suspend(t) => ~Idle(t) /\ Head(todo[t]).do = "Drain"
         /\ Failed(t) => ~Idle(t) /\ Head(todo[t]).do = "Failed"
         /\ Receipt(t) => ~Idle(t) /\ Head(todo[t]).do = "Receipt"
         /\ CheckTimeouts(t) => ~Idle(t) /\ Head(todo[t]).do = "CheckTimeouts"
         /\ PurgeExpired(t) => ~Idle(t) /\ Head(todo[t]).do = "PurgeExpired"
         /\ StorageFails(t) => ~Idle(t) /\ t # Main
<1>1. \A kind, steps : Answers(t, kind, steps) => ~Idle(t) /\ Head(todo[t]).do = kind
  BY AnswersTyped DEF Idle
<1>2. /\ QueueSaved(t) => ~Idle(t) /\ Head(todo[t]).do = "SaveQueue"
      /\ MessageSaved(t) => ~Idle(t) /\ Head(todo[t]).do = "SaveMessage"
      /\ MessageDeleted(t) => ~Idle(t) /\ Head(todo[t]).do = "DeleteMessage"
  BY <1>1 DEF QueueSaved, MessageSaved, MessageDeleted
<1>3. StatusUpdated(t) => ~Idle(t) /\ Head(todo[t]).do \in {"SetReady", "SetInFlight"}
  BY SMTT(60), <1>1 DEF StatusUpdated
<1>4. /\ Deliver(t) => ~Idle(t) /\ Head(todo[t]).do = "Deliver"
      /\ DrainOk(t) \/ DrainFails(t) \/ Suspend(t) => ~Idle(t) /\ Head(todo[t]).do = "Drain"
      /\ Failed(t) => ~Idle(t) /\ Head(todo[t]).do = "Failed"
      /\ Receipt(t) => ~Idle(t) /\ Head(todo[t]).do = "Receipt"
      /\ CheckTimeouts(t) => ~Idle(t) /\ Head(todo[t]).do = "CheckTimeouts"
      /\ PurgeExpired(t) => ~Idle(t) /\ Head(todo[t]).do = "PurgeExpired"
  BY Zenon DEF Deliver, DrainOk, DrainFails, AtDrain, Suspend, Failed, Receipt, CheckTimeouts,
         PurgeExpired, Doing
<1>5. StorageFails(t) => ~Idle(t) /\ t # Main
  BY FirstCall, MessagesTyped DEF StorageFails, Typed, Idle
<1> QED
  BY <1>2, <1>3, <1>4, <1>5

\* The first step of restore().
LEMMA RestoringHead ==
  ASSUME ConstantsOK, Typed, Restoring(todo[Main])
  PROVE  Head(todo[Main]).do \in LoadSteps \cup {"Serve"}
<1>1. Main \in Tasks /\ todo[Main] # <<>>
  BY DEF Tasks, Restoring
<1>2. todo[Main] \in Seq(StepUpTo(Len(msgs)))
  BY <1>1, Current DEF Work
<1>3. Head(todo[Main]) = todo[Main][1] /\ 1 \in 1..Len(todo[Main])
  BY <1>1, <1>2, HeadTailProperties, LenProperties, EmptySeq
<1> QED
  BY <1>3 DEF Restoring

\* Before the socket is opened only restore() takes steps.
LEMMA Before ==
  ASSUME ConstantsOK, Typed, Rests, Opening, up # "up", [Next]_vars
  PROVE  \/ UNCHANGED vars
         \/ Crash \/ Restart \/ \E id \in Ids : Expire(id)
         \/ MessageDeleted(Main)
<1>1. \A t \in Tasks : ~Idle(t) => t = Main /\ Head(todo[t]).do \in LoadSteps \cup {"Serve"}
  <2>1. ~Idle(Main) => Restoring(todo[Main])
    BY DEF Opening, Rests, Tasks, Typed, DataTypeOK
  <2> QED
    BY <2>1, RestoringHead DEF Opening
<1>2. ~Clients /\ \A c \in Conns : ~Unregister(c)
  <2>1. \A c \in Conns : link[c] = "none"
    BY DEF Opening
  <2>2. \A c \in Conns : ~Connect(c) /\ ~Lose(c) /\ ~Unregister(c)
    BY <2>1 DEF Connect, Lose, Unregister
  <2>3. \A c \in Conns : ~Frame(c)
    BY <2>1 DEF Frame
  <2>4. \A c \in Conns : \A q, type, prio, ttl : ~Send(c, q, type, prio, ttl)
    BY <2>3 DEF Send
  <2>5. \A c \in Conns : \A q, type : ~SendExpired(c, q, type) /\ \A s : ~Subscribe(c, s, q, type)
    BY <2>3 DEF SendExpired, Subscribe
  <2>6. \A c \in Conns : \A s : ~Unsubscribe(c, s)
    BY <2>3 DEF Unsubscribe
  <2>7. \A c \in Conns : \A id : ~Ack(c, id) /\ ~Nack(c, id)
    BY <2>3 DEF Ack, Nack
  <2> QED
    BY <2>2, <2>4, <2>5, <2>6, <2>7 DEF Clients
<1>3. ASSUME NEW t \in Tasks, Run(t) \/ Suspend(t) \/ StorageFails(t)
      PROVE  t = Main /\ MessageDeleted(t)
  BY <1>1, <1>3, NextStep DEF Run, LoadSteps
<1>4. ~TimeoutTick /\ ~ExpiryTick
  BY DEF TimeoutTick, ExpiryTick, Tick
<1> QED
  BY <1>2, <1>3, <1>4 DEF Next

\* Once it is open, restore() is over.
LEMMA After ==
  ASSUME ConstantsOK, Typed, Opening, up = "up", [Next]_vars
  PROVE  \/ UNCHANGED vars
         \/ Crash \/ Clients \/ \E c \in Conns : Unregister(c)
         \/ \E t \in Tasks \ {Main} : Run(t) \/ Suspend(t) \/ StorageFails(t)
         \/ TimeoutTick \/ ExpiryTick \/ \E id \in Ids : Expire(id)
<1>1. Main \in Tasks /\ Idle(Main)
  BY DEF Opening, Tasks
<1>2. ~Restart
  <2>1. \A kind, steps : ~Answers(Main, kind, steps)
    BY <1>1, AnswersTyped DEF Idle
  <2> QED
    BY <1>1, <2>1 DEF Restart, Start, InFlightReset, QueuesLoaded, MessagesLoaded, Restore, Serve,
                      Doing
<1>3. ~Run(Main) /\ ~Suspend(Main) /\ ~StorageFails(Main)
  BY <1>1, NextStep DEF Run
<1> QED
  BY <1>2, <1>3 DEF Next
-----------------------------------------------------------------------------
(* The phases of the server. *)

\* A task goes on with these steps, and the others with theirs.
LEMMA ProceedTodo ==
  ASSUME Typed, NEW t \in Tasks, NEW steps, NEW waiting, Proceed(t, steps, waiting)
  PROVE  /\ todo'[t] = steps /\ \A u \in Tasks \ {t} : todo'[u] = todo[u]
BY DEF Proceed, Typed, TasksOK

\* A step of a task changes nothing that other tasks have to do.
LEMMA OthersWait ==
  ASSUME ConstantsOK, Typed, NEW t \in Tasks, Run(t) \/ Suspend(t) \/ StorageFails(t)
  PROVE  up' = up /\ \A u \in Tasks \ {t} : todo'[u] = todo[u]
<1>1. Suspend(t) \/ \E steps, waiting : Proceed(t, steps, waiting)
  <2>1. \A kind, steps : Answers(t, kind, steps) => \E v, waiting : Proceed(t, v, waiting)
    BY DEF Answers
  <2>2. QueueSaved(t) \/ MessageSaved(t) \/ StatusUpdated(t) \/ MessageDeleted(t)
          => \E v, waiting : Proceed(t, v, waiting)
    BY <2>1 DEF QueueSaved, MessageSaved, StatusUpdated, MessageDeleted
  <2>3. \A steps : Become(t, steps) => \E v, waiting : Proceed(t, v, waiting)
    BY DEF Become, Continue
  <2>4. \A rest, waiting : GiveUp(t, rest, waiting) => \E v, w : Proceed(t, v, w)
    BY SMTT(60) DEF GiveUp
  <2>5. Deliver(t) => \E v, waiting : Proceed(t, v, waiting)
    BY Zenon, <2>3 DEF Deliver
  <2>6. DrainOk(t) \/ DrainFails(t) \/ Receipt(t) => \E v, waiting : Proceed(t, v, waiting)
    BY <2>3, <2>4 DEF DrainOk, DrainFails, Receipt
  <2>7. Failed(t) => \E v, waiting : Proceed(t, v, waiting)
    BY <2>3 DEF Failed, Requeue, MoveToDlq
  <2>8. CheckTimeouts(t) \/ PurgeExpired(t) => \E v, waiting : Proceed(t, v, waiting)
    BY <2>3 DEF CheckTimeouts, PurgeExpired
  <2>9. StorageFails(t) => \E v, waiting : Proceed(t, v, waiting)
    BY <2>4 DEF StorageFails
  <2> QED
    BY <2>2, <2>5, <2>6, <2>7, <2>8, <2>9 DEF Run
<1>2. \A u \in Tasks \ {t} : todo'[u] = todo[u]
  BY SMTT(60), <1>1, ProceedTodo DEF Suspend
<1>3. up' = up
  BY Zenon DEF Run, QueueSaved, MessageSaved, StatusUpdated, MessageDeleted, Answers, Deliver,
         DrainOk, DrainFails, Failed, Receipt, CheckTimeouts, PurgeExpired, Suspend, StorageFails
<1> QED
  BY <1>2, <1>3

\* Neither do clients, the loops and the clock.
LEMMA ClientsWait ==
  ASSUME ConstantsOK, Typed,
         \/ Clients \/ (\E c \in Conns : Unregister(c))
         \/ TimeoutTick \/ ExpiryTick \/ \E id \in Ids : Expire(id)
  PROVE  up' = up /\ todo'[Main] = todo[Main]
<1>1. Main \notin Conns /\ Main \in Tasks /\ TimeoutLoop \in Tasks /\ ExpiryLoop \in Tasks
      /\ Main # TimeoutLoop /\ Main # ExpiryLoop /\ Conns \subseteq Tasks
  BY DEF ConstantsOK, Tasks
<1>2. \A t \in Tasks \ {Main} : \A steps : Continue(t, steps) => todo'[Main] = todo[Main]
  BY <1>1, ProceedTodo DEF Continue
<1>3. ASSUME NEW c \in Conns
      PROVE  /\ Connect(c) \/ Lose(c) \/ Unregister(c) => up' = up /\ todo'[Main] = todo[Main]
             /\ \A s : Unsubscribe(c, s) => up' = up /\ todo'[Main] = todo[Main]
             /\ \A q, type, prio, ttl : Send(c, q, type, prio, ttl) => up' = up /\ todo'[Main] = todo[Main]
             /\ \A q, type : /\ SendExpired(c, q, type) => up' = up /\ todo'[Main] = todo[Main]
                             /\ \A s : Subscribe(c, s, q, type) => up' = up /\ todo'[Main] = todo[Main]
             /\ \A id : Ack(c, id) \/ Nack(c, id) => up' = up /\ todo'[Main] = todo[Main]
  <2>1. c \in Tasks \ {Main}
    BY <1>1
  <2>2. Connect(c) \/ Lose(c) \/ Unregister(c) => up' = up /\ todo'[Main] = todo[Main]
    BY DEF Connect, Lose, Unregister, control
  <2>3. /\ \A s : Unsubscribe(c, s) => up' = up /\ todo'[Main] = todo[Main]
        /\ \A q, type : SendExpired(c, q, type) => up' = up /\ todo'[Main] = todo[Main]
    BY DEF Unsubscribe, SendExpired, control
  <2>4. \A q, type, prio, ttl : Send(c, q, type, prio, ttl) => up' = up /\ todo'[Main] = todo[Main]
    BY <1>2, <2>1 DEF Send
  <2>5. \A q, type, s : Subscribe(c, s, q, type) => up' = up /\ todo'[Main] = todo[Main]
    BY <1>2, <2>1 DEF Subscribe
  <2>6. \A id : Ack(c, id) \/ Nack(c, id) => up' = up /\ todo'[Main] = todo[Main]
    BY <1>2, <2>1 DEF Ack, Nack, control
  <2> QED
    BY <2>2, <2>3, <2>4, <2>5, <2>6
<1>4. CASE Clients
  BY <1>3, <1>4 DEF Clients
<1>5. CASE \E c \in Conns : Unregister(c)
  BY <1>3, <1>5
<1>6. CASE TimeoutTick \/ ExpiryTick
  BY <1>1, <1>2, <1>6 DEF TimeoutTick, ExpiryTick, Tick
<1>7. CASE \E id \in Ids : Expire(id)
  BY <1>7 DEF Expire, control
<1> QED
  BY <1>4, <1>5, <1>6, <1>7

\* restore() goes on, with the socket to be opened last.
LEMMA RestoringGoesOn ==
  ASSUME NEW S, NEW w \in Seq(S), Restoring(w), Head(w).do # "Serve",
         NEW v \in Seq(S), \A k \in 1..Len(v) : v[k].do \in LoadSteps
  PROVE  Restoring(v \o Tail(w))
<1> DEFINE u == v \o Tail(w)
<1>1. /\ Len(w) \in Nat /\ Len(w) > 0 /\ Head(w) = w[1]
      /\ Tail(w) \in Seq(S) /\ Len(Tail(w)) = Len(w) - 1
      /\ \A k \in 1..Len(Tail(w)) : Tail(w)[k] = w[k + 1]
  BY HeadTailProperties, LenProperties, EmptySeq DEF Restoring
<1>2. Len(w) > 1
  <2>1. 1 \in 1..Len(w) /\ w[1].do # "Serve"
    BY <1>1
  <2>2. Len(w) # 1
    BY <2>1 DEF Restoring
  <2> QED
    BY <1>1, <2>2
<1>3. /\ Len(u) = Len(v) + (Len(w) - 1) /\ Len(v) \in Nat
      /\ \A k \in 1..Len(v) : u[k] = v[k]
      /\ \A k \in 1..Len(u) : k > Len(v) => u[k] = Tail(w)[k - Len(v)]
  BY <1>1, ConcatProperties, LenProperties
<1>4. u # <<>>
  <2>1. Len(u) # 0 /\ Len(<<>>) = 0
    BY <1>1, <1>2, <1>3
  <2> QED
    BY <2>1
<1> HIDE DEF u
<1>5. ASSUME NEW k \in 1..Len(u)
      PROVE  (u[k].do = "Serve" <=> k = Len(u)) /\ u[k].do \in LoadSteps \cup {"Serve"}
  <2>1. CASE k <= Len(v)
    <3>1. u[k].do \in LoadSteps /\ k # Len(u)
      BY <1>1, <1>2, <1>3, <2>1
    <3> QED
      BY <3>1 DEF LoadSteps
  <2>2. CASE k > Len(v)
    <3>1. k - Len(v) \in 1..Len(Tail(w)) /\ (k - Len(v)) + 1 \in 1..Len(w)
          /\ (k = Len(u) <=> (k - Len(v)) + 1 = Len(w))
      BY <1>1, <1>3, <2>2
    <3>2. u[k] = w[(k - Len(v)) + 1]
      BY <1>1, <1>3, <2>2, <3>1
    <3> QED
      BY <3>1, <3>2 DEF Restoring
  <2> QED
    BY <1>3, <2>1, <2>2
<1> QED
  BY <1>4, <1>5 DEF Restoring, u

\* The last step of restore() is the only one that is left then.
LEMMA RestoringEnds ==
  ASSUME NEW S, NEW w \in Seq(S), Restoring(w), Head(w).do = "Serve"
  PROVE  Len(w) = 1 /\ Tail(w) = <<>>
<1>1. /\ Len(w) \in Nat /\ Len(w) > 0 /\ Head(w) = w[1]
      /\ Tail(w) \in Seq(S) /\ Len(Tail(w)) = Len(w) - 1
  BY HeadTailProperties, LenProperties, EmptySeq DEF Restoring
<1>2. 1 \in 1..Len(w)
  BY SMTT(60), <1>1
<1>3. Len(w) = 1
  BY <1>1, <1>2 DEF Restoring
<1>4. Len(Tail(w)) = 0
  BY <1>1, <1>3
<1> QED
  BY <1>1, <1>3, <1>4, EmptySeq

\* An ordering of a finite set has each of its members once.
LEMMA OrderingIsOnto ==
  ASSUME NEW S, IsFiniteSet(S), NEW s \in SetToSeqs(S)
  PROVE  /\ Len(s) \in Nat /\ s \in Seq(S)
         /\ \A x \in S : \E i \in 1..Len(s) : s[i] = x
         /\ \A i, j \in 1..Len(s) : s[i] = s[j] => i = j
<1> DEFINE D == 1..Cardinality(S)
<1>1. Cardinality(S) \in Nat /\ IsFiniteSet(D) /\ Cardinality(D) = Cardinality(S)
  BY FS_CardinalityType, FS_Interval
<1>2. s \in [D -> S] /\ \A i, j \in D : i # j => s[i] # s[j]
  BY DEF SetToSeqs
<1>3. s \in Seq(S) /\ Len(s) = Cardinality(S)
  BY <1>1, <1>2
<1>4. ASSUME NEW x \in S, \A i \in D : s[i] # x
      PROVE  FALSE
  <2>1. IsFiniteSet(S \ {x}) /\ Cardinality(S \ {x}) = Cardinality(S) - 1
    BY <1>4, FS_RemoveElement
  <2>2. s \in [D -> S \ {x}]
    BY <1>2, <1>4
  <2>3. Cardinality(S \ {x}) < Cardinality(D)
    BY <1>1, <2>1
  <2>4. \E i, j \in D : i # j /\ s[i] = s[j]
    <3> HIDE DEF D
    <3> QED
      BY <1>1, <2>1, <2>2, <2>3, FS_PigeonHole
  <2> QED
    BY <1>2, <2>4
<1> QED
  BY <1>1, <1>2, <1>3, <1>4

\* The messages in the order of their creation are all there, once.
LEMMA AscendingIsOnto ==
  ASSUME NEW n \in Nat, NEW S, \A id \in S : id \in 1..n
  PROVE  /\ Ascending(S) \in Seq(S)
         /\ \A x \in S : \E i \in 1..Len(Ascending(S)) : Ascending(S)[i] = x
         /\ \A i, j \in 1..Len(Ascending(S)) : Ascending(S)[i] = Ascending(S)[j] => i = j
         /\ \A i, j \in 1..Len(Ascending(S)) : i < j => Ascending(S)[i] < Ascending(S)[j]
<1> DEFINE D == 1..Cardinality(S)
           s == Ascending(S)
<1>1. IsFiniteSet(S) /\ Cardinality(S) \in Nat
  BY Positions
<1>2. \A i \in D : Nth(S, i) \in S /\ Cardinality({k \in S : k <= Nth(S, i)}) = i
  BY NthMember
<1>3. s \in [D -> S] /\ \A i \in D : s[i] = Nth(S, i)
  BY <1>2 DEF Ascending
<1>4. \A i, j \in D : i # j => s[i] # s[j]
  BY <1>2, <1>3
<1>5. s \in SetToSeqs(S)
  BY <1>3, <1>4 DEF SetToSeqs
<1> HIDE DEF s
<1>6. /\ s \in Seq(S)
      /\ \A x \in S : \E i \in 1..Len(s) : s[i] = x
      /\ \A i, j \in 1..Len(s) : s[i] = s[j] => i = j
  BY <1>1, <1>5, OrderingIsOnto
<1>7. \A i, j \in 1..Len(s) : i < j => s[i] < s[j]
  <2>1. Len(s) = Cardinality(S)
    BY <1>1, <1>3, <1>6, LenProperties
  <2>2. \A i, j \in D : i < j => Nth(S, i) < Nth(S, j)
    BY NthRises
  <2> QED
    BY <1>3, <2>1, <2>2
<1> QED
  BY <1>6, <1>7 DEF s

\* load_queues: every stored queue is to be loaded, once.
LEMMA QueuesLoadedWork ==
  ASSUME ConstantsOK, Typed, QueuesLoaded
  PROVE  \E v \in Work(Len(msgs)) :
           /\ Answers(Main, "LoadQueues", v)
           /\ \A k \in 1..Len(v) : v[k].do = "LoadMessages" /\ queueRows[v[k].q] # "absent"
           /\ \A q \in Queues : queueRows[q] # "absent" => \E k \in 1..Len(v) : v[k].q = q
           /\ \A i, j \in 1..Len(v) : v[i].q = v[j].q => i = j
<1>1. PICK names \in SetToSeqs(StoredQueues(queueRows)) :
        Answers(Main, "LoadQueues", [i \in 1..Len(names) |-> OnQueue("LoadMessages", names[i])])
  BY DEF QueuesLoaded
<1>2. PICK v : v = [i \in 1..Len(names) |-> OnQueue("LoadMessages", names[i])]
  OBVIOUS
<1>3. StoredQueues(queueRows) = {q \in Queues : queueRows[q] # "absent"}
  BY DEF StoredQueues, Typed, DataTypeOK
<1>4. /\ Len(names) \in Nat /\ names \in Seq(StoredQueues(queueRows))
      /\ \A q \in StoredQueues(queueRows) : \E i \in 1..Len(names) : names[i] = q
      /\ \A i, j \in 1..Len(names) : names[i] = names[j] => i = j
  <2>1. IsFiniteSet(StoredQueues(queueRows))
    BY <1>3, FS_Subset DEF ConstantsOK
  <2> QED
    BY <2>1, OrderingIsOnto
<1>5. v \in Work(Len(msgs))
  BY <1>1, <1>2, LoadsTyped
<1>6. Len(v) = Len(names)
  BY <1>2, <1>4
<1>7. \A k \in 1..Len(names) : v[k].do = "LoadMessages" /\ v[k].q = names[k]
  BY <1>2 DEF OnQueue, Do
<1>8. \A k \in 1..Len(names) : names[k] \in StoredQueues(queueRows)
  BY <1>4, ElementOfSeq
<1>9. \A k \in 1..Len(v) : v[k].do = "LoadMessages" /\ queueRows[v[k].q] # "absent"
  BY <1>3, <1>6, <1>7, <1>8
<1>10. ASSUME NEW q \in Queues, queueRows[q] # "absent"
       PROVE  \E k \in 1..Len(v) : v[k].q = q
  <2>1. PICK i \in 1..Len(names) : names[i] = q
    BY <1>3, <1>4, <1>10
  <2> QED
    BY <1>6, <1>7, <2>1
<1>11. ASSUME NEW i \in 1..Len(v), NEW j \in 1..Len(v), v[i].q = v[j].q
       PROVE  i = j
  <2>1. names[i] = names[j]
    BY <1>6, <1>7, <1>11
  <2> QED
    BY <1>4, <1>6, <2>1
<1> QED
  BY <1>1, <1>2, <1>5, <1>9, <1>10, <1>11

\* load_messages: every stored message of the queue is to be restored, once, in the
\* order of creation.
LEMMA MessagesLoadedWork ==
  ASSUME ConstantsOK, Typed, MessagesLoaded
  PROVE  /\ Head(todo[Main]).q \in Queues
         /\ \E v \in Work(Len(msgs)) :
              /\ Answers(Main, "LoadMessages", v)
              /\ \A k \in 1..Len(v) : /\ v[k].do = "Restore" /\ v[k].q = Head(todo[Main]).q
                                      /\ v[k].id \in Known /\ rows[v[k].id] # "absent"
                                      /\ msgs[v[k].id].queue = v[k].q
              /\ \A id \in Known : rows[id] # "absent" /\ msgs[id].queue = Head(todo[Main]).q
                                     => \E k \in 1..Len(v) : v[k].id = id
              /\ \A i, j \in 1..Len(v) : v[i].id = v[j].id => i = j
              /\ \A i, j \in 1..Len(v) : i < j => v[i].id < v[j].id
<1>1. PICK q : q = Head(todo[Main]).q
  OBVIOUS
<1>2. PICK ids : ids = {id \in StoredMessages(rows) : msgs[id].queue = q}
  OBVIOUS
<1>3. PICK v : v = ForEach("Restore", q, Ascending(ids))
  OBVIOUS
<1>4. Answers(Main, "LoadMessages", v)
  BY <1>1, <1>2, <1>3 DEF MessagesLoaded
<1>5. q \in Queues
  <2>1. Main \in Tasks /\ todo[Main] # <<>> /\ Head(todo[Main]).do = "LoadMessages"
    BY <1>4, AnswersTyped
  <2>2. "LoadMessages" \in OfQueue
    BY DEF OfQueue, Kinds, Calls
  <2> QED
    BY <1>1, <2>1, <2>2, Current
<1>6. ids = {id \in Known : rows[id] # "absent" /\ msgs[id].queue = q}
  <2>1. StoredMessages(rows) = {id \in Known : rows[id] # "absent"}
    BY MessagesTyped DEF StoredMessages, Typed, DataTypeOK, OnlyKnown
  <2> QED
    BY <1>2, <2>1
<1>7. Len(msgs) \in Nat /\ Known = 1..Len(msgs) /\ \A id \in ids : id \in 1..Len(msgs)
  BY <1>6, MessagesTyped
<1>8. PICK s : s = Ascending(ids)
  OBVIOUS
<1>9. /\ s \in Seq(ids) /\ s \in Seq(1..Len(msgs))
      /\ \A x \in ids : \E i \in 1..Len(s) : s[i] = x
      /\ \A i, j \in 1..Len(s) : s[i] = s[j] => i = j
      /\ \A i, j \in 1..Len(s) : i < j => s[i] < s[j]
  <2>1. Ascending(ids) \in Seq(1..Len(msgs))
    BY <1>7, AscendingTyped
  <2>2. /\ Ascending(ids) \in Seq(ids)
        /\ \A x \in ids : \E i \in 1..Len(Ascending(ids)) : Ascending(ids)[i] = x
        /\ \A i, j \in 1..Len(Ascending(ids)) : Ascending(ids)[i] = Ascending(ids)[j] => i = j
        /\ \A i, j \in 1..Len(Ascending(ids)) : i < j => Ascending(ids)[i] < Ascending(ids)[j]
    BY <1>7, AscendingIsOnto
  <2> QED
    BY <1>8, <2>1, <2>2
<1>10. v \in Work(Len(msgs))
  <2>1. "Restore" \in Kinds \ {"Drain"} /\ inflight \in [Ids -> Nat] /\ Len(msgs) <= MaxMessages
    BY MessagesTyped DEF Kinds, Typed, DataTypeOK
  <2> QED
    BY <1>3, <1>5, <1>7, <1>8, <1>9, <2>1, ForEachTyped
<1>11. /\ Len(v) = Len(s)
       /\ \A k \in 1..Len(s) : v[k].do = "Restore" /\ v[k].q = q /\ v[k].id = s[k]
  <2>1. v = [i \in 1..Len(s) |-> Do("Restore", q, s[i], inflight[s[i]], NoConsumer)]
    BY <1>3, <1>8 DEF ForEach
  <2>2. Len(s) \in Nat
    BY <1>9, LenProperties
  <2>3. Len(v) = Len(s)
    BY <2>1, <2>2
  <2>4. ASSUME NEW k \in 1..Len(s)
        PROVE  v[k].do = "Restore" /\ v[k].q = q /\ v[k].id = s[k]
    <3>1. v[k] = Do("Restore", q, s[k], inflight[s[k]], NoConsumer)
      BY <2>1
    <3> QED
      BY <3>1 DEF Do
  <2> QED
    BY <2>3, <2>4
<1>12. \A k \in 1..Len(s) : s[k] \in ids
  BY <1>9, ElementOfSeq
<1>13. \A k \in 1..Len(v) : /\ v[k].do = "Restore" /\ v[k].q = q
                            /\ v[k].id \in Known /\ rows[v[k].id] # "absent"
                            /\ msgs[v[k].id].queue = v[k].q
  BY <1>6, <1>11, <1>12
<1>14. ASSUME NEW id \in Known, rows[id] # "absent", msgs[id].queue = q
       PROVE  \E k \in 1..Len(v) : v[k].id = id
  <2>1. PICK i \in 1..Len(s) : s[i] = id
    BY <1>6, <1>9, <1>14
  <2> QED
    BY <1>11, <2>1
<1>15. \A i, j \in 1..Len(v) : v[i].id = v[j].id => i = j
  BY <1>9, <1>11
<1>16. \A i, j \in 1..Len(v) : i < j => v[i].id < v[j].id
  BY <1>9, <1>11
<1> QED
  BY <1>1, <1>4, <1>5, <1>10, <1>13, <1>14, <1>15, <1>16

\* A message is restored, or deleted if its time has run out.
LEMMA RestoreWork ==
  ASSUME ConstantsOK, Typed, Restore
  PROVE  /\ Main \in Tasks /\ todo[Main] # <<>> /\ Head(todo[Main]).do = "Restore"
         /\ Head(todo[Main]).q \in Queues /\ Head(todo[Main]).id \in Known
         /\ UNCHANGED <<up, msgs, created, qtype, inflight, consumers, turn, sessions,
                        database, clients, faults>>
         /\ \/ /\ IsExpired(Head(todo[Main]).id) /\ ready' = ready
               /\ \E d \in StepUpTo(Len(msgs)) : d.do = "DeleteMessage" /\ Become(Main, <<d>>)
            \/ /\ Become(Main, <<>>)
               /\ Enqueue(Head(todo[Main]).q, Head(todo[Main]).id, Prio,
                          qtype[Head(todo[Main]).q])
<1>1. Main \in Tasks /\ todo[Main] # <<>> /\ Head(todo[Main]).do = "Restore"
  BY DEF Restore, Doing, Idle, Tasks
<1>2. Head(todo[Main]).q \in Queues /\ Head(todo[Main]).id \in Known
  BY <1>1, Current DEF OfQueue, OfMessage, Kinds
<1>3. OnMessage("DeleteMessage", Head(todo[Main]).q, Head(todo[Main]).id) \in StepUpTo(Len(msgs))
  <2>1. "DeleteMessage" \in Kinds \ {"Drain"}
    BY DEF Kinds, Calls
  <2> QED
    BY <1>2, <2>1, MessagesTyped, StepsTyped
<1>4. OnMessage("DeleteMessage", Head(todo[Main]).q, Head(todo[Main]).id).do = "DeleteMessage"
  BY DEF OnMessage, Do
<1> QED
  BY <1>1, <1>2, <1>3, <1>4 DEF Restore

\* Main is at work until the socket is opened, and alone until then.
LEMMA OpeningStep ==
  ASSUME ConstantsOK, Typed, Rests, Opening, [Next]_vars
  PROVE  Opening'
<1>1. Main \in Tasks /\ todo[Main] \in Seq(StepUpTo(Len(msgs))) /\ Len(msgs) \in Nat
      /\ Len(msgs) <= MaxMessages
  <2>1. Main \in Tasks /\ todo[Main] \in Work(Len(msgs))
    BY DEF Tasks, Typed, TasksOK
  <2> QED
    BY <2>1, MessagesTyped DEF Work
<1>2. CASE UNCHANGED vars
  BY <1>2 DEF vars, control, sessions, Opening, Idle
<1>3. CASE Crash
  BY <1>3 DEF Crash, Opening, Idle
<1>4. CASE up = "up" /\ ~Crash /\ ~UNCHANGED vars
  <2>1. up' = up /\ todo'[Main] = todo[Main]
    <3>1. ASSUME NEW t \in Tasks \ {Main}, Run(t) \/ Suspend(t) \/ StorageFails(t)
          PROVE  up' = up /\ todo'[Main] = todo[Main]
      BY <1>1, <3>1, OthersWait
    <3> QED
      BY <1>4, <3>1, After, ClientsWait
  <2> QED
    BY <1>4, <2>1 DEF Opening, Idle
<1>5. CASE up # "up" /\ \E id \in Ids : Expire(id)
  BY <1>5 DEF Expire, control, sessions, Opening, Idle
<1>6. CASE up # "up" /\ Start
  <2>1. up' = "restoring" /\ link' = link /\ Proceed(Main, RestoreSteps, dbq)
    BY <1>6 DEF Start, Continue, sessions
  <2>2. todo'[Main] = RestoreSteps /\ \A t \in Tasks \ {Main} : todo'[t] = todo[t]
    BY <1>1, <2>1, ProceedTodo
  <2>3. Restoring(RestoreSteps)
    <3> DEFINE a == OnQueue("ResetInFlight", NoQueue)
               b == OnQueue("LoadQueues", NoQueue)
               c == OnQueue("Serve", NoQueue)
    <3>1. a.do = "ResetInFlight" /\ b.do = "LoadQueues" /\ c.do = "Serve"
      BY DEF OnQueue, Do
    <3>2. RestoreSteps = <<a, b, c>>
      BY DEF RestoreSteps
    <3> HIDE DEF a, b, c
    <3> QED
      BY <3>1, <3>2 DEF Restoring, LoadSteps
  <2> QED
    BY <1>6, <2>1, <2>2, <2>3 DEF Opening, Idle
<1>7. CASE up # "up" /\ (InFlightReset \/ QueuesLoaded \/ MessagesLoaded \/ Restore \/ Serve
                          \/ MessageDeleted(Main))
  <2>1. todo[Main] # <<>>
    <3>1. \A kind, steps : Answers(Main, kind, steps) => todo[Main] # <<>>
      BY AnswersTyped
    <3> QED
      BY <1>7, <3>1 DEF InFlightReset, QueuesLoaded, MessagesLoaded, Restore, Serve, MessageDeleted,
                        Doing, Idle
  <2>2. Restoring(todo[Main]) /\ up = "restoring"
    BY <1>1, <1>7, <2>1 DEF Opening, Rests, Idle, Typed, DataTypeOK
  <2>3. CASE Serve
    <3>1. /\ up' = "up" /\ Head(todo[Main]).do = "Serve"
          /\ Proceed(Main, <<>> \o Tail(todo[Main]), dbq)
      BY <2>3 DEF Serve, Doing, Become, Continue
    <3>2. Tail(todo[Main]) = <<>>
      BY <1>1, <2>2, <3>1, RestoringEnds
    <3>3. <<>> \o Tail(todo[Main]) = <<>>
      BY <3>2
    <3> QED
      BY <1>1, <3>1, <3>3, ProceedTodo DEF Opening, Idle
  <2>4. ASSUME NEW v \in Seq(StepUpTo(Len(msgs))), \A k \in 1..Len(v) : v[k].do \in LoadSteps,
               NEW waiting, Proceed(Main, v \o Tail(todo[Main]), waiting),
               Head(todo[Main]).do # "Serve", up' = up, link' = link
        PROVE  Opening'
    <3>1. Restoring(v \o Tail(todo[Main]))
      BY <1>1, <2>2, <2>4, RestoringGoesOn
    <3>2. /\ todo'[Main] = v \o Tail(todo[Main])
          /\ \A t \in Tasks \ {Main} : todo'[t] = todo[t]
      BY <1>1, <2>4, ProceedTodo
    <3> QED
      BY <2>2, <2>4, <3>1, <3>2 DEF Opening, Idle
  <2>5. ASSUME NEW kind, kind # "Serve", NEW v \in Seq(StepUpTo(Len(msgs))),
               \A k \in 1..Len(v) : v[k].do \in LoadSteps, Answers(Main, kind, v)
        PROVE  Opening'
    <3>1. Head(todo[Main]).do # "Serve" /\ up' = up /\ link' = link
          /\ Proceed(Main, v \o Tail(todo[Main]), Tail(dbq))
      BY <2>5 DEF Answers, sessions
    <3> QED
      BY <2>4, <2>5, <3>1
  <2>6. CASE InFlightReset \/ MessageDeleted(Main)
    <3>1. <<>> \in Seq(StepUpTo(Len(msgs))) /\ \A k \in 1..Len(<<>>) : <<>>[k].do \in LoadSteps
      OBVIOUS
    <3> QED
      BY <2>5, <2>6, <3>1 DEF InFlightReset, MessageDeleted
  <2>7. CASE QueuesLoaded
    <3>1. PICK v \in Work(Len(msgs)) : /\ Answers(Main, "LoadQueues", v)
                                       /\ \A k \in 1..Len(v) : v[k].do = "LoadMessages"
      BY <2>7, QueuesLoadedWork
    <3>2. v \in Seq(StepUpTo(Len(msgs))) /\ \A k \in 1..Len(v) : v[k].do \in LoadSteps
      BY <3>1 DEF Work, LoadSteps
    <3> QED
      BY <2>5, <3>1, <3>2
  <2>8. CASE MessagesLoaded
    <3>1. PICK v \in Work(Len(msgs)) : /\ Answers(Main, "LoadMessages", v)
                                       /\ \A k \in 1..Len(v) : v[k].do = "Restore"
      BY <2>8, MessagesLoadedWork
    <3>2. v \in Seq(StepUpTo(Len(msgs))) /\ \A k \in 1..Len(v) : v[k].do \in LoadSteps
      BY <3>1 DEF Work, LoadSteps
    <3> QED
      BY <2>5, <3>1, <3>2
  <2>9. CASE Restore
    <3>1. /\ Head(todo[Main]).do = "Restore" /\ UNCHANGED <<up, link, msgs>>
          /\ \/ Become(Main, <<>>)
             \/ \E d \in StepUpTo(Len(msgs)) : d.do = "DeleteMessage" /\ Become(Main, <<d>>)
      BY <2>9, RestoreWork DEF sessions
    <3>2. PICK v \in Seq(StepUpTo(Len(msgs))) :
            Become(Main, v) /\ \A k \in 1..Len(v) : v[k].do \in LoadSteps
      <4>1. CASE Become(Main, <<>>)
        <5>1. <<>> \in Seq(StepUpTo(Len(msgs))) /\ \A k \in 1..Len(<<>>) : <<>>[k].do \in LoadSteps
          OBVIOUS
        <5> QED
          BY <4>1, <5>1
      <4>2. ASSUME NEW d \in StepUpTo(Len(msgs)), d.do = "DeleteMessage", Become(Main, <<d>>)
            PROVE  \E v \in Seq(StepUpTo(Len(msgs))) :
                     Become(Main, v) /\ \A k \in 1..Len(v) : v[k].do \in LoadSteps
        <5>1. <<d>> \in Seq(StepUpTo(Len(msgs))) /\ \A k \in 1..Len(<<d>>) : <<d>>[k].do \in LoadSteps
          BY <4>2 DEF LoadSteps
        <5> QED
          BY <4>2, <5>1
      <4> QED
        BY <3>1, <4>1, <4>2
    <3>3. Proceed(Main, v \o Tail(todo[Main]), dbq)
      BY <3>2 DEF Become, Continue
    <3> QED
      BY <2>4, <3>1, <3>2, <3>3
  <2> QED
    BY <1>7, <2>3, <2>6, <2>7, <2>8, <2>9
<1> QED
  BY <1>2, <1>3, <1>4, <1>5, <1>6, <1>7, Before DEF Restart
-----------------------------------------------------------------------------
(* Consumers. *)

\* The consumers of the connections that are not unregistered.
Live == {x \in Consumer : link[x[1]] \in {"open", "lost"}}
OnlyLive == consumers \in [Queues -> Seq(Live)]

\* Consumers stay live while connections only come or break.
LEMMA LiveGrows ==
  ASSUME OnlyLive, consumers' = consumers, Live \subseteq Live'
  PROVE  OnlyLive'
<1>1. Seq(Live) \subseteq Seq(Live')
  BY SeqMonotonic
<1>2. consumers \in [Queues -> Seq(Live')]
  BY <1>1 DEF OnlyLive
<1> QED
  BY <1>2 DEF OnlyLive

\* Unless consumers are added the rest of the live ones is live.
LEMMA LiveRemoved ==
  ASSUME OnlyLive, link' = link, NEW q, NEW x,
         consumers' = [consumers EXCEPT ![q] = RemoveConsumer(@, x)]
  PROVE  OnlyLive'
<1>1. Live' = Live
  BY DEF Live
<1>2. \A p \in Queues : RemoveConsumer(consumers[p], x) \in Seq(Live)
  BY WithoutType DEF RemoveConsumer, OnlyLive
<1> QED
  BY <1>1, <1>2 DEF OnlyLive

\* Unregister removes every consumer of the connection.
LEMMA UnregisterLive ==
  ASSUME ConstantsOK, Typed, OnlyLive, NEW c \in Conns, Unregister(c)
  PROVE  OnlyLive'
<1>1. consumers' = [q \in Queues |-> Without(consumers[q], {c} \X Subs)]
  BY DEF Unregister, RemoveConnection
<1>2. link' = [link EXCEPT ![c] = "gone"] /\ link \in [Conns -> {"none", "open", "lost", "gone"}]
  BY DEF Unregister, Typed, DataTypeOK
<1>3. ASSUME NEW q \in Queues
      PROVE  Without(consumers[q], {c} \X Subs) \in Seq(Live')
  <2>1. PICK w : w = Without(consumers[q], {c} \X Subs)
    OBVIOUS
  <2>2. w \in Seq(Live) /\ \A i \in 1..Len(w) : w[i] \notin {c} \X Subs
    BY <2>1, WithoutType DEF OnlyLive
  <2>3. ASSUME NEW i \in 1..Len(w)
        PROVE  w[i] \in Live'
    <3>1. w[i] \in Live /\ w[i] \notin {c} \X Subs
      BY <2>2, ElementOfSeq
    <3>2. PICK d \in Conns, s \in Subs : w[i] = <<d, s>>
      BY <3>1 DEF Live, Consumer
    <3>3. d # c
      BY <3>1, <3>2
    <3>4. link'[d] = link[d]
      BY <1>2, <3>3
    <3> QED
      BY <3>1, <3>2, <3>4 DEF Live, Consumer
  <2>4. w \in [1..Len(w) -> Live']
    BY <2>2, <2>3
  <2>5. Len(w) \in Nat
    BY <2>2, LenProperties
  <2>6. w \in Seq(Live')
    BY <2>4, <2>5
  <2> QED
    BY <2>1, <2>6
<1> QED
  BY <1>1, <1>3 DEF OnlyLive

\* The steps that change who consumes.
LEMMA ConsumersChange ==
  ASSUME ConstantsOK, [Next]_vars
  PROVE  \/ UNCHANGED <<consumers, link>>
         \/ Crash
         \/ \E c \in Conns : \/ Connect(c) \/ Lose(c) \/ Unregister(c)
                             \/ \E s \in Subs : Unsubscribe(c, s)
                             \/ \E s \in Subs, q \in Targets, type \in QueueTypes :
                                  Subscribe(c, s, q, type)
         \/ \E t \in Tasks : \E rest, waiting : GiveUp(t, rest, waiting) /\ link' = link
<1>1. CASE UNCHANGED vars
  BY <1>1 DEF vars, memory, sessions
<1>2. CASE Clients
  <2>1. /\ \A c, q, type, prio, ttl : Send(c, q, type, prio, ttl) => UNCHANGED <<consumers, link>>
        /\ \A c, q, type : SendExpired(c, q, type) => UNCHANGED <<consumers, link>>
        /\ \A c, id : Ack(c, id) \/ Nack(c, id) => UNCHANGED <<consumers, link>>
    BY DEF Send, SendExpired, Ack, Nack, sessions
  <2> QED
    BY <1>2, <2>1 DEF Clients
<1>3. ASSUME NEW t \in Tasks, Run(t) \/ Suspend(t) \/ StorageFails(t)
      PROVE  \/ UNCHANGED <<consumers, link>>
             \/ \E rest, waiting : GiveUp(t, rest, waiting) /\ link' = link
  <2>1. StorageFails(t) => \/ UNCHANGED <<consumers, link>>
                           \/ \E rest, waiting : GiveUp(t, rest, waiting) /\ link' = link
    BY DEF StorageFails, sessions
  <2>2. DrainFails(t) => \E rest, waiting : GiveUp(t, rest, waiting) /\ link' = link
    BY DEF DrainFails, sessions
  <2>3. Suspend(t) => UNCHANGED <<consumers, link>>
    BY DEF Suspend, sessions, memory
  <2>4. QueueSaved(t) \/ MessageSaved(t) \/ StatusUpdated(t) \/ MessageDeleted(t)
          => UNCHANGED <<consumers, link>>
    BY SMTT(60) DEF QueueSaved, MessageSaved, StatusUpdated, MessageDeleted, Answers, sessions
  <2>5. Deliver(t) \/ DrainOk(t) \/ Failed(t) \/ Receipt(t) => UNCHANGED <<consumers, link>>
    BY Zenon DEF Deliver, DrainOk, Failed, Receipt, sessions, memory
  <2>6. CheckTimeouts(t) \/ PurgeExpired(t) => UNCHANGED <<consumers, link>>
    BY DEF CheckTimeouts, PurgeExpired, sessions
  <2> QED
    BY <1>3, <2>1, <2>2, <2>3, <2>4, <2>5, <2>6 DEF Run
<1>4. CASE TimeoutTick \/ ExpiryTick \/ \E id \in Ids : Expire(id)
  BY <1>4 DEF TimeoutTick, ExpiryTick, Tick, Expire, memory, sessions
<1>5. CASE Restart
  BY <1>5 DEF Restart, Start, InFlightReset, QueuesLoaded, MessagesLoaded, Answers, Restore, Serve,
              memory, sessions
<1> QED
  BY <1>1, <1>2, <1>3, <1>4, <1>5 DEF Next

\* Every consumer is of a connection that is not unregistered.
LEMMA OnlyLiveStep ==
  ASSUME ConstantsOK, Typed, OnlyLive, [Next]_vars
  PROVE  OnlyLive'
<1>1. CASE UNCHANGED <<consumers, link>>
  BY <1>1 DEF OnlyLive, Live
<1>2. CASE Crash
  BY <1>2 DEF Crash, OnlyLive
<1>3. ASSUME NEW c \in Conns, Connect(c) \/ Lose(c)
      PROVE  OnlyLive'
  <2>1. \A d \in Conns : link[d] \in {"open", "lost"} => link'[d] \in {"open", "lost"}
    BY <1>3 DEF Connect, Lose, Typed, DataTypeOK
  <2>2. Live \subseteq Live'
    BY <2>1 DEF Live, Consumer
  <2>3. consumers' = consumers
    BY <1>3 DEF Connect, Lose, memory
  <2> QED
    BY <2>2, <2>3, LiveGrows
<1>4. ASSUME NEW c \in Conns, NEW s \in Subs, Unsubscribe(c, s)
      PROVE  OnlyLive'
  BY <1>4, LiveRemoved DEF Unsubscribe
<1>5. ASSUME NEW c \in Conns, NEW s \in Subs, NEW q \in Targets, NEW type \in QueueTypes,
             Subscribe(c, s, q, type)
      PROVE  OnlyLive'
  <2>1. <<c, s>> \in Live /\ Live' = Live
    BY <1>5 DEF Subscribe, Frame, Live, Consumer
  <2>2. consumers' = [consumers EXCEPT ![q] = Append(@, <<c, s>>)]
    BY <1>5 DEF Subscribe
  <2>3. \A p \in Queues : Append(consumers[p], <<c, s>>) \in Seq(Live)
    BY <2>1 DEF OnlyLive
  <2> QED
    BY <2>1, <2>2, <2>3 DEF OnlyLive
<1>6. ASSUME NEW t \in Tasks, NEW rest, NEW waiting, GiveUp(t, rest, waiting), link' = link
      PROVE  OnlyLive'
  BY <1>6, LiveRemoved DEF GiveUp
<1> QED
  BY <1>1, <1>2, <1>3, <1>4, <1>5, <1>6, ConsumersChange, UnregisterLive

\* The invariants so far.
LEMMA PlacesAlways == Spec => [](Typed /\ Rests /\ Kept /\ Opening /\ OnlyLive)
<1> USE ConstantsOK
<1>1. Init => Typed /\ Rests /\ Kept
  <2>1. Init => Rests
    BY DEF Init, Rests, Idle
  <2> QED
    BY <2>1, InitTyped, InitKept
<1>2. Init => Opening /\ OnlyLive
  BY DEF Init, Opening, OnlyLive, Idle
<1>3. Typed /\ Rests /\ Kept /\ Opening /\ OnlyLive /\ [Next]_vars
        => (Typed /\ Rests /\ Kept /\ Opening /\ OnlyLive)'
  BY TypedStep, RestsStep, KeptStep, OpeningStep, OnlyLiveStep
<1> QED
  BY <1>1, <1>2, <1>3, PTL DEF Spec

\* A connection that was unregistered has no consumer left, whatever handler,
\* scan or failed delivery was under way: only SUBSCRIBE adds one, before the
\* reader of the connection has met its end.
THEOREM ConsumersAreLive == Spec => []NoGhostConsumer
<1>1. OnlyLive => NoGhostConsumer
  <2>1. SUFFICES ASSUME OnlyLive, NEW q \in Queues, NEW i \in 1..Len(consumers[q])
                 PROVE  link[consumers[q][i][1]] \in {"open", "lost"}
    BY DEF NoGhostConsumer
  <2>2. consumers[q][i] \in Live
    BY <2>1, ElementOfSeq DEF OnlyLive
  <2> QED
    BY <2>2 DEF Live
<1> QED
  BY <1>1, PlacesAlways, PTL
-----------------------------------------------------------------------------
(* The type of a queue. *)

\* Where the steps are when the first ones are replaced by these.
LEMMA Spliced ==
  ASSUME NEW S, NEW v \in Seq(S), NEW w \in Seq(S), w # <<>>
  PROVE  /\ v \o Tail(w) \in Seq(S)
         /\ Len(v) \in Nat /\ Len(w) \in Nat /\ Len(w) >= 1 /\ Head(w) = w[1]
         /\ Len(v \o Tail(w)) = Len(v) + (Len(w) - 1)
         /\ \A k \in 1..Len(v) : (v \o Tail(w))[k] = v[k]
         /\ \A k \in 2..Len(w) : (v \o Tail(w))[Len(v) + (k - 1)] = w[k]
         /\ \A k \in 1..Len(v \o Tail(w)) :
              k > Len(v) => /\ (k - Len(v)) + 1 \in 2..Len(w)
                            /\ (v \o Tail(w))[k] = w[(k - Len(v)) + 1]
<1>1. /\ Len(w) \in Nat /\ Len(w) >= 1 /\ Head(w) = w[1] /\ Len(v) \in Nat
      /\ Tail(w) \in Seq(S) /\ Len(Tail(w)) = Len(w) - 1
      /\ \A k \in 1..Len(Tail(w)) : Tail(w)[k] = w[k + 1]
  BY HeadTailProperties, LenProperties, EmptySeq
<1>2. PICK u : u = v \o Tail(w)
  OBVIOUS
<1>3. /\ u \in Seq(S) /\ Len(u) = Len(v) + (Len(w) - 1)
      /\ \A k \in 1..Len(v) : u[k] = v[k]
      /\ \A k \in 1..Len(u) : k > Len(v) => u[k] = Tail(w)[k - Len(v)]
  BY <1>1, <1>2, ConcatProperties
<1>4. ASSUME NEW k \in 1..Len(u), k > Len(v)
      PROVE  (k - Len(v)) + 1 \in 2..Len(w) /\ u[k] = w[(k - Len(v)) + 1]
  <2>1. k - Len(v) \in 1..Len(Tail(w))
    BY <1>1, <1>3, <1>4
  <2> QED
    BY <1>1, <1>3, <1>4, <2>1
<1>5. ASSUME NEW k \in 2..Len(w)
      PROVE  u[Len(v) + (k - 1)] = w[k]
  <2>1. Len(v) + (k - 1) \in 1..Len(u) /\ Len(v) + (k - 1) > Len(v)
        /\ ((Len(v) + (k - 1)) - Len(v)) + 1 = k
    BY <1>1, <1>3
  <2> QED
    BY <1>4, <2>1
<1> QED
  BY <1>1, <1>2, <1>3, <1>4, <1>5

\* Queue q is still to be loaded.
Loading(s, q) == s.do = "LoadQueues" \/ (s.do = "LoadMessages" /\ s.q = q)
Loads(w, q) == \E k \in 1..Len(w) : Loading(w[k], q)

Fits(q) ==
  queueRows[q] # "absent" =>
    \/ Exists(q) /\ qtype[q] = queueRows[q]
    \/ ~Exists(q) /\ (up = "down" \/ Loads(todo[Main], q))
OneType == \A q \in Queues : Fits(q)

\* What is to be loaded after a step of restore().
LEMMA LoadsAfter ==
  ASSUME NEW S, NEW v \in Seq(S), NEW w \in Seq(S), w # <<>>, NEW q
  PROVE  /\ Loads(v, q) => Loads(v \o Tail(w), q)
         /\ Loads(w, q) /\ ~Loading(Head(w), q) => Loads(v \o Tail(w), q)
         /\ Loads(v \o Tail(w), q) => Loads(v, q) \/ Loads(w, q)
<1>1. PICK u : u = v \o Tail(w)
  OBVIOUS
<1>2. /\ Len(v) \in Nat /\ Len(w) \in Nat /\ Len(w) >= 1 /\ Head(w) = w[1]
      /\ Len(u) = Len(v) + (Len(w) - 1)
      /\ \A k \in 1..Len(v) : u[k] = v[k]
      /\ \A k \in 2..Len(w) : u[Len(v) + (k - 1)] = w[k]
      /\ \A k \in 1..Len(u) : k > Len(v) => /\ (k - Len(v)) + 1 \in 2..Len(w)
                                            /\ u[k] = w[(k - Len(v)) + 1]
  BY <1>1, Spliced
<1>3. ASSUME Loads(v, q)
      PROVE  Loads(u, q)
  <2>1. PICK k \in 1..Len(v) : Loading(v[k], q)
    BY <1>3 DEF Loads
  <2>2. k \in 1..Len(u) /\ u[k] = v[k]
    BY <1>2
  <2> QED
    BY <2>1, <2>2 DEF Loads
<1>4. ASSUME Loads(w, q), ~Loading(Head(w), q)
      PROVE  Loads(u, q)
  <2>1. PICK k \in 1..Len(w) : Loading(w[k], q)
    BY <1>4 DEF Loads
  <2>2. k \in 2..Len(w)
    BY <1>2, <1>4, <2>1
  <2>3. Len(v) + (k - 1) \in 1..Len(u) /\ u[Len(v) + (k - 1)] = w[k]
    BY <1>2, <2>2
  <2> QED
    BY <2>1, <2>3 DEF Loads
<1>5. ASSUME Loads(u, q)
      PROVE  Loads(v, q) \/ Loads(w, q)
  <2>1. PICK k \in 1..Len(u) : Loading(u[k], q)
    BY <1>5 DEF Loads
  <2>2. CASE k <= Len(v)
    <3>1. k \in 1..Len(v) /\ u[k] = v[k]
      BY <1>2, <2>2
    <3> QED
      BY <2>1, <3>1 DEF Loads
  <2>3. CASE k > Len(v)
    <3>1. (k - Len(v)) + 1 \in 1..Len(w) /\ u[k] = w[(k - Len(v)) + 1]
      BY <1>2, <2>3
    <3> QED
      BY <2>1, <3>1 DEF Loads
  <2> QED
    BY <1>2, <2>2, <2>3
<1> QED
  BY <1>1, <1>3, <1>4, <1>5

\* Once the socket is open nothing is left to load, and every stored queue exists.
LEMMA LoadedWhenUp ==
  ASSUME ConstantsOK, Typed, Opening, OneType, up = "up", NEW q \in Queues
  PROVE  /\ ~Loads(todo[Main], q)
         /\ queueRows[q] # "absent" => Exists(q) /\ qtype[q] = queueRows[q]
<1>1. todo[Main] = <<>>
  BY DEF Opening, Idle
<1>2. ~Loads(todo[Main], q)
  BY <1>1 DEF Loads
<1> QED
  BY <1>2 DEF OneType, Fits

\* get_or_create of a queue that is not stored, or that exists.
LEMMA CreatedFits ==
  ASSUME ConstantsOK, Typed, Opening, OneType, up = "up", up' = "up", queueRows' = queueRows,
         NEW q \in Queues, NEW type, GetOrCreate(q, type)
  PROVE  OneType'
<1>1. ASSUME NEW p \in Queues
      PROVE  Fits(p)'
  <2>1. CASE queueRows[p] # "absent"
    <3>1. Exists(p) /\ qtype[p] = queueRows[p]
      BY <2>1, LoadedWhenUp
    <3>2. qtype'[p] = qtype[p]
      BY <3>1 DEF GetOrCreate, Typed, DataTypeOK
    <3> QED
      BY <3>1, <3>2 DEF Fits, Exists
  <2>2. CASE queueRows[p] = "absent"
    BY <2>2 DEF Fits
  <2> QED
    BY <2>1, <2>2
<1> QED
  BY <1>1 DEF OneType

\* Nothing about the queues changes.
LEMMA SameFits ==
  ASSUME OneType, UNCHANGED <<qtype, queueRows>>, up' = up, todo'[Main] = todo[Main]
  PROVE  OneType'
BY DEF OneType, Fits, Exists

\* save_queue saves a queue that exists, whether the call raises after it or not.
LEMMA SavedFits ==
  ASSUME ConstantsOK, Typed, Kept, Opening, OneType, up = "up", NEW t \in Tasks,
         todo[t] # <<>>, Head(todo[t]).do = "SaveQueue", UNCHANGED <<up, qtype>>,
         queueRows' = SaveQueue(queueRows, Head(todo[t]).q, qtype[Head(todo[t]).q])
  PROVE  OneType'
<1>1. /\ t \in Tasks /\ todo[t] # <<>> /\ Head(todo[t]).do = "SaveQueue"
      /\ queueRows' = SaveQueue(queueRows, Head(todo[t]).q, qtype[Head(todo[t]).q])
      /\ UNCHANGED <<up, qtype>>
  OBVIOUS
<1>2. PICK q \in Queues : q = Head(todo[t]).q
  BY <1>1, Current DEF OfQueue, Kinds, Calls
<1>3. Exists(q)
  <2>1. todo[t] \in Work(Len(msgs)) /\ Len(msgs) \in Nat
    BY <1>1, Current, MessagesTyped
  <2>2. Backed(todo[t], Facts)
    BY DEF Kept, AllBacked
  <2>3. q \in Facts.there
    BY <1>1, <1>2, <2>1, <2>2, FirstBacked
  <2> QED
    BY <2>3 DEF Facts
<1>4. ASSUME NEW p \in Queues
      PROVE  Fits(p)'
  <2>1. queueRows[p] # "absent" => Exists(p) /\ qtype[p] = queueRows[p]
    BY LoadedWhenUp
  <2>2. queueRows'[p] = queueRows[p] \/ (p = q /\ queueRows'[p] = qtype[q])
    BY <1>1, <1>2 DEF SaveQueue, Typed, DataTypeOK
  <2>3. queueRows'[p] # "absent" => Exists(p) /\ qtype[p] = queueRows'[p]
    BY <1>3, <2>1, <2>2
  <2> QED
    BY <1>1, <2>3 DEF Fits, Exists
<1> QED
  BY <1>4 DEF OneType

LEMMA QueueSavedFits ==
  ASSUME ConstantsOK, Typed, Kept, Opening, OneType, up = "up", NEW t \in Tasks, QueueSaved(t)
  PROVE  OneType'
<1>1. /\ todo[t] # <<>> /\ Head(todo[t]).do = "SaveQueue"
      /\ queueRows' = SaveQueue(queueRows, Head(todo[t]).q, qtype[Head(todo[t]).q])
      /\ UNCHANGED <<up, qtype>>
  BY AnswersTyped DEF QueueSaved
<1> QED
  BY <1>1, SavedFits

\* A step of restore() that loads no queue.
LEMMA RestoringFits ==
  ASSUME ConstantsOK, Typed, OneType, UNCHANGED <<qtype, queueRows>>, up' = up,
         todo[Main] # <<>>, Head(todo[Main]).do \notin {"LoadQueues", "LoadMessages"},
         NEW v \in Seq(StepUpTo(Len(msgs))), todo'[Main] = v \o Tail(todo[Main])
  PROVE  OneType'
<1>1. todo[Main] \in Seq(StepUpTo(Len(msgs)))
  BY Current DEF Work, Tasks
<1>2. ASSUME NEW q \in Queues
      PROVE  Fits(q)'
  <2>1. ~Loading(Head(todo[Main]), q)
    BY DEF Loading
  <2>2. Loads(todo[Main], q) => Loads(todo'[Main], q)
    BY <1>1, <2>1, LoadsAfter
  <2> QED
    BY <2>2 DEF OneType, Fits, Exists
<1> QED
  BY <1>2 DEF OneType

\* load_queues names every stored queue.
LEMMA QueuesLoadedFits ==
  ASSUME ConstantsOK, Typed, OneType, QueuesLoaded
  PROVE  OneType'
<1>1. PICK v \in Work(Len(msgs)) :
        /\ Answers(Main, "LoadQueues", v)
        /\ \A k \in 1..Len(v) : v[k].do = "LoadMessages" /\ queueRows[v[k].q] # "absent"
        /\ \A q \in Queues : queueRows[q] # "absent" => \E k \in 1..Len(v) : v[k].q = q
        /\ \A i, j \in 1..Len(v) : v[i].q = v[j].q => i = j
  BY QueuesLoadedWork
<1>2. /\ Main \in Tasks /\ todo[Main] # <<>> /\ up' = up
      /\ Proceed(Main, v \o Tail(todo[Main]), Tail(dbq))
      /\ UNCHANGED <<qtype, queueRows>>
  BY <1>1, AnswersTyped DEF Answers, QueuesLoaded, database
<1>3. todo'[Main] = v \o Tail(todo[Main])
  BY <1>2, ProceedTodo
<1>4. todo[Main] \in Seq(StepUpTo(Len(msgs))) /\ v \in Seq(StepUpTo(Len(msgs)))
  BY <1>1, <1>2, Current DEF Work
<1>5. ASSUME NEW q \in Queues
      PROVE  Fits(q)'
  <2>1. queueRows[q] # "absent" => Loads(v, q)
    BY <1>1 DEF Loads, Loading
  <2>2. Loads(v, q) => Loads(todo'[Main], q)
    BY <1>2, <1>3, <1>4, LoadsAfter
  <2> QED
    BY <1>2, <2>1, <2>2 DEF OneType, Fits, Exists
<1> QED
  BY <1>5 DEF OneType

\* load_messages is preceded by get_or_create, with the type that is stored.
LEMMA MessagesLoadedFits ==
  ASSUME ConstantsOK, Typed, OneType, MessagesLoaded
  PROVE  OneType'
<1>1. PICK q \in Queues, v \in Work(Len(msgs)) :
        q = Head(todo[Main]).q /\ Answers(Main, "LoadMessages", v)
  BY MessagesLoadedWork
<1>2. /\ Main \in Tasks /\ todo[Main] # <<>> /\ up' = up
      /\ Head(todo[Main]).do = "LoadMessages"
      /\ Proceed(Main, v \o Tail(todo[Main]), Tail(dbq))
      /\ GetOrCreate(q, queueRows[q]) /\ queueRows' = queueRows
  BY <1>1, AnswersTyped DEF Answers, MessagesLoaded, database
<1>3. todo'[Main] = v \o Tail(todo[Main])
  BY <1>2, ProceedTodo
<1>4. todo[Main] \in Seq(StepUpTo(Len(msgs))) /\ v \in Seq(StepUpTo(Len(msgs)))
  BY <1>1, <1>2, Current DEF Work
<1>5. qtype \in [Queues -> QueueType \cup {"absent"}]
  BY DEF Typed, DataTypeOK
<1>6. ASSUME NEW p \in Queues, p # q
      PROVE  Fits(p)'
  <2>1. ~Loading(Head(todo[Main]), p)
    BY <1>1, <1>2, <1>6 DEF Loading
  <2>2. Loads(todo[Main], p) => Loads(todo'[Main], p)
    BY <1>2, <1>3, <1>4, <2>1, LoadsAfter
  <2>3. qtype'[p] = qtype[p]
    BY <1>2, <1>5, <1>6 DEF GetOrCreate
  <2> QED
    BY <1>2, <2>2, <2>3 DEF OneType, Fits, Exists
<1>7. Fits(q)'
  <2>1. CASE Exists(q)
    <3>1. qtype'[q] = qtype[q]
      BY <1>2, <2>1 DEF GetOrCreate
    <3> QED
      BY <1>2, <2>1, <3>1 DEF OneType, Fits, Exists
  <2>2. CASE ~Exists(q)
    <3>1. qtype'[q] = queueRows[q]
      BY <1>2, <1>5, <2>2 DEF GetOrCreate
    <3> QED
      BY <1>2, <3>1 DEF Fits, Exists
  <2> QED
    BY <2>1, <2>2
<1> QED
  BY <1>6, <1>7 DEF OneType

\* A stored queue exists with the type that is stored, or is yet to be loaded.
LEMMA OneTypeStep ==
  ASSUME ConstantsOK, Typed, Rests, Kept, Opening, OneType, [Next]_vars
  PROVE  OneType'
<1>1. CASE UNCHANGED vars
  BY <1>1, SameFits DEF vars, memory, database, control
<1>2. CASE Crash
  <2>1. up' = "down" /\ \A q \in Queues : ~Exists(q)'
    BY <1>2 DEF Crash, Exists
  <2> QED
    BY <2>1 DEF OneType, Fits
<1>3. CASE \E id \in Ids : Expire(id)
  BY <1>3, SameFits DEF Expire, memory, database, control
<1>4. CASE up = "up" /\ Clients
  <2>1. up' = up /\ todo'[Main] = todo[Main]
    BY <1>4, ClientsWait
  <2>2. ASSUME NEW c \in Conns,
               \/ Connect(c) \/ Lose(c)
               \/ \E s \in Subs : Unsubscribe(c, s)
               \/ \E id \in Ids : Ack(c, id) \/ Nack(c, id)
        PROVE  OneType'
    BY <2>1, <2>2, SameFits DEF Connect, Lose, Unsubscribe, Ack, Nack, memory, database
  <2>3. ASSUME NEW c \in Conns, NEW q \in Targets, NEW type \in QueueTypes,
               \/ \E prio \in Priorities, ttl \in Ttls : Send(c, q, type, prio, ttl)
               \/ SendExpired(c, q, type)
               \/ \E s \in Subs : Subscribe(c, s, q, type)
        PROVE  OneType'
    <3>1. GetOrCreate(q, type) /\ queueRows' = queueRows /\ q \in Queues
      BY <2>3 DEF Send, SendExpired, Subscribe, database, ConstantsOK
    <3> QED
      BY <1>4, <2>1, <3>1, CreatedFits
  <2> QED
    BY <1>4, <2>2, <2>3 DEF Clients
<1>5. CASE up = "up" /\ ((\E c \in Conns : Unregister(c)) \/ TimeoutTick \/ ExpiryTick)
  <2>1. up' = up /\ todo'[Main] = todo[Main]
    BY <1>5, ClientsWait
  <2> QED
    BY <1>5, <2>1, SameFits DEF Unregister, TimeoutTick, ExpiryTick, Tick, memory, database
<1>6. ASSUME up = "up", NEW t \in Tasks \ {Main}, Run(t) \/ Suspend(t) \/ StorageFails(t)
      PROVE  OneType'
  <2>1. up' = up /\ todo'[Main] = todo[Main]
    BY <1>6, OthersWait DEF Tasks
  <2>2. CASE QueueSaved(t)
    BY <1>6, <2>2, QueueSavedFits
  <2>3. CASE MessageSaved(t) \/ StatusUpdated(t) \/ MessageDeleted(t)
    BY SMTT(60), <2>1, <2>3, SameFits DEF MessageSaved, StatusUpdated, MessageDeleted
  <2>4. CASE Deliver(t) \/ DrainOk(t) \/ DrainFails(t) \/ Receipt(t) \/ CheckTimeouts(t)
             \/ PurgeExpired(t) \/ Suspend(t)
    BY Zenon, <2>1, <2>4, SameFits DEF Deliver, DrainOk, DrainFails, Receipt, CheckTimeouts,
                                PurgeExpired, Suspend, memory, database
  <2>5. CASE Failed(t)
    <3>1. queueRows' = queueRows
          /\ \/ qtype' = qtype
             \/ GetOrCreate(DlqOf[Head(todo[t]).q], "FIFO")
      BY <2>5 DEF Failed, Requeue, MoveToDlq, database
    <3>2. DlqOf[Head(todo[t]).q] \in Queues
      <4>1. Head(todo[t]).q \in Queues
        BY <2>5, Current DEF Failed, Doing, Idle, OfQueue, Kinds
      <4> QED
        BY <4>1 DEF ConstantsOK
    <3> QED
      BY <1>6, <2>1, <3>1, <3>2, CreatedFits, SameFits
  <2>6. CASE StorageFails(t)
    <3>1. /\ dbq # <<>> /\ t = Head(dbq) /\ qtype' = qtype
          /\ UNCHANGED database \/ Executed(Head(todo[t]))
      BY <2>6 DEF StorageFails
    <3>2. todo[t] # <<>>
      BY <3>1, FirstCall, MessagesTyped DEF Typed
    <3>3. CASE queueRows' = queueRows
      BY <2>1, <3>1, <3>3, SameFits
    <3>4. CASE Head(todo[t]).do = "SaveQueue"
               /\ queueRows' = SaveQueue(queueRows, Head(todo[t]).q, qtype[Head(todo[t]).q])
      BY <1>6, <2>1, <3>1, <3>2, <3>4, SavedFits
    <3> QED
      BY <3>1, <3>3, <3>4 DEF Executed, database
  <2> QED
    BY <1>6, <2>2, <2>3, <2>4, <2>5, <2>6 DEF Run
<1>7. CASE Start
  <2>1. up' = "restoring" /\ UNCHANGED <<qtype, queueRows>> /\ Proceed(Main, RestoreSteps, dbq)
        /\ up = "down"
    BY <1>7 DEF Start, Continue, memory, database
  <2>2. todo'[Main] = RestoreSteps
    BY <2>1, ProceedTodo DEF Tasks
  <2>3. \A q : Loads(RestoreSteps, q)
    <3>1. 2 \in 1..Len(RestoreSteps) /\ RestoreSteps[2] = OnQueue("LoadQueues", NoQueue)
      BY DEF RestoreSteps
    <3>2. RestoreSteps[2].do = "LoadQueues"
      BY <3>1 DEF OnQueue, Do
    <3> QED
      BY <3>1, <3>2 DEF Loads, Loading
  <2> QED
    BY <2>1, <2>2, <2>3 DEF OneType, Fits, Exists
<1>8. CASE InFlightReset \/ MessageDeleted(Main)
  <2>1. PICK kind \in {"ResetInFlight", "DeleteMessage"} : Answers(Main, kind, <<>>)
    BY <1>8 DEF InFlightReset, MessageDeleted
  <2>2. /\ Main \in Tasks /\ todo[Main] # <<>> /\ Head(todo[Main]).do = kind /\ up' = up
        /\ Proceed(Main, <<>> \o Tail(todo[Main]), Tail(dbq))
    BY <2>1, AnswersTyped DEF Answers
  <2>3. UNCHANGED <<qtype, queueRows>>
    BY <1>8 DEF InFlightReset, MessageDeleted
  <2>4. todo'[Main] = <<>> \o Tail(todo[Main]) /\ <<>> \in Seq(StepUpTo(Len(msgs)))
    BY <2>2, ProceedTodo
  <2> QED
    BY <2>2, <2>3, <2>4, RestoringFits
<1>9. CASE Restore
  <2>1. PICK v \in Seq(StepUpTo(Len(msgs))) : Become(Main, v)
    <3>1. Become(Main, <<>>) \/ \E d \in StepUpTo(Len(msgs)) : Become(Main, <<d>>)
      BY <1>9, RestoreWork
    <3>2. <<>> \in Seq(StepUpTo(Len(msgs)))
          /\ \A d \in StepUpTo(Len(msgs)) : <<d>> \in Seq(StepUpTo(Len(msgs)))
      OBVIOUS
    <3> QED
      BY <3>1, <3>2
  <2>2. /\ Main \in Tasks /\ todo[Main] # <<>> /\ Head(todo[Main]).do = "Restore"
        /\ up' = up /\ UNCHANGED <<qtype, queueRows>>
    BY <1>9, RestoreWork DEF database
  <2>3. todo'[Main] = v \o Tail(todo[Main])
    BY <2>1, <2>2, ProceedTodo DEF Become, Continue
  <2> QED
    BY <2>2, <2>3, RestoringFits
<1>10. CASE up # "up" /\ Serve
  <2>1. /\ up' = "up" /\ UNCHANGED <<qtype, queueRows>>
        /\ Main \in Tasks /\ todo[Main] # <<>> /\ Head(todo[Main]).do = "Serve"
    BY <1>10 DEF Serve, Doing, Idle, memory, database, Tasks
  <2>2. todo[Main] \in Seq(StepUpTo(Len(msgs)))
    BY <2>1, Current DEF Work
  <2>3. up = "restoring" /\ Restoring(todo[Main])
    BY <1>10, <2>1 DEF Opening, Rests, Idle, Typed, DataTypeOK
  <2>4. Len(todo[Main]) = 1 /\ Head(todo[Main]) = todo[Main][1]
    BY <2>1, <2>2, <2>3, RestoringEnds
  <2>5. \A q : ~Loads(todo[Main], q)
    BY <2>1, <2>4 DEF Loads, Loading
  <2> QED
    BY <2>1, <2>3, <2>5 DEF OneType, Fits, Exists
<1> QED
  BY <1>1, <1>2, <1>3, <1>4, <1>5, <1>6, <1>7, <1>8, <1>9, <1>10, Before, After,
     QueuesLoadedFits, MessagesLoadedFits DEF Restart

\* The invariants so far.
LEMMA TypesAlways == Spec => [](Typed /\ Rests /\ Kept /\ Opening /\ OnlyLive /\ OneType)
<1> USE ConstantsOK
<1>1. Init => OneType
  BY DEF Init, OneType, Fits, Exists
<1>2. Typed /\ Rests /\ Kept /\ Opening /\ OneType /\ [Next]_vars => OneType'
  BY OneTypeStep
<1> QED
  BY <1>1, <1>2, PlacesAlways, PTL DEF Spec

\* A queue is FIFO or LIFO for good: save_queue stores the type the first
\* caller gave, restore() gives it back before any client can name another, and
\* no INSERT OR IGNORE meets a row of another type.
THEOREM QueueTypeIsOne == Spec => []OneQueueType
<1>1. OneType => OneQueueType
  BY DEF OneType, Fits, OneQueueType
<1> QED
  BY <1>1, TypesAlways, PTL
-----------------------------------------------------------------------------
(* Wakeups. *)

\* The fields of a step.
LEMMA Fields ==
  ASSUME NEW kind, NEW q, NEW id, NEW att, NEW to
  PROVE  /\ Do(kind, q, id, att, to).do = kind /\ Do(kind, q, id, att, to).q = q
         /\ Do(kind, q, id, att, to).id = id
         /\ OnQueue(kind, q).do = kind /\ OnQueue(kind, q).q = q
         /\ OnMessage(kind, q, id).do = kind /\ OnMessage(kind, q, id).q = q
         /\ OnMessage(kind, q, id).id = id
BY DEF OnQueue, OnMessage, Do

\* No steps.
LEMMA NoSteps ==
  /\ <<>> \in Seq({}) /\ Len(<<>>) = 0
  /\ \A k \in 1..Len(<<>>) : FALSE
OBVIOUS

\* One step.
LEMMA OneStep ==
  ASSUME NEW a
  PROVE  <<a>> \in Seq({a}) /\ Len(<<a>>) = 1 /\ <<a>>[1] = a
OBVIOUS

\* A step that delivers from queue q, now or after the first step.
Waking(s, q) == s.do = "Deliver" /\ s.q = q
Wakes(w, q) == \E j \in 1..Len(w) : Waking(w[j], q)
WakesLater(w, q) == \E j \in 2..Len(w) : Waking(w[j], q)

\* What puts a message back is followed by a delivery from its queue, for a
\* drain past the update_status that is skipped when it fails.
Followed(w) ==
  \A k \in 1..Len(w) :
    /\ w[k].do \in {"Failed", "SetInFlight"} =>
         \E j \in 1..Len(w) : j > k /\ Waking(w[j], w[k].q)
    /\ w[k].do = "Drain" => \E j \in 1..Len(w) : j > k + 1 /\ Waking(w[j], w[k].q)

Waiting(q) == ready[q] # <<>> /\ consumers[q] # <<>>
Woken ==
  /\ \A t \in Tasks : Followed(todo[t])
  /\ \A q \in Queues : Waiting(q) => \E t \in Tasks : Wakes(todo[t], q)

\* The first steps may be replaced by steps that are followed in the rest.
LEMMA FollowedSpliced ==
  ASSUME NEW A, NEW v \in Seq(A), NEW B, NEW w \in Seq(B), w # <<>>, Followed(w),
         \A k \in 1..Len(v) :
           /\ v[k].do \in {"Failed", "SetInFlight"} =>
                \/ \E j \in 1..Len(v) : j > k /\ Waking(v[j], v[k].q)
                \/ WakesLater(w, v[k].q)
           /\ v[k].do = "Drain" => \E j \in 1..Len(v) : j > k + 1 /\ Waking(v[j], v[k].q)
  PROVE  Followed(v \o Tail(w))
<1>1. PICK u : u = v \o Tail(w)
  OBVIOUS
<1>2. /\ Len(v) \in Nat /\ Len(w) \in Nat /\ Len(w) >= 1
      /\ Len(u) = Len(v) + (Len(w) - 1)
      /\ \A k \in 1..Len(v) : u[k] = v[k]
      /\ \A k \in 2..Len(w) : u[Len(v) + (k - 1)] = w[k]
      /\ \A k \in 1..Len(u) : k > Len(v) => /\ (k - Len(v)) + 1 \in 2..Len(w)
                                            /\ u[k] = w[(k - Len(v)) + 1]
  <2>1. v \in Seq(A \cup B) /\ w \in Seq(A \cup B)
    BY SeqMonotonic
  <2> QED
    BY <1>1, <2>1, Spliced
<1>3. ASSUME NEW k \in 1..Len(v)
      PROVE  /\ u[k].do \in {"Failed", "SetInFlight"} =>
                  \E j \in 1..Len(u) : j > k /\ Waking(u[j], u[k].q)
             /\ u[k].do = "Drain" => \E j \in 1..Len(u) : j > k + 1 /\ Waking(u[j], u[k].q)
  <2>1. u[k] = v[k] /\ \A j \in 1..Len(v) : j \in 1..Len(u) /\ u[j] = v[j]
    BY SMTT(60), <1>2
  <2>2. ASSUME WakesLater(w, v[k].q)
        PROVE  \E j \in 1..Len(u) : j > k /\ Waking(u[j], v[k].q)
    <3>1. PICK i \in 2..Len(w) : Waking(w[i], v[k].q)
      BY <2>2 DEF WakesLater
    <3>2. Len(v) + (i - 1) \in 1..Len(u) /\ Len(v) + (i - 1) > k
          /\ u[Len(v) + (i - 1)] = w[i]
      BY <1>2
    <3> QED
      BY <3>1, <3>2
  <2> QED
    BY <2>1, <2>2
<1>4. ASSUME NEW k \in 1..Len(u), k > Len(v)
      PROVE  /\ u[k].do \in {"Failed", "SetInFlight"} =>
                  \E j \in 1..Len(u) : j > k /\ Waking(u[j], u[k].q)
             /\ u[k].do = "Drain" => \E j \in 1..Len(u) : j > k + 1 /\ Waking(u[j], u[k].q)
  <2>1. PICK m \in 2..Len(w) : m = (k - Len(v)) + 1 /\ u[k] = w[m]
    BY <1>2, <1>4
  <2>2. \A j \in 1..Len(w) : j > m => /\ Len(v) + (j - 1) \in 1..Len(u)
                                      /\ Len(v) + (j - 1) > k
                                      /\ j > m + 1 => Len(v) + (j - 1) > k + 1
                                      /\ u[Len(v) + (j - 1)] = w[j]
    BY <1>2, <2>1
  <2>3. m \in 1..Len(w)
    OBVIOUS
  <2>4. ASSUME w[m].do \in {"Failed", "SetInFlight"}
        PROVE  \E j \in 1..Len(u) : j > k /\ Waking(u[j], w[m].q)
    <3>1. PICK i \in 1..Len(w) : i > m /\ Waking(w[i], w[m].q)
      BY <2>3, <2>4 DEF Followed
    <3> QED
      BY <2>2, <3>1
  <2>5. ASSUME w[m].do = "Drain"
        PROVE  \E j \in 1..Len(u) : j > k + 1 /\ Waking(u[j], w[m].q)
    <3>1. PICK i \in 1..Len(w) : i > m + 1 /\ Waking(w[i], w[m].q)
      BY <2>3, <2>5 DEF Followed
    <3>2. i > m
      BY <3>1
    <3> QED
      BY <2>2, <3>1, <3>2
  <2> QED
    BY <2>1, <2>4, <2>5
<1>5. Followed(u)
  <2>1. \A k \in 1..Len(u) : k \in 1..Len(v) \/ k > Len(v)
    BY <1>2
  <2> QED
    BY <1>3, <1>4, <2>1 DEF Followed
<1> QED
  BY <1>1, <1>5

\* What is woken after the first steps were replaced.
LEMMA WakesSpliced ==
  ASSUME NEW A, NEW v \in Seq(A), NEW B, NEW w \in Seq(B), w # <<>>, NEW q
  PROVE  /\ Wakes(v, q) => Wakes(v \o Tail(w), q)
         /\ WakesLater(w, q) => Wakes(v \o Tail(w), q)
         /\ Wakes(w, q) /\ ~Waking(Head(w), q) => WakesLater(w, q)
<1>1. PICK u : u = v \o Tail(w)
  OBVIOUS
<1>2. /\ Len(v) \in Nat /\ Len(w) \in Nat /\ Len(w) >= 1 /\ Head(w) = w[1]
      /\ Len(u) = Len(v) + (Len(w) - 1)
      /\ \A k \in 1..Len(v) : u[k] = v[k]
      /\ \A k \in 2..Len(w) : u[Len(v) + (k - 1)] = w[k]
  <2>1. v \in Seq(A \cup B) /\ w \in Seq(A \cup B)
    BY SeqMonotonic
  <2> QED
    BY <1>1, <2>1, Spliced
<1>3. Wakes(v, q) => Wakes(u, q)
  <2>1. \A k \in 1..Len(v) : k \in 1..Len(u)
    BY <1>2
  <2> QED
    BY <1>2, <2>1 DEF Wakes
<1>4. WakesLater(w, q) => Wakes(u, q)
  <2>1. \A k \in 2..Len(w) : Len(v) + (k - 1) \in 1..Len(u)
    BY <1>2
  <2> QED
    BY <1>2, <2>1 DEF Wakes, WakesLater
<1>5. Wakes(w, q) /\ ~Waking(Head(w), q) => WakesLater(w, q)
  <2>1. \A k \in 1..Len(w) : k = 1 \/ k \in 2..Len(w)
    BY <1>2
  <2> QED
    BY <1>2, <2>1 DEF Wakes, WakesLater
<1> QED
  BY <1>1, <1>3, <1>4, <1>5

\* Nothing is put back, and no task takes a step.
LEMMA SameWoken ==
  ASSUME Woken, todo' = todo, \A q \in Queues : Waiting(q)' => Waiting(q)
  PROVE  Woken'
BY DEF Woken

\* A task that rested gets these steps.
LEMMA StartedWoken ==
  ASSUME Typed, Woken, NEW t \in Tasks, todo[t] = <<>>, NEW v, todo' = [todo EXCEPT ![t] = v],
         Followed(v), \A q \in Queues : Waiting(q)' => Waiting(q) \/ Wakes(v, q)
  PROVE  Woken'
<1>1. todo'[t] = v /\ \A u \in Tasks : u # t => todo'[u] = todo[u]
  BY DEF Typed, TasksOK
<1>2. \A q : ~Wakes(todo[t], q)
  BY DEF Wakes
<1>3. ASSUME NEW q \in Queues, Waiting(q)'
      PROVE  \E u \in Tasks : Wakes(todo'[u], q)
  <2>1. CASE Waiting(q)
    <3>1. PICK u \in Tasks : Wakes(todo[u], q)
      BY <2>1 DEF Woken
    <3>2. u # t
      BY <1>2, <3>1
    <3> QED
      BY <1>1, <3>1, <3>2
  <2>2. CASE Wakes(v, q)
    BY <1>1, <2>2
  <2> QED
    BY <1>3, <2>1, <2>2
<1>4. \A u \in Tasks : Followed(todo'[u])
  BY <1>1 DEF Woken
<1> QED
  BY <1>3, <1>4 DEF Woken, Waiting

\* A task replaces the step it was at.
LEMMA SplicedWoken ==
  ASSUME Typed, Woken, NEW t \in Tasks, todo[t] # <<>>, NEW A, NEW v \in Seq(A),
         todo' = [todo EXCEPT ![t] = v \o Tail(todo[t])],
         \A k \in 1..Len(v) :
           /\ v[k].do \in {"Failed", "SetInFlight"} =>
                \/ \E j \in 1..Len(v) : j > k /\ Waking(v[j], v[k].q)
                \/ WakesLater(todo[t], v[k].q)
           /\ v[k].do = "Drain" => \E j \in 1..Len(v) : j > k + 1 /\ Waking(v[j], v[k].q),
         \A q \in Queues :
           Waiting(q)' => \/ Waiting(q) /\ ~Waking(Head(todo[t]), q)
                          \/ Wakes(v, q) \/ WakesLater(todo[t], q)
  PROVE  Woken'
<1>1. todo'[t] = v \o Tail(todo[t]) /\ \A u \in Tasks : u # t => todo'[u] = todo[u]
  BY DEF Typed, TasksOK
<1>2. todo[t] \in Seq(StepUpTo(Len(msgs)))
  BY DEF Typed, TasksOK, Work
<1>3. Followed(todo[t])
  BY DEF Woken
<1>4. Followed(todo'[t])
  <2>1. Followed(v \o Tail(todo[t]))
    BY <1>2, <1>3, FollowedSpliced
  <2> QED
    BY <1>1, <2>1
<1>5. ASSUME NEW q \in Queues
      PROVE  /\ Wakes(v, q) => Wakes(todo'[t], q)
             /\ WakesLater(todo[t], q) => Wakes(todo'[t], q)
             /\ Wakes(todo[t], q) /\ ~Waking(Head(todo[t]), q) => Wakes(todo'[t], q)
  <2>1. PICK u, w : u = v \o Tail(w) /\ w = todo[t] /\ u = todo'[t]
    BY <1>1
  <2>2. w \in Seq(StepUpTo(Len(msgs))) /\ w # <<>>
    BY <1>2, <2>1
  <2>3. /\ Wakes(v, q) => Wakes(u, q)
        /\ WakesLater(w, q) => Wakes(u, q)
        /\ Wakes(w, q) /\ ~Waking(Head(w), q) => WakesLater(w, q)
    BY <2>1, <2>2, WakesSpliced
  <2> QED
    BY <2>1, <2>3
<1>6. ASSUME NEW q \in Queues, Waiting(q)'
      PROVE  \E u \in Tasks : Wakes(todo'[u], q)
  <2>1. CASE Waiting(q) /\ ~Waking(Head(todo[t]), q)
    <3>1. PICK u \in Tasks : Wakes(todo[u], q)
      BY <2>1 DEF Woken
    <3> QED
      BY <1>1, <1>5, <2>1, <3>1
  <2>2. CASE Wakes(v, q) \/ WakesLater(todo[t], q)
    BY <1>5, <2>2
  <2> QED
    BY <1>6, <2>1, <2>2
<1>7. \A u \in Tasks : Followed(todo'[u])
  BY <1>1, <1>4 DEF Woken
<1> QED
  BY <1>6, <1>7 DEF Woken, Waiting

\* Taking messages or consumers away wakes nobody.
LEMMA NothingWithout ==
  ASSUME NEW X
  PROVE  Without(<<>>, X) = <<>>
<1>1. {i \in 1..Len(<<>>) : <<>>[i] \notin X} = {}
  OBVIOUS
<1>2. Without(<<>>, X) = [i \in 1..0 |-> <<>>[Nth({}, i)]]
  BY <1>1, FS_EmptySet DEF Without
<1> QED
  BY <1>2

\* Steps of these kinds put nothing back.
LEMMA PlainFollowed ==
  ASSUME NEW v, \A k \in 1..Len(v) : v[k].do \notin {"Failed", "SetInFlight", "Drain"}
  PROVE  Followed(v)
BY DEF Followed

\* Each handler delivers from the queue it is about.
LEMMA HandlersWake ==
  ASSUME NEW q, NEW id, NEW att
  PROVE  /\ Followed(PublishSteps(q, id)) /\ Wakes(PublishSteps(q, id), q)
         /\ Followed(SubscribeSteps(q)) /\ Wakes(SubscribeSteps(q), q)
         /\ Followed(AckSteps(q, id))
         /\ Followed(NackSteps(q, id, att))
<1>1. PICK d : d = OnQueue("Deliver", q)
  OBVIOUS
<1>2. Waking(d, q) /\ d.do = "Deliver"
  BY <1>1 DEF Waking, OnQueue, Do
<1>3. Followed(PublishSteps(q, id)) /\ Wakes(PublishSteps(q, id), q)
  <2>1. PICK a, b, c : /\ PublishSteps(q, id) = <<a, b, d, c>> /\ a.do = "SaveQueue"
                       /\ b.do = "SaveMessage" /\ c.do = "Receipt"
    <3>1. OnQueue("SaveQueue", q).do = "SaveQueue" /\ OnMessage("SaveMessage", q, id).do = "SaveMessage"
          /\ OnMessage("Receipt", q, id).do = "Receipt"
      BY DEF OnQueue, OnMessage, Do
    <3> QED
      BY <1>1, <3>1 DEF PublishSteps
  <2>2. PICK w : w = <<a, b, d, c>>
    OBVIOUS
  <2>3. Len(w) = 4 /\ w[1] = a /\ w[2] = b /\ w[3] = d /\ w[4] = c
    BY <2>2
  <2>4. \A k \in 1..Len(w) : w[k].do \notin {"Failed", "SetInFlight", "Drain"}
    BY <1>2, <2>1, <2>3
  <2>5. Wakes(w, q)
    BY <1>2, <2>3 DEF Wakes
  <2> QED
    BY <2>1, <2>2, <2>4, <2>5, PlainFollowed
<1>4. Followed(SubscribeSteps(q)) /\ Wakes(SubscribeSteps(q), q)
  <2>1. PICK a : SubscribeSteps(q) = <<a, d>> /\ a.do = "SaveQueue"
    <3>1. OnQueue("SaveQueue", q).do = "SaveQueue"
      BY DEF OnQueue, Do
    <3> QED
      BY <1>1, <3>1 DEF SubscribeSteps
  <2>2. \A k \in 1..Len(<<a, d>>) : <<a, d>>[k].do \notin {"Failed", "SetInFlight", "Drain"}
    BY <1>2, <2>1
  <2>3. Wakes(<<a, d>>, q)
    BY <1>2 DEF Wakes
  <2> QED
    BY <2>1, <2>2, <2>3, PlainFollowed
<1>5. Followed(AckSteps(q, id))
  <2>1. PICK a : AckSteps(q, id) = <<a, d>> /\ a.do = "DeleteMessage"
    <3>1. OnMessage("DeleteMessage", q, id).do = "DeleteMessage"
      BY DEF OnMessage, Do
    <3> QED
      BY <1>1, <3>1 DEF AckSteps
  <2>2. \A k \in 1..Len(<<a, d>>) : <<a, d>>[k].do \notin {"Failed", "SetInFlight", "Drain"}
    BY <1>2, <2>1
  <2> QED
    BY <2>1, <2>2, PlainFollowed
<1>6. Followed(NackSteps(q, id, att))
  <2>1. PICK a : NackSteps(q, id, att) = <<a, d>> /\ a.do = "Failed" /\ a.q = q
    <3>1. Do("Failed", q, id, att, NoConsumer).do = "Failed" /\ Do("Failed", q, id, att, NoConsumer).q = q
      BY DEF Do
    <3> QED
      BY <1>1, <3>1 DEF NackSteps
  <2>2. PICK w : w = <<a, d>>
    OBVIOUS
  <2>3. Len(w) = 2 /\ w[1] = a /\ w[2] = d
    BY <2>2
  <2>4. w[1].do # "Drain" /\ w[2].do \notin {"Failed", "SetInFlight", "Drain"}
        /\ Waking(w[2], w[1].q)
    BY <1>2, <2>1, <2>3
  <2>5. Followed(w)
    BY <2>3, <2>4 DEF Followed
  <2> QED
    BY <2>1, <2>2, <2>5
<1> QED
  BY <1>3, <1>4, <1>5, <1>6

\* Clients: a SEND or a SUBSCRIBE that brings a message and a consumer together
\* delivers from the queue.
LEMMA ClientsWoken ==
  ASSUME ConstantsOK, Typed, Woken, Clients
  PROVE  Woken'
<1>1. ASSUME NEW c \in Conns, Connect(c) \/ Lose(c)
      PROVE  Woken'
  BY <1>1, SameWoken DEF Connect, Lose, control, memory, Waiting
<1>2. ASSUME NEW c \in Conns, NEW q \in Targets, NEW type \in QueueTypes, NEW prio, NEW ttl,
             Send(c, q, type, prio, ttl)
      PROVE  Woken'
  <2>1. /\ c \in Tasks /\ todo[c] = <<>> /\ todo' = [todo EXCEPT ![c] = PublishSteps(q, NewId)]
        /\ consumers' = consumers /\ \A p \in Queues : p # q => ready'[p] = ready[p]
    BY <1>2 DEF Send, Frame, Idle, Continue, Proceed, Tasks, Enqueue, Typed, DataTypeOK
  <2>2. PICK v : v = PublishSteps(q, NewId)
    OBVIOUS
  <2>3. Followed(v) /\ Wakes(v, q)
    BY <2>2, HandlersWake
  <2>4. \A p \in Queues : Waiting(p)' => Waiting(p) \/ Wakes(v, p)
    BY <2>1, <2>3 DEF Waiting
  <2> QED
    BY <2>1, <2>2, <2>3, <2>4, StartedWoken
<1>3. ASSUME NEW c \in Conns, NEW q, NEW type, SendExpired(c, q, type)
      PROVE  Woken'
  BY <1>3, SameWoken DEF SendExpired, control, Waiting
<1>4. ASSUME NEW c \in Conns, NEW s \in Subs, NEW q \in Targets, NEW type \in QueueTypes,
             Subscribe(c, s, q, type)
      PROVE  Woken'
  <2>1. /\ c \in Tasks /\ todo[c] = <<>> /\ todo' = [todo EXCEPT ![c] = SubscribeSteps(q)]
        /\ ready' = ready /\ \A p \in Queues : p # q => consumers'[p] = consumers[p]
    BY <1>4 DEF Subscribe, Frame, Idle, Continue, Proceed, Tasks, Typed, DataTypeOK
  <2>2. \A p \in Queues : Waiting(p)' => Waiting(p) \/ Wakes(SubscribeSteps(q), p)
    BY <2>1, HandlersWake DEF Waiting
  <2> QED
    BY <2>1, <2>2, HandlersWake, StartedWoken
<1>5. ASSUME NEW c \in Conns, NEW s \in Subs, Unsubscribe(c, s)
      PROVE  Woken'
  <2>1. ready' = ready /\ todo' = todo
        /\ consumers' = [consumers EXCEPT ![subs[c][s]] = Without(@, {<<c, s>>})]
    BY <1>5 DEF Unsubscribe, control, RemoveConsumer
  <2>2. \A q \in Queues : consumers[q] = <<>> => consumers'[q] = <<>>
    BY <2>1, NothingWithout DEF Typed, DataTypeOK
  <2> QED
    BY <2>1, <2>2, SameWoken DEF Waiting
<1>6. ASSUME NEW c \in Conns, NEW id \in Ids, Ack(c, id) \/ Nack(c, id)
      PROVE  Woken'
  <2>1. c \in Tasks /\ todo[c] = <<>> /\ UNCHANGED <<ready, consumers>>
    BY <1>6 DEF Ack, Nack, Frame, Idle, Tasks
  <2>2. \/ todo' = todo
        \/ todo' = [todo EXCEPT ![c] = AckSteps(msgs[id].queue, id)]
        \/ todo' = [todo EXCEPT ![c] = NackSteps(msgs[id].queue, id, inflight[id])]
    BY <1>6 DEF Ack, Nack, Continue, Proceed, control
  <2>3. \A q \in Queues : Waiting(q)' => Waiting(q)
    BY <2>1 DEF Waiting
  <2>4. CASE todo' = todo
    BY <2>3, <2>4, SameWoken
  <2>5. CASE todo' = [todo EXCEPT ![c] = AckSteps(msgs[id].queue, id)]
    BY <2>1, <2>3, <2>5, HandlersWake, StartedWoken
  <2>6. CASE todo' = [todo EXCEPT ![c] = NackSteps(msgs[id].queue, id, inflight[id])]
    BY <2>1, <2>3, <2>6, HandlersWake, StartedWoken
  <2> QED
    BY <2>2, <2>4, <2>5, <2>6
<1> QED
  BY <1>1, <1>2, <1>3, <1>4, <1>5, <1>6 DEF Clients

\* A connection that ends takes consumers away; the loops start scans.
LEMMA LoopsWoken ==
  ASSUME ConstantsOK, Typed, Woken,
         \/ \E c \in Conns : Unregister(c)
         \/ TimeoutTick \/ ExpiryTick \/ \E id \in Ids : Expire(id)
  PROVE  Woken'
<1>1. ASSUME NEW c \in Conns, Unregister(c)
      PROVE  Woken'
  <2>1. UNCHANGED <<ready, todo>>
        /\ consumers' = [q \in Queues |-> Without(consumers[q], {c} \X Subs)]
    BY <1>1 DEF Unregister, control, RemoveConnection
  <2>2. \A q \in Queues : consumers[q] = <<>> => consumers'[q] = <<>>
    BY <2>1, NothingWithout
  <2> QED
    BY <2>1, <2>2, SameWoken DEF Waiting
<1>2. ASSUME NEW t \in Tasks, NEW kind \in {"CheckTimeouts", "PurgeExpired"}, Tick(t, kind)
      PROVE  Woken'
  <2>1. PICK v : v = [i \in 1..Len(created) |-> OnQueue(kind, created[i])]
    OBVIOUS
  <2>2. todo[t] = <<>> /\ todo' = [todo EXCEPT ![t] = v] /\ UNCHANGED <<ready, consumers>>
    BY <1>2, <2>1 DEF Tick, Idle, Continue, Proceed, memory
  <2>3. \A k \in 1..Len(v) : v[k].do \notin {"Failed", "SetInFlight", "Drain"}
    <3>1. Len(created) \in Nat
      BY DEF Typed, DataTypeOK
    <3>2. Len(v) = Len(created)
      BY <2>1, <3>1
    <3>3. \A k \in 1..Len(created) : v[k] = OnQueue(kind, created[k])
      BY <2>1
    <3>4. ASSUME NEW k \in 1..Len(created)
          PROVE  v[k].do = kind
      <4>1. v[k] = OnQueue(kind, created[k])
        BY <3>3
      <4> QED
        BY <4>1 DEF OnQueue, Do
    <3> QED
      BY <3>2, <3>4
  <2> QED
    BY <2>2, <2>3, PlainFollowed, StartedWoken DEF Waiting
<1>3. ASSUME NEW id \in Ids, Expire(id)
      PROVE  Woken'
  BY <1>3, SameWoken DEF Expire, control, memory, Waiting
<1> QED
  BY <1>1, <1>2, <1>3 DEF TimeoutTick, ExpiryTick, Tasks

\* A step that only goes on puts nothing back.
LEMMA PlainWoken ==
  ASSUME Typed, Woken, NEW t \in Tasks, todo[t] # <<>>, Head(todo[t]).do # "Deliver",
         NEW A, NEW v \in Seq(A),
         \A k \in 1..Len(v) : v[k].do \notin {"Failed", "SetInFlight", "Drain"},
         todo' = [todo EXCEPT ![t] = v \o Tail(todo[t])],
         \A q \in Queues : Waiting(q)' => Waiting(q) \/ Wakes(v, q)
  PROVE  Woken'
<1>1. \A q : ~Waking(Head(todo[t]), q)
  BY DEF Waking
<1> QED
  BY <1>1, SplicedWoken

\* The steps of a call are followed by a delivery, so are its answers.
LEMMA AnswersWoken ==
  ASSUME ConstantsOK, Typed, Woken, NEW t, NEW kind \in Calls, NEW A, NEW v \in Seq(A),
         Answers(t, kind, v), ready' = ready,
         \A k \in 1..Len(v) : v[k].do \notin {"Failed", "SetInFlight", "Drain"}
  PROVE  Woken'
<1>1. t \in Tasks /\ todo[t] # <<>> /\ Head(todo[t]).do = kind /\ consumers' = consumers
  BY AnswersTyped
<1>2. todo' = [todo EXCEPT ![t] = v \o Tail(todo[t])]
  BY DEF Answers, Proceed
<1>3. kind # "Deliver"
  BY DEF Calls
<1> QED
  BY <1>1, <1>2, <1>3, PlainWoken DEF Waiting

\* Storage calls.
LEMMA StoredWoken ==
  ASSUME ConstantsOK, Typed, Woken, NEW t \in Tasks,
         QueueSaved(t) \/ MessageSaved(t) \/ StatusUpdated(t) \/ MessageDeleted(t)
         \/ InFlightReset \/ QueuesLoaded \/ MessagesLoaded
  PROVE  Woken'
<1>1. <<>> \in Seq({}) /\ \A k \in 1..Len(<<>>) : <<>>[k].do \notin {"Failed", "SetInFlight", "Drain"}
  OBVIOUS
<1>2. {"SaveQueue", "SaveMessage", "SetReady", "SetInFlight", "DeleteMessage", "ResetInFlight",
       "LoadQueues", "LoadMessages"} = Calls
  BY DEF Calls
<1>3. CASE QueueSaved(t) \/ MessageSaved(t) \/ StatusUpdated(t) \/ MessageDeleted(t)
           \/ InFlightReset
  <2>1. \E u, kind : kind \in Calls /\ Answers(u, kind, <<>>) /\ ready' = ready
    BY <1>2, <1>3 DEF QueueSaved, MessageSaved, StatusUpdated, MessageDeleted, InFlightReset
  <2> QED
    BY <1>1, <2>1, AnswersWoken
<1>4. CASE QueuesLoaded
  <2>1. PICK v \in Work(Len(msgs)) : /\ Answers(Main, "LoadQueues", v)
                                     /\ \A k \in 1..Len(v) : v[k].do = "LoadMessages"
    BY <1>4, QueuesLoadedWork
  <2>2. v \in Seq(StepUpTo(Len(msgs))) /\ ready' = ready
    BY <1>4, <2>1 DEF Work, QueuesLoaded
  <2> QED
    BY <1>2, <2>1, <2>2, AnswersWoken
<1>5. CASE MessagesLoaded
  <2>1. PICK v \in Work(Len(msgs)) : /\ Answers(Main, "LoadMessages", v)
                                     /\ \A k \in 1..Len(v) : v[k].do = "Restore"
    BY <1>5, MessagesLoadedWork
  <2>2. v \in Seq(StepUpTo(Len(msgs))) /\ ready' = ready
    BY <1>5, <2>1 DEF Work, MessagesLoaded
  <2> QED
    BY <1>2, <2>1, <2>2, AnswersWoken
<1> QED
  BY <1>3, <1>4, <1>5

\* A delivery is a drain, if there is one to wait for, update_status and the next
\* turn of the loop.
LEMMA DispatchShape ==
  ASSUME NEW q, NEW id, NEW att, NEW to
  PROVE  \E a, b, d : /\ a.do = "Drain" /\ a.q = q /\ b.do = "SetInFlight" /\ b.q = q
                      /\ d.do = "Deliver" /\ d.q = q /\ a.id = id /\ b.id = id
                      /\ \/ DispatchSteps(q, id, att, to) = <<a, b, d>>
                         \/ DispatchSteps(q, id, att, to) = <<b, d>>
<1>1. PICK d : d = OnQueue("Deliver", q) /\ d.do = "Deliver" /\ d.q = q
  BY Fields
<1>2. PICK a : a = Do("Drain", q, id, att, to) /\ a.do = "Drain" /\ a.q = q /\ a.id = id
  BY Fields
<1>3. PICK b : b = Do("SetInFlight", q, id, att, to) /\ b.do = "SetInFlight" /\ b.q = q /\ b.id = id
  BY Fields
<1>4. PICK v : v = <<b, d>>
  OBVIOUS
<1>5. DispatchSteps(q, id, att, to) =
        (IF to[1] \in Slow \/ link[to[1]] # "open" THEN <<a>> ELSE <<>>) \o v
  BY <1>1, <1>2, <1>3, <1>4 DEF DispatchSteps
<1>6. <<>> \o v = v
  <2>1. v \in Seq({b, d})
    BY <1>4
  <2> QED
    BY <2>1, ConcatEmptySeq
<1>7. <<a>> \o v = <<a, b, d>>
  <2>1. PICK S : S = {a, b, d}
    OBVIOUS
  <2>2. <<a>> \in Seq(S) /\ v \in Seq(S) /\ <<a, b, d>> \in Seq(S)
        /\ Len(<<a>>) = 1 /\ Len(v) = 2 /\ Len(<<a, b, d>>) = 3
    BY <1>4, <2>1
  <2>3. PICK u : u = <<a>> \o v
    OBVIOUS
  <2>4. /\ u \in Seq(S) /\ Len(u) = 3
        /\ \A i \in 1..3 : u[i] = IF i <= 1 THEN <<a>>[i] ELSE v[i - 1]
    BY SMTT(60), <2>2, <2>3, ConcatProperties
  <2>5. u[1] = a /\ u[2] = b /\ u[3] = d
    BY <1>4, <2>4
  <2>6. u = <<a, b, d>>
    BY <2>2, <2>4, <2>5
  <2> QED
    BY <2>3, <2>6
<1>8. DispatchSteps(q, id, att, to) = <<a>> \o v \/ DispatchSteps(q, id, att, to) = <<>> \o v
  BY <1>5
<1> QED
  BY <1>1, <1>2, <1>3, <1>4, <1>6, <1>7, <1>8

\* The loop of _deliver_from_queue ends only when it finds no message or no
\* consumer; else it goes on after this message.
LEMMA DeliverWoken ==
  ASSUME ConstantsOK, Typed, Woken, NEW t \in Tasks, Deliver(t)
  PROVE  Woken'
<1>1. PICK q, id, att, to :
        /\ q = Head(todo[t]).q /\ consumers' = consumers
        /\ \/ (ready[q] = <<>> \/ consumers[q] = <<>>) /\ Become(t, <<>>) /\ ready' = ready
           \/ /\ ready' = [ready EXCEPT ![q] = Tail(@)] /\ ready[q] # <<>>
              /\ consumers[q] # <<>>
              /\ \/ Become(t, <<OnMessage("DeleteMessage", q, id), OnQueue("Deliver", q)>>)
                 \/ Become(t, DispatchSteps(q, id, att, to))
  BY ZenonT(60) DEF Deliver
<1>2. todo[t] # <<>> /\ Head(todo[t]).do = "Deliver" /\ q \in Queues
  BY Zenon, <1>1, Current DEF Deliver, Doing, Idle, OfQueue, Kinds
<1>3. \A p : ~Waking(Head(todo[t]), p) <=> p # q
  BY <1>1, <1>2 DEF Waking
<1>4. CASE (ready[q] = <<>> \/ consumers[q] = <<>>) /\ Become(t, <<>>) /\ ready' = ready
  <2>1. todo' = [todo EXCEPT ![t] = <<>> \o Tail(todo[t])]
    BY <1>4 DEF Become, Continue, Proceed
  <2>2. \A p \in Queues : Waiting(p)' => Waiting(p) /\ ~Waking(Head(todo[t]), p)
    BY <1>1, <1>3, <1>4 DEF Waiting
  <2>3. PICK v : v = <<>>
    OBVIOUS
  <2>4. v \in Seq({}) /\ \A k \in 1..Len(v) : FALSE
    BY <2>3, NoSteps
  <2>5. todo' = [todo EXCEPT ![t] = v \o Tail(todo[t])]
    BY <2>1, <2>3
  <2> QED
    BY <1>2, <2>2, <2>4, <2>5, SplicedWoken
<1>5. ASSUME NEW A, NEW v \in Seq(A), Become(t, v), Wakes(v, q),
             ready' = [ready EXCEPT ![q] = Tail(@)], ready[q] # <<>>, consumers[q] # <<>>,
             \A k \in 1..Len(v) :
               /\ v[k].do \in {"Failed", "SetInFlight"} =>
                    \E j \in 1..Len(v) : j > k /\ Waking(v[j], v[k].q)
               /\ v[k].do = "Drain" => \E j \in 1..Len(v) : j > k + 1 /\ Waking(v[j], v[k].q)
      PROVE  Woken'
  <2>1. todo' = [todo EXCEPT ![t] = v \o Tail(todo[t])]
    BY <1>5 DEF Become, Continue, Proceed
  <2>2. \A p \in Queues : p # q => ready'[p] = ready[p]
    BY <1>5 DEF Typed, DataTypeOK
  <2>3. \A p \in Queues : Waiting(p)' => \/ Waiting(p) /\ ~Waking(Head(todo[t]), p)
                                         \/ Wakes(v, p)
    BY <1>1, <1>3, <1>5, <2>2 DEF Waiting
  <2> QED
    BY <1>2, <1>5, <2>1, <2>3, SplicedWoken
<1>6. PICK d : d = OnQueue("Deliver", q) /\ Waking(d, q) /\ d.do = "Deliver"
  BY Fields DEF Waking
<1>7. CASE /\ ready' = [ready EXCEPT ![q] = Tail(@)] /\ ready[q] # <<>> /\ consumers[q] # <<>>
           /\ Become(t, <<OnMessage("DeleteMessage", q, id), OnQueue("Deliver", q)>>)
  <2>1. PICK a : a = OnMessage("DeleteMessage", q, id) /\ a.do = "DeleteMessage"
    BY Fields
  <2>2. PICK v : v = <<a, d>>
    OBVIOUS
  <2>3. v \in Seq({a, d}) /\ Len(v) = 2 /\ v[1] = a /\ v[2] = d
    BY <2>2
  <2>4. Wakes(v, q)
    BY <1>6, <2>3 DEF Wakes
  <2>5. \A k \in 1..Len(v) : v[k].do \notin {"Failed", "SetInFlight", "Drain"}
    BY <1>6, <2>1, <2>3
  <2>6. Become(t, v)
    BY <1>6, <1>7, <2>1, <2>2
  <2> QED
    BY <1>5, <1>7, <2>3, <2>4, <2>5, <2>6
<1>8. CASE /\ ready' = [ready EXCEPT ![q] = Tail(@)] /\ ready[q] # <<>> /\ consumers[q] # <<>>
           /\ Become(t, DispatchSteps(q, id, att, to))
  <2>1. PICK a, b, e : /\ a.do = "Drain" /\ a.q = q /\ b.do = "SetInFlight" /\ b.q = q
                       /\ e.do = "Deliver" /\ e.q = q
                       /\ \/ DispatchSteps(q, id, att, to) = <<a, b, e>>
                          \/ DispatchSteps(q, id, att, to) = <<b, e>>
    BY DispatchShape
  <2>2. Waking(e, q)
    BY <2>1 DEF Waking
  <2>4. CASE DispatchSteps(q, id, att, to) = <<a, b, e>>
    <3>1. PICK v : v = <<a, b, e>>
      OBVIOUS
    <3>2. v \in Seq({a, b, e}) /\ Len(v) = 3 /\ v[1] = a /\ v[2] = b /\ v[3] = e
      BY <3>1
    <3>3. 3 \in 1..Len(v) /\ Waking(v[3], q)
      BY <2>2, <3>2
    <3>4. Wakes(v, q)
      BY <3>3 DEF Wakes
    <3>5. ASSUME NEW k \in 1..Len(v)
          PROVE  /\ v[k].do \in {"Failed", "SetInFlight"} =>
                      \E j \in 1..Len(v) : j > k /\ Waking(v[j], v[k].q)
                 /\ v[k].do = "Drain" => \E j \in 1..Len(v) : j > k + 1 /\ Waking(v[j], v[k].q)
      <4>1. k = 1 \/ k = 2 \/ k = 3
        BY <3>2
      <4>2. v[1].do = "Drain" /\ v[1].q = q /\ v[2].do = "SetInFlight" /\ v[2].q = q
            /\ v[3].do = "Deliver"
        BY <2>1, <3>2
      <4> QED
        BY <3>3, <4>1, <4>2
    <3> QED
      BY <1>5, <1>8, <2>4, <3>1, <3>2, <3>4, <3>5
  <2>5. CASE DispatchSteps(q, id, att, to) = <<b, e>>
    <3>1. PICK v : v = <<b, e>>
      OBVIOUS
    <3>2. v \in Seq({b, e}) /\ Len(v) = 2 /\ v[1] = b /\ v[2] = e
      BY <3>1
    <3>3. 2 \in 1..Len(v) /\ Waking(v[2], q)
      BY <2>2, <3>2
    <3>4. Wakes(v, q)
      BY <3>3 DEF Wakes
    <3>5. ASSUME NEW k \in 1..Len(v)
          PROVE  /\ v[k].do \in {"Failed", "SetInFlight"} =>
                      \E j \in 1..Len(v) : j > k /\ Waking(v[j], v[k].q)
                 /\ v[k].do # "Drain"
      <4>1. k = 1 \/ k = 2
        BY <3>2
      <4>2. v[1].do = "SetInFlight" /\ v[1].q = q /\ v[2].do = "Deliver"
        BY <2>1, <3>2
      <4> QED
        BY <3>3, <4>1, <4>2
    <3> QED
      BY <1>5, <1>8, <2>5, <3>1, <3>2, <3>4, <3>5
  <2> QED
    BY <2>1, <2>4, <2>5
<1> QED
  BY SMTT(60), <1>1, <1>4, <1>7, <1>8

\* A drain that returns goes on; one that fails fails the message, whose queue
\* the same task goes on to deliver from.
LEMMA DrainWoken ==
  ASSUME ConstantsOK, Typed, Kept, Woken, NEW t \in Tasks,
         Suspend(t) \/ DrainOk(t) \/ DrainFails(t)
  PROVE  Woken'
<1>1. CASE Suspend(t)
  BY <1>1, SameWoken DEF Suspend, memory, Waiting
<1>2. CASE DrainOk(t)
  <2>1. /\ todo[t] # <<>> /\ Head(todo[t]).do = "Drain" /\ UNCHANGED <<ready, consumers>>
        /\ todo' = [todo EXCEPT ![t] = <<>> \o Tail(todo[t])]
    BY <1>2 DEF DrainOk, AtDrain, Idle, Become, Continue, Proceed, memory
  <2>2. PICK v : v = <<>>
    OBVIOUS
  <2>3. v \in Seq({}) /\ \A k \in 1..Len(v) : FALSE
    BY <2>2, NoSteps
  <2>4. todo' = [todo EXCEPT ![t] = v \o Tail(todo[t])]
    BY <2>1, <2>2
  <2>5. \A q \in Queues : Waiting(q)' => Waiting(q)
    BY <2>1 DEF Waiting
  <2> QED
    BY <2>1, <2>3, <2>4, <2>5, PlainWoken
<1>3. CASE DrainFails(t)
  <2>1. PICK s : s = Head(todo[t])
    OBVIOUS
  <2>2. PICK f : f = Do("Failed", s.q, s.id, s.att, NoConsumer) /\ f.do = "Failed" /\ f.q = s.q
    BY Fields
  <2>3. PICK w : w = todo[t]
    BY SMTT(60)
  <2>4. /\ w # <<>> /\ s.do = "Drain" /\ ready' = ready
        /\ todo' = [todo EXCEPT ![t] = <<f>> \o Tail(Tail(w))]
        /\ consumers' = [consumers EXCEPT ![s.q] = Without(@, {s.to})]
    BY <1>3, <2>1, <2>2, <2>3 DEF DrainFails, AtDrain, Idle, GiveUp, Proceed, RemoveConsumer
  <2>5. w \in Work(Len(msgs)) /\ w \in Seq(StepUpTo(Len(msgs))) /\ s = w[1]
    BY <2>1, <2>3, <2>4, Current, HeadTailProperties DEF Work
  <2>6. PICK x : x = Tail(w)
    OBVIOUS
  <2>7. /\ x # <<>> /\ x \in Seq(StepUpTo(Len(msgs))) /\ Head(x).do = "SetInFlight"
        /\ Len(w) \in Nat /\ Len(w) >= 1 /\ Len(x) = Len(w) - 1
        /\ \A k \in 1..Len(x) : x[k] = w[k + 1]
    <3>1. Backed(w, Facts)
      BY <2>3 DEF Kept, AllBacked
    <3>2. Len(msgs) \in Nat /\ Head(w).do = "Drain"
      BY <2>1, <2>3, <2>4, MessagesTyped
    <3>3. x # <<>> /\ Head(x).do = "SetInFlight"
      BY <2>4, <2>5, <2>6, <3>1, <3>2, AfterDrain
    <3> QED
      BY <2>4, <2>5, <2>6, <3>3, HeadTailProperties, LenProperties, EmptySeq
  <2>8. <<f>> \in Seq({f}) /\ Len(<<f>>) = 1 /\ <<f>>[1] = f
    OBVIOUS
  <2>9. Followed(w) /\ Followed(x)
    <3>1. Followed(w)
      BY <2>3 DEF Woken
    <3>2. PICK v : v = <<>> /\ v \o Tail(w) = x
      BY Zenon, <2>6, <2>7, ConcatEmptySeq
    <3>3. v \in Seq({}) /\ \A k \in 1..Len(v) : FALSE
      BY <3>2, NoSteps
    <3>4. Followed(v \o Tail(w))
      BY <2>4, <2>5, <3>1, <3>3, FollowedSpliced
    <3> QED
      BY Zenon, <3>1, <3>2, <3>4
  <2>10. WakesLater(x, s.q)
    <3>1. 1 \in 1..Len(w) /\ w[1].do = "Drain"
      BY <2>4, <2>5, <2>7
    <3>2. PICK j \in 1..Len(w) : j > 1 + 1 /\ Waking(w[j], s.q)
      BY <2>5, <2>9, <3>1 DEF Followed
    <3>3. j - 1 \in 2..Len(x) /\ x[j - 1] = w[(j - 1) + 1] /\ (j - 1) + 1 = j
      BY <2>7, <3>2
    <3> QED
      BY <3>2, <3>3 DEF WakesLater
  <2>11. PICK u : u = <<f>> \o Tail(x)
    OBVIOUS
  <2>12. Followed(u)
    <3>1. \A k \in 1..Len(<<f>>) : <<f>>[k] = f
      BY <2>8
    <3>2. Followed(<<f>> \o Tail(x))
      BY <2>2, <2>7, <2>8, <2>9, <2>10, <3>1, FollowedSpliced
    <3> QED
      BY <2>11, <3>2
  <2>13. todo'[t] = u /\ \A v \in Tasks : v # t => todo'[v] = todo[v]
    BY <2>4, <2>6, <2>11 DEF Typed, TasksOK
  <2>14. ASSUME NEW q \in Queues, Wakes(w, q)
         PROVE  Wakes(u, q)
    <3>1. PICK j \in 1..Len(w) : Waking(w[j], q)
      BY <2>14 DEF Wakes
    <3>2. j # 1
      BY <2>4, <2>5, <3>1 DEF Waking
    <3>3. j - 1 \in 1..Len(x) /\ x[j - 1] = w[(j - 1) + 1] /\ (j - 1) + 1 = j
      BY <2>7, <3>2
    <3>4. Wakes(x, q)
      BY <3>1, <3>3 DEF Wakes
    <3>5. ~Waking(Head(x), q)
      BY <2>7 DEF Waking
    <3>6. WakesLater(x, q)
      BY <2>7, <2>8, <3>4, <3>5, WakesSpliced
    <3>7. Wakes(<<f>> \o Tail(x), q)
      BY <2>7, <2>8, <3>6, WakesSpliced
    <3> QED
      BY <2>11, <3>7
  <2>15. \A q \in Queues : consumers[q] = <<>> => consumers'[q] = <<>>
    BY <2>4, NothingWithout DEF Typed, DataTypeOK
  <2>16. \A q \in Queues : Waiting(q)' => Waiting(q)
    BY <2>4, <2>15 DEF Waiting
  <2>17. \A v \in Tasks : Followed(todo'[v])
    BY <2>12, <2>13 DEF Woken
  <2>18. ASSUME NEW q \in Queues, Waiting(q)'
         PROVE  \E v \in Tasks : Wakes(todo'[v], q)
    <3>1. PICK v \in Tasks : Wakes(todo[v], q)
      BY <2>16, <2>18 DEF Woken
    <3> QED
      BY <2>3, <2>13, <2>14, <3>1
  <2> QED
    BY <2>17, <2>18 DEF Woken, Waiting
<1> QED
  BY <1>1, <1>2, <1>3

\* A failed delivery puts a message in its queue, which the same task goes on to
\* deliver from, or a copy in the dead letter queue, which it delivers from.
LEMMA FailedWoken ==
  ASSUME ConstantsOK, Typed, Woken, NEW t \in Tasks, Failed(t)
  PROVE  Woken'
<1>1. /\ todo[t] # <<>> /\ Head(todo[t]).do = "Failed" /\ consumers' = consumers
      /\ \/ MoveToDlq(t, Head(todo[t]).q, Head(todo[t]).id)
         \/ Requeue(t, Head(todo[t]).q, Head(todo[t]).id)
  BY DEF Failed, Doing, Idle
<1>2. PICK id : id = Head(todo[t]).id
  OBVIOUS
<1>3. PICK q \in Queues : q = Head(todo[t]).q /\ id = Head(todo[t]).id
  BY <1>2, <1>1, Current DEF OfQueue, Kinds
<1>4. ready \in [Queues -> Seq(Ids)]
  BY DEF Typed, DataTypeOK
<1>5. CASE Requeue(t, q, id)
  <2>1. PICK a : a = OnMessage("SetReady", q, id) /\ a.do = "SetReady"
    BY Fields
  <2>2. PICK v : v = <<a>> /\ v \in Seq({a}) /\ Len(v) = 1 /\ v[1] = a
    BY OneStep
  <2>3. todo' = [todo EXCEPT ![t] = v \o Tail(todo[t])]
    BY <1>5, <2>1, <2>2 DEF Requeue, RequeueSteps, Become, Continue, Proceed
  <2>4. \A p \in Queues : p # q => ready'[p] = ready[p]
    BY <1>4, <1>5 DEF Requeue, Enqueue
  <2>5. WakesLater(todo[t], q)
    <3>1. PICK w : w = todo[t]
      OBVIOUS
    <3>2. w \in Seq(StepUpTo(Len(msgs))) /\ w # <<>> /\ Followed(w)
      BY <1>1, <3>1, Current DEF Work, Woken
    <3>3. 1 \in 1..Len(w) /\ Len(w) \in Nat /\ Head(w) = w[1]
      BY <3>2, HeadTailProperties, LenProperties, EmptySeq
    <3>4. PICK j \in 1..Len(w) : j > 1 /\ Waking(w[j], q)
      BY <1>1, <1>3, <3>1, <3>2, <3>3 DEF Followed
    <3> QED
      BY <3>1, <3>3, <3>4 DEF WakesLater
  <2>6. \A p \in Queues : Waiting(p)' => Waiting(p) \/ p = q
    BY <1>1, <2>4 DEF Waiting
  <2>7. \A p : ~Waking(Head(todo[t]), p)
    BY <1>1 DEF Waking
  <2>8. \A k \in 1..Len(v) : v[k].do \notin {"Failed", "SetInFlight", "Drain"}
    BY <2>1, <2>2
  <2> QED
    BY <1>1, <2>2, <2>3, <2>5, <2>6, <2>7, <2>8, SplicedWoken
<1>6. CASE MoveToDlq(t, q, id)
  <2>1. PICK dlq \in Queues : dlq = DlqOf[q]
    BY DEF ConstantsOK
  <2>2. PICK a, b, c, d : /\ DlqSteps(q, id, dlq, NewId) = <<a, b, c, d>>
                          /\ a.do = "SaveQueue" /\ b.do = "DeleteMessage" /\ c.do = "SaveMessage"
                          /\ Waking(d, dlq) /\ d.do = "Deliver"
    <3>1. PICK a : a = OnQueue("SaveQueue", dlq) /\ a.do = "SaveQueue"
      BY Fields
    <3>2. PICK b : b = OnMessage("DeleteMessage", q, id) /\ b.do = "DeleteMessage"
      BY Fields
    <3>3. PICK c : c = OnMessage("SaveMessage", dlq, NewId) /\ c.do = "SaveMessage"
      BY Fields
    <3>4. PICK d : d = OnQueue("Deliver", dlq) /\ d.do = "Deliver" /\ d.q = dlq
      BY Fields
    <3>5. DlqSteps(q, id, dlq, NewId) = <<a, b, c, d>>
      BY <3>1, <3>2, <3>3, <3>4 DEF DlqSteps
    <3> QED
      BY <3>1, <3>2, <3>3, <3>4, <3>5 DEF Waking
  <2>3. PICK v : v = <<a, b, c, d>>
    OBVIOUS
  <2>4. v \in Seq({a, b, c, d}) /\ Len(v) = 4 /\ v[1] = a /\ v[2] = b /\ v[3] = c /\ v[4] = d
    BY <2>3
  <2>5. todo' = [todo EXCEPT ![t] = v \o Tail(todo[t])]
    BY <1>6, <2>1, <2>2, <2>3 DEF MoveToDlq, Become, Continue, Proceed
  <2>6. \A p \in Queues : p # dlq => ready'[p] = ready[p]
    BY <1>4, <1>6, <2>1 DEF MoveToDlq, Enqueue
  <2>7. \A k \in 1..Len(v) : v[k].do \notin {"Failed", "SetInFlight", "Drain"}
    BY <2>2, <2>4
  <2>8. Wakes(v, dlq)
    BY <2>2, <2>4 DEF Wakes
  <2>9. \A p \in Queues : Waiting(p)' => Waiting(p) \/ Wakes(v, p)
    BY <1>1, <2>6, <2>8 DEF Waiting
  <2> QED
    BY <1>1, <2>4, <2>5, <2>7, <2>9, PlainWoken
<1> QED
  BY <1>1, <1>3, <1>5, <1>6

\* check_timeouts fails what is overdue, then delivers from the queue.
LEMMA CheckTimeoutsWoken ==
  ASSUME ConstantsOK, Typed, Woken, NEW t \in Tasks, CheckTimeouts(t)
  PROVE  Woken'
<1>1. /\ todo[t] # <<>> /\ Head(todo[t]).do = "CheckTimeouts" /\ UNCHANGED <<ready, consumers>>
  BY DEF CheckTimeouts, Doing, Idle
<1>2. PICK q : q = Head(todo[t]).q
  OBVIOUS
<1>3. PICK overdue, ids : /\ overdue \in SUBSET InFlightOf(q) /\ ids \in SetToSeqs(overdue)
                          /\ Become(t, IF overdue = {} THEN <<>>
                                       ELSE Append(ForEach("Failed", q, ids),
                                                   OnQueue("Deliver", q)))
  BY <1>2 DEF CheckTimeouts
<1>4. \A p \in Queues : Waiting(p)' => Waiting(p) /\ ~Waking(Head(todo[t]), p)
  BY <1>1 DEF Waiting, Waking
<1>5. CASE Become(t, <<>>)
  <2>1. PICK v : v = <<>>
    OBVIOUS
  <2>2. v \in Seq({}) /\ \A k \in 1..Len(v) : FALSE
    BY <2>1, NoSteps
  <2>3. todo' = [todo EXCEPT ![t] = v \o Tail(todo[t])]
    BY <1>5, <2>1 DEF Become, Continue, Proceed
  <2> QED
    BY <1>1, <1>4, <2>2, <2>3, SplicedWoken
<1>6. CASE Become(t, Append(ForEach("Failed", q, ids), OnQueue("Deliver", q)))
  <2>1. ids \in Seq(1..Len(msgs))
    <3>1. \A id \in overdue : id \in 1..Len(msgs)
      BY <1>3 DEF InFlightOf
    <3> QED
      BY <1>3, <3>1, MessagesTyped, OrderingTyped
  <2>2. PICK fs : fs = ForEach("Failed", q, ids)
    OBVIOUS
  <2>3. PICK d : d = OnQueue("Deliver", q) /\ Waking(d, q) /\ d.do = "Deliver"
    BY Fields DEF Waking
  <2>4. PICK n \in Nat : n = Len(ids)
    BY <2>1, LenProperties
  <2>5. fs = [i \in 1..n |-> Do("Failed", q, ids[i], inflight[ids[i]], NoConsumer)]
    BY <2>2, <2>4 DEF ForEach
  <2>6. PICK A : A = {fs[i] : i \in 1..n} \cup {d}
    OBVIOUS
  <2>7. fs \in Seq(A) /\ Len(fs) = n
    BY <2>5, <2>6
  <2>8. \A i \in 1..n : fs[i].do = "Failed" /\ fs[i].q = q
    <3>1. \A i \in 1..n : fs[i] = Do("Failed", q, ids[i], inflight[ids[i]], NoConsumer)
      BY <2>5
    <3> QED
      BY <3>1, Fields
  <2>9. PICK v : v = Append(fs, d)
    OBVIOUS
  <2>10. /\ v \in Seq(A) /\ Len(v) = n + 1 /\ v[n + 1] = d
         /\ \A i \in 1..n : v[i] = fs[i]
    <3>1. d \in A
      BY <2>6
    <3>2. /\ Append(fs, d) \in Seq(A) /\ Len(Append(fs, d)) = Len(fs) + 1
          /\ \A i \in 1..Len(fs) : Append(fs, d)[i] = fs[i]
          /\ Append(fs, d)[Len(fs) + 1] = d
      BY <2>7, <3>1, AppendProperties
    <3> QED
      BY <2>7, <2>9, <3>2
  <2>11. todo' = [todo EXCEPT ![t] = v \o Tail(todo[t])]
    BY <1>6, <2>2, <2>3, <2>9 DEF Become, Continue, Proceed
  <2>12. ASSUME NEW k \in 1..Len(v)
         PROVE  /\ v[k].do \in {"Failed", "SetInFlight"} =>
                     \E j \in 1..Len(v) : j > k /\ Waking(v[j], v[k].q)
                /\ v[k].do # "Drain"
    <3>1. n + 1 \in 1..Len(v) /\ (k \in 1..n \/ k = n + 1)
      BY <2>10
    <3>2. CASE k \in 1..n
      <4>1. v[k].do = "Failed" /\ v[k].q = q /\ n + 1 > k /\ Waking(v[n + 1], q)
        BY SMTT(60), <2>3, <2>8, <2>10, <3>2
      <4> QED
        BY <3>1, <4>1
    <3>3. CASE k = n + 1
      BY <2>3, <2>10, <3>3
    <3> QED
      BY <3>1, <3>2, <3>3
  <2> QED
    BY <1>1, <1>4, <2>10, <2>11, <2>12, SplicedWoken
<1> QED
  BY <1>3, <1>5, <1>6

\* purge_expired only takes messages away.
LEMMA PurgeExpiredWoken ==
  ASSUME ConstantsOK, Typed, Woken, NEW t \in Tasks, PurgeExpired(t)
  PROVE  Woken'
<1>1. PICK q : q = Head(todo[t]).q
  OBVIOUS
<1>2. /\ todo[t] # <<>> /\ Head(todo[t]).do = "PurgeExpired" /\ consumers' = consumers
      /\ ready' = [ready EXCEPT ![q] = Without(@, ExpiredOf(q))]
  BY <1>1 DEF PurgeExpired, Doing, Idle
<1>3. PICK ids \in SetToSeqs(ExpiredOf(q)) : Become(t, ForEach("DeleteMessage", q, ids))
  BY <1>1 DEF PurgeExpired
<1>4. PICK n \in Nat : n = Len(ids)
  <2>1. \A id \in ExpiredOf(q) : id \in 1..Len(msgs)
    BY MessagesTyped DEF ExpiredOf, Typed, OnlyKnown
  <2>2. ids \in Seq(1..Len(msgs))
    BY <2>1, MessagesTyped, OrderingTyped
  <2> QED
    BY <2>2, LenProperties
<1>5. PICK v : v = ForEach("DeleteMessage", q, ids)
  OBVIOUS
<1>6. v = [i \in 1..n |-> Do("DeleteMessage", q, ids[i], inflight[ids[i]], NoConsumer)]
  BY <1>4, <1>5 DEF ForEach
<1>7. PICK A : v \in Seq(A) /\ Len(v) = n
  <2>1. PICK A : A = {v[i] : i \in 1..n}
    OBVIOUS
  <2>2. v \in Seq(A) /\ Len(v) = n
    BY <1>6, <2>1
  <2> QED
    BY <2>2
<1>8. \A i \in 1..n : v[i].do = "DeleteMessage"
  <2>1. \A i \in 1..n : v[i] = Do("DeleteMessage", q, ids[i], inflight[ids[i]], NoConsumer)
    BY <1>6
  <2> QED
    BY <2>1, Fields
<1>9. \A p \in Queues : ready[p] = <<>> => ready'[p] = <<>>
  BY <1>2, NothingWithout DEF Typed, DataTypeOK
<1>10. \A p \in Queues : Waiting(p)' => Waiting(p)
  BY <1>2, <1>9 DEF Waiting
<1>11. todo' = [todo EXCEPT ![t] = v \o Tail(todo[t])]
  BY <1>3, <1>5 DEF Become, Continue, Proceed
<1> QED
  BY <1>2, <1>7, <1>8, <1>10, <1>11, PlainWoken

\* A message is restored before anybody can subscribe.
LEMMA RestoreWoken ==
  ASSUME ConstantsOK, Typed, Opening, OnlyLive, Woken, up # "up", Restore
  PROVE  Woken'
<1>1. \A q \in Queues : consumers[q] = <<>>
  <2>1. Live = {}
    BY DEF Opening, Live, Consumer
  <2>2. \A q \in Queues : consumers[q] \in Seq({})
    BY <2>1 DEF OnlyLive
  <2> QED
    BY <2>2
<1>2. /\ Main \in Tasks /\ todo[Main] # <<>> /\ Head(todo[Main]).do = "Restore"
      /\ consumers' = consumers
      /\ \/ \E d \in StepUpTo(Len(msgs)) : d.do = "DeleteMessage" /\ Become(Main, <<d>>)
         \/ Become(Main, <<>>)
  BY RestoreWork
<1>3. \A q \in Queues : ~Waiting(q)'
  BY <1>1, <1>2 DEF Waiting
<1>4. CASE Become(Main, <<>>)
  <2>1. PICK v : v = <<>>
    OBVIOUS
  <2>2. v \in Seq({}) /\ \A k \in 1..Len(v) : FALSE
    BY <2>1, NoSteps
  <2>3. todo' = [todo EXCEPT ![Main] = v \o Tail(todo[Main])]
    BY <1>4, <2>1 DEF Become, Continue, Proceed
  <2> QED
    BY <1>2, <1>3, <2>2, <2>3, PlainWoken
<1>5. ASSUME NEW d, d.do = "DeleteMessage", Become(Main, <<d>>)
      PROVE  Woken'
  <2>1. PICK v : v = <<d>> /\ v \in Seq({d}) /\ Len(v) = 1 /\ v[1] = d
    BY OneStep
  <2>2. todo' = [todo EXCEPT ![Main] = v \o Tail(todo[Main])]
    BY <1>5, <2>1 DEF Become, Continue, Proceed
  <2>3. \A k \in 1..Len(v) : v[k].do = "DeleteMessage"
    BY <1>5, <2>1
  <2> QED
    BY <1>2, <1>3, <2>1, <2>2, <2>3, PlainWoken
<1> QED
  BY <1>2, <1>4, <1>5

\* No storage call has raised before, and none raises now.
LEMMA NoFailureYet ==
  ASSUME ConstantsOK, Typed, [Next]_vars, dbFailures' = 0
  PROVE  dbFailures = 0 /\ \A t \in Tasks : ~StorageFails(t)
<1>1. dbFailures \in Nat
  BY DEF Typed, DataTypeOK, ConstantsOK
<1>2. \A t \in Tasks : ~StorageFails(t)
  BY <1>1 DEF StorageFails
<1>3. UNCHANGED vars => dbFailures' = dbFailures
  BY DEF vars, faults
<1>4. Clients => dbFailures' = dbFailures
  <2>1. ASSUME NEW c \in Conns
        PROVE  /\ Connect(c) \/ Lose(c) => dbFailures' = dbFailures
               /\ \A q, type, prio, ttl : Send(c, q, type, prio, ttl) => dbFailures' = dbFailures
               /\ \A q, type : SendExpired(c, q, type) => dbFailures' = dbFailures
               /\ \A s, q, type : Subscribe(c, s, q, type) => dbFailures' = dbFailures
               /\ \A s : Unsubscribe(c, s) => dbFailures' = dbFailures
               /\ \A id : Ack(c, id) \/ Nack(c, id) => dbFailures' = dbFailures
    BY Zenon DEF Connect, Lose, Send, SendExpired, Subscribe, Unsubscribe, Ack, Nack, faults
  <2> QED
    BY <2>1 DEF Clients
<1>5. \A t : Run(t) \/ Suspend(t) => dbFailures' = dbFailures
  BY ZenonT(60) DEF Run, QueueSaved, MessageSaved, StatusUpdated, MessageDeleted, Answers, Deliver, DrainOk,
         DrainFails, Failed, Receipt, CheckTimeouts, PurgeExpired, Suspend, faults
<1>6. \A c : Unregister(c) => dbFailures' = dbFailures
  BY DEF Unregister, faults
<1>7. TimeoutTick \/ ExpiryTick \/ (\E id \in Ids : Expire(id)) \/ Crash
        => dbFailures' = dbFailures
  BY DEF TimeoutTick, ExpiryTick, Tick, Expire, Crash, faults
<1>8. Restart => dbFailures' = dbFailures
  BY DEF Restart, Start, InFlightReset, QueuesLoaded, MessagesLoaded, Answers, Restore, Serve,
         faults
<1> QED
  BY <1>2, <1>3, <1>4, <1>5, <1>6, <1>7, <1>8 DEF Next

\* As long as no storage call raises, a queue with a message and a consumer has
\* a task that delivers from it.
LEMMA WokenStep ==
  ASSUME ConstantsOK, Typed, Rests, Kept, Opening, OnlyLive, Woken, [Next]_vars, dbFailures' = 0
  PROVE  Woken'
<1>1. CASE UNCHANGED vars
  BY <1>1, SameWoken DEF vars, control, memory, Waiting
<1>2. CASE Crash
  <2>1. \A t \in Tasks : todo'[t] = <<>>
    BY <1>2 DEF Crash
  <2>2. \A q \in Queues : ~Waiting(q)'
    BY <1>2 DEF Crash, Waiting
  <2> QED
    BY <2>1, <2>2 DEF Woken, Followed
<1>3. ASSUME NEW t \in Tasks, Receipt(t)
      PROVE  Woken'
  <2>1. /\ todo[t] # <<>> /\ Head(todo[t]).do = "Receipt" /\ UNCHANGED <<ready, consumers>>
        /\ Become(t, <<>>)
    BY <1>3 DEF Receipt, Doing, Idle, memory
  <2>2. PICK v : v = <<>>
    OBVIOUS
  <2>3. v \in Seq({}) /\ \A k \in 1..Len(v) : FALSE
    BY <2>2, NoSteps
  <2>4. todo' = [todo EXCEPT ![t] = v \o Tail(todo[t])]
    BY <2>1, <2>2 DEF Become, Continue, Proceed
  <2> QED
    BY <2>1, <2>3, <2>4, PlainWoken DEF Waiting
<1>4. CASE Serve
  <2>1. /\ todo[Main] # <<>> /\ Head(todo[Main]).do = "Serve" /\ UNCHANGED <<ready, consumers>>
        /\ Become(Main, <<>>) /\ Main \in Tasks
    BY <1>4 DEF Serve, Doing, Idle, memory, Tasks
  <2>2. PICK v : v = <<>>
    OBVIOUS
  <2>3. v \in Seq({}) /\ \A k \in 1..Len(v) : FALSE
    BY <2>2, NoSteps
  <2>4. todo' = [todo EXCEPT ![Main] = v \o Tail(todo[Main])]
    BY <2>1, <2>2 DEF Become, Continue, Proceed
  <2> QED
    BY <2>1, <2>3, <2>4, PlainWoken DEF Waiting
<1>5. CASE Start
  <2>1. /\ todo[Main] = <<>> /\ todo' = [todo EXCEPT ![Main] = RestoreSteps] /\ Main \in Tasks
        /\ UNCHANGED <<ready, consumers>>
    BY <1>5 DEF Start, Rests, Idle, Continue, Proceed, memory, Tasks
  <2>2. Followed(RestoreSteps)
    <3>1. PICK a : a = OnQueue("ResetInFlight", NoQueue) /\ a.do = "ResetInFlight"
      BY Fields
    <3>2. PICK b : b = OnQueue("LoadQueues", NoQueue) /\ b.do = "LoadQueues"
      BY Fields
    <3>3. PICK c : c = OnQueue("Serve", NoQueue) /\ c.do = "Serve"
      BY Fields
    <3>4. RestoreSteps = <<a, b, c>>
      BY <3>1, <3>2, <3>3 DEF RestoreSteps
    <3>5. \A k \in 1..Len(<<a, b, c>>) :
            <<a, b, c>>[k].do \notin {"Failed", "SetInFlight", "Drain"}
      BY <3>1, <3>2, <3>3
    <3> QED
      BY <3>4, <3>5, PlainFollowed
  <2>3. \A q \in Queues : Waiting(q)' => Waiting(q) \/ Wakes(RestoreSteps, q)
    BY <2>1 DEF Waiting
  <2> QED
    BY <2>1, <2>2, <2>3, StartedWoken
<1>6. ASSUME NEW t \in Tasks, Run(t) \/ Suspend(t)
      PROVE  Woken'
  BY <1>3, <1>6, StoredWoken, DeliverWoken, DrainWoken, FailedWoken, CheckTimeoutsWoken,
     PurgeExpiredWoken DEF Run
<1>7. CASE Restart
  <2>1. Main \in Tasks
    BY DEF Tasks
  <2>2. CASE InFlightReset \/ QueuesLoaded \/ MessagesLoaded
    BY <2>1, <2>2, StoredWoken
  <2>3. CASE Restore
    <3>1. up # "up"
      BY <2>3 DEF Opening, Restore, Doing
    <3> QED
      BY <2>3, <3>1, RestoreWoken
  <2> QED
    BY <1>4, <1>5, <1>7, <2>2, <2>3 DEF Restart
<1> QED
  BY <1>1, <1>2, <1>6, <1>7, ClientsWoken, LoopsWoken, NoFailureYet DEF Next

\* No wakeup is lost as long as no storage call raises.
Wakeups == dbFailures = 0 => Woken

\* The handler of a call that raises ends without the delivery that follows it.
LEMMA WakeupsStep ==
  ASSUME ConstantsOK, Typed, Rests, Kept, Opening, OnlyLive, Wakeups, [Next]_vars
  PROVE  Wakeups'
<1>1. SUFFICES ASSUME dbFailures' = 0
               PROVE  Woken'
  BY DEF Wakeups
<1>2. Woken
  BY <1>1, NoFailureYet DEF Wakeups
<1> QED
  BY <1>1, <1>2, WokenStep

\* No wakeup is lost, whatever the order of publishers, consumers, scans, failed
\* deliveries, lost connections and restarts, unless a storage call raises: the
\* handler it is raised in ends without the delivery that would follow.
THEOREM NothingSleeps == Spec => [](dbFailures = 0 => NoLostWakeup)
<1> USE ConstantsOK
<1>1. Init => Wakeups
  BY DEF Init, Wakeups, Woken, Followed, Waiting
<1>2. Typed /\ Rests /\ Kept /\ Opening /\ OnlyLive /\ Wakeups /\ [Next]_vars => Wakeups'
  BY WakeupsStep
<1>3. Wakeups => (dbFailures = 0 => NoLostWakeup)
  <2>1. SUFFICES ASSUME Wakeups, dbFailures = 0, \A t \in Tasks : Idle(t), NEW q \in Queues, Waiting(q)
                 PROVE  FALSE
    BY DEF NoLostWakeup, Waiting
  <2>2. PICK t \in Tasks : Wakes(todo[t], q)
    BY <2>1 DEF Wakeups, Woken
  <2>3. todo[t] = <<>>
    BY <2>1 DEF Idle
  <2> QED
    BY <2>2, <2>3 DEF Wakes
<1> QED
  BY <1>1, <1>2, <1>3, PlacesAlways, PTL DEF Spec
-----------------------------------------------------------------------------
(* One place at a time. *)

\* Steps of a set among some: whether there is one, and no more than one.
Some(w, C) == \E k \in 1..Len(w) : w[k] \in C
Later(w, C) == \E k \in 2..Len(w) : w[k] \in C
AtMostOne(w, C) == \A i, j \in 1..Len(w) : w[i] \in C /\ w[j] \in C => i = j

\* The steps that have a message in their hands, and those that load a queue.
Holders(id) == {s \in Step : s.do \in {"Failed", "Restore"} /\ s.id = id}
Loaders(q) == {s \in Step : Loading(s, q)}

\* The places of a message: a heap, a task and in_flight.
Queued(q) == Members(ready[q])
InHands(t, id) == Some(todo[t], Holders(id))
Flying == {id \in Ids : inflight[id] > 0}
InSystem(id) ==
  id \in Flying \/ (\E q \in Queues : id \in Queued(q)) \/ \E t \in Tasks : InHands(t, id)

Once ==
  /\ \A q \in Queues : Distinct(ready[q])
  /\ \A t \in Tasks, id \in Ids : AtMostOne(todo[t], Holders(id))
Apart ==
  /\ \A p, q \in Queues : p # q => \A id \in Ids : ~(id \in Queued(p) /\ id \in Queued(q))
  /\ \A t, u \in Tasks : t # u => \A id \in Ids : ~(InHands(t, id) /\ InHands(u, id))
  /\ \A t \in Tasks, q \in Queues, id \in Ids : ~(InHands(t, id) /\ id \in Queued(q))
  /\ \A t \in Tasks, id \in Ids : ~(InHands(t, id) /\ id \in Flying)
  /\ \A q \in Queues, id \in Ids : ~(id \in Queued(q) /\ id \in Flying)
Single == Once /\ Apart /\ Flying \subseteq Known

\* A queue is loaded once, and before any of its messages is anywhere.
Unloaded ==
  /\ \A q \in Queues : AtMostOne(todo[Main], Loaders(q))
  /\ \A id \in Known : up = "down" \/ Loads(todo[Main], msgs[id].queue) => ~InSystem(id)

\* No storage call has raised, and no connection has been lost since the start.
Steady == dbFailures = 0 /\ \A c \in Conns : link[c] \in {"none", "open"}

\* Which steps of a set are left when the first ones are replaced by these.
LEMMA SplicedSome ==
  ASSUME NEW A, NEW v \in Seq(A), NEW B, NEW w \in Seq(B), w # <<>>, NEW C
  PROVE  /\ Some(v \o Tail(w), C) <=> Some(v, C) \/ Later(w, C)
         /\ Some(w, C) <=> Head(w) \in C \/ Later(w, C)
         /\ AtMostOne(w, C) /\ Head(w) \in C => ~Later(w, C)
         /\ AtMostOne(w, C) /\ AtMostOne(v, C) /\ ~(Some(v, C) /\ Later(w, C))
              => AtMostOne(v \o Tail(w), C)
<1>1. PICK u : u = v \o Tail(w)
  OBVIOUS
<1>2. /\ Len(v) \in Nat /\ Len(w) \in Nat /\ Len(w) >= 1 /\ Head(w) = w[1]
      /\ Len(u) = Len(v) + (Len(w) - 1)
      /\ \A k \in 1..Len(v) : u[k] = v[k]
      /\ \A k \in 2..Len(w) : u[Len(v) + (k - 1)] = w[k]
      /\ \A k \in 1..Len(u) : k > Len(v) => /\ (k - Len(v)) + 1 \in 2..Len(w)
                                            /\ u[k] = w[(k - Len(v)) + 1]
  <2>1. v \in Seq(A \cup B) /\ w \in Seq(A \cup B)
    BY SeqMonotonic
  <2> QED
    BY <1>1, <2>1, Spliced
<1>3. \A k \in 1..Len(u) : k \in 1..Len(v) \/ k > Len(v)
  BY <1>2
<1>4. Some(u, C) => Some(v, C) \/ Later(w, C)
  BY <1>2, <1>3 DEF Some, Later
<1>5. Some(v, C) \/ Later(w, C) => Some(u, C)
  <2>1. /\ \A k \in 1..Len(v) : k \in 1..Len(u)
        /\ \A k \in 2..Len(w) : Len(v) + (k - 1) \in 1..Len(u)
    BY <1>2
  <2> QED
    BY <1>2, <2>1 DEF Some, Later
<1>6. Some(w, C) <=> Head(w) \in C \/ Later(w, C)
  <2>1. 1 \in 1..Len(w) /\ (\A k \in 2..Len(w) : k \in 1..Len(w))
        /\ \A k \in 1..Len(w) : k = 1 \/ k \in 2..Len(w)
    BY <1>2
  <2> QED
    BY <1>2, <2>1 DEF Some, Later
<1>7. AtMostOne(w, C) /\ Head(w) \in C => ~Later(w, C)
  <2>1. 1 \in 1..Len(w) /\ \A k \in 2..Len(w) : k \in 1..Len(w) /\ k # 1
    BY <1>2
  <2> QED
    BY <1>2, <2>1 DEF AtMostOne, Later
<1>8. ASSUME AtMostOne(w, C), AtMostOne(v, C), ~(Some(v, C) /\ Later(w, C))
      PROVE  AtMostOne(u, C)
  <2>1. SUFFICES ASSUME NEW i \in 1..Len(u), NEW j \in 1..Len(u), u[i] \in C, u[j] \in C
                 PROVE  i = j
    BY DEF AtMostOne
  <2>2. \A k \in 1..Len(u) : u[k] \in C /\ k \in 1..Len(v) => Some(v, C)
    BY <1>2 DEF Some
  <2>3. \A k \in 1..Len(u) : u[k] \in C /\ k > Len(v) => Later(w, C)
    BY <1>2 DEF Later
  <2>4. CASE i \in 1..Len(v) /\ j \in 1..Len(v)
    BY <1>2, <1>8, <2>1, <2>4 DEF AtMostOne
  <2>5. CASE i > Len(v) /\ j > Len(v)
    <3>1. /\ (i - Len(v)) + 1 \in 1..Len(w) /\ w[(i - Len(v)) + 1] \in C
          /\ (j - Len(v)) + 1 \in 1..Len(w) /\ w[(j - Len(v)) + 1] \in C
      BY <1>2, <2>1, <2>5
    <3>2. (i - Len(v)) + 1 = (j - Len(v)) + 1
      BY <1>8, <3>1 DEF AtMostOne
    <3> QED
      BY <1>2, <3>2
  <2> QED
    BY <1>3, <1>8, <2>1, <2>2, <2>3, <2>4, <2>5
<1> QED
  BY <1>1, <1>4, <1>5, <1>6, <1>7, <1>8

\* Messages that go to a heap leave the other places, or were nowhere.
LEMMA ToQueue ==
  ASSUME Apart, NEW q0 \in Queues, NEW X,
         Queued(q0)' \subseteq Queued(q0) \cup X,
         \A q \in Queues \ {q0} : Queued(q)' \subseteq Queued(q) /\ \A id \in X : id \notin Queued(q)',
         \A t \in Tasks, id \in Ids : InHands(t, id)' => InHands(t, id) /\ id \notin X,
         Flying' \subseteq Flying, \A id \in X : id \notin Flying'
  PROVE  Apart'
<1>1. \A id \in Ids, q \in Queues :
        id \in Queued(q)' => id \in Queued(q) \/ (q = q0 /\ id \in X)
  OBVIOUS
<1>2. \A id \in Ids, q \in Queues : id \in Queued(q)' /\ id \in X => q = q0
  OBVIOUS
<1>3. (\A p, q \in Queues : p # q => \A id \in Ids : ~(id \in Queued(p) /\ id \in Queued(q)))'
  BY <1>1, <1>2 DEF Apart
<1>4. (\A t, u \in Tasks : t # u => \A id \in Ids : ~(InHands(t, id) /\ InHands(u, id)))'
  BY DEF Apart
<1>5. (\A t \in Tasks, q \in Queues, id \in Ids : ~(InHands(t, id) /\ id \in Queued(q)))'
  BY <1>1 DEF Apart
<1>6. (\A t \in Tasks, id \in Ids : ~(InHands(t, id) /\ id \in Flying))'
  BY DEF Apart
<1>7. (\A q \in Queues, id \in Ids : ~(id \in Queued(q) /\ id \in Flying))'
  BY <1>1 DEF Apart
<1> QED
  BY <1>3, <1>4, <1>5, <1>6, <1>7 DEF Apart

\* So do messages that get into the hands of a task.
LEMMA ToTask ==
  ASSUME Apart, NEW t0 \in Tasks, NEW X,
         \A id \in Ids : InHands(t0, id)' => InHands(t0, id) \/ id \in X,
         \A t \in Tasks \ {t0}, id \in Ids : InHands(t, id)' => InHands(t, id) /\ id \notin X,
         \A q \in Queues : Queued(q)' \subseteq Queued(q) /\ \A id \in X : id \notin Queued(q)',
         Flying' \subseteq Flying, \A id \in X : id \notin Flying'
  PROVE  Apart'
<1>1. \A id \in Ids, t \in Tasks :
        InHands(t, id)' => InHands(t, id) \/ (t = t0 /\ id \in X)
  OBVIOUS
<1>2. \A id \in Ids, t \in Tasks : InHands(t, id)' /\ id \in X => t = t0
  OBVIOUS
<1>3. (\A p, q \in Queues : p # q => \A id \in Ids : ~(id \in Queued(p) /\ id \in Queued(q)))'
  BY DEF Apart
<1>4. (\A t, u \in Tasks : t # u => \A id \in Ids : ~(InHands(t, id) /\ InHands(u, id)))'
  BY <1>1, <1>2 DEF Apart
<1>5. (\A t \in Tasks, q \in Queues, id \in Ids : ~(InHands(t, id) /\ id \in Queued(q)))'
  BY <1>1 DEF Apart
<1>6. (\A t \in Tasks, id \in Ids : ~(InHands(t, id) /\ id \in Flying))'
  BY <1>1 DEF Apart
<1>7. (\A q \in Queues, id \in Ids : ~(id \in Queued(q) /\ id \in Flying))'
  BY DEF Apart
<1> QED
  BY <1>3, <1>4, <1>5, <1>6, <1>7 DEF Apart

\* And those that get in flight.
LEMMA ToFlight ==
  ASSUME Apart, NEW X, Flying' \subseteq Flying \cup X,
         \A t \in Tasks, id \in Ids : InHands(t, id)' => InHands(t, id) /\ id \notin X,
         \A q \in Queues : Queued(q)' \subseteq Queued(q) /\ \A id \in X : id \notin Queued(q)'
  PROVE  Apart'
<1>1. (\A p, q \in Queues : p # q => \A id \in Ids : ~(id \in Queued(p) /\ id \in Queued(q)))'
  BY DEF Apart
<1>2. (\A t, u \in Tasks : t # u => \A id \in Ids : ~(InHands(t, id) /\ InHands(u, id)))'
  BY DEF Apart
<1>3. (\A t \in Tasks, q \in Queues, id \in Ids : ~(InHands(t, id) /\ id \in Queued(q)))'
  BY DEF Apart
<1>4. (\A t \in Tasks, id \in Ids : ~(InHands(t, id) /\ id \in Flying))'
  BY DEF Apart
<1>5. (\A q \in Queues, id \in Ids : ~(id \in Queued(q) /\ id \in Flying))'
  BY DEF Apart
<1> QED
  BY <1>1, <1>2, <1>3, <1>4, <1>5 DEF Apart

\* Steps that have no message in their hands.
HoldsNothing(v) == \A k \in 1..Len(v) : v[k].do \notin {"Failed", "Restore"}

\* No task gets a message into its hands.
HandsLeave ==
  \A t \in Tasks, id \in Ids :
    AtMostOne(todo'[t], Holders(id)) /\ (InHands(t, id)' => InHands(t, id))

\* They are in no set of holders.
LEMMA NoHolders ==
  ASSUME NEW v, HoldsNothing(v), NEW id
  PROVE  ~Some(v, Holders(id)) /\ AtMostOne(v, Holders(id))
BY DEF HoldsNothing, Some, AtMostOne, Holders

\* What is in hands after a task replaced the step it was at.
LEMMA SplicedHands ==
  ASSUME Typed, Once, NEW t \in Tasks, todo[t] # <<>>, NEW A, NEW v \in Seq(A),
         todo' = [todo EXCEPT ![t] = v \o Tail(todo[t])]
  PROVE  /\ \A u \in Tasks : u # t => \A id : InHands(u, id)' <=> InHands(u, id)
         /\ \A id : InHands(t, id)' <=> Some(v, Holders(id)) \/ Later(todo[t], Holders(id))
         /\ \A id : InHands(t, id) <=> Head(todo[t]) \in Holders(id) \/ Later(todo[t], Holders(id))
         /\ \A id \in Ids : Head(todo[t]) \in Holders(id) => ~Later(todo[t], Holders(id))
         /\ (\A id \in Ids : /\ AtMostOne(v, Holders(id))
                             /\ ~(Some(v, Holders(id)) /\ Later(todo[t], Holders(id))))
              => \A u \in Tasks, id \in Ids : AtMostOne(todo'[u], Holders(id))
<1>1. PICK w : w = todo[t]
  OBVIOUS
<1>2. todo'[t] = v \o Tail(w) /\ \A u \in Tasks : u # t => todo'[u] = todo[u]
  BY <1>1 DEF Typed, TasksOK
<1>3. w \in Seq(StepUpTo(Len(msgs))) /\ w # <<>>
  BY <1>1 DEF Typed, TasksOK, Work
<1>4. ASSUME NEW id
      PROVE  /\ Some(v \o Tail(w), Holders(id)) <=> Some(v, Holders(id)) \/ Later(w, Holders(id))
             /\ Some(w, Holders(id)) <=> Head(w) \in Holders(id) \/ Later(w, Holders(id))
             /\ AtMostOne(w, Holders(id)) /\ Head(w) \in Holders(id) => ~Later(w, Holders(id))
             /\ AtMostOne(w, Holders(id)) /\ AtMostOne(v, Holders(id))
                  /\ ~(Some(v, Holders(id)) /\ Later(w, Holders(id)))
                  => AtMostOne(v \o Tail(w), Holders(id))
  BY <1>3, SplicedSome
<1>5. \A id \in Ids : AtMostOne(w, Holders(id))
  BY <1>1 DEF Once
<1>6. \A u \in Tasks : u # t => \A id : InHands(u, id)' <=> InHands(u, id)
  BY <1>2 DEF InHands
<1>7. \A id : InHands(t, id)' <=> Some(v, Holders(id)) \/ Later(w, Holders(id))
  BY <1>2, <1>4 DEF InHands
<1>8. \A id : InHands(t, id) <=> Head(w) \in Holders(id) \/ Later(w, Holders(id))
  BY <1>1, <1>4 DEF InHands
<1>9. \A id \in Ids : Head(w) \in Holders(id) => ~Later(w, Holders(id))
  BY <1>4, <1>5
<1>10. ASSUME \A id \in Ids : /\ AtMostOne(v, Holders(id))
                              /\ ~(Some(v, Holders(id)) /\ Later(w, Holders(id)))
       PROVE  \A u \in Tasks, id \in Ids : AtMostOne(todo'[u], Holders(id))
  <2>1. \A id \in Ids : AtMostOne(todo'[t], Holders(id))
    BY <1>2, <1>4, <1>5, <1>10
  <2>2. \A u \in Tasks, id \in Ids : u # t => AtMostOne(todo'[u], Holders(id))
    BY <1>2 DEF Once
  <2> QED
    BY <2>1, <2>2
<1> QED
  BY <1>1, <1>6, <1>7, <1>8, <1>9, <1>10

\* What is in hands after a task that rested got these steps.
LEMMA StartedHands ==
  ASSUME Typed, Once, NEW t \in Tasks, todo[t] = <<>>, NEW v, todo' = [todo EXCEPT ![t] = v]
  PROVE  /\ \A u \in Tasks : u # t => \A id : InHands(u, id)' <=> InHands(u, id)
         /\ \A id : InHands(t, id)' <=> Some(v, Holders(id))
         /\ \A id : ~InHands(t, id)
         /\ (\A id \in Ids : AtMostOne(v, Holders(id)))
              => \A u \in Tasks, id \in Ids : AtMostOne(todo'[u], Holders(id))
<1>1. todo'[t] = v /\ \A u \in Tasks : u # t => todo'[u] = todo[u]
  BY DEF Typed, TasksOK
<1>2. \A id : ~Some(todo[t], Holders(id))
  BY DEF Some
<1> QED
  BY <1>1, <1>2 DEF InHands, Once

\* Steps that hold nothing put nothing into hands.
LEMMA SplicedLeave ==
  ASSUME Typed, Once, NEW t \in Tasks, todo[t] # <<>>, NEW A, NEW v \in Seq(A), HoldsNothing(v),
         todo' = [todo EXCEPT ![t] = v \o Tail(todo[t])]
  PROVE  HandsLeave
<1>1. \A id : ~Some(v, Holders(id)) /\ AtMostOne(v, Holders(id))
  BY NoHolders
<1>2. /\ \A u \in Tasks : u # t => \A id : InHands(u, id)' <=> InHands(u, id)
      /\ \A id : InHands(t, id)' <=> Some(v, Holders(id)) \/ Later(todo[t], Holders(id))
      /\ \A id : InHands(t, id) <=> Head(todo[t]) \in Holders(id) \/ Later(todo[t], Holders(id))
      /\ (\A id \in Ids : /\ AtMostOne(v, Holders(id))
                          /\ ~(Some(v, Holders(id)) /\ Later(todo[t], Holders(id))))
           => \A u \in Tasks, id \in Ids : AtMostOne(todo'[u], Holders(id))
  BY SplicedHands
<1> QED
  BY <1>1, <1>2 DEF HandsLeave

\* The same of a task that rested.
LEMMA StartedLeave ==
  ASSUME Typed, Once, NEW t \in Tasks, todo[t] = <<>>, NEW v, HoldsNothing(v),
         todo' = [todo EXCEPT ![t] = v]
  PROVE  HandsLeave
<1>1. \A id : ~Some(v, Holders(id)) /\ AtMostOne(v, Holders(id))
  BY NoHolders
<1>2. /\ \A u \in Tasks : u # t => \A id : InHands(u, id)' <=> InHands(u, id)
      /\ \A id : InHands(t, id)' <=> Some(v, Holders(id))
      /\ (\A id \in Ids : AtMostOne(v, Holders(id)))
           => \A u \in Tasks, id \in Ids : AtMostOne(todo'[u], Holders(id))
  BY StartedHands
<1> QED
  BY <1>1, <1>2 DEF HandsLeave

\* Tasks that do nothing.
LEMMA SameHands ==
  ASSUME Once, todo' = todo
  PROVE  HandsLeave
BY DEF Once, HandsLeave, InHands

\* Messages leave their places, and none gets to another.
LEMMA FewerSingle ==
  ASSUME Single, HandsLeave, Flying' \subseteq Flying, Known \subseteq Known',
         \A q \in Queues : Distinct(ready'[q]) /\ Queued(q)' \subseteq Queued(q)
  PROVE  Single'
<1>1. Once'
  BY DEF Once, HandsLeave
<1>2. Apart'
  <2>1. PICK X : X = {}
    OBVIOUS
  <2>2. Apart
    BY DEF Single
  <2>3. \A t \in Tasks, id \in Ids : InHands(t, id)' => InHands(t, id) /\ id \notin X
    BY <2>1 DEF HandsLeave
  <2>4. /\ Flying' \subseteq Flying \cup X
        /\ \A q \in Queues : Queued(q)' \subseteq Queued(q) /\ \A id \in X : id \notin Queued(q)'
    BY <2>1
  <2> QED
    BY <2>2, <2>3, <2>4, ToFlight
<1> QED
  BY <1>1, <1>2 DEF Single

\* The same when no heap changes.
LEMMA ReadySingle ==
  ASSUME Single, HandsLeave, Flying' \subseteq Flying, Known \subseteq Known', ready' = ready
  PROVE  Single'
<1>1. \A q \in Queues : Distinct(ready'[q]) /\ Queued(q)' = Queued(q)
  BY DEF Single, Once, Queued
<1> QED
  BY <1>1, FewerSingle

\* The steps of the handlers hold nothing, but for those of a NACK.
LEMMA HandlersHoldNothing ==
  ASSUME NEW q, NEW id, NEW att, NEW to, NEW dlq, NEW copy
  PROVE  /\ HoldsNothing(PublishSteps(q, id)) /\ HoldsNothing(SubscribeSteps(q))
         /\ HoldsNothing(AckSteps(q, id))
         /\ \E A : DlqSteps(q, id, dlq, copy) \in Seq(A) /\ HoldsNothing(DlqSteps(q, id, dlq, copy))
         /\ \E A : DispatchSteps(q, id, att, to) \in Seq(A) /\ HoldsNothing(DispatchSteps(q, id, att, to))
<1>1. \A p : /\ OnQueue("SaveQueue", p).do = "SaveQueue" /\ OnQueue("Deliver", p).do = "Deliver"
             /\ \A m : /\ OnMessage("SaveMessage", p, m).do = "SaveMessage"
                       /\ OnMessage("DeleteMessage", p, m).do = "DeleteMessage"
                       /\ OnMessage("Receipt", p, m).do = "Receipt"
  BY Fields
<1>2. \A a, b, c, d :
        /\ a.do \notin {"Failed", "Restore"} /\ b.do \notin {"Failed", "Restore"}
             => HoldsNothing(<<a, b>>)
        /\ a.do \notin {"Failed", "Restore"} /\ b.do \notin {"Failed", "Restore"}
           /\ c.do \notin {"Failed", "Restore"} => HoldsNothing(<<a, b, c>>)
        /\ a.do \notin {"Failed", "Restore"} /\ b.do \notin {"Failed", "Restore"}
           /\ c.do \notin {"Failed", "Restore"} /\ d.do \notin {"Failed", "Restore"}
             => HoldsNothing(<<a, b, c, d>>)
  BY DEF HoldsNothing
<1>3. /\ HoldsNothing(PublishSteps(q, id)) /\ HoldsNothing(SubscribeSteps(q))
      /\ HoldsNothing(AckSteps(q, id)) /\ HoldsNothing(DlqSteps(q, id, dlq, copy))
  BY <1>1, <1>2 DEF PublishSteps, SubscribeSteps, AckSteps, DlqSteps
<1>4. \A a, b, c, d : <<a, b, c, d>> \in Seq({a, b, c, d}) /\ <<a, b, c>> \in Seq({a, b, c})
                      /\ <<a, b>> \in Seq({a, b})
  OBVIOUS
<1>5. \E A : DlqSteps(q, id, dlq, copy) \in Seq(A)
  BY <1>4 DEF DlqSteps
<1>6. \E A : DispatchSteps(q, id, att, to) \in Seq(A) /\ HoldsNothing(DispatchSteps(q, id, att, to))
  <2>1. PICK a, b, d : /\ a.do = "Drain" /\ b.do = "SetInFlight" /\ d.do = "Deliver"
                       /\ \/ DispatchSteps(q, id, att, to) = <<a, b, d>>
                          \/ DispatchSteps(q, id, att, to) = <<b, d>>
    BY DispatchShape
  <2>2. /\ <<a, b, d>> \in Seq({a, b, d}) /\ HoldsNothing(<<a, b, d>>)
        /\ <<b, d>> \in Seq({b, d}) /\ HoldsNothing(<<b, d>>)
    BY <1>2, <1>4, <2>1
  <2> QED
    BY <2>1, <2>2
<1> QED
  BY <1>3, <1>5, <1>6

\* ack, take_in_flight and the scans.
LEMMA TakeOutFlying ==
  ASSUME NEW S, inflight' = TakeOut(S)
  PROVE  Flying' = Flying \ S
<1>1. \A id \in Ids : inflight'[id] > 0 <=> inflight[id] > 0 /\ id \notin S
  BY DEF TakeOut
<1> QED
  BY <1>1 DEF Flying

\* Everything that is anywhere is a message there is.
LEMMA AnywhereKnown ==
  ASSUME ConstantsOK, Typed, Single
  PROVE  /\ \A q \in Queues : Queued(q) \subseteq Known
         /\ \A t \in Tasks : \A id : InHands(t, id) => id \in Known
         /\ Flying \subseteq Known
         /\ NewId \notin Known /\ Known \subseteq Ids
         /\ \A id : InSystem(id) => id \in Known
<1>1. \A q \in Queues : Queued(q) \subseteq Known
  BY ElementOfSeq DEF Typed, OnlyKnown, Queued, Members
<1>2. ASSUME NEW t \in Tasks, NEW id, InHands(t, id)
      PROVE  id \in Known
  <2>1. PICK k \in 1..Len(todo[t]) : todo[t][k] \in Holders(id)
    BY <1>2 DEF InHands, Some
  <2>2. todo[t][k] \in StepUpTo(Len(msgs))
    BY ElementOfSeq DEF Typed, TasksOK, Work
  <2> QED
    BY <2>1, <2>2 DEF Holders, StepUpTo, OfMessage, Known
<1>3. Flying \subseteq Known
  BY DEF Single
<1>4. NewId \notin Known /\ Known \subseteq Ids
  BY MessagesTyped DEF NewId
<1> QED
  BY <1>1, <1>2, <1>3, <1>4 DEF InSystem

\* add_message, of a message that is nowhere else.
LEMMA EnqueuedSingle ==
  ASSUME ConstantsOK, Typed, Single, NEW q0 \in Queues, NEW id0 \in Ids, NEW prio, NEW type,
         Enqueue(q0, id0, prio, type), HandsLeave, Known \subseteq Known',
         Flying' \subseteq Flying, id0 \notin Flying,
         \A t \in Tasks : ~InHands(t, id0)', \A q \in Queues : id0 \notin Queued(q)
  PROVE  Single'
<1>1. \A q \in Queues : ready[q] \in Seq(Ids)
  BY DEF Typed, DataTypeOK
<1>2. /\ ready'[q0] = AddMessage(ready[q0], id0, prio, type)
      /\ \A q \in Queues : q # q0 => ready'[q] = ready[q]
  BY DEF Enqueue, Typed, DataTypeOK
<1>3. Queued(q0)' = Queued(q0) \cup {id0} /\ Distinct(ready'[q0])
  <2>1. id0 \notin Members(ready[q0]) /\ Distinct(ready[q0])
    BY DEF Queued, Single, Once
  <2> QED
    BY <1>1, <1>2, <2>1, AddMessageMembers DEF Queued
<1>4. \A q \in Queues : q # q0 => Queued(q)' = Queued(q) /\ Distinct(ready'[q])
  BY <1>2 DEF Queued, Single, Once
<1>5. Once'
  BY <1>3, <1>4 DEF Once, HandsLeave
<1>6. Apart'
  <2>1. PICK X : X = {id0}
    OBVIOUS
  <2>2. Apart
    BY DEF Single
  <2>3. Queued(q0)' \subseteq Queued(q0) \cup X
    BY <1>3, <2>1
  <2>4. \A q \in Queues \ {q0} : Queued(q)' \subseteq Queued(q) /\ \A id \in X : id \notin Queued(q)'
    BY <1>4, <2>1
  <2>5. \A t \in Tasks, id \in Ids : InHands(t, id)' => InHands(t, id) /\ id \notin X
    BY <2>1 DEF HandsLeave
  <2>6. Flying' \subseteq Flying /\ \A id \in X : id \notin Flying'
    BY <2>1
  <2> QED
    BY <2>2, <2>3, <2>4, <2>5, <2>6, ToQueue
<1> QED
  BY <1>5, <1>6 DEF Single

\* Connections come and go, and the clock goes on.
LEMMA IdleSingle ==
  ASSUME ConstantsOK, Typed, Single, UNCHANGED <<todo, ready, inflight, msgs>>
  PROVE  Single'
<1>1. HandsLeave
  BY SameHands DEF Single
<1>2. Flying' = Flying /\ Known' = Known
  BY DEF Flying, Known
<1> QED
  BY <1>1, <1>2, ReadySingle

\* A new message is in the heap, and nowhere else.
LEMMA SendSingle ==
  ASSUME ConstantsOK, Typed, Single, NEW c \in Conns, NEW q \in Targets, NEW type, NEW prio, NEW ttl,
         Send(c, q, type, prio, ttl)
  PROVE  Single'
<1>1. /\ c \in Tasks /\ todo[c] = <<>> /\ todo' = [todo EXCEPT ![c] = PublishSteps(q, NewId)]
      /\ inflight' = inflight /\ q \in Queues
  BY DEF Send, Frame, Idle, Continue, Proceed, Tasks, ConstantsOK
<1>2. PICK v : v = PublishSteps(q, NewId) /\ HoldsNothing(v)
  BY HandlersHoldNothing
<1>3. HandsLeave
  BY <1>1, <1>2, StartedLeave DEF Single
<1>4. PICK id : id = NewId
  OBVIOUS
<1>5. id \in Ids /\ Known \subseteq Known'
  <2>1. msgs' = Append(msgs, NewMessage(q, prio, ttl, 0)) /\ Len(msgs) < MaxMessages
    BY DEF Send
  <2>2. Len(msgs') = Len(msgs) + 1
    BY <2>1 DEF Typed, DataTypeOK
  <2> QED
    BY <1>4, <2>1, <2>2, MessagesTyped DEF Ids, NewId, Known
<1>6. /\ Enqueue(q, id, Append(Prio, prio), IF Exists(q) THEN qtype[q] ELSE type)
      /\ Flying' = Flying
  BY <1>1, <1>4 DEF Send, Flying
<1>7. id \notin Flying /\ (\A t \in Tasks : ~InHands(t, id)) /\ \A p \in Queues : id \notin Queued(p)
  BY <1>4, AnywhereKnown
<1>8. \A t \in Tasks : ~InHands(t, id)'
  BY <1>3, <1>5, <1>7 DEF HandsLeave
<1> QED
  BY <1>1, <1>3, <1>5, <1>6, <1>7, <1>8, EnqueuedSingle

\* A message goes from in_flight into the hands of a handler, or is dropped.
LEMMA AnswerSingle ==
  ASSUME ConstantsOK, Typed, Single, NEW c \in Conns, NEW id0 \in Ids, Ack(c, id0) \/ Nack(c, id0)
  PROVE  Single'
<1>1. /\ c \in Tasks /\ todo[c] = <<>> /\ inflight' = TakeOut({id0}) /\ ready' = ready
      /\ Known' = Known
  BY DEF Ack, Nack, Frame, Idle, Tasks, Known
<1>2. Flying' = Flying \ {id0}
  BY <1>1, TakeOutFlying
<1>3. \/ todo' = todo
      \/ todo' = [todo EXCEPT ![c] = AckSteps(msgs[id0].queue, id0)]
      \/ /\ todo' = [todo EXCEPT ![c] = NackSteps(msgs[id0].queue, id0, inflight[id0])]
         /\ inflight[id0] > 0
  BY DEF Ack, Nack, Continue, Proceed, control
<1>4. CASE todo' = todo
  BY <1>1, <1>2, <1>4, SameHands, ReadySingle DEF Single
<1>5. CASE todo' = [todo EXCEPT ![c] = AckSteps(msgs[id0].queue, id0)]
  <2>1. HandsLeave
    BY <1>1, <1>5, HandlersHoldNothing, StartedLeave DEF Single
  <2> QED
    BY <1>1, <1>2, <2>1, ReadySingle
<1>6. CASE /\ todo' = [todo EXCEPT ![c] = NackSteps(msgs[id0].queue, id0, inflight[id0])]
           /\ inflight[id0] > 0
  <2>1. PICK q : q = msgs[id0].queue
    OBVIOUS
  <2>2. PICK a : a = Do("Failed", q, id0, inflight[id0], NoConsumer) /\ a.do = "Failed" /\ a.id = id0
    BY Fields
  <2>3. PICK d : d = OnQueue("Deliver", q) /\ d.do = "Deliver"
    BY Fields
  <2>4. PICK v : v = <<a, d>>
    OBVIOUS
  <2>5. Len(v) = 2 /\ v[1] = a /\ v[2] = d
    BY <2>4
  <2>6. todo' = [todo EXCEPT ![c] = v]
    BY <1>6, <2>1, <2>2, <2>3, <2>4 DEF NackSteps
  <2>7. \A id : Some(v, Holders(id)) => id = id0
    BY <2>2, <2>3, <2>5 DEF Some, Holders
  <2>8. \A id : AtMostOne(v, Holders(id))
    BY <2>2, <2>3, <2>5 DEF AtMostOne, Holders
  <2>9. /\ \A u \in Tasks : u # c => \A id : InHands(u, id)' <=> InHands(u, id)
        /\ \A id : InHands(c, id)' => id = id0
        /\ \A u \in Tasks, id \in Ids : AtMostOne(todo'[u], Holders(id))
    BY <1>1, <2>6, <2>7, <2>8, StartedHands DEF Single
  <2>10. id0 \in Flying
    BY <1>6 DEF Flying
  <2>11. \A q1 \in Queues : Queued(q1)' = Queued(q1)
    BY <1>1 DEF Queued
  <2>12. Once'
    BY <1>1, <2>9 DEF Single, Once
  <2>13. Apart'
    <3>1. PICK X : X = {id0}
      OBVIOUS
    <3>2. Apart
      BY DEF Single
    <3>3. \A id \in Ids : InHands(c, id)' => InHands(c, id) \/ id \in X
      BY <2>9, <3>1
    <3>4. \A t \in Tasks \ {c}, id \in Ids : InHands(t, id)' => InHands(t, id) /\ id \notin X
      BY <2>9, <2>10, <3>1, <3>2 DEF Apart
    <3>5. \A q1 \in Queues : Queued(q1)' \subseteq Queued(q1) /\ \A id \in X : id \notin Queued(q1)'
      BY <2>10, <2>11, <3>1, <3>2 DEF Apart
    <3>6. Flying' \subseteq Flying /\ \A id \in X : id \notin Flying'
      BY <1>2, <3>1
    <3> QED
      BY <1>1, <3>2, <3>3, <3>4, <3>5, <3>6, ToTask
  <2> QED
    BY <1>1, <1>2, <2>12, <2>13 DEF Single
<1> QED
  BY <1>3, <1>4, <1>5, <1>6

\* Clients.
LEMMA ClientsSingle ==
  ASSUME ConstantsOK, Typed, Single, Clients
  PROVE  Single'
<1>1. ASSUME NEW c \in Conns, Connect(c) \/ Lose(c)
      PROVE  Single'
  BY <1>1, IdleSingle DEF Connect, Lose, control, memory
<1>2. ASSUME NEW c \in Conns, NEW q, NEW type, SendExpired(c, q, type)
      PROVE  Single'
  BY <1>2, IdleSingle DEF SendExpired, control
<1>3. ASSUME NEW c \in Conns, NEW s \in Subs, Unsubscribe(c, s)
      PROVE  Single'
  BY <1>3, IdleSingle DEF Unsubscribe, control
<1>4. ASSUME NEW c \in Conns, NEW s \in Subs, NEW q \in Targets, NEW type \in QueueTypes,
             Subscribe(c, s, q, type)
      PROVE  Single'
  <2>1. /\ c \in Tasks /\ todo[c] = <<>> /\ todo' = [todo EXCEPT ![c] = SubscribeSteps(q)]
        /\ UNCHANGED <<ready, inflight, msgs>>
    BY <1>4 DEF Subscribe, Frame, Idle, Continue, Proceed, Tasks
  <2>2. HandsLeave
    BY <2>1, HandlersHoldNothing, StartedLeave DEF Single
  <2>3. Flying' = Flying /\ Known' = Known
    BY <2>1 DEF Flying, Known
  <2> QED
    BY <2>1, <2>2, <2>3, ReadySingle
<1> QED
  BY <1>1, <1>2, <1>3, <1>4, SendSingle, AnswerSingle DEF Clients

\* Connections that end, scans that start and the clock.
LEMMA LoopsSingle ==
  ASSUME ConstantsOK, Typed, Single,
         \/ \E c \in Conns : Unregister(c)
         \/ TimeoutTick \/ ExpiryTick \/ \E id \in Ids : Expire(id)
  PROVE  Single'
<1>1. ASSUME NEW c \in Conns, Unregister(c)
      PROVE  Single'
  BY <1>1, IdleSingle DEF Unregister, control
<1>2. ASSUME NEW t \in Tasks, NEW kind \in {"CheckTimeouts", "PurgeExpired"}, Tick(t, kind)
      PROVE  Single'
  <2>1. PICK v : v = [i \in 1..Len(created) |-> OnQueue(kind, created[i])]
    OBVIOUS
  <2>2. todo[t] = <<>> /\ todo' = [todo EXCEPT ![t] = v] /\ UNCHANGED <<ready, inflight, msgs>>
    BY <1>2, <2>1 DEF Tick, Idle, Continue, Proceed, memory
  <2>3. HoldsNothing(v)
    <3>1. Len(created) \in Nat
      BY DEF Typed, DataTypeOK
    <3>2. Len(v) = Len(created)
      BY <2>1, <3>1
    <3>3. \A k \in 1..Len(created) : v[k] = OnQueue(kind, created[k])
      BY <2>1
    <3>4. \A p : OnQueue(kind, p).do = kind
      BY Fields
    <3>5. \A k \in 1..Len(created) : v[k].do = kind
      BY <3>3, <3>4
    <3> QED
      BY <3>2, <3>5 DEF HoldsNothing
  <2>4. HandsLeave
    BY <2>2, <2>3, StartedLeave DEF Single
  <2>5. Flying' = Flying /\ Known' = Known
    BY <2>2 DEF Flying, Known
  <2> QED
    BY <2>2, <2>4, <2>5, ReadySingle
<1>3. ASSUME NEW id \in Ids, Expire(id)
      PROVE  Single'
  BY <1>3, IdleSingle DEF Expire, control, memory
<1> QED
  BY <1>1, <1>2, <1>3 DEF TimeoutTick, ExpiryTick, Tasks

\* A task goes on with steps that hold nothing, and no heap changes.
LEMMA GoesOnSingle ==
  ASSUME ConstantsOK, Typed, Single, NEW t \in Tasks, todo[t] # <<>>, NEW A, NEW v \in Seq(A),
         HoldsNothing(v), todo' = [todo EXCEPT ![t] = v \o Tail(todo[t])],
         UNCHANGED <<ready, inflight, msgs>>
  PROVE  Single'
<1>1. HandsLeave
  BY SplicedLeave DEF Single
<1>2. Flying' = Flying /\ Known' = Known
  BY DEF Flying, Known
<1> QED
  BY <1>1, <1>2, ReadySingle

\* Storage calls, drains that return, receipts and the opening of the socket.
LEMMA StoredSingle ==
  ASSUME ConstantsOK, Typed, Single, NEW t \in Tasks,
         QueueSaved(t) \/ MessageSaved(t) \/ StatusUpdated(t) \/ MessageDeleted(t)
         \/ DrainOk(t) \/ Receipt(t) \/ InFlightReset \/ QueuesLoaded \/ Serve
  PROVE  Single'
<1>1. PICK v : v = <<>> /\ v \in Seq({}) /\ HoldsNothing(v)
  BY NoSteps DEF HoldsNothing
<1>2. ASSUME NEW u, NEW kind, NEW A, NEW w \in Seq(A), HoldsNothing(w), Answers(u, kind, w), ready' = ready
      PROVE  Single'
  <2>1. /\ u \in Tasks /\ todo[u] # <<>> /\ todo' = [todo EXCEPT ![u] = w \o Tail(todo[u])]
        /\ UNCHANGED <<inflight, msgs>>
    BY <1>2, AnswersTyped DEF Answers, Proceed
  <2> QED
    BY <1>2, <2>1, GoesOnSingle
<1>3. CASE QueueSaved(t) \/ MessageSaved(t) \/ StatusUpdated(t) \/ MessageDeleted(t) \/ InFlightReset
  <2>1. \E u, kind : Answers(u, kind, v) /\ ready' = ready
    BY <1>1, <1>3 DEF QueueSaved, MessageSaved, StatusUpdated, MessageDeleted, InFlightReset
  <2> QED
    BY <1>1, <1>2, <2>1
<1>4. CASE DrainOk(t) \/ Receipt(t) \/ Serve
  <2>1. PICK u \in Tasks : Become(u, v) /\ todo[u] # <<>> /\ UNCHANGED <<ready, inflight, msgs>>
    BY <1>1, <1>4 DEF DrainOk, AtDrain, Receipt, Serve, Doing, Idle, memory, Tasks
  <2>2. todo' = [todo EXCEPT ![u] = v \o Tail(todo[u])]
    BY <2>1 DEF Become, Continue, Proceed
  <2> QED
    BY <1>1, <2>1, <2>2, GoesOnSingle
<1>5. CASE QueuesLoaded
  <2>1. PICK w \in Work(Len(msgs)) : /\ Answers(Main, "LoadQueues", w)
                                     /\ \A k \in 1..Len(w) : w[k].do = "LoadMessages"
    BY <1>5, QueuesLoadedWork
  <2>2. w \in Seq(StepUpTo(Len(msgs))) /\ ready' = ready /\ HoldsNothing(w)
    BY SMTT(60), <1>5, <2>1 DEF Work, QueuesLoaded, HoldsNothing
  <2> QED
    BY <1>2, <2>1, <2>2
<1> QED
  BY <1>3, <1>4, <1>5

\* Delivery takes a message out of its heap; it is then in flight, or over.
LEMMA DeliverSingle ==
  ASSUME ConstantsOK, Typed, Single, NEW t \in Tasks, Deliver(t)
  PROVE  Single'
<1>1. PICK q, id0, att, to :
        /\ q = Head(todo[t]).q /\ id0 = Head(ready[q])
        /\ \/ Become(t, <<>>) /\ UNCHANGED <<ready, inflight>>
           \/ /\ ready' = [ready EXCEPT ![q] = Tail(@)] /\ ready[q] # <<>>
              /\ \/ /\ Become(t, <<OnMessage("DeleteMessage", q, id0), OnQueue("Deliver", q)>>)
                    /\ inflight' = inflight
                 \/ /\ Become(t, DispatchSteps(q, id0, att, to))
                    /\ inflight' = [inflight EXCEPT ![id0] = att]
  BY ZenonT(60) DEF Deliver
<1>2. todo[t] # <<>> /\ Head(todo[t]).do = "Deliver" /\ q \in Queues /\ msgs' = msgs
  BY Zenon, <1>1, Current DEF Deliver, Doing, Idle, OfQueue, Kinds
<1>3. Known' = Known
  BY <1>2 DEF Known
<1>4. CASE Become(t, <<>>) /\ UNCHANGED <<ready, inflight>>
  <2>1. PICK v : v = <<>> /\ v \in Seq({}) /\ HoldsNothing(v)
    BY NoSteps DEF HoldsNothing
  <2>2. todo' = [todo EXCEPT ![t] = v \o Tail(todo[t])]
    BY <1>4, <2>1 DEF Become, Continue, Proceed
  <2> QED
    BY <1>2, <1>4, <2>1, <2>2, GoesOnSingle
<1>5. ASSUME ready' = [ready EXCEPT ![q] = Tail(@)], ready[q] # <<>>
      PROVE  /\ id0 \in Queued(q) /\ Queued(q) = Queued(q)' \cup {id0} /\ id0 \notin Queued(q)'
             /\ \A p \in Queues : p # q => Queued(p)' = Queued(p)
             /\ \A p \in Queues : Distinct(ready'[p]) /\ Queued(p)' \subseteq Queued(p)
             /\ id0 \in Ids
  <2>1. ready'[q] = Tail(ready[q]) /\ \A p \in Queues : p # q => ready'[p] = ready[p]
    BY <1>2, <1>5 DEF Typed, DataTypeOK
  <2>2. ready[q] \in Seq(Ids) /\ Distinct(ready[q])
    BY SMTT(60), <1>2 DEF Typed, DataTypeOK, Single, Once
  <2>3. /\ id0 \in Queued(q) /\ Queued(q) = Queued(q)' \cup {id0} /\ id0 \notin Queued(q)'
        /\ Distinct(ready'[q])
    <3>1. PICK s \in Seq(Ids) : s = ready[q] /\ s # <<>> /\ Distinct(s)
      BY <1>5, <2>2
    <3>2. /\ Head(s) \in Members(s) /\ Members(s) = Members(Tail(s)) \cup {Head(s)}
          /\ Distinct(Tail(s)) /\ Head(s) \notin Members(Tail(s))
      BY <3>1, PopMembers
    <3> QED
      BY <1>1, <2>1, <3>1, <3>2 DEF Queued
  <2>4. \A p \in Queues : p # q => Queued(p)' = Queued(p) /\ Distinct(ready'[p])
    BY <2>1 DEF Queued, Single, Once
  <2>5. id0 \in Ids
    BY <1>1, <1>5, <2>2
  <2> QED
    BY <2>3, <2>4, <2>5
<1>6. CASE /\ ready' = [ready EXCEPT ![q] = Tail(@)] /\ ready[q] # <<>>
           /\ Become(t, <<OnMessage("DeleteMessage", q, id0), OnQueue("Deliver", q)>>)
           /\ inflight' = inflight
  <2>1. PICK a : a = OnMessage("DeleteMessage", q, id0) /\ a.do = "DeleteMessage"
    BY Fields
  <2>2. PICK d : d = OnQueue("Deliver", q) /\ d.do = "Deliver"
    BY Fields
  <2>3. PICK v : v = <<a, d>>
    OBVIOUS
  <2>4. v \in Seq({a, d}) /\ Len(v) = 2 /\ v[1] = a /\ v[2] = d
    BY <2>3
  <2>5. HoldsNothing(v)
    BY <2>1, <2>2, <2>4 DEF HoldsNothing
  <2>6. todo' = [todo EXCEPT ![t] = v \o Tail(todo[t])]
    BY <1>6, <2>1, <2>2, <2>3 DEF Become, Continue, Proceed
  <2>7. HandsLeave
    BY <1>2, <2>4, <2>5, <2>6, SplicedLeave DEF Single
  <2>8. Flying' = Flying
    BY <1>6 DEF Flying
  <2> QED
    BY <1>3, <1>5, <1>6, <2>7, <2>8, FewerSingle
<1>7. CASE /\ ready' = [ready EXCEPT ![q] = Tail(@)] /\ ready[q] # <<>>
           /\ Become(t, DispatchSteps(q, id0, att, to))
           /\ inflight' = [inflight EXCEPT ![id0] = att]
  <2>1. PICK v : v = DispatchSteps(q, id0, att, to)
    OBVIOUS
  <2>2. HoldsNothing(v) /\ \E A : v \in Seq(A)
    <3>1. \E A : DispatchSteps(q, id0, att, to) \in Seq(A) /\ HoldsNothing(DispatchSteps(q, id0, att, to))
      BY HandlersHoldNothing
    <3> QED
      BY <2>1, <3>1
  <2>3. todo' = [todo EXCEPT ![t] = v \o Tail(todo[t])]
    BY <1>7, <2>1 DEF Become, Continue, Proceed
  <2>4. HandsLeave
    BY <1>2, <2>2, <2>3, SplicedLeave DEF Single
  <2>5. Flying' \subseteq Flying \cup {id0}
    BY <1>7 DEF Flying, Typed, DataTypeOK
  <2>6. Once'
    BY <1>5, <1>7, <2>4 DEF Once, HandsLeave
  <2>7. Apart'
    <3>1. PICK X : X = {id0}
      OBVIOUS
    <3>2. Apart
      BY DEF Single
    <3>3. Flying' \subseteq Flying \cup X
      BY <2>5, <3>1
    <3>4. \A u \in Tasks, id \in Ids : InHands(u, id)' => InHands(u, id) /\ id \notin X
      BY <1>2, <1>5, <1>7, <2>4, <3>1, <3>2 DEF Apart, HandsLeave
    <3>5. \A p \in Queues : Queued(p)' \subseteq Queued(p) /\ \A id \in X : id \notin Queued(p)'
      BY <1>2, <1>5, <1>7, <3>1, <3>2 DEF Apart
    <3> QED
      BY <3>2, <3>3, <3>4, <3>5, ToFlight
  <2>8. id0 \in Known
    BY <1>2, <1>5, <1>7, AnywhereKnown
  <2> QED
    BY <1>3, <2>5, <2>6, <2>7, <2>8 DEF Single
<1> QED
  BY SMTT(60), <1>1, <1>4, <1>6, <1>7

\* A failed message goes from the hands of the task back to its heap; a copy of
\* it is new in the heap of the dead letter queue.
LEMMA FailedSingle ==
  ASSUME ConstantsOK, Typed, Single, NEW t \in Tasks, Failed(t)
  PROVE  Single'
<1>1. /\ todo[t] # <<>> /\ Head(todo[t]).do = "Failed" /\ inflight' = inflight
      /\ \/ MoveToDlq(t, Head(todo[t]).q, Head(todo[t]).id)
         \/ Requeue(t, Head(todo[t]).q, Head(todo[t]).id)
  BY DEF Failed, Doing, Idle
<1>2. PICK q \in Queues, id0 \in Known : q = Head(todo[t]).q /\ id0 = Head(todo[t]).id
  BY <1>1, Current DEF OfQueue, OfMessage, Kinds
<1>3. Flying' = Flying /\ id0 \in Ids
  BY <1>1, <1>2, MessagesTyped DEF Flying
<1>4. Head(todo[t]) \in Holders(id0)
  BY <1>1, <1>2, Current DEF Holders, StepUpTo
<1>5. CASE Requeue(t, q, id0)
  <2>1. PICK a : a = OnMessage("SetReady", q, id0) /\ a.do = "SetReady"
    BY Fields
  <2>2. PICK v : v = <<a>> /\ v \in Seq({a}) /\ Len(v) = 1 /\ v[1] = a
    BY OneStep
  <2>3. todo' = [todo EXCEPT ![t] = v \o Tail(todo[t])]
    BY <1>5, <2>1, <2>2 DEF Requeue, RequeueSteps, Become, Continue, Proceed
  <2>4. HoldsNothing(v)
    BY <2>1, <2>2 DEF HoldsNothing
  <2>5. HandsLeave
    BY <1>1, <2>2, <2>3, <2>4, SplicedLeave DEF Single
  <2>6. ~Some(v, Holders(id0))
    BY <2>4, NoHolders
  <2>7. /\ \A u \in Tasks : u # t => \A id : InHands(u, id)' <=> InHands(u, id)
        /\ \A id : InHands(t, id)' <=> Some(v, Holders(id)) \/ Later(todo[t], Holders(id))
        /\ \A id : InHands(t, id) <=> Head(todo[t]) \in Holders(id) \/ Later(todo[t], Holders(id))
        /\ \A id \in Ids : Head(todo[t]) \in Holders(id) => ~Later(todo[t], Holders(id))
    BY <1>1, <2>2, <2>3, SplicedHands DEF Single
  <2>8. InHands(t, id0) /\ ~InHands(t, id0)'
    BY <1>3, <1>4, <2>6, <2>7
  <2>9. Apart
    BY DEF Single
  <2>10. \A u \in Tasks : ~InHands(u, id0)'
    BY <1>3, <2>7, <2>8, <2>9 DEF Apart
  <2>11. id0 \notin Flying /\ \A p \in Queues : id0 \notin Queued(p)
    BY <1>3, <2>8, <2>9 DEF Apart
  <2>12. Enqueue(q, id0, Prio, qtype[q]) /\ Known' = Known
    BY <1>5 DEF Requeue, Known
  <2> QED
    BY <1>3, <2>5, <2>10, <2>11, <2>12, EnqueuedSingle
<1>6. CASE MoveToDlq(t, q, id0)
  <2>1. PICK dlq \in Queues : dlq = DlqOf[q]
    BY DEF ConstantsOK
  <2>2. PICK copy : copy = NewId
    OBVIOUS
  <2>3. PICK v : v = DlqSteps(q, id0, dlq, copy)
    OBVIOUS
  <2>4. HoldsNothing(v) /\ \E A : v \in Seq(A)
    <3>1. \E A : DlqSteps(q, id0, dlq, copy) \in Seq(A) /\ HoldsNothing(DlqSteps(q, id0, dlq, copy))
      BY HandlersHoldNothing
    <3> QED
      BY <2>3, <3>1
  <2>5. todo' = [todo EXCEPT ![t] = v \o Tail(todo[t])]
    BY <1>6, <2>1, <2>2, <2>3 DEF MoveToDlq, Become, Continue, Proceed
  <2>6. HandsLeave
    BY <1>1, <2>4, <2>5, SplicedLeave DEF Single
  <2>7. copy \in Ids /\ Known \subseteq Known'
    <3>1. PICK m : msgs' = Append(msgs, m) /\ Len(msgs) < MaxMessages
      BY <1>6 DEF MoveToDlq
    <3>2. Len(msgs') = Len(msgs) + 1
      BY <3>1 DEF Typed, DataTypeOK
    <3> QED
      BY <2>2, <3>1, <3>2, MessagesTyped DEF Ids, NewId, Known
  <2>8. copy \notin Flying /\ (\A u \in Tasks : ~InHands(u, copy)) /\ \A p \in Queues : copy \notin Queued(p)
    BY <2>2, AnywhereKnown
  <2>9. \A u \in Tasks : ~InHands(u, copy)'
    BY <2>6, <2>7, <2>8 DEF HandsLeave
  <2>10. PICK prio, type : Enqueue(dlq, copy, prio, type)
    BY <1>6, <2>1, <2>2 DEF MoveToDlq
  <2> QED
    BY <1>3, <2>6, <2>7, <2>8, <2>9, <2>10, EnqueuedSingle
<1> QED
  BY <1>1, <1>2, <1>5, <1>6

\* A task takes messages into its hands that are in no heap and in no other hands.
LEMMA TakenSingle ==
  ASSUME ConstantsOK, Typed, Single, NEW t \in Tasks, todo[t] # <<>>, NEW A, NEW v \in Seq(A),
         todo' = [todo EXCEPT ![t] = v \o Tail(todo[t])], NEW X,
         \A id \in Ids : AtMostOne(v, Holders(id)) /\ (Some(v, Holders(id)) => id \in X),
         \A id \in X : /\ \A u \in Tasks : ~InHands(u, id)
                       /\ \A q \in Queues : id \notin Queued(q)
                       /\ id \notin Flying',
         Flying' \subseteq Flying, UNCHANGED <<ready, msgs>>
  PROVE  Single'
<1>1. /\ \A u \in Tasks : u # t => \A id : InHands(u, id)' <=> InHands(u, id)
      /\ \A id : InHands(t, id)' <=> Some(v, Holders(id)) \/ Later(todo[t], Holders(id))
      /\ \A id : InHands(t, id) <=> Head(todo[t]) \in Holders(id) \/ Later(todo[t], Holders(id))
      /\ (\A id \in Ids : /\ AtMostOne(v, Holders(id))
                          /\ ~(Some(v, Holders(id)) /\ Later(todo[t], Holders(id))))
           => \A u \in Tasks, id \in Ids : AtMostOne(todo'[u], Holders(id))
  BY SplicedHands DEF Single
<1>2. \A id \in Ids : ~(Some(v, Holders(id)) /\ Later(todo[t], Holders(id)))
  BY <1>1
<1>3. \A q \in Queues : Queued(q)' = Queued(q)
  BY DEF Queued
<1>4. Once'
  BY <1>1, <1>2 DEF Single, Once
<1>5. Apart'
  <2>1. Apart
    BY DEF Single
  <2>2. \A id \in Ids : InHands(t, id)' => InHands(t, id) \/ id \in X
    BY <1>1
  <2>3. \A u \in Tasks \ {t}, id \in Ids : InHands(u, id)' => InHands(u, id) /\ id \notin X
    BY <1>1
  <2>4. \A q \in Queues : Queued(q)' \subseteq Queued(q) /\ \A id \in X : id \notin Queued(q)'
    BY <1>3
  <2> QED
    BY <2>1, <2>2, <2>3, <2>4, ToTask
<1>6. Flying' \subseteq Known'
  BY DEF Single, Known
<1> QED
  BY <1>4, <1>5, <1>6 DEF Single

\* check_timeouts takes what is overdue out of in_flight before it fails it.
LEMMA CheckTimeoutsSingle ==
  ASSUME ConstantsOK, Typed, Single, NEW t \in Tasks, CheckTimeouts(t)
  PROVE  Single'
<1>1. PICK q : q = Head(todo[t]).q
  OBVIOUS
<1>2. PICK overdue, ids : /\ overdue \in SUBSET InFlightOf(q) /\ ids \in SetToSeqs(overdue)
                          /\ inflight' = TakeOut(overdue)
                          /\ Become(t, IF overdue = {} THEN <<>>
                                       ELSE Append(ForEach("Failed", q, ids),
                                                   OnQueue("Deliver", q)))
  BY <1>1 DEF CheckTimeouts
<1>3. todo[t] # <<>> /\ UNCHANGED <<ready, msgs>> /\ Flying' = Flying \ overdue
  BY <1>2, TakeOutFlying DEF CheckTimeouts, Doing, Idle
<1>4. \A id \in overdue : id \in 1..Len(msgs) /\ id \in Flying
  <2>1. \A id \in overdue : id \in 1..Len(msgs) /\ inflight[id] > 0
    BY <1>2 DEF InFlightOf
  <2> QED
    BY <2>1, MessagesTyped DEF Flying
<1>5. \A id \in overdue : /\ \A u \in Tasks : ~InHands(u, id)
                          /\ \A p \in Queues : id \notin Queued(p)
                          /\ id \notin Flying'
  <2>1. Apart /\ Flying \subseteq Ids
    BY DEF Single, Flying
  <2> QED
    BY <1>3, <1>4, <2>1 DEF Apart
<1>6. CASE Become(t, <<>>)
  <2>1. PICK v : v = <<>> /\ v \in Seq({}) /\ HoldsNothing(v)
    BY NoSteps DEF HoldsNothing
  <2>2. todo' = [todo EXCEPT ![t] = v \o Tail(todo[t])]
    BY <1>6, <2>1 DEF Become, Continue, Proceed
  <2>3. HandsLeave
    BY <1>3, <2>1, <2>2, SplicedLeave DEF Single
  <2>4. Flying' \subseteq Flying /\ Known' = Known
    BY <1>3 DEF Known
  <2> QED
    BY <1>3, <2>3, <2>4, ReadySingle
<1>7. CASE Become(t, Append(ForEach("Failed", q, ids), OnQueue("Deliver", q)))
  <2>1. /\ \A id \in overdue : id \in 1..Len(msgs)
        /\ IsFiniteSet(overdue)
    BY <1>4, MessagesTyped, Positions
  <2>2. /\ ids \in Seq(overdue) /\ \A i, j \in 1..Len(ids) : ids[i] = ids[j] => i = j
    BY <1>2, <2>1, OrderingIsOnto
  <2>3. PICK fs : fs = ForEach("Failed", q, ids)
    OBVIOUS
  <2>4. PICK d : d = OnQueue("Deliver", q) /\ d.do = "Deliver"
    BY Fields
  <2>5. PICK n \in Nat : n = Len(ids)
    BY <2>2, LenProperties
  <2>6. fs = [i \in 1..n |-> Do("Failed", q, ids[i], inflight[ids[i]], NoConsumer)]
    BY <2>3, <2>5 DEF ForEach
  <2>7. PICK A : A = {fs[i] : i \in 1..n} \cup {d}
    OBVIOUS
  <2>8. fs \in Seq(A) /\ Len(fs) = n
    BY <2>6, <2>7
  <2>9. \A i \in 1..n : fs[i].do = "Failed" /\ fs[i].id = ids[i]
    <3>1. \A i \in 1..n : fs[i] = Do("Failed", q, ids[i], inflight[ids[i]], NoConsumer)
      BY <2>6
    <3> QED
      BY <3>1, Fields
  <2>10. PICK v : v = Append(fs, d)
    OBVIOUS
  <2>11. /\ v \in Seq(A) /\ Len(v) = n + 1 /\ v[n + 1] = d
         /\ \A i \in 1..n : v[i] = fs[i]
    <3>1. d \in A
      BY <2>7
    <3>2. /\ Append(fs, d) \in Seq(A) /\ Len(Append(fs, d)) = Len(fs) + 1
          /\ \A i \in 1..Len(fs) : Append(fs, d)[i] = fs[i]
          /\ Append(fs, d)[Len(fs) + 1] = d
      BY <2>8, <3>1, AppendProperties
    <3> QED
      BY <2>8, <2>10, <3>2
  <2>12. todo' = [todo EXCEPT ![t] = v \o Tail(todo[t])]
    BY <1>7, <2>3, <2>4, <2>10 DEF Become, Continue, Proceed
  <2>13. \A k \in 1..Len(v) : \A id : v[k] \in Holders(id) => k \in 1..n /\ ids[k] = id
    <3>1. \A k \in 1..Len(v) : k \in 1..n \/ k = n + 1
      BY <2>11
    <3> QED
      BY <2>4, <2>9, <2>11, <3>1 DEF Holders
  <2>14. \A id : AtMostOne(v, Holders(id))
    BY <2>2, <2>5, <2>13 DEF AtMostOne
  <2>15. \A id : Some(v, Holders(id)) => id \in overdue
    <3>1. \A k \in 1..n : ids[k] \in overdue
      BY <2>2, <2>5, ElementOfSeq
    <3> QED
      BY <2>13, <3>1 DEF Some
  <2> QED
    BY <1>3, <1>5, <2>11, <2>12, <2>14, <2>15, TakenSingle
<1> QED
  BY <1>2, <1>6, <1>7

\* purge_expired takes messages out of a heap and of in_flight.
LEMMA PurgeExpiredSingle ==
  ASSUME ConstantsOK, Typed, Single, NEW t \in Tasks, PurgeExpired(t)
  PROVE  Single'
<1>1. PICK q : q = Head(todo[t]).q
  OBVIOUS
<1>2. PICK dead : dead = ExpiredOf(q)
  OBVIOUS
<1>3. /\ todo[t] # <<>> /\ Head(todo[t]).do = "PurgeExpired" /\ msgs' = msgs
      /\ ready' = [ready EXCEPT ![q] = Without(@, dead)]
      /\ inflight' = TakeOut(dead)
  BY <1>1, <1>2 DEF PurgeExpired, Doing, Idle
<1>4. PICK ids \in SetToSeqs(dead) : Become(t, ForEach("DeleteMessage", q, ids))
  BY <1>1, <1>2 DEF PurgeExpired
<1>5. PICK n \in Nat : n = Len(ids)
  <2>1. \A id \in dead : id \in 1..Len(msgs)
    BY <1>2, MessagesTyped DEF ExpiredOf, Typed, OnlyKnown
  <2>2. ids \in Seq(1..Len(msgs))
    BY <2>1, MessagesTyped, OrderingTyped
  <2> QED
    BY <2>2, LenProperties
<1>6. PICK v : v = ForEach("DeleteMessage", q, ids)
  OBVIOUS
<1>7. v = [i \in 1..n |-> Do("DeleteMessage", q, ids[i], inflight[ids[i]], NoConsumer)]
  BY <1>5, <1>6 DEF ForEach
<1>8. PICK A : v \in Seq(A) /\ Len(v) = n
  <2>1. PICK A : A = {v[i] : i \in 1..n}
    OBVIOUS
  <2>2. v \in Seq(A) /\ Len(v) = n
    BY <1>7, <2>1
  <2> QED
    BY <2>2
<1>9. HoldsNothing(v)
  <2>1. \A i \in 1..n : v[i] = Do("DeleteMessage", q, ids[i], inflight[ids[i]], NoConsumer)
    BY <1>7
  <2>2. \A i \in 1..n : v[i].do = "DeleteMessage"
    BY <2>1, Fields
  <2> QED
    BY <1>8, <2>2 DEF HoldsNothing
<1>10. todo' = [todo EXCEPT ![t] = v \o Tail(todo[t])]
  BY <1>4, <1>6 DEF Become, Continue, Proceed
<1>11. HandsLeave
  BY <1>3, <1>8, <1>9, <1>10, SplicedLeave DEF Single
<1>12. \A p \in Queues : Distinct(ready'[p]) /\ Queued(p)' \subseteq Queued(p)
  <2>1. \A p \in Queues : ready'[p] = ready[p] \/ ready'[p] = Without(ready[p], dead)
    BY <1>3 DEF Typed, DataTypeOK
  <2>2. \A p \in Queues : ready[p] \in Seq(Ids) /\ Distinct(ready[p])
    BY DEF Typed, DataTypeOK, Single, Once
  <2>3. \A p \in Queues : /\ Members(Without(ready[p], dead)) \subseteq Members(ready[p])
                          /\ Distinct(Without(ready[p], dead))
    BY <2>2, WithoutMembers
  <2> QED
    BY <2>1, <2>2, <2>3 DEF Queued
<1>13. Flying' \subseteq Flying /\ Known' = Known
  BY <1>3, TakeOutFlying DEF Known
<1> QED
  BY <1>11, <1>12, <1>13, FewerSingle

\* restore() takes the messages of a queue into its hands, which are nowhere yet.
LEMMA MessagesLoadedSingle ==
  ASSUME ConstantsOK, Typed, Single, Unloaded, MessagesLoaded
  PROVE  Single'
<1>1. PICK v \in Work(Len(msgs)) :
        /\ Answers(Main, "LoadMessages", v)
        /\ \A k \in 1..Len(v) : /\ v[k].do = "Restore" /\ v[k].q = Head(todo[Main]).q
                                /\ v[k].id \in Known /\ rows[v[k].id] # "absent"
                                /\ msgs[v[k].id].queue = v[k].q
        /\ \A id \in Known : rows[id] # "absent" /\ msgs[id].queue = Head(todo[Main]).q
                               => \E k \in 1..Len(v) : v[k].id = id
        /\ \A i, j \in 1..Len(v) : v[i].id = v[j].id => i = j
  BY MessagesLoadedWork
<1>2. PICK q \in Queues :
        /\ q = Head(todo[Main]).q /\ Answers(Main, "LoadMessages", v)
        /\ \A k \in 1..Len(v) : /\ v[k].do = "Restore" /\ v[k].id \in Known
                                /\ msgs[v[k].id].queue = q
        /\ \A i, j \in 1..Len(v) : v[i].id = v[j].id => i = j
  <2>1. Head(todo[Main]).q \in Queues
    BY MessagesLoadedWork
  <2> QED
    BY <1>1, <2>1
<1>3. /\ Main \in Tasks /\ todo[Main] # <<>> /\ Head(todo[Main]).do = "LoadMessages"
      /\ todo' = [todo EXCEPT ![Main] = v \o Tail(todo[Main])]
      /\ UNCHANGED <<ready, msgs, inflight>>
  BY Zenon, <1>2, AnswersTyped DEF Answers, Proceed, MessagesLoaded
<1>4. Flying' = Flying
  BY <1>3 DEF Flying
<1>5. PICK X : X = {id \in Known : msgs[id].queue = q}
  OBVIOUS
<1>6. Loads(todo[Main], q)
  <2>1. todo[Main] \in Seq(StepUpTo(Len(msgs)))
    BY <1>3, Current DEF Work
  <2>2. Head(todo[Main]) = todo[Main][1] /\ 1 \in 1..Len(todo[Main])
    BY <1>3, <2>1, HeadTailProperties, LenProperties, EmptySeq
  <2> QED
    BY <1>2, <1>3, <2>2 DEF Loads, Loading
<1>7. \A id \in X : ~InSystem(id)
  BY <1>5, <1>6 DEF Unloaded
<1>8. \A id \in Ids : AtMostOne(v, Holders(id)) /\ (Some(v, Holders(id)) => id \in X)
  <2>1. \A k \in 1..Len(v) : \A id : v[k] \in Holders(id) => v[k].id = id /\ id \in X
    BY <1>2, <1>5 DEF Holders
  <2> QED
    BY <1>2, <2>1 DEF AtMostOne, Some
<1>9. \A id \in X : /\ \A u \in Tasks : ~InHands(u, id)
                    /\ \A p \in Queues : id \notin Queued(p)
                    /\ id \notin Flying'
  BY <1>4, <1>7 DEF InSystem
<1>10. v \in Seq(StepUpTo(Len(msgs)))
  BY DEF Work
<1> QED
  BY <1>3, <1>4, <1>8, <1>9, <1>10, TakenSingle

\* restore() puts a message from its hands into the heap, or drops it.
LEMMA RestoreSingle ==
  ASSUME ConstantsOK, Typed, Single, Restore
  PROVE  Single'
<1>1. PICK w : w = todo[Main]
  OBVIOUS
<1>2. PICK id0 \in Known, q \in Queues : id0 = Head(w).id /\ q = Head(w).q
  BY <1>1, RestoreWork
<1>3. /\ Main \in Tasks /\ w # <<>> /\ Head(w).do = "Restore" /\ UNCHANGED <<msgs, inflight>>
      /\ \/ ready' = ready /\ \E d \in StepUpTo(Len(msgs)) : d.do = "DeleteMessage" /\ Become(Main, <<d>>)
         \/ Become(Main, <<>>) /\ Enqueue(q, id0, Prio, qtype[q])
  BY <1>1, <1>2, RestoreWork
<1>4. Flying' = Flying /\ Known' = Known /\ id0 \in Ids
  BY <1>3, MessagesTyped DEF Flying, Known
<1>5. ASSUME NEW d, d.do = "DeleteMessage", Become(Main, <<d>>), ready' = ready
      PROVE  Single'
  <2>1. PICK v : v = <<d>> /\ v \in Seq({d}) /\ Len(v) = 1 /\ v[1] = d
    BY OneStep
  <2>2. todo' = [todo EXCEPT ![Main] = v \o Tail(todo[Main])]
    BY <1>5, <2>1 DEF Become, Continue, Proceed
  <2>3. HoldsNothing(v)
    BY <1>5, <2>1 DEF HoldsNothing
  <2> QED
    BY <1>1, <1>3, <1>5, <2>1, <2>2, <2>3, GoesOnSingle
<1>6. CASE Become(Main, <<>>) /\ Enqueue(q, id0, Prio, qtype[q])
  <2>1. PICK v : v = <<>> /\ v \in Seq({}) /\ HoldsNothing(v)
    BY NoSteps DEF HoldsNothing
  <2>2. todo' = [todo EXCEPT ![Main] = v \o Tail(todo[Main])]
    BY <1>6, <2>1 DEF Become, Continue, Proceed
  <2>3. HandsLeave
    BY <1>1, <1>3, <2>1, <2>2, SplicedLeave DEF Single
  <2>4. ~Some(v, Holders(id0))
    BY <2>1, NoHolders
  <2>5. /\ \A u \in Tasks : u # Main => \A id : InHands(u, id)' <=> InHands(u, id)
        /\ \A id : InHands(Main, id)' <=> Some(v, Holders(id)) \/ Later(todo[Main], Holders(id))
        /\ \A id : InHands(Main, id) <=> Head(todo[Main]) \in Holders(id) \/ Later(todo[Main], Holders(id))
        /\ \A id \in Ids : Head(todo[Main]) \in Holders(id) => ~Later(todo[Main], Holders(id))
    BY <1>1, <1>3, <2>1, <2>2, SplicedHands DEF Single
  <2>6. Head(todo[Main]) \in Holders(id0)
    BY <1>1, <1>2, <1>3, Current DEF Holders, StepUpTo
  <2>7. InHands(Main, id0) /\ ~InHands(Main, id0)'
    BY <1>4, <2>4, <2>5, <2>6
  <2>8. Apart
    BY DEF Single
  <2>9. \A u \in Tasks : ~InHands(u, id0)'
    BY <1>3, <1>4, <2>5, <2>7, <2>8 DEF Apart
  <2>10. id0 \notin Flying /\ \A p \in Queues : id0 \notin Queued(p)
    BY <1>3, <1>4, <2>7, <2>8 DEF Apart
  <2> QED
    BY <1>4, <1>6, <2>3, <2>9, <2>10, EnqueuedSingle
<1> QED
  BY <1>3, <1>5, <1>6

\* A start finds nothing anywhere, a crash leaves nothing.
LEMMA StartSingle ==
  ASSUME ConstantsOK, Typed, Rests, Single, Start \/ Crash
  PROVE  Single'
<1>1. CASE Start
  <2>1. /\ todo[Main] = <<>> /\ todo' = [todo EXCEPT ![Main] = RestoreSteps] /\ Main \in Tasks
        /\ UNCHANGED <<ready, inflight, msgs>>
    BY <1>1 DEF Start, Rests, Idle, Continue, Proceed, memory, Tasks
  <2>2. HoldsNothing(RestoreSteps)
    <3>1. PICK a : a = OnQueue("ResetInFlight", NoQueue) /\ a.do = "ResetInFlight"
      BY Fields
    <3>2. PICK b : b = OnQueue("LoadQueues", NoQueue) /\ b.do = "LoadQueues"
      BY Fields
    <3>3. PICK c : c = OnQueue("Serve", NoQueue) /\ c.do = "Serve"
      BY Fields
    <3>4. RestoreSteps = <<a, b, c>>
      BY <3>1, <3>2, <3>3 DEF RestoreSteps
    <3>5. HoldsNothing(<<a, b, c>>)
      BY <3>1, <3>2, <3>3 DEF HoldsNothing
    <3> QED
      BY <3>4, <3>5
  <2>3. HandsLeave
    BY <2>1, <2>2, StartedLeave DEF Single
  <2>4. Flying' = Flying /\ Known' = Known
    BY <2>1 DEF Flying, Known
  <2> QED
    BY <2>1, <2>3, <2>4, ReadySingle
<1>2. CASE Crash
  <2>1. /\ \A t \in Tasks : todo'[t] = <<>>
        /\ \A q \in Queues : ready'[q] = <<>>
        /\ \A id \in Ids : inflight'[id] = 0
    BY <1>2 DEF Crash
  <2>2. Flying' = {}
    BY <2>1 DEF Flying
  <2>3. \A t \in Tasks, id \in Ids : ~InHands(t, id)' /\ AtMostOne(todo'[t], Holders(id))
    BY <2>1 DEF InHands, Some, AtMostOne
  <2>4. \A q \in Queues : Queued(q)' = {} /\ Distinct(ready'[q])
    <3>1. PICK e : e = <<>> /\ Len(e) = 0
      OBVIOUS
    <3>2. Members(e) = {} /\ Distinct(e)
      BY <3>1 DEF Members, Distinct
    <3> QED
      BY <2>1, <3>1, <3>2 DEF Queued
  <2>5. Once'
    BY <2>3, <2>4 DEF Once
  <2>6. Apart'
    BY <2>2, <2>3, <2>4 DEF Apart
  <2> QED
    BY <2>2, <2>5, <2>6 DEF Single
<1> QED
  BY <1>1, <1>2

\* A connection that was lost stays so until the process ends.
LEMMA SteadyBefore ==
  ASSUME ConstantsOK, Typed, [Next]_vars, ~Crash, Steady'
  PROVE  Steady /\ \A t \in Tasks : ~StorageFails(t) /\ ~DrainFails(t)
<1>1. dbFailures = 0 /\ \A t \in Tasks : ~StorageFails(t)
  BY NoFailureYet DEF Steady
<1>2. \A c \in Conns : link'[c] \in {"none", "open"}
  BY DEF Steady
<1>3. link \in [Conns -> {"none", "open", "lost", "gone"}]
  BY DEF Typed, DataTypeOK
<1>4. link' = link => Steady
  BY <1>1, <1>2 DEF Steady
<1>5. ASSUME NEW c \in Conns, Connect(c) \/ Lose(c) \/ Unregister(c)
      PROVE  Steady
  <2>1. \A d \in Conns : link'[d] # link[d] => d = c
    BY <1>3, <1>5 DEF Connect, Lose, Unregister
  <2>2. CASE Connect(c)
    <3>1. link[c] = "none"
      BY <2>2 DEF Connect
    <3>2. \A d \in Conns : link[d] \in {"none", "open"}
      BY <1>2, <2>1, <3>1
    <3> QED
      BY <1>1, <3>2 DEF Steady
  <2>3. CASE Lose(c) \/ Unregister(c)
    <3>1. link'[c] \in {"lost", "gone"}
      BY <1>3, <2>3 DEF Lose, Unregister
    <3> QED
      BY <1>2, <3>1
  <2> QED
    BY <1>5, <2>2, <2>3
<1>6. Clients => Steady
  <2>1. ASSUME NEW c \in Conns
        PROVE  /\ \A q, type, prio, ttl : Send(c, q, type, prio, ttl) => link' = link
               /\ \A q, type : SendExpired(c, q, type) => link' = link
               /\ \A s, q, type : Subscribe(c, s, q, type) => link' = link
               /\ \A s : Unsubscribe(c, s) => link' = link
               /\ \A id : Ack(c, id) \/ Nack(c, id) => link' = link
    BY Zenon DEF Send, SendExpired, Subscribe, Unsubscribe, Ack, Nack, sessions
  <2> QED
    BY <1>4, <1>5, <2>1 DEF Clients
<1>7. \A t \in Tasks : Run(t) \/ Suspend(t) => Steady
  <2>1. \A t : Run(t) \/ Suspend(t) => link' = link
    BY ZenonT(60) DEF Run, QueueSaved, MessageSaved, StatusUpdated, MessageDeleted, Answers, Deliver, DrainOk,
           DrainFails, Failed, Receipt, CheckTimeouts, PurgeExpired, Suspend, sessions
  <2> QED
    BY <1>4, <2>1
<1>8. TimeoutTick \/ ExpiryTick \/ (\E id \in Ids : Expire(id)) => Steady
  <2>1. TimeoutTick \/ ExpiryTick \/ (\E id \in Ids : Expire(id)) => link' = link
    BY DEF TimeoutTick, ExpiryTick, Tick, Expire, sessions
  <2> QED
    BY <1>4, <2>1
<1>9. Restart => Steady
  <2>1. Restart => link' = link
    BY DEF Restart, Start, InFlightReset, QueuesLoaded, MessagesLoaded, Answers, Restore, Serve,
           sessions
  <2> QED
    BY <1>4, <2>1
<1>10. UNCHANGED vars => Steady
  <2>1. UNCHANGED vars => link' = link
    BY DEF vars, sessions
  <2> QED
    BY <1>4, <2>1
<1>11. Steady
  BY <1>1, <1>5, <1>6, <1>7, <1>8, <1>9, <1>10 DEF Next
<1>12. ASSUME NEW t \in Tasks, DrainFails(t)
       PROVE  FALSE
  <2>1. todo[t] # <<>> /\ Head(todo[t]).do = "Drain"
    BY <1>12 DEF DrainFails, AtDrain, Idle
  <2>2. PICK c \in Conns : c = Head(todo[t]).to[1]
    BY <2>1, Current DEF Consumer
  <2>3. link[c] \in {"lost", "gone"}
    BY <1>12, <2>2 DEF DrainFails
  <2> QED
    BY <1>11, <2>3 DEF Steady
<1> QED
  BY <1>1, <1>11, <1>12

\* As long as no storage call has raised and no connection been lost, a message
\* is in one place at a time.
LEMMA SingleStep ==
  ASSUME ConstantsOK, Typed, Rests, Opening, Single, Unloaded, [Next]_vars,
         \A t \in Tasks : ~StorageFails(t) /\ ~DrainFails(t)
  PROVE  Single'
<1>1. CASE UNCHANGED vars
  BY <1>1, IdleSingle DEF vars, control, memory
<1>2. ASSUME NEW t \in Tasks, Suspend(t)
      PROVE  Single'
  BY <1>2, IdleSingle DEF Suspend, memory
<1>3. ASSUME NEW t \in Tasks, Run(t)
      PROVE  Single'
  BY <1>3, StoredSingle, DeliverSingle, FailedSingle, CheckTimeoutsSingle, PurgeExpiredSingle DEF Run
<1>4. CASE Restart
  <2>1. Main \in Tasks
    BY DEF Tasks
  <2> QED
    BY <1>4, <2>1, StartSingle, StoredSingle, MessagesLoadedSingle, RestoreSingle DEF Restart
<1> QED
  BY <1>1, <1>2, <1>3, <1>4, ClientsSingle, LoopsSingle, StartSingle DEF Next

\* Once the socket is open it stays so until the process ends.
LEMMA StaysUp ==
  ASSUME ConstantsOK, Typed, Opening, up = "up", [Next]_vars, ~Crash
  PROVE  up' = "up"
<1>1. UNCHANGED vars => up' = up
  BY DEF vars
<1>2. ASSUME NEW t \in Tasks \ {Main}, Run(t) \/ Suspend(t) \/ StorageFails(t)
      PROVE  up' = up
  BY <1>2, OthersWait
<1> QED
  BY <1>1, <1>2, After, ClientsWait

\* Loads and Loaders speak of the same steps.
LEMMA LoadersLoad ==
  ASSUME NEW n, NEW w \in Seq(StepUpTo(n)), NEW q
  PROVE  Loads(w, q) <=> Some(w, Loaders(q))
<1>1. \A k \in 1..Len(w) : w[k] \in Step
  BY ElementOfSeq DEF StepUpTo
<1> QED
  BY <1>1 DEF Loads, Some, Loaders

\* What is left to load after a step of restore() that loads what it puts in its
\* place: of queues that are still to be loaded nothing got anywhere.
LEMMA UnloadedAfter ==
  ASSUME ConstantsOK, Typed, Unloaded, todo[Main] # <<>>, up' # "down", msgs' = msgs,
         NEW v \in Seq(StepUpTo(Len(msgs))), todo'[Main] = v \o Tail(todo[Main]),
         \A q \in Queues : /\ AtMostOne(v, Loaders(q))
                           /\ Loads(v, q) => Loading(Head(todo[Main]), q),
         \A id \in Known : Loads(todo'[Main], msgs[id].queue) /\ InSystem(id)' => InSystem(id)
  PROVE  Unloaded'
<1>1. PICK w : w = todo[Main]
  OBVIOUS
<1>2. w \in Seq(StepUpTo(Len(msgs))) /\ w # <<>> /\ Head(w) \in StepUpTo(Len(msgs)) /\ Main \in Tasks
  BY <1>1, Current DEF Work, Tasks
<1>3. Len(w) >= 1 /\ Len(w) \in Nat /\ Head(w) = w[1]
  BY <1>2, HeadTailProperties, LenProperties, EmptySeq
<1>4. ASSUME NEW q \in Queues
      PROVE  /\ AtMostOne(v \o Tail(w), Loaders(q))
             /\ Loads(v \o Tail(w), q) => Loads(w, q)
  <2>1. /\ AtMostOne(w, Loaders(q)) /\ Head(w) \in Loaders(q) => ~Later(w, Loaders(q))
        /\ AtMostOne(w, Loaders(q)) /\ AtMostOne(v, Loaders(q))
             /\ ~(Some(v, Loaders(q)) /\ Later(w, Loaders(q)))
             => AtMostOne(v \o Tail(w), Loaders(q))
    BY <1>2, SplicedSome
  <2>2. AtMostOne(w, Loaders(q)) /\ AtMostOne(v, Loaders(q))
    BY <1>1 DEF Unloaded
  <2>3. Loads(v, q) => Head(w) \in Loaders(q) /\ Loads(w, q)
    <3>1. Loading(Head(w), q) => Head(w) \in Loaders(q)
      BY <1>2 DEF Loaders, StepUpTo
    <3>2. Loading(Head(w), q) => Loads(w, q)
      BY <1>3 DEF Loads
    <3> QED
      BY <1>1, <3>1, <3>2
  <2>4. Some(v, Loaders(q)) => Head(w) \in Loaders(q)
    BY <2>3, LoadersLoad
  <2>5. Loads(v \o Tail(w), q) => Loads(v, q) \/ Loads(w, q)
    BY <1>2, LoadsAfter
  <2> QED
    BY <2>1, <2>2, <2>3, <2>4, <2>5
<1>5. Known' = Known /\ \A id \in Known : msgs[id].queue \in Queues
  BY MessagesTyped DEF Known
<1>6. ASSUME NEW id \in Known, Loads(todo'[Main], msgs[id].queue)
      PROVE  ~InSystem(id)'
  <2>1. Loads(todo[Main], msgs[id].queue)
    BY <1>1, <1>4, <1>5, <1>6
  <2> QED
    BY <1>6, <2>1 DEF Unloaded
<1>7. \A q \in Queues : AtMostOne(todo'[Main], Loaders(q))
  BY <1>1, <1>4
<1> QED
  BY <1>5, <1>6, <1>7 DEF Unloaded

\* Nothing gets anywhere when no task takes it and the memory stays as it is.
LEMMA NothingEnters ==
  ASSUME HandsLeave, UNCHANGED <<ready, inflight>>
  PROVE  \A id \in Ids : InSystem(id)' => InSystem(id)
<1>1. Flying' = Flying /\ \A q \in Queues : Queued(q)' = Queued(q)
  BY DEF Flying, Queued
<1> QED
  BY <1>1 DEF HandsLeave, InSystem

\* A start, when nothing is anywhere.
LEMMA StartUnloaded ==
  ASSUME ConstantsOK, Typed, Rests, Single, Unloaded, Start
  PROVE  Unloaded'
<1>1. PICK a : a = OnQueue("ResetInFlight", NoQueue) /\ a.do = "ResetInFlight"
  BY Fields
<1>2. PICK b : b = OnQueue("LoadQueues", NoQueue) /\ b.do = "LoadQueues"
  BY Fields
<1>3. PICK c : c = OnQueue("Serve", NoQueue) /\ c.do = "Serve"
  BY Fields
<1>4. PICK v : v = <<a, b, c>> /\ v = RestoreSteps
  BY <1>1, <1>2, <1>3 DEF RestoreSteps
<1>5. /\ todo[Main] = <<>> /\ todo' = [todo EXCEPT ![Main] = v] /\ Main \in Tasks
      /\ UNCHANGED <<ready, inflight, msgs>> /\ up = "down"
  BY <1>4 DEF Start, Rests, Idle, Continue, Proceed, memory, Tasks
<1>6. HoldsNothing(v) /\ \A q : AtMostOne(v, Loaders(q))
  <2>1. Len(v) = 3 /\ v[1] = a /\ v[2] = b /\ v[3] = c
    BY <1>4
  <2>2. \A k \in 1..Len(v) : k = 1 \/ k = 2 \/ k = 3
    BY <2>1
  <2>3. \A q : \A k \in 1..Len(v) : v[k] \in Loaders(q) => k = 2
    BY <1>1, <1>3, <2>1, <2>2 DEF Loaders, Loading
  <2> QED
    BY <1>1, <1>2, <1>3, <2>1, <2>2, <2>3 DEF HoldsNothing, AtMostOne
<1>7. HandsLeave
  BY <1>5, <1>6, StartedLeave DEF Single
<1>8. \A id \in Known : ~InSystem(id)'
  <2>1. \A id \in Known : ~InSystem(id) /\ id \in Ids
    BY <1>5, MessagesTyped DEF Unloaded
  <2> QED
    BY <1>5, <1>7, <2>1, NothingEnters
<1>9. todo'[Main] = v /\ Known' = Known
  BY <1>5 DEF Typed, TasksOK, Known
<1> QED
  BY <1>6, <1>8, <1>9 DEF Unloaded

\* restore() loads the queues, each of them once.
LEMMA QueuesUnloaded ==
  ASSUME ConstantsOK, Typed, Single, Unloaded, up # "down", QueuesLoaded
  PROVE  Unloaded'
<1>1. PICK v \in Work(Len(msgs)) :
        /\ Answers(Main, "LoadQueues", v)
        /\ \A k \in 1..Len(v) : v[k].do = "LoadMessages" /\ queueRows[v[k].q] # "absent"
        /\ \A q \in Queues : queueRows[q] # "absent" => \E k \in 1..Len(v) : v[k].q = q
        /\ \A i, j \in 1..Len(v) : v[i].q = v[j].q => i = j
  BY QueuesLoadedWork
<1>2. /\ Main \in Tasks /\ todo[Main] # <<>> /\ Head(todo[Main]).do = "LoadQueues"
      /\ todo' = [todo EXCEPT ![Main] = v \o Tail(todo[Main])]
      /\ UNCHANGED <<ready, msgs, inflight, up>>
  BY <1>1, AnswersTyped DEF Answers, Proceed, QueuesLoaded
<1>3. v \in Seq(StepUpTo(Len(msgs))) /\ HoldsNothing(v)
  BY <1>1 DEF Work, HoldsNothing
<1>4. \A q \in Queues : AtMostOne(v, Loaders(q)) /\ Loading(Head(todo[Main]), q)
  <2>1. \A q \in Queues : \A k \in 1..Len(v) : v[k] \in Loaders(q) => v[k].q = q
    BY <1>1 DEF Loaders, Loading
  <2>2. \A i, j \in 1..Len(v) : v[i].q = v[j].q => i = j
    BY <1>1
  <2>3. \A q \in Queues : AtMostOne(v, Loaders(q))
    BY <2>1, <2>2 DEF AtMostOne
  <2> QED
    BY <1>2, <2>3 DEF Loading
<1>5. HandsLeave
  BY <1>2, <1>3, SplicedLeave DEF Single
<1>6. \A id \in Known : InSystem(id)' => InSystem(id)
  BY <1>2, <1>5, NothingEnters, MessagesTyped
<1>7. todo'[Main] = v \o Tail(todo[Main])
  BY <1>2 DEF Typed, TasksOK
<1> QED
  BY <1>2, <1>3, <1>4, <1>6, <1>7, UnloadedAfter

\* It loads the messages of one queue, which is then no more to be loaded.
LEMMA MessagesUnloaded ==
  ASSUME ConstantsOK, Typed, Single, Unloaded, up # "down", MessagesLoaded
  PROVE  Unloaded'
<1>1. PICK v \in Work(Len(msgs)) :
        /\ Answers(Main, "LoadMessages", v)
        /\ \A k \in 1..Len(v) : /\ v[k].do = "Restore" /\ v[k].q = Head(todo[Main]).q
                                /\ v[k].id \in Known /\ rows[v[k].id] # "absent"
                                /\ msgs[v[k].id].queue = v[k].q
        /\ \A id \in Known : rows[id] # "absent" /\ msgs[id].queue = Head(todo[Main]).q
                               => \E k \in 1..Len(v) : v[k].id = id
        /\ \A i, j \in 1..Len(v) : v[i].id = v[j].id => i = j
  BY MessagesLoadedWork
<1>2. PICK q \in Queues :
        /\ q = Head(todo[Main]).q /\ Answers(Main, "LoadMessages", v)
        /\ \A k \in 1..Len(v) : /\ v[k].do = "Restore" /\ v[k].id \in Known
                                /\ msgs[v[k].id].queue = q
  <2>1. Head(todo[Main]).q \in Queues
    BY MessagesLoadedWork
  <2> QED
    BY <1>1, <2>1
<1>3. PICK w : w = todo[Main]
  OBVIOUS
<1>4. /\ Main \in Tasks /\ w # <<>> /\ Head(w).do = "LoadMessages"
      /\ todo' = [todo EXCEPT ![Main] = v \o Tail(w)]
      /\ UNCHANGED <<ready, msgs, inflight, up>>
  BY Zenon, <1>2, <1>3, AnswersTyped DEF Answers, Proceed, MessagesLoaded
<1>5. /\ v \in Seq(StepUpTo(Len(msgs))) /\ w \in Seq(StepUpTo(Len(msgs)))
      /\ Head(w) \in StepUpTo(Len(msgs)) /\ todo'[Main] = v \o Tail(w)
  BY <1>3, <1>4, Current DEF Work, Typed, TasksOK
<1>6. \A p : ~Loads(v, p) /\ ~Some(v, Loaders(p)) /\ AtMostOne(v, Loaders(p))
  BY <1>2 DEF Loads, Loading, Loaders, Some, AtMostOne
<1>7. ~Loads(todo'[Main], q)
  <2>1. Head(w) \in Loaders(q)
    BY <1>2, <1>3, <1>4, <1>5 DEF Loaders, Loading, StepUpTo
  <2>2. ~Later(w, Loaders(q))
    BY <1>3, <1>4, <1>5, <2>1, SplicedSome DEF Unloaded
  <2>3. ~Some(v \o Tail(w), Loaders(q))
    BY <1>4, <1>5, <1>6, <2>2, SplicedSome
  <2>4. v \o Tail(w) \in Seq(StepUpTo(Len(msgs)))
    BY <1>4, <1>5, Spliced
  <2> QED
    BY <1>5, <2>3, <2>4, LoadersLoad
<1>8. ASSUME NEW id \in Known, Loads(todo'[Main], msgs[id].queue), InSystem(id)'
      PROVE  InSystem(id)
  <2>1. msgs[id].queue # q
    BY <1>7, <1>8
  <2>2. ~Some(v, Holders(id))
    BY <1>2, <2>1 DEF Some, Holders
  <2>3. \A u \in Tasks : InHands(u, id)' => InHands(u, id)
    BY <1>3, <1>4, <1>5, <2>2, SplicedHands DEF Single
  <2>4. Flying' = Flying /\ \A p \in Queues : Queued(p)' = Queued(p)
    BY <1>4 DEF Flying, Queued
  <2> QED
    BY <1>8, <2>3, <2>4 DEF InSystem
<1> QED
  BY <1>3, <1>4, <1>5, <1>6, <1>8, UnloadedAfter

\* A message that is restored was in the hands of restore(), so its queue was
\* loaded before.
LEMMA RestoreUnloaded ==
  ASSUME ConstantsOK, Typed, Single, Unloaded, up # "down",
         Restore \/ InFlightReset \/ MessageDeleted(Main)
  PROVE  Unloaded'
<1>1. PICK v : /\ Main \in Tasks /\ todo[Main] # <<>> /\ UNCHANGED <<up, msgs, inflight>>
               /\ v \in Seq(StepUpTo(Len(msgs))) /\ \A k \in 1..Len(v) : v[k].do = "DeleteMessage"
               /\ todo' = [todo EXCEPT ![Main] = v \o Tail(todo[Main])]
               /\ \/ ready' = ready
                  \/ \E q \in Queues, id \in Known : /\ Enqueue(q, id, Prio, qtype[q])
                                                     /\ Head(todo[Main]) \in Holders(id)
  <2>1. PICK e : e = <<>> /\ e \in Seq(StepUpTo(Len(msgs))) /\ \A k \in 1..Len(e) : e[k].do = "DeleteMessage"
    BY NoSteps, SeqMonotonic
  <2>2. CASE InFlightReset \/ MessageDeleted(Main)
    <3>1. PICK kind : Answers(Main, kind, e) /\ ready' = ready
      BY <2>1, <2>2 DEF InFlightReset, MessageDeleted
    <3> QED
      BY <2>1, <3>1, AnswersTyped DEF Answers, Proceed
  <2>3. CASE Restore
    <3>1. PICK id0 \in Known, q \in Queues : id0 = Head(todo[Main]).id /\ q = Head(todo[Main]).q
      BY <2>3, RestoreWork
    <3>2. /\ Main \in Tasks /\ todo[Main] # <<>> /\ Head(todo[Main]).do = "Restore"
          /\ UNCHANGED <<up, msgs, inflight>>
          /\ \/ ready' = ready /\ \E d \in StepUpTo(Len(msgs)) : d.do = "DeleteMessage" /\ Become(Main, <<d>>)
             \/ Become(Main, <<>>) /\ Enqueue(q, id0, Prio, qtype[q])
      BY <2>3, <3>1, RestoreWork
    <3>3. Head(todo[Main]) \in Holders(id0)
      BY <3>1, <3>2, Current DEF Holders, StepUpTo
    <3>4. CASE Become(Main, <<>>) /\ Enqueue(q, id0, Prio, qtype[q])
      <4>1. todo' = [todo EXCEPT ![Main] = e \o Tail(todo[Main])]
        BY <2>1, <3>4 DEF Become, Continue, Proceed
      <4> QED
        BY <2>1, <3>2, <3>3, <3>4, <4>1
    <3>5. ASSUME NEW d \in StepUpTo(Len(msgs)), d.do = "DeleteMessage", Become(Main, <<d>>), ready' = ready
          PROVE  \E v : /\ v \in Seq(StepUpTo(Len(msgs))) /\ \A k \in 1..Len(v) : v[k].do = "DeleteMessage"
                        /\ todo' = [todo EXCEPT ![Main] = v \o Tail(todo[Main])]
      <4>1. PICK v : v = <<d>>
        OBVIOUS
      <4>2. v \in Seq(StepUpTo(Len(msgs))) /\ \A k \in 1..Len(v) : v[k].do = "DeleteMessage"
        BY <3>5, <4>1
      <4>3. todo' = [todo EXCEPT ![Main] = v \o Tail(todo[Main])]
        BY <3>5, <4>1 DEF Become, Continue, Proceed
      <4> QED
        BY <4>2, <4>3
    <3> QED
      BY <3>2, <3>4, <3>5
  <2> QED
    BY <2>2, <2>3
<1>2. HoldsNothing(v)
  BY <1>1 DEF HoldsNothing
<1>3. HandsLeave
  BY <1>1, <1>2, SplicedLeave DEF Single
<1>4. \A id \in Known : InSystem(id)' => InSystem(id)
  <2>1. CASE ready' = ready
    BY <1>1, <1>3, <2>1, NothingEnters, MessagesTyped
  <2>2. ASSUME NEW q0 \in Queues, NEW id0 \in Known, Enqueue(q0, id0, Prio, qtype[q0]),
               Head(todo[Main]) \in Holders(id0), NEW id \in Known, InSystem(id)'
        PROVE  InSystem(id)
    <3>1. InHands(Main, id0)
      BY <1>1, <2>2, SplicedHands DEF Single
    <3>2. Flying' = Flying
      BY <1>1 DEF Flying
    <3>3. \A q \in Queues : Queued(q)' \subseteq Queued(q) \cup {id0}
      <4>1. \A q \in Queues : ready[q] \in Seq(Ids)
        BY DEF Typed, DataTypeOK
      <4>2. /\ ready'[q0] = AddMessage(ready[q0], id0, Prio, qtype[q0])
            /\ \A q \in Queues : q # q0 => ready'[q] = ready[q]
        BY <2>2 DEF Enqueue, Typed, DataTypeOK
      <4>3. Queued(q0)' \subseteq Queued(q0) \cup {id0}
        <5>1. id0 \in Ids
          BY MessagesTyped
        <5> QED
          BY <4>1, <4>2, <5>1, AddMessageMembers DEF Queued
      <4> QED
        BY <4>2, <4>3 DEF Queued
    <3>4. \A t \in Tasks : InHands(t, id)' => InHands(t, id)
      BY <1>3, MessagesTyped DEF HandsLeave
    <3> QED
      BY <1>1, <2>2, <3>1, <3>2, <3>3, <3>4 DEF InSystem
  <2> QED
    BY <1>1, <2>1, <2>2
<1>5. \A q \in Queues : AtMostOne(v, Loaders(q)) /\ ~Loads(v, q)
  BY <1>1 DEF AtMostOne, Loaders, Loads, Loading
<1>6. todo'[Main] = v \o Tail(todo[Main])
  BY <1>1 DEF Typed, TasksOK
<1> QED
  BY <1>1, <1>4, <1>5, <1>6, UnloadedAfter

\* A queue is loaded once, and before any of its messages is anywhere.
LEMMA UnloadedStep ==
  ASSUME ConstantsOK, Typed, Rests, Opening, Single, Unloaded, [Next]_vars
  PROVE  Unloaded'
<1>1. CASE Crash
  <2>1. /\ \A t \in Tasks : todo'[t] = <<>>
        /\ \A q \in Queues : ready'[q] = <<>>
        /\ \A id \in Ids : inflight'[id] = 0
        /\ Main \in Tasks
    BY <1>1 DEF Crash, Tasks
  <2>2. \A q \in Queues : Queued(q)' = {}
    <3>1. PICK e : e = <<>> /\ Len(e) = 0
      OBVIOUS
    <3>2. Members(e) = {}
      BY <3>1 DEF Members
    <3> QED
      BY <2>1, <3>1, <3>2 DEF Queued
  <2>3. \A id : ~InSystem(id)'
    BY <2>1, <2>2 DEF InSystem, Flying, InHands, Some
  <2>4. \A q : AtMostOne(todo'[Main], Loaders(q))
    BY <2>1 DEF AtMostOne
  <2> QED
    BY <2>3, <2>4 DEF Unloaded
<1>2. CASE up' = "up"
  <2>1. todo'[Main] = <<>>
    BY <1>2, OpeningStep DEF Opening, Idle
  <2>2. \A q : AtMostOne(todo'[Main], Loaders(q)) /\ ~Loads(todo'[Main], q)
    BY <2>1 DEF AtMostOne, Loads
  <2> QED
    BY <1>2, <2>2 DEF Unloaded
<1>3. CASE up # "up" /\ ~Crash /\ up' # "up"
  <2>1. CASE UNCHANGED vars \/ \E id \in Ids : Expire(id)
    <3>1. UNCHANGED <<up, todo, msgs, ready, inflight>>
      BY <2>1 DEF vars, control, memory, Expire
    <3>2. HandsLeave
      BY <3>1, SameHands DEF Single
    <3>3. \A id \in Known : InSystem(id)' => InSystem(id)
      BY <3>1, <3>2, NothingEnters, MessagesTyped
    <3>4. Known' = Known
      BY <3>1 DEF Known
    <3> QED
      BY <3>1, <3>3, <3>4 DEF Unloaded
  <2>2. \A kind, steps : ~Answers(Main, kind, steps) \/ ~Idle(Main)
    BY AnswersTyped DEF Idle
  <2>3. CASE InFlightReset \/ QueuesLoaded \/ MessagesLoaded \/ Restore \/ MessageDeleted(Main)
    <3>1. ~Idle(Main)
      BY <2>2, <2>3 DEF InFlightReset, QueuesLoaded, MessagesLoaded, Restore, MessageDeleted, Doing
    <3>2. up # "down"
      BY <3>1 DEF Rests, Tasks
    <3> QED
      BY <2>3, <3>2, QueuesUnloaded, MessagesUnloaded, RestoreUnloaded
  <2>4. ~Serve
    BY <1>3 DEF Serve
  <2> QED
    BY <1>3, <2>1, <2>3, <2>4, Before, StartUnloaded DEF Restart
<1> QED
  BY <1>1, <1>2, <1>3, StaysUp

\* After a crash nothing is anywhere.
LEMMA CrashSingle ==
  ASSUME ConstantsOK, Typed, Crash
  PROVE  Single' /\ Unloaded'
<1>1. /\ \A t \in Tasks : todo'[t] = <<>>
      /\ \A q \in Queues : ready'[q] = <<>>
      /\ \A id \in Ids : inflight'[id] = 0
      /\ Main \in Tasks
  BY DEF Crash, Tasks
<1>2. \A q \in Queues : Queued(q)' = {} /\ Distinct(ready'[q])
  <2>1. PICK e : e = <<>> /\ Len(e) = 0
    OBVIOUS
  <2>2. Members(e) = {} /\ Distinct(e)
    BY <2>1 DEF Members, Distinct
  <2> QED
    BY <1>1, <2>1, <2>2 DEF Queued
<1>3. /\ Flying' = {}
      /\ \A t \in Tasks, id \in Ids : AtMostOne(todo'[t], Holders(id))
      /\ \A t \in Tasks : \A id : ~InHands(t, id)'
      /\ \A q : AtMostOne(todo'[Main], Loaders(q))
  BY <1>1 DEF Flying, InHands, Some, AtMostOne
<1>4. Single'
  <2>1. Once'
    BY <1>2, <1>3 DEF Once
  <2>2. Apart'
    BY <1>2, <1>3 DEF Apart
  <2> QED
    BY <1>3, <2>1, <2>2 DEF Single
<1>5. Unloaded'
  BY <1>2, <1>3 DEF Unloaded, InSystem
<1> QED
  BY <1>4, <1>5

\* Every message is in one place as long as no storage call has raised and no
\* connection been lost.
OnePlace == Steady => Single /\ Unloaded

\* A failed delivery or a call that raises may give a message a second place; a
\* crash takes both away.
LEMMA OnePlaceStep ==
  ASSUME ConstantsOK, Typed, Rests, Opening, OnePlace, [Next]_vars
  PROVE  OnePlace'
<1>1. CASE Crash
  BY <1>1, CrashSingle DEF OnePlace
<1>2. CASE ~Crash
  <2>1. SUFFICES ASSUME Steady'
                 PROVE  Single' /\ Unloaded'
    BY DEF OnePlace
  <2>2. Single /\ Unloaded /\ \A t \in Tasks : ~StorageFails(t) /\ ~DrainFails(t)
    BY <1>2, <2>1, SteadyBefore DEF OnePlace
  <2> QED
    BY <2>2, SingleStep, UnloadedStep
<1> QED
  BY <1>1, <1>2

\* No place is counted twice.
LEMMA CountedOnce ==
  ASSUME ConstantsOK, Typed, Single, NEW id \in Known
  PROVE  Cardinality(ReadyAt(id)) + Cardinality(FailedBy(id))
           + (IF inflight[id] > 0 THEN 1 ELSE 0) <= 1
<1>1. id \in Ids /\ \A q \in Queues : ready[q] \in Seq(Ids)
  BY MessagesTyped DEF Typed, DataTypeOK
<1>2. \A x : x \in ReadyAt(id) <=>
        \E q \in Queues : \E i \in 1..Len(ready[q]) : x = <<q, i>> /\ ready[q][i] = id
  BY DEF ReadyAt
<1>3. \A x : x \in FailedBy(id) <=>
        \E t \in Tasks : \E i \in 1..Len(todo[t]) :
          x = <<t, i>> /\ todo[t][i].do = "Failed" /\ todo[t][i].id = id
  BY DEF FailedBy
<1>4. \A q \in Queues : \A i \in 1..Len(ready[q]) : ready[q][i] = id => id \in Queued(q)
  BY DEF Queued, Members
<1>5. \A t \in Tasks : \A i \in 1..Len(todo[t]) :
        todo[t][i].do = "Failed" /\ todo[t][i].id = id => todo[t][i] \in Holders(id)
  <2>1. \A t \in Tasks : todo[t] \in Seq(StepUpTo(Len(msgs)))
    BY DEF Typed, TasksOK, Work
  <2>2. \A t \in Tasks : \A i \in 1..Len(todo[t]) : todo[t][i] \in StepUpTo(Len(msgs))
    BY <2>1, ElementOfSeq
  <2>3. \A t \in Tasks : \A i \in 1..Len(todo[t]) : todo[t][i] \in Step
    BY <2>2 DEF StepUpTo
  <2> QED
    BY <2>3 DEF Holders
<1>6. \A x, y : x \in ReadyAt(id) /\ y \in ReadyAt(id) => x = y
  <2>1. SUFFICES ASSUME NEW x, NEW y, x \in ReadyAt(id), y \in ReadyAt(id)
                 PROVE  x = y
    OBVIOUS
  <2>2. PICK p \in Queues, i \in Nat : x = <<p, i>> /\ i \in 1..Len(ready[p]) /\ ready[p][i] = id
    BY <1>2, <2>1
  <2>3. PICK q \in Queues, j \in Nat : y = <<q, j>> /\ j \in 1..Len(ready[q]) /\ ready[q][j] = id
    BY <1>2, <2>1
  <2>4. p = q
    BY <1>1, <1>4, <2>2, <2>3 DEF Single, Apart
  <2>5. i = j
    BY <2>2, <2>3, <2>4 DEF Single, Once, Distinct
  <2> QED
    BY <2>2, <2>3, <2>4, <2>5
<1>7. \A x, y : x \in FailedBy(id) /\ y \in FailedBy(id) => x = y
  <2>1. SUFFICES ASSUME NEW x, NEW y, x \in FailedBy(id), y \in FailedBy(id)
                 PROVE  x = y
    OBVIOUS
  <2>2. PICK t \in Tasks, i \in Nat : x = <<t, i>> /\ i \in 1..Len(todo[t]) /\ todo[t][i] \in Holders(id)
    BY <1>3, <1>5, <2>1
  <2>3. PICK u \in Tasks, j \in Nat : y = <<u, j>> /\ j \in 1..Len(todo[u]) /\ todo[u][j] \in Holders(id)
    BY <1>3, <1>5, <2>1
  <2>4. t = u
    BY <1>1, <2>2, <2>3 DEF Single, Apart, InHands, Some
  <2>5. i = j
    BY <1>1, <2>2, <2>3, <2>4 DEF Single, Once, AtMostOne
  <2> QED
    BY <2>2, <2>3, <2>4, <2>5
<1>8. ReadyAt(id) # {} => \E q \in Queues : id \in Queued(q)
  BY <1>2, <1>4
<1>9. FailedBy(id) # {} => \E t \in Tasks : InHands(t, id)
  BY <1>3, <1>5 DEF InHands, Some
<1>10. inflight[id] > 0 => id \in Flying
  BY <1>1 DEF Flying
<1>11. /\ ~(ReadyAt(id) # {} /\ FailedBy(id) # {})
       /\ ~(ReadyAt(id) # {} /\ inflight[id] > 0)
       /\ ~(FailedBy(id) # {} /\ inflight[id] > 0)
  BY <1>1, <1>8, <1>9, <1>10 DEF Single, Apart
<1>12. ASSUME NEW S, \A x, y : x \in S /\ y \in S => x = y
       PROVE  Cardinality(S) = IF S = {} THEN 0 ELSE 1
  <2>1. CASE S = {}
    BY <2>1, FS_EmptySet
  <2>2. CASE S # {}
    <3>1. PICK x : x \in S
      BY <2>2
    <3>2. S = {x}
      BY <1>12, <3>1
    <3> QED
      BY <2>2, <3>2, FS_Singleton
  <2> QED
    BY <2>1, <2>2
<1>13. Cardinality(ReadyAt(id)) = IF ReadyAt(id) = {} THEN 0 ELSE 1
  BY <1>6, <1>12
<1>14. Cardinality(FailedBy(id)) = IF FailedBy(id) = {} THEN 0 ELSE 1
  BY <1>7, <1>12
<1> QED
  BY <1>11, <1>13, <1>14

\* A message is in one place at a time: never twice in a heap, in a heap while it
\* is in flight, or failed by two tasks, whatever the order of deliveries, answers,
\* scans and restarts, as long as no storage call has raised and no connection has
\* been lost since the start of the server.  The except clause of the delivery
\* loop takes a message out of in_flight that a scan may have put back.
THEOREM NowhereTwice == Spec => [](Steady => Exclusive)
<1> USE ConstantsOK
<1>1. Init => OnePlace
  <2>1. SUFFICES ASSUME Init
                 PROVE  Single /\ Unloaded
    BY DEF OnePlace
  <2>2. /\ \A t \in Tasks : todo[t] = <<>>
        /\ \A q \in Queues : ready[q] = <<>>
        /\ \A id \in Ids : inflight[id] = 0
        /\ Main \in Tasks
    BY <2>1 DEF Init, Tasks
  <2>3. \A q \in Queues : Queued(q) = {} /\ Distinct(ready[q])
    <3>1. PICK e : e = <<>> /\ Len(e) = 0
      OBVIOUS
    <3>2. Members(e) = {} /\ Distinct(e)
      BY <3>1 DEF Members, Distinct
    <3> QED
      BY <2>2, <3>1, <3>2 DEF Queued
  <2>4. /\ Flying = {}
        /\ \A t \in Tasks, id \in Ids : AtMostOne(todo[t], Holders(id))
        /\ \A t \in Tasks : \A id : ~InHands(t, id)
        /\ \A q : AtMostOne(todo[Main], Loaders(q))
    BY <2>2 DEF Flying, InHands, Some, AtMostOne
  <2>5. Once /\ Apart
    BY <2>3, <2>4 DEF Once, Apart
  <2> QED
    BY <2>3, <2>4, <2>5 DEF Single, Unloaded, InSystem
<1>2. Typed /\ Rests /\ Opening /\ OnePlace /\ [Next]_vars => OnePlace'
  BY OnePlaceStep
<1>3. Typed /\ OnePlace => (Steady => Exclusive)
  BY CountedOnce DEF OnePlace, Exclusive
<1> QED
  BY <1>1, <1>2, <1>3, PlacesAlways, PTL DEF Spec

=============================================================================
