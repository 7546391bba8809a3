-------------------------- MODULE BrokerDurability --------------------------
(***************************************************************************)
(* The types of Broker and what its tables keep, for every value of the    *)
(* constants.                                                              *)
(*                                                                         *)
(* TypeOK is not inductive: that the step of a task names a queue and a    *)
(* message there are, and that a task in the database queue has a call to  *)
(* wait for, are part of the invariant, Typed.                             *)
(*                                                                         *)
(* Nor are Durable, QueueRowFirst and RowsGoForAReason: what a task will   *)
(* do to the tables was decided when its steps were laid out, and other    *)
(* tasks, loops and failures go on in between.  Backed says of a task's    *)
(* steps that the reasons they were laid out for still hold, or that an    *)
(* earlier step of the same task will make them hold.                      *)
(***************************************************************************)
EXTENDS BrokerProperties, QueueTheorems

OfQueue == Kinds \ {"ResetInFlight", "LoadQueues", "Serve"}
OfMessage == {"SaveMessage", "SetReady", "SetInFlight", "DeleteMessage", "Drain",
              "Failed", "Receipt", "Restore"}

\* Steps whose queue, message and consumer exist, when there are n messages.
StepUpTo(n) ==
  {s \in Step : /\ s.do \in OfQueue => s.q \in Queues
                /\ s.do \in OfMessage => s.id \in 1..n
                /\ s.do = "Drain" => s.to \in Consumer}

\* What a task has to do: a drain is never last, update_status follows it.
Work(n) ==
  {w \in Seq(StepUpTo(n)) : \A k \in 1..Len(w) : w[k].do = "Drain" => k < Len(w)}

\* A task waits for the database thread once, with a call next, and without
\* holding the event loop.
Waits(t) == todo[t] # <<>> /\ Head(todo[t]).do \in Calls /\ t # running
QueuedOnce ==
  /\ \A i \in 1..Len(dbq) : Waits(dbq[i])
  /\ \A i, j \in 1..Len(dbq) : dbq[i] = dbq[j] => i = j

TasksOK ==
  /\ running \in Tasks \cup {NoTask}
  /\ todo \in [Tasks -> Work(Len(msgs))]
  /\ dbq \in Seq(Tasks)
  /\ QueuedOnce

\* Only messages that were created are anywhere.
OnlyKnown ==
  /\ ready \in [Queues -> Seq(Known)]
  /\ inbox \in [Conns -> SUBSET Known]
  /\ expired \subseteq Known
  /\ \A id \in Ids : rows[id] # "absent" => id \in Known

Typed == DataTypeOK /\ TasksOK /\ OnlyKnown

\* While the server is down nothing runs and nobody is connected.
Rests ==
  up = "down" => /\ running = NoTask /\ dbq = <<>>
                 /\ \A t \in Tasks : Idle(t)
                 /\ \A c \in Conns : link[c] = "none"
-----------------------------------------------------------------------------
\* Steps stay valid while messages are created.
LEMMA StepsGrow ==
  ASSUME NEW n \in Nat, NEW m \in Nat, n <= m
  PROVE  Work(n) \subseteq Work(m)
<1>1. StepUpTo(n) \subseteq StepUpTo(m)
  BY DEF StepUpTo
<1>2. \A w \in Seq(StepUpTo(n)) : w \in Seq(StepUpTo(m))
  BY <1>1, SeqMonotonic
<1> QED
  BY <1>2 DEF Work

\* The steps of a call in front of what is left to do.
LEMMA WorkConcat ==
  ASSUME NEW n \in Nat, NEW v \in Work(n), NEW w \in Work(n)
  PROVE  v \o w \in Work(n)
<1>1. v \in Seq(StepUpTo(n)) /\ w \in Seq(StepUpTo(n))
  BY DEF Work
<1>2. /\ v \o w \in Seq(StepUpTo(n))
      /\ Len(v \o w) = Len(v) + Len(w) /\ Len(v) \in Nat /\ Len(w) \in Nat
      /\ \A i \in 1..Len(v) + Len(w) :
           (v \o w)[i] = IF i <= Len(v) THEN v[i] ELSE w[i - Len(v)]
  BY <1>1, ConcatProperties, LenProperties
<1>3. ASSUME NEW k \in 1..Len(v \o w), (v \o w)[k].do = "Drain"
      PROVE  k < Len(v \o w)
  <2>1. CASE k <= Len(v)
    <3>1. v[k].do = "Drain" /\ k \in 1..Len(v)
      BY <1>2, <1>3, <2>1
    <3> QED
      BY <3>1, <1>2 DEF Work
  <2>2. CASE k > Len(v)
    <3>1. w[k - Len(v)].do = "Drain" /\ k - Len(v) \in 1..Len(w)
      BY <1>2, <1>3, <2>2
    <3> QED
      BY <3>1, <1>2 DEF Work
  <2> QED
    BY <2>1, <2>2, <1>2
<1> QED
  BY <1>2, <1>3 DEF Work

\* What is left of a task's work once its next step is done.
LEMMA WorkTail ==
  ASSUME NEW n \in Nat, NEW w \in Work(n), w # <<>>
  PROVE  /\ Head(w) \in StepUpTo(n)
         /\ Tail(w) \in Work(n)
         /\ Head(w).do = "Drain" => Tail(w) # <<>>
<1>1. w \in Seq(StepUpTo(n))
  BY DEF Work
<1>2. /\ Head(w) \in StepUpTo(n) /\ Tail(w) \in Seq(StepUpTo(n))
      /\ Len(Tail(w)) = Len(w) - 1 /\ Len(w) \in Nat
      /\ \A i \in 1..Len(Tail(w)) : Tail(w)[i] = w[i + 1]
      /\ Head(w) = w[1] /\ Len(w) >= 1
  BY <1>1, HeadTailProperties, LenProperties, EmptySeq
<1>3. \A k \in 1..Len(Tail(w)) : Tail(w)[k].do = "Drain" => k < Len(Tail(w))
  <2>1. SUFFICES ASSUME NEW k \in 1..Len(Tail(w)), Tail(w)[k].do = "Drain"
                 PROVE  k < Len(Tail(w))
    OBVIOUS
  <2>2. w[k + 1].do = "Drain" /\ k + 1 \in 1..Len(w)
    BY <2>1, <1>2
  <2> QED
    BY <2>2, <1>2 DEF Work
<1>4. ASSUME Head(w).do = "Drain"
      PROVE  Tail(w) # <<>>
  <2>1. 1 < Len(w)
    BY <1>4, <1>2 DEF Work
  <2>2. Len(Tail(w)) # 0 /\ Len(<<>>) = 0
    BY <2>1, <1>2
  <2> QED
    BY <2>2
<1> QED
  BY <1>2, <1>3, <1>4 DEF Work
-----------------------------------------------------------------------------
(* Proceed, which ends every step of a task. *)

Growing == /\ Len(msgs) \in Nat /\ Len(msgs') \in Nat /\ Len(msgs) <= Len(msgs')

\* The calls waiting are some of those that waited, none of task t.
Remaining(t, waiting) ==
  /\ waiting \in Seq(Tasks)
  /\ \A i \in 1..Len(waiting) :
       waiting[i] # t /\ \E j \in 1..Len(dbq) : waiting[i] = dbq[j]
  /\ \A i, j \in 1..Len(waiting) : waiting[i] = waiting[j] => i = j

\* Proceed, which ends every step, keeps the tasks and the database queue in order:
\* a task that is to make a call joins the queue, and no task is there twice.
LEMMA ProceedKeepsTasks ==
  ASSUME Growing, TasksOK, ConstantsOK,
         NEW t \in Tasks, NEW steps \in Work(Len(msgs')), NEW waiting, Remaining(t, waiting),
         running \in {t, NoTask}, Proceed(t, steps, waiting)
  PROVE  TasksOK'
<1>1. /\ todo' = [todo EXCEPT ![t] = steps]
      /\ running' = IF steps = <<>> \/ Head(steps).do \in Calls THEN NoTask ELSE t
      /\ dbq' = IF steps # <<>> /\ Head(steps).do \in Calls THEN Append(waiting, t) ELSE waiting
  BY DEF Proceed
<1>2. todo' \in [Tasks -> Work(Len(msgs'))]
  <2>1. Work(Len(msgs)) \subseteq Work(Len(msgs'))
    BY StepsGrow DEF Growing
  <2> QED
    BY <1>1, <2>1 DEF TasksOK
<1>3. running' \in Tasks \cup {NoTask}
  BY <1>1
<1>4. NoTask \notin Tasks
  BY DEF ConstantsOK
<1>5. \A i \in 1..Len(waiting) : Waits(waiting[i])'
  <2>1. SUFFICES ASSUME NEW i \in 1..Len(waiting)
                 PROVE  Waits(waiting[i])'
    BY DEF Waits
  <2>2. waiting[i] \in Tasks /\ waiting[i] # t /\ Waits(waiting[i])
    BY DEF Remaining, TasksOK, QueuedOnce
  <2>3. todo'[waiting[i]] = todo[waiting[i]]
    BY <2>2, <1>1 DEF TasksOK
  <2>4. running' # waiting[i]
    BY <2>2, <1>1, <1>4
  <2> QED
    BY <2>2, <2>3, <2>4 DEF Waits
<1>6. CASE steps = <<>> \/ Head(steps).do \notin Calls
  <2>1. dbq' = waiting
    BY <1>1, <1>6
  <2>2. QueuedOnce'
    BY <2>1, <1>5 DEF QueuedOnce, Remaining
  <2> QED
    BY <2>1, <2>2, <1>2, <1>3 DEF TasksOK, Remaining
<1>7. CASE steps # <<>> /\ Head(steps).do \in Calls
  <2>1. dbq' = Append(waiting, t) /\ running' = NoTask
    BY <1>1, <1>7
  <2>2. Waits(t)'
    BY <2>1, <1>1, <1>4, <1>7 DEF Waits, TasksOK
  <2>3. /\ dbq' \in Seq(Tasks) /\ Len(dbq') = Len(waiting) + 1
        /\ \A i \in 1..Len(waiting) : dbq'[i] = waiting[i]
        /\ dbq'[Len(waiting) + 1] = t /\ Len(waiting) \in Nat
    BY <2>1 DEF Remaining
  <2>4. (\A i \in 1..Len(dbq) : Waits(dbq[i]))'
    <3>1. SUFFICES ASSUME NEW i \in 1..Len(dbq')
                   PROVE  Waits(dbq[i])'
      OBVIOUS
    <3>2. CASE i <= Len(waiting)
      BY <3>2, <2>3, <1>5
    <3>3. CASE i = Len(waiting) + 1
      BY <3>3, <2>3, <2>2
    <3> QED
      BY <3>2, <3>3, <2>3
  <2>5. \A i, j \in 1..Len(dbq') : dbq'[i] = dbq'[j] => i = j
    <3>1. \A i \in 1..Len(dbq') : i \in 1..Len(waiting) \/ i = Len(waiting) + 1
      BY <2>3
    <3>2. \A i \in 1..Len(waiting) : dbq'[i] # t
      BY <2>3 DEF Remaining
    <3>3. \A i, j \in 1..Len(waiting) : dbq'[i] = dbq'[j] => i = j
      BY <2>3 DEF Remaining
    <3> QED
      BY <3>1, <3>2, <3>3, <2>3
  <2>6. QueuedOnce'
    BY <2>4, <2>5 DEF QueuedOnce
  <2> QED
    BY <2>3, <2>6, <1>2, <1>3 DEF TasksOK
<1> QED
  BY <1>6, <1>7

\* A task outside the database queue goes on by itself.
LEMMA ContinueKeepsTasks ==
  ASSUME Growing, TasksOK, ConstantsOK,
         NEW t \in Tasks, NEW steps \in Work(Len(msgs')), ~ Waits(t),
         running \in {t, NoTask}, Continue(t, steps)
  PROVE  TasksOK'
<1>1. Remaining(t, dbq)
  BY DEF Remaining, TasksOK, QueuedOnce
<1>2. Proceed(t, steps, dbq)
  BY DEF Continue
<1> QED
  BY <1>1, <1>2, ProceedKeepsTasks

\* A task replaces its current step by those of the call it makes.
LEMMA BecomeKeepsTasks ==
  ASSUME Growing, TasksOK, ConstantsOK,
         NEW t \in Tasks, NEW steps \in Work(Len(msgs')), todo[t] # <<>>, ~ Waits(t),
         running \in {t, NoTask}, Become(t, steps)
  PROVE  TasksOK'
<1>1. todo[t] \in Work(Len(msgs')) /\ Len(msgs') \in Nat
  BY StepsGrow DEF TasksOK, Growing
<1>2. steps \o Tail(todo[t]) \in Work(Len(msgs'))
  BY <1>1, WorkTail, WorkConcat
<1>3. Continue(t, steps \o Tail(todo[t]))
  BY DEF Become
<1> QED
  BY <1>2, <1>3, ContinueKeepsTasks

\* The first call in the database queue is made by a task that has it next.
LEMMA FirstCall ==
  ASSUME Len(msgs) \in Nat, TasksOK, dbq # <<>>
  PROVE  /\ Head(dbq) \in Tasks
         /\ todo[Head(dbq)] \in Work(Len(msgs)) /\ todo[Head(dbq)] # <<>>
         /\ Head(todo[Head(dbq)]) \in StepUpTo(Len(msgs))
         /\ Head(todo[Head(dbq)]).do \in Calls
         /\ Remaining(Head(dbq), Tail(dbq))
<1>1. /\ dbq \in Seq(Tasks) /\ Len(dbq) >= 1 /\ Len(dbq) \in Nat
      /\ Head(dbq) = dbq[1] /\ Head(dbq) \in Tasks /\ Tail(dbq) \in Seq(Tasks)
      /\ Len(Tail(dbq)) = Len(dbq) - 1
      /\ \A i \in 1..Len(Tail(dbq)) : Tail(dbq)[i] = dbq[i + 1]
  BY HeadTailProperties, EmptySeq, LenProperties DEF TasksOK
<1>2. Waits(dbq[1])
  BY <1>1 DEF TasksOK, QueuedOnce
<1>3. todo[Head(dbq)] \in Work(Len(msgs)) /\ todo[Head(dbq)] # <<>>
  BY <1>1, <1>2 DEF TasksOK, Waits
<1>4. Head(todo[Head(dbq)]) \in StepUpTo(Len(msgs))
  BY <1>3, WorkTail
<1>5. \A i \in 1..Len(Tail(dbq)) :
        i + 1 \in 1..Len(dbq) /\ Tail(dbq)[i] = dbq[i + 1] /\ dbq[i + 1] # dbq[1]
  BY <1>1 DEF TasksOK, QueuedOnce
<1>6. \A i, j \in 1..Len(Tail(dbq)) : Tail(dbq)[i] = Tail(dbq)[j] => i = j
  BY <1>1, <1>5 DEF TasksOK, QueuedOnce
<1>7. Remaining(Head(dbq), Tail(dbq))
  BY <1>1, <1>5, <1>6 DEF Remaining
<1> QED
  BY <1>1, <1>2, <1>3, <1>4, <1>7 DEF Waits

\* The task of the first call in the database queue goes on.
LEMMA AnswersKeepTasks ==
  ASSUME Len(msgs) \in Nat, TasksOK, ConstantsOK,
         NEW t, NEW kind, NEW steps \in Work(Len(msgs)), Answers(t, kind, steps)
  PROVE  TasksOK'
<1>1. /\ running = NoTask /\ dbq # <<>> /\ t = Head(dbq)
      /\ Proceed(t, steps \o Tail(todo[t]), Tail(dbq))
  BY DEF Answers, Free
<1>2. steps \o Tail(todo[t]) \in Work(Len(msgs))
  BY <1>1, FirstCall, WorkTail, WorkConcat
<1>3. Growing
  BY DEF Answers, Growing
<1>4. steps \o Tail(todo[t]) \in Work(Len(msgs'))
  BY <1>2 DEF Answers
<1> QED
  BY <1>1, <1>3, <1>4, FirstCall, ProceedKeepsTasks
-----------------------------------------------------------------------------
(* The steps the handlers are made of. *)

\* Do builds a step, when what it names exists.
LEMMA StepTyped ==
  ASSUME ConstantsOK, NEW n \in Nat, n <= MaxMessages, NEW kind \in Kinds,
         NEW q \in Queues \cup {NoQueue}, NEW id \in 0..n, NEW att \in Nat,
         NEW to \in Consumer \cup {NoConsumer},
         kind \in OfQueue => q \in Queues, kind \in OfMessage => id # 0,
         kind = "Drain" => to \in Consumer
  PROVE  Do(kind, q, id, att, to) \in StepUpTo(n)
<1>1. MaxMessages \in Nat
  BY DEF ConstantsOK
<1>2. id \in 0..MaxMessages /\ (id # 0 => id \in 1..n)
  BY <1>1
<1> QED
  BY <1>2 DEF Do, StepUpTo, Step

\* OnQueue, OnMessage and Do build steps.
LEMMA StepsTyped ==
  ASSUME ConstantsOK, NEW n \in Nat, n <= MaxMessages, NEW kind \in Kinds
  PROVE  /\ \A q \in Queues : kind \notin OfMessage => OnQueue(kind, q) \in StepUpTo(n)
         /\ kind \notin OfQueue => OnQueue(kind, NoQueue) \in StepUpTo(n)
         /\ \A q \in Queues, id \in 1..n, att \in Nat :
              /\ kind # "Drain" => Do(kind, q, id, att, NoConsumer) \in StepUpTo(n)
              /\ \A to \in Consumer : Do(kind, q, id, att, to) \in StepUpTo(n)
         /\ \A q \in Queues, id \in 1..n :
              kind # "Drain" => OnMessage(kind, q, id) \in StepUpTo(n)
<1>1. OfMessage \subseteq OfQueue /\ "Drain" \in OfMessage
  BY DEF OfMessage, OfQueue, Kinds, Calls
<1>2. ASSUME NEW q \in Queues, kind \notin OfMessage
      PROVE  OnQueue(kind, q) \in StepUpTo(n)
  BY <1>1, <1>2, StepTyped DEF OnQueue
<1>3. ASSUME kind \notin OfQueue
      PROVE  OnQueue(kind, NoQueue) \in StepUpTo(n)
  BY <1>1, <1>3, StepTyped DEF OnQueue
<1>4. ASSUME NEW q \in Queues, NEW id \in 1..n, NEW att \in Nat,
             NEW to \in Consumer \cup {NoConsumer}, kind = "Drain" => to \in Consumer
      PROVE  Do(kind, q, id, att, to) \in StepUpTo(n)
  <2>1. id \in 0..n /\ id # 0
    OBVIOUS
  <2> QED
    BY <2>1, <1>4, StepTyped
<1> QED
  BY <1>2, <1>3, <1>4 DEF OnMessage

\* Steps that are no drain, and what consists of them.
Plain(n) == {s \in StepUpTo(n) : s.do # "Drain"}

\* Steps of which none is a drain are work.
LEMMA PlainWork ==
  ASSUME NEW n \in Nat, NEW w \in Seq(Plain(n))
  PROVE  w \in Work(n)
<1>1. Plain(n) \subseteq StepUpTo(n)
  BY DEF Plain
<1>2. w \in Seq(StepUpTo(n))
  BY <1>1, SeqMonotonic
<1>3. \A k \in 1..Len(w) : w[k] \in Plain(n)
  BY ElementOfSeq
<1> QED
  BY <1>2, <1>3 DEF Work, Plain

\* The steps of SUBSCRIBE.
LEMMA SubscribeTyped ==
  ASSUME ConstantsOK, NEW n \in Nat, n <= MaxMessages, NEW q \in Queues
  PROVE  SubscribeSteps(q) \in Work(n)
<1>1. {"SaveQueue", "Deliver"} \subseteq Kinds \ (OfMessage \cup {"Drain"})
  BY DEF Kinds, Calls, OfMessage
<1>2. OnQueue("SaveQueue", q) \in Plain(n) /\ OnQueue("Deliver", q) \in Plain(n)
  BY <1>1, StepsTyped DEF OnQueue, Do, Plain
<1>3. SubscribeSteps(q) \in Seq(Plain(n))
  BY <1>2 DEF SubscribeSteps
<1> QED
  BY <1>3, PlainWork

\* The steps of the handlers that are about a message.
LEMMA HandlersTyped ==
  ASSUME ConstantsOK, NEW n \in Nat, n <= MaxMessages,
         NEW q \in Queues, NEW id \in 1..n, NEW att \in Nat
  PROVE  /\ PublishSteps(q, id) \in Work(n)
         /\ AckSteps(q, id) \in Work(n)
         /\ NackSteps(q, id, att) \in Work(n)
         /\ RequeueSteps(q, id) \in Work(n)
         /\ \A dlq \in Queues, copy \in 1..n : DlqSteps(q, id, dlq, copy) \in Work(n)
         /\ \A to \in Consumer : DispatchSteps(q, id, att, to) \in Work(n)
<1>1. ASSUME NEW kind \in Kinds, kind \notin OfMessage, NEW p \in Queues
      PROVE  OnQueue(kind, p) \in Plain(n)
  <2>1. kind # "Drain"
    BY <1>1 DEF OfMessage
  <2> QED
    BY <2>1, <1>1, StepsTyped DEF OnQueue, Do, Plain
<1>2. ASSUME NEW kind \in Kinds, kind # "Drain", NEW p \in Queues, NEW m \in 1..n
      PROVE  OnMessage(kind, p, m) \in Plain(n)
  BY <1>2, StepsTyped DEF OnMessage, Do, Plain
<1>3. Do("Failed", q, id, att, NoConsumer) \in Plain(n)
  <2>1. "Failed" \in Kinds
    BY DEF Kinds
  <2> QED
    BY <2>1, StepsTyped DEF Do, Plain
<1>4. /\ {"SaveQueue", "Deliver"} \subseteq Kinds \ OfMessage
      /\ {"Receipt", "SaveMessage", "DeleteMessage", "SetReady"} \subseteq Kinds \ {"Drain"}
  BY DEF Kinds, Calls, OfMessage
<1>5. /\ \A p \in Queues : OnQueue("SaveQueue", p) \in Plain(n) /\ OnQueue("Deliver", p) \in Plain(n)
      /\ \A p \in Queues, m \in 1..n :
           /\ OnMessage("Receipt", p, m) \in Plain(n) /\ OnMessage("SaveMessage", p, m) \in Plain(n)
           /\ OnMessage("DeleteMessage", p, m) \in Plain(n) /\ OnMessage("SetReady", p, m) \in Plain(n)
  BY <1>1, <1>2, <1>4
<1>6. \A a \in Plain(n), b \in Plain(n), c \in Plain(n), d \in Plain(n) :
        <<a>> \in Work(n) /\ <<a, b>> \in Work(n) /\ <<a, b, c, d>> \in Work(n)
  <2>1. \A a \in Plain(n), b \in Plain(n), c \in Plain(n), d \in Plain(n) :
          /\ <<a>> \in Seq(Plain(n)) /\ <<a, b>> \in Seq(Plain(n))
          /\ <<a, b, c, d>> \in Seq(Plain(n))
    OBVIOUS
  <2> QED
    BY <2>1, PlainWork
<1>7. PublishSteps(q, id) \in Work(n)
  BY <1>5, <1>6 DEF PublishSteps
<1>8. AckSteps(q, id) \in Work(n)
  BY <1>5, <1>6 DEF AckSteps
<1>9. NackSteps(q, id, att) \in Work(n) /\ RequeueSteps(q, id) \in Work(n)
  BY <1>3, <1>5, <1>6 DEF NackSteps, RequeueSteps
<1>10. ASSUME NEW dlq \in Queues, NEW copy \in 1..n
       PROVE  DlqSteps(q, id, dlq, copy) \in Work(n)
  BY <1>5, <1>6 DEF DlqSteps
<1>11. ASSUME NEW to \in Consumer
       PROVE  DispatchSteps(q, id, att, to) \in Work(n)
  <2> DEFINE d == Do("Drain", q, id, att, to)
             u == Do("SetInFlight", q, id, att, to)
             v == OnQueue("Deliver", q)
  <2>1. d \in StepUpTo(n) /\ u \in Plain(n) /\ v \in Plain(n)
    <3>1. "Drain" \in Kinds /\ "SetInFlight" \in Kinds
      BY DEF Kinds, Calls
    <3> QED
      BY <3>1, <1>5, StepsTyped DEF Do, Plain
  <2>2. DispatchSteps(q, id, att, to) =
          (IF to[1] \in Slow \/ link[to[1]] # "open" THEN <<d>> ELSE <<>>) \o <<u, v>>
    BY DEF DispatchSteps
  <2> HIDE DEF d, u, v
  <2>3. <<u, v>> \in Work(n)
    BY <2>1, <1>6
  <2>4. u \in StepUpTo(n) /\ v \in StepUpTo(n) /\ u.do # "Drain" /\ v.do # "Drain"
    BY <2>1 DEF Plain
  <2>5. <<d>> \o <<u, v>> \in Work(n)
    <3>1. <<d>> \in Seq(StepUpTo(n)) /\ <<u, v>> \in Seq(StepUpTo(n))
      BY <2>1, <2>4
    <3> DEFINE w == <<d>> \o <<u, v>>
    <3>2. w \in Seq(StepUpTo(n)) /\ Len(w) = 3 /\ w[3] = v
      BY <3>1, ConcatProperties
    <3> HIDE DEF w
    <3>3. \A k \in 1..3 : w[k].do = "Drain" => k < 3
      BY <3>2, <2>4
    <3>4. w \in Work(n)
      BY <3>2, <3>3 DEF Work
    <3> QED
      BY <3>4 DEF w
  <2>6. <<>> \o <<u, v>> = <<u, v>>
    BY <2>4, ConcatEmptySeq
  <2> QED
    BY <2>2, <2>3, <2>5, <2>6
<1> QED
  BY <1>7, <1>8, <1>9, <1>10, <1>11

\* The steps of a scan, one for each message it found.
LEMMA ForEachTyped ==
  ASSUME ConstantsOK, NEW n \in Nat, n <= MaxMessages, NEW kind \in Kinds \ {"Drain"},
         NEW q \in Queues, NEW ids \in Seq(1..n), inflight \in [Ids -> Nat]
  PROVE  ForEach(kind, q, ids) \in Work(n)
<1>1. ASSUME NEW i \in 1..Len(ids)
      PROVE  Do(kind, q, ids[i], inflight[ids[i]], NoConsumer) \in Plain(n)
  <2>1. ids[i] \in 1..n
    OBVIOUS
  <2>2. MaxMessages \in Nat
    BY DEF ConstantsOK
  <2>3. inflight[ids[i]] \in Nat
    BY <2>1, <2>2 DEF Ids
  <2> QED
    BY <2>1, <2>3, StepsTyped DEF Do, Plain
<1>2. ForEach(kind, q, ids) \in Seq(Plain(n))
  BY <1>1 DEF ForEach
<1> QED
  BY <1>2, PlainWork

\* The members of a finite set of messages, in any order.
LEMMA OrderingTyped ==
  ASSUME NEW n \in Nat, NEW S, \A id \in S : id \in 1..n, NEW s \in SetToSeqs(S)
  PROVE  s \in Seq(1..n)
<1>1. Cardinality(S) \in Nat
  BY Positions
<1>2. s \in [1..Cardinality(S) -> S]
  BY DEF SetToSeqs
<1> QED
  BY <1>1, <1>2

\* The members of a finite set of messages, in the order of their creation.
LEMMA AscendingTyped ==
  ASSUME NEW n \in Nat, NEW S, \A id \in S : id \in 1..n
  PROVE  Ascending(S) \in Seq(1..n)
<1>1. Cardinality(S) \in Nat
  BY Positions
<1>2. \A i \in 1..Cardinality(S) : Nth(S, i) \in 1..n
  BY NthMember
<1> QED
  BY <1>1, <1>2 DEF Ascending
-----------------------------------------------------------------------------
(* The rest of the state. *)

\* A step outside the tasks keeps them.
LEMMA SameTasks ==
  ASSUME TasksOK, UNCHANGED <<control, msgs>>
  PROVE  TasksOK'
BY DEF TasksOK, QueuedOnce, Waits, control

\* get_or_create of a queue.
LEMMA GetOrCreateTyped ==
  ASSUME NEW q \in Queues, NEW type \in QueueType \cup {"absent"},
         created \in Seq(Queues), qtype \in [Queues -> QueueType \cup {"absent"}],
         GetOrCreate(q, type)
  PROVE  created' \in Seq(Queues) /\ qtype' \in [Queues -> QueueType \cup {"absent"}]
BY DEF GetOrCreate

\* add_message of a queue.
LEMMA EnqueueTyped ==
  ASSUME NEW S, ready \in [Queues -> Seq(S)], NEW q \in Queues, NEW id \in S,
         NEW prio, NEW type, Enqueue(q, id, prio, type)
  PROVE  ready' \in [Queues -> Seq(S)]
BY AddMessageType DEF Enqueue

\* Messages that are known are of the type.
LEMMA KnownTyped ==
  ASSUME ConstantsOK, msgs \in Seq(Message), Len(msgs) <= MaxMessages
  PROVE  Len(msgs) \in Nat /\ Known \subseteq Ids /\ MaxMessages \in Nat
BY DEF Known, Ids, ConstantsOK

\* The initial state is typed.
LEMMA InitTyped ==
  ASSUME ConstantsOK, Init
  PROVE  Typed
<1>1. /\ MaxMessages \in Nat /\ MaxCount \in Nat /\ MaxCrashes \in Nat /\ MaxDbFailures \in Nat
      /\ NoTask \notin Tasks /\ NoQueue \notin Queues
  BY DEF ConstantsOK
<1>2. \A n \in Nat : <<>> \in Work(n)
  BY DEF Work
<1>3. TasksOK
  BY <1>2 DEF Init, TasksOK, QueuedOnce
<1>4. OnlyKnown
  BY DEF Init, OnlyKnown, Known
<1>5. DataTypeOK
  BY <1>1 DEF Init, DataTypeOK, QueueType, Status, Consumer
<1> QED
  BY <1>3, <1>4, <1>5 DEF Typed
-----------------------------------------------------------------------------
(* Frames, connections and the clock. *)

\* A connection comes, breaks or is unregistered.
LEMMA ConnectTyped ==
  ASSUME Typed, NEW c \in Conns, Connect(c) \/ Lose(c) \/ Unregister(c)
  PROVE  Typed'
<1>1. UNCHANGED <<control, msgs>>
  BY DEF Connect, Lose, Unregister
<1>2. TasksOK'
  BY <1>1, SameTasks DEF Typed
<1>3. CASE Connect(c) \/ Lose(c)
  BY <1>2, <1>3 DEF Connect, Lose, Typed, DataTypeOK, OnlyKnown, Known,
                    memory, database, clients, faults
<1>4. CASE Unregister(c)
  <2>1. consumers' \in [Queues -> Seq(Consumer)]
    BY <1>4, WithoutType DEF Unregister, RemoveConnection, Typed, DataTypeOK
  <2> QED
    BY <1>2, <1>4, <2>1 DEF Unregister, Typed, DataTypeOK, OnlyKnown, Known, database, faults
<1> QED
  BY <1>3, <1>4

\* SEND creates a message, and puts it in the heap of its queue.
LEMMA SendTyped ==
  ASSUME ConstantsOK, Typed, NEW c \in Conns, NEW q \in Targets, NEW type \in QueueTypes,
         NEW prio \in Priorities, NEW ttl \in Ttls, Send(c, q, type, prio, ttl)
  PROVE  Typed'
<1>1. q \in Queues /\ type \in QueueType /\ ttl \in BOOLEAN /\ MaxMessages \in Nat /\ c \in Tasks
  BY DEF ConstantsOK, Tasks
<1>2. /\ msgs' \in Seq(Message) /\ Len(msgs') = Len(msgs) + 1 /\ Len(msgs) \in Nat
      /\ Len(msgs') <= MaxMessages
  BY <1>1 DEF Send, Typed, DataTypeOK, NewMessage, Message
<1>3. NewId \in 1..Len(msgs')
  BY <1>2 DEF NewId
<1>4. TasksOK'
  <2>1. PublishSteps(q, NewId) \in Work(Len(msgs'))
    BY <1>1, <1>2, <1>3, HandlersTyped
  <2>2. Growing
    BY <1>2 DEF Growing
  <2>3. ~ Waits(c) /\ running = NoTask /\ Continue(c, PublishSteps(q, NewId))
    BY DEF Send, Frame, Free, Idle, Waits
  <2> QED
    BY <1>1, <2>1, <2>2, <2>3, ContinueKeepsTasks DEF Typed
<1>5. Known \subseteq Known' /\ Known' \subseteq Ids
  BY <1>1, <1>2 DEF Known, Ids
<1>6. ready' \in [Queues -> Seq(Known')]
  <2>1. ready \in [Queues -> Seq(Known')]
    BY <1>5, SeqMonotonic DEF Typed, OnlyKnown
  <2>2. NewId \in Known'
    BY <1>3 DEF Known
  <2> QED
    BY <1>1, <2>1, <2>2, EnqueueTyped DEF Send
<1>7. ready' \in [Queues -> Seq(Ids)]
  BY <1>5, <1>6, SeqMonotonic
<1>8. created' \in Seq(Queues) /\ qtype' \in [Queues -> QueueType \cup {"absent"}]
  BY <1>1, GetOrCreateTyped DEF Send, Typed, DataTypeOK
<1>9. OnlyKnown'
  BY <1>5, <1>6 DEF OnlyKnown, Typed, Send, database, clients
<1>10. DataTypeOK'
  BY <1>2, <1>7, <1>8 DEF DataTypeOK, Typed, Send, sessions, database, clients, faults
<1> QED
  BY <1>4, <1>9, <1>10 DEF Typed

\* SEND of a message whose time has run out creates at most the queue.
LEMMA SendExpiredTyped ==
  ASSUME ConstantsOK, Typed, NEW c \in Conns, NEW q \in Targets, NEW type \in QueueTypes,
         SendExpired(c, q, type)
  PROVE  Typed'
<1>1. q \in Queues /\ type \in QueueType
  BY DEF ConstantsOK
<1>2. created' \in Seq(Queues) /\ qtype' \in [Queues -> QueueType \cup {"absent"}]
  BY <1>1, GetOrCreateTyped DEF SendExpired, Typed, DataTypeOK
<1>3. TasksOK'
  BY SameTasks DEF SendExpired, Typed
<1> QED
  BY <1>2, <1>3 DEF SendExpired, Typed, DataTypeOK, OnlyKnown, Known,
                    sessions, database, clients, faults

\* SUBSCRIBE adds a consumer.
LEMMA SubscribeFrameTyped ==
  ASSUME ConstantsOK, Typed, NEW c \in Conns, NEW s \in Subs, NEW q \in Targets,
         NEW type \in QueueTypes, Subscribe(c, s, q, type)
  PROVE  Typed'
<1>1. q \in Queues /\ type \in QueueType /\ c \in Tasks /\ <<c, s>> \in Consumer
      /\ Len(msgs) \in Nat /\ Len(msgs) <= MaxMessages
  BY DEF ConstantsOK, Tasks, Consumer, Typed, DataTypeOK
<1>2. created' \in Seq(Queues) /\ qtype' \in [Queues -> QueueType \cup {"absent"}]
  BY <1>1, GetOrCreateTyped DEF Subscribe, Typed, DataTypeOK
<1>3. TasksOK'
  <2>1. SubscribeSteps(q) \in Work(Len(msgs'))
    BY <1>1, SubscribeTyped DEF Subscribe
  <2>2. Growing
    BY <1>1 DEF Growing, Subscribe
  <2>3. ~ Waits(c) /\ running = NoTask /\ Continue(c, SubscribeSteps(q))
    BY DEF Subscribe, Frame, Free, Idle, Waits
  <2> QED
    BY <1>1, <2>1, <2>2, <2>3, ContinueKeepsTasks DEF Typed
<1>4. consumers' \in [Queues -> Seq(Consumer)]
  BY <1>1 DEF Subscribe, Typed, DataTypeOK
<1>5. subs' \in [Conns -> [Subs -> Queues \cup {NoQueue}]]
  BY <1>1 DEF Subscribe, Typed, DataTypeOK
<1> QED
  BY <1>2, <1>3, <1>4, <1>5 DEF Subscribe, Typed, DataTypeOK, OnlyKnown, Known,
                                database, clients, faults

\* UNSUBSCRIBE removes a consumer.
LEMMA UnsubscribeTyped ==
  ASSUME ConstantsOK, Typed, NEW c \in Conns, NEW s \in Subs, Unsubscribe(c, s)
  PROVE  Typed'
<1>1. TasksOK'
  BY SameTasks DEF Unsubscribe, Typed
<1>2. consumers' \in [Queues -> Seq(Consumer)]
  BY WithoutType DEF Unsubscribe, RemoveConsumer, Typed, DataTypeOK
<1>3. subs' \in [Conns -> [Subs -> Queues \cup {NoQueue}]]
  BY DEF Unsubscribe, Typed, DataTypeOK
<1> QED
  BY <1>1, <1>2, <1>3 DEF Unsubscribe, Typed, DataTypeOK, OnlyKnown, Known,
                          database, clients, faults

\* Facts about the messages every step below starts from.
LEMMA MessagesTyped ==
  ASSUME ConstantsOK, Typed
  PROVE  /\ Len(msgs) \in Nat /\ Len(msgs) <= MaxMessages /\ MaxMessages \in Nat
         /\ Known = 1..Len(msgs) /\ Known \subseteq Ids
         /\ \A id \in Known : msgs[id] \in Message /\ msgs[id].queue \in Queues
                              /\ inflight[id] \in Nat
<1>1. Len(msgs) \in Nat /\ Len(msgs) <= MaxMessages /\ MaxMessages \in Nat
      /\ Known = 1..Len(msgs) /\ Known \subseteq Ids
  BY KnownTyped DEF Typed, DataTypeOK, Known
<1>2. \A id \in Known : msgs[id] \in Message /\ msgs[id].queue \in Queues
  <2>1. msgs \in Seq(Message)
    BY DEF Typed, DataTypeOK
  <2>2. \A id \in Known : msgs[id] \in Message
    BY <1>1, <2>1, ElementOfSeq
  <2> QED
    BY <2>2 DEF Message
<1>3. \A id \in Known : inflight[id] \in Nat
  BY <1>1 DEF Typed, DataTypeOK
<1> QED
  BY <1>1, <1>2, <1>3

\* The in_flight of the queues after some entries are taken out.
LEMMA TakeOutTyped ==
  ASSUME Typed, NEW S
  PROVE  TakeOut(S) \in [Ids -> Nat]
BY DEF TakeOut, Typed, DataTypeOK

\* ACK and NACK take a message out of in_flight.
LEMMA AnswerTyped ==
  ASSUME ConstantsOK, Typed, NEW c \in Conns, NEW id \in Ids, Ack(c, id) \/ Nack(c, id)
  PROVE  Typed'
<1>1. c \in Tasks /\ ~ Waits(c) /\ running = NoTask
  BY DEF Ack, Nack, Frame, Free, Idle, Waits, Tasks
<1>2. id \in Known
  BY DEF Ack, Nack, Typed, OnlyKnown
<1>3. Growing
  BY MessagesTyped DEF Growing, Ack, Nack
<1>4. TasksOK'
  <2>1. /\ AckSteps(msgs[id].queue, id) \in Work(Len(msgs'))
        /\ NackSteps(msgs[id].queue, id, inflight[id]) \in Work(Len(msgs'))
    BY <1>2, MessagesTyped, HandlersTyped DEF Ack, Nack
  <2>2. CASE UNCHANGED control
    BY <2>2, SameTasks DEF Typed, Ack, Nack
  <2>3. CASE Continue(c, AckSteps(msgs[id].queue, id))
    BY <1>1, <1>3, <2>1, <2>3, ContinueKeepsTasks DEF Typed
  <2>4. CASE Continue(c, NackSteps(msgs[id].queue, id, inflight[id]))
    BY <1>1, <1>3, <2>1, <2>4, ContinueKeepsTasks DEF Typed
  <2> QED
    BY <2>2, <2>3, <2>4 DEF Ack, Nack
<1>5. inflight' \in [Ids -> Nat]
  BY TakeOutTyped DEF Ack, Nack
<1>6. inbox' \in [Conns -> SUBSET Known] /\ inbox' \in [Conns -> SUBSET Ids]
  <2>1. PICK f : f = [inbox EXCEPT ![c] = @ \ {id}]
    OBVIOUS
  <2>2. inbox' = f
    BY <2>1 DEF Ack, Nack
  <2>3. inbox \in [Conns -> SUBSET Known] /\ Known \subseteq Ids
    BY MessagesTyped DEF Typed, OnlyKnown
  <2>4. f \in [Conns -> SUBSET Known]
    BY <2>1, <2>3
  <2> QED
    BY <2>2, <2>3, <2>4
<1>7. acked' \subseteq Ids
  BY DEF Ack, Nack, Typed, DataTypeOK
<1>8. OnlyKnown'
  BY <1>6 DEF OnlyKnown, Known, Ack, Nack, Typed, database
<1>9. DataTypeOK'
  BY <1>5, <1>6, <1>7 DEF DataTypeOK, Typed, Ack, Nack, sessions, database, faults
<1> QED
  BY <1>4, <1>8, <1>9 DEF Typed
-----------------------------------------------------------------------------
(* The delivery loop. *)

\* The step a task is at, when the event loop runs it.
LEMMA Current ==
  ASSUME ConstantsOK, Typed, NEW t \in Tasks, todo[t] # <<>>
  PROVE  /\ todo[t] \in Work(Len(msgs)) /\ Head(todo[t]) \in StepUpTo(Len(msgs))
         /\ Tail(todo[t]) \in Work(Len(msgs))
         /\ Head(todo[t]).do = "Drain" => Tail(todo[t]) # <<>>
         /\ Head(todo[t]).do \in OfQueue => Head(todo[t]).q \in Queues
         /\ Head(todo[t]).do \in OfMessage => Head(todo[t]).id \in Known
         /\ Head(todo[t]).do = "Drain" => Head(todo[t]).to \in Consumer
         /\ Head(todo[t]).att \in Nat
<1>1. todo[t] \in Work(Len(msgs))
  BY DEF Typed, TasksOK
<1>2. /\ Head(todo[t]) \in StepUpTo(Len(msgs)) /\ Tail(todo[t]) \in Work(Len(msgs))
      /\ Head(todo[t]).do = "Drain" => Tail(todo[t]) # <<>>
  BY <1>1, MessagesTyped, WorkTail
<1> QED
  BY <1>1, <1>2 DEF StepUpTo, Step, Known

\* The index of the round robin is one of a consumer there is, whatever it was left at.
LEMMA NextIndexTyped ==
  ASSUME NEW cs \in Seq(Consumer), cs # <<>>, NEW index \in Nat
  PROVE  NextIndex(cs, index) \in Nat /\ NextIndex(cs, index) + 1 \in 1..Len(cs)
<1>1. Len(cs) \in Nat /\ Len(cs) > 0
  BY EmptySeq
<1>2. index % Len(cs) \in 0..(Len(cs) - 1)
  BY <1>1
<1> QED
  BY <1>1, <1>2 DEF NextIndex

\* One turn of the delivery loop.
LEMMA DeliverTyped ==
  ASSUME ConstantsOK, Typed, NEW t \in Tasks, Deliver(t)
  PROVE  Typed'
<1> DEFINE q == Head(todo[t]).q
           next == NextIndex(consumers[q], turn[q])
           to == consumers[q][next + 1]
           id == Head(ready[q])
           att == inflight[id] + 1
<1>0. /\ Doing(t, "Deliver")
      /\ UNCHANGED <<up, msgs, created, qtype, consumers, sessions, database,
                     confirmed, acked, expired, faults>>
      /\ ready[q] = <<>> \/ consumers[q] = <<>> =>
           Become(t, <<>>) /\ UNCHANGED <<ready, turn, inflight, inbox, handed>>
      /\ ~ (ready[q] = <<>> \/ consumers[q] = <<>>) =>
           /\ turn' = [turn EXCEPT ![q] = next + 1]
           /\ ready' = [ready EXCEPT ![q] = Tail(@)]
           /\ IsExpired(id) =>
                /\ Become(t, <<OnMessage("DeleteMessage", q, id), OnQueue("Deliver", q)>>)
                /\ UNCHANGED <<inflight, inbox, handed>>
           /\ ~ IsExpired(id) =>
                /\ inflight' = [inflight EXCEPT ![id] = att]
                /\ handed' = handed \cup {id}
                /\ inbox' = [inbox EXCEPT ![to[1]] = @ \cup {id}] \/ inbox' = inbox
                /\ Become(t, DispatchSteps(q, id, att, to))
  BY DEF Deliver
<1>1. /\ running = t /\ todo[t] # <<>> /\ Head(todo[t]).do = "Deliver" /\ ~ Waits(t)
  BY <1>0 DEF Doing, Idle, Waits
<1>2. q \in Queues
  BY <1>1, Current DEF OfQueue, Kinds
<1>3. Growing /\ msgs' = msgs
  <2>1. msgs' = msgs
    BY <1>0
  <2> QED
    BY <2>1, MessagesTyped DEF Growing
<1>4. turn \in [Queues -> Nat] /\ inflight \in [Ids -> Nat] /\ handed \subseteq Ids
  BY DEF Typed, DataTypeOK
<1>5. CASE ready[q] = <<>> \/ consumers[q] = <<>>
  <2>1. Become(t, <<>>) /\ UNCHANGED <<ready, turn, inflight, inbox, handed>>
    BY <1>0, <1>5
  <2>2. <<>> \in Work(Len(msgs'))
    BY DEF Work
  <2>3. TasksOK'
    BY <1>1, <1>3, <2>1, <2>2, BecomeKeepsTasks DEF Typed
  <2> QED
    BY <1>0, <2>1, <2>3 DEF Typed, DataTypeOK, OnlyKnown, Known, sessions, database, faults
<1>6. CASE ready[q] # <<>> /\ consumers[q] # <<>>
  <2>1. /\ ready[q] \in Seq(Known) /\ consumers[q] \in Seq(Consumer) /\ turn[q] \in Nat
    BY <1>2 DEF Typed, DataTypeOK, OnlyKnown
  <2>2. id \in Known /\ Tail(ready[q]) \in Seq(Known)
    BY <2>1, <1>6, HeadTailProperties
  <2>3. next \in Nat /\ to \in Consumer
    BY <2>1, <1>6, NextIndexTyped, ElementOfSeq
  <2>4. id \in Ids /\ att \in Nat /\ id \in 1..Len(msgs')
    <3>1. id \in Ids /\ inflight[id] \in Nat /\ id \in 1..Len(msgs)
      BY <2>2, MessagesTyped
    <3> QED
      BY <3>1, <1>3
  <2>5. turn' \in [Queues -> Nat]
    <3>1. turn' = [turn EXCEPT ![q] = next + 1]
      BY <1>0, <1>6
    <3>2. next + 1 \in Nat
      BY <2>3
    <3> HIDE DEF next, to, id, q
    <3> QED
      BY <3>1, <3>2, <1>4
  <2>6. ready' \in [Queues -> Seq(Known)]
    BY <1>0, <2>2, <1>6 DEF Typed, OnlyKnown
  <2>7. ready' \in [Queues -> Seq(Ids)]
    BY <2>6, MessagesTyped, SeqMonotonic
  <2>8. /\ inflight' \in [Ids -> Nat] /\ handed' \subseteq Ids
        /\ inbox' \in [Conns -> SUBSET Known] /\ inbox' \in [Conns -> SUBSET Ids]
    <3>1. inflight' = [inflight EXCEPT ![id] = att] \/ inflight' = inflight
      BY <1>0, <1>6
    <3>2. handed' = handed \cup {id} \/ handed' = handed
      BY <1>0, <1>6
    <3>3. inbox' = [inbox EXCEPT ![to[1]] = @ \cup {id}] \/ inbox' = inbox
      BY <1>0, <1>6
    <3> HIDE DEF id, att, to
    <3>4. inbox' \in [Conns -> SUBSET Known]
      BY <3>3, <2>2 DEF Typed, OnlyKnown
    <3>5. inbox' \in [Conns -> SUBSET Ids]
      BY <3>4, MessagesTyped
    <3>6. inflight' \in [Ids -> Nat] /\ handed' \subseteq Ids
      BY <3>1, <3>2, <2>4, <1>4
    <3> QED
      BY <3>4, <3>5, <3>6
  <2>9. TasksOK'
    <3>1. CASE IsExpired(id)
      <4>1. Become(t, <<OnMessage("DeleteMessage", q, id), OnQueue("Deliver", q)>>)
        BY <1>0, <1>6, <3>1
      <4>2. AckSteps(q, id) \in Work(Len(msgs'))
        BY <1>0, <1>2, <2>4, MessagesTyped, HandlersTyped
      <4> QED
        BY <1>1, <1>3, <4>1, <4>2, BecomeKeepsTasks DEF Typed, AckSteps
    <3>2. CASE ~ IsExpired(id)
      <4>1. Become(t, DispatchSteps(q, id, att, to))
        BY <1>0, <1>6, <3>2
      <4>2. DispatchSteps(q, id, att, to) \in Work(Len(msgs'))
        BY <1>0, <1>2, <2>3, <2>4, MessagesTyped, HandlersTyped
      <4> QED
        BY <1>1, <1>3, <4>1, <4>2, BecomeKeepsTasks DEF Typed
    <3> QED
      BY <3>1, <3>2
  <2>10. OnlyKnown'
    BY <1>0, <2>6, <2>8 DEF OnlyKnown, Known, Typed, database
  <2>11. DataTypeOK'
    BY <1>0, <2>5, <2>7, <2>8 DEF DataTypeOK, Typed, sessions, database, faults
  <2> QED
    BY <2>9, <2>10, <2>11 DEF Typed
<1> QED
  BY <1>5, <1>6

\* A drain waits or returns.
LEMMA DrainTyped ==
  ASSUME ConstantsOK, Typed, NEW t \in Tasks, Suspend(t) \/ DrainOk(t)
  PROVE  Typed'
<1>1. CASE Suspend(t)
  <2>1. running = t /\ running' = NoTask /\ UNCHANGED <<todo, dbq, msgs>> /\ NoTask \notin Tasks
    BY <1>1 DEF Suspend, Doing, ConstantsOK
  <2>2. TasksOK'
    <3>1. \A i \in 1..Len(dbq) : dbq[i] \in Tasks
      BY ElementOfSeq DEF Typed, TasksOK
    <3> QED
      BY <2>1, <3>1 DEF Typed, TasksOK, QueuedOnce, Waits
  <2> QED
    BY <1>1, <2>2 DEF Suspend, Typed, DataTypeOK, OnlyKnown, Known,
                      memory, sessions, database, clients, faults
<1>2. CASE DrainOk(t)
  <2>1. /\ running \in {t, NoTask} /\ todo[t] # <<>> /\ ~ Waits(t) /\ Become(t, <<>>)
    BY <1>2 DEF DrainOk, AtDrain, Idle, Waits, Calls
  <2>2. Growing /\ <<>> \in Work(Len(msgs'))
    BY <1>2, MessagesTyped DEF Growing, DrainOk, Work
  <2>3. TasksOK'
    BY <2>1, <2>2, BecomeKeepsTasks DEF Typed
  <2> QED
    BY <1>2, <2>3 DEF DrainOk, Typed, DataTypeOK, OnlyKnown, Known,
                      memory, sessions, database, clients, faults
<1> QED
  BY <1>1, <1>2

\* A delivery that is given up: the message goes to _handle_failed_delivery.
LEMMA GiveUpTyped ==
  ASSUME ConstantsOK, Typed, NEW t \in Tasks, todo[t] # <<>>,
         Head(todo[t]).do \in {"Drain", "SetInFlight"},
         NEW rest \in Work(Len(msgs)), NEW waiting, Remaining(t, waiting),
         running \in {t, NoTask}, msgs' = msgs, GiveUp(t, rest, waiting)
  PROVE  TasksOK' /\ inflight' \in [Ids -> Nat] /\ consumers' \in [Queues -> Seq(Consumer)]
<1> DEFINE s == Head(todo[t])
           failed == Do("Failed", s.q, s.id, s.att, NoConsumer)
<1>1. s.q \in Queues /\ s.id \in 1..Len(msgs) /\ s.att \in Nat
  BY Current, MessagesTyped DEF OfQueue, OfMessage, Kinds, Calls
<1>2. failed \in Plain(Len(msgs))
  <2>1. "Failed" \in Kinds \ {"Drain"}
    BY DEF Kinds
  <2> QED
    BY <1>1, <2>1, MessagesTyped, StepsTyped DEF Do, Plain
<1>3. /\ inflight' = TakeOut({s.id})
      /\ consumers' = [consumers EXCEPT ![s.q] = RemoveConsumer(@, s.to)]
      /\ Proceed(t, <<failed>> \o rest, waiting)
  BY DEF GiveUp
<1> HIDE DEF failed
<1>4. <<failed>> \o rest \in Work(Len(msgs'))
  <2>1. <<failed>> \in Work(Len(msgs))
    <3>1. <<failed>> \in Seq(Plain(Len(msgs)))
      BY <1>2
    <3>2. Len(msgs) \in Nat
      BY MessagesTyped
    <3> QED
      BY <3>1, <3>2, PlainWork
  <2> QED
    BY <2>1, MessagesTyped, WorkConcat
<1>5. Growing
  BY MessagesTyped DEF Growing
<1>6. TasksOK'
  BY <1>3, <1>4, <1>5, ProceedKeepsTasks DEF Typed
<1>7. consumers' \in [Queues -> Seq(Consumer)]
  <2>1. consumers \in [Queues -> Seq(Consumer)]
    BY DEF Typed, DataTypeOK
  <2>2. \A cs \in Seq(Consumer) : RemoveConsumer(cs, s.to) \in Seq(Consumer)
    BY WithoutType DEF RemoveConsumer
  <2> HIDE DEF s
  <2> QED
    BY <1>3, <2>1, <2>2
<1> QED
  BY <1>3, <1>6, <1>7, TakeOutTyped

\* A drain raises.
LEMMA DrainFailsTyped ==
  ASSUME ConstantsOK, Typed, NEW t \in Tasks, DrainFails(t)
  PROVE  Typed'
<1>1. /\ running \in {t, NoTask} /\ todo[t] # <<>> /\ Head(todo[t]).do = "Drain"
      /\ ~ Waits(t) /\ msgs' = msgs /\ GiveUp(t, Tail(Tail(todo[t])), dbq)
  BY DEF DrainFails, AtDrain, Idle, Waits, Calls
<1>2. Tail(Tail(todo[t])) \in Work(Len(msgs))
  <2>1. Tail(todo[t]) \in Work(Len(msgs)) /\ Tail(todo[t]) # <<>> /\ Len(msgs) \in Nat
    BY <1>1, Current, MessagesTyped
  <2> QED
    BY <2>1, WorkTail
<1>3. Remaining(t, dbq)
  BY <1>1 DEF Remaining, Typed, TasksOK, QueuedOnce
<1>4. TasksOK' /\ inflight' \in [Ids -> Nat] /\ consumers' \in [Queues -> Seq(Consumer)]
  BY <1>1, <1>2, <1>3, GiveUpTyped
<1> QED
  BY <1>4 DEF DrainFails, Typed, DataTypeOK, OnlyKnown, Known, sessions, database, clients, faults

\* A failed delivery goes back to the heap, or on to the dead letter queue.
LEMMA FailedTyped ==
  ASSUME ConstantsOK, Typed, NEW t \in Tasks, Failed(t)
  PROVE  Typed'
<1> DEFINE q == Head(todo[t]).q
           id == Head(todo[t]).id
           dlq == DlqOf[q]
<1>1. /\ running = t /\ todo[t] # <<>> /\ Head(todo[t]).do = "Failed" /\ ~ Waits(t)
      /\ UNCHANGED <<up, inflight, consumers, turn, sessions, database, clients, faults>>
      /\ MoveToDlq(t, q, id) \/ Requeue(t, q, id)
  BY DEF Failed, Doing, Idle, Waits, Calls
<1>2. q \in Queues /\ id \in Known /\ dlq \in Queues
  BY <1>1, Current DEF OfQueue, OfMessage, Kinds, ConstantsOK
<1> HIDE DEF q, id
<1>3. CASE Requeue(t, q, id)
  <2>1. msgs' = msgs /\ UNCHANGED <<created, qtype>> /\ Become(t, RequeueSteps(q, id))
    BY <1>3 DEF Requeue
  <2>2. Growing /\ RequeueSteps(q, id) \in Work(Len(msgs'))
    BY <1>2, <2>1, MessagesTyped, HandlersTyped DEF Growing
  <2>3. TasksOK'
    BY <1>1, <2>1, <2>2, BecomeKeepsTasks DEF Typed
  <2>4. ready' \in [Queues -> Seq(Known)]
    BY <1>2, <1>3, EnqueueTyped DEF Requeue, Typed, OnlyKnown
  <2>5. ready' \in [Queues -> Seq(Ids)]
    BY <2>4, MessagesTyped, SeqMonotonic
  <2>6. OnlyKnown'
    BY <1>1, <2>1, <2>4 DEF OnlyKnown, Known, Typed, database, clients
  <2>7. DataTypeOK'
    BY <1>1, <2>1, <2>5 DEF DataTypeOK, Typed, sessions, database, clients, faults
  <2> QED
    BY <2>3, <2>6, <2>7 DEF Typed
<1>4. CASE MoveToDlq(t, q, id)
  <2> DEFINE prio == msgs[id].prio
  <2>1. /\ Len(msgs) < MaxMessages /\ GetOrCreate(dlq, "FIFO")
        /\ msgs' = Append(msgs, NewMessage(dlq, prio, FALSE, id))
        /\ Become(t, DlqSteps(q, id, dlq, NewId))
        /\ \E p, type : Enqueue(dlq, NewId, p, type)
    BY <1>4 DEF MoveToDlq
  <2>2. /\ msgs' \in Seq(Message) /\ Len(msgs') = Len(msgs) + 1 /\ Len(msgs) \in Nat
        /\ Len(msgs') <= MaxMessages /\ MaxMessages \in Nat
    <3>1. prio \in Priorities /\ id \in 0..MaxMessages
      BY <1>2, MessagesTyped DEF Message
    <3>2. NewMessage(dlq, prio, FALSE, id) \in Message
      BY <1>2, <3>1 DEF NewMessage, Message
    <3>3. msgs \in Seq(Message)
      BY DEF Typed, DataTypeOK
    <3>4. Len(msgs) \in Nat /\ MaxMessages \in Nat
      BY MessagesTyped
    <3>5. msgs' \in Seq(Message) /\ Len(msgs') = Len(msgs) + 1
      BY <2>1, <3>2, <3>3, AppendProperties
    <3>6. Len(msgs) < MaxMessages
      BY <2>1
    <3> QED
      BY <3>4, <3>5, <3>6
  <2>3. /\ NewId \in 1..Len(msgs') /\ id \in 1..Len(msgs')
        /\ Known \subseteq Known' /\ Known' \subseteq Ids /\ NewId \in Known'
    BY <1>2, <2>2 DEF NewId, Known, Ids
  <2>4. Growing /\ DlqSteps(q, id, dlq, NewId) \in Work(Len(msgs'))
    BY <1>2, <2>2, <2>3, HandlersTyped DEF Growing
  <2>5. TasksOK'
    BY <1>1, <2>1, <2>4, BecomeKeepsTasks DEF Typed
  <2>6. ready' \in [Queues -> Seq(Known')]
    <3>1. ready \in [Queues -> Seq(Known')]
      BY <2>3, SeqMonotonic DEF Typed, OnlyKnown
    <3> QED
      BY <1>2, <2>1, <2>3, <3>1, EnqueueTyped
  <2>7. ready' \in [Queues -> Seq(Ids)]
    BY <2>3, <2>6, SeqMonotonic
  <2>8. created' \in Seq(Queues) /\ qtype' \in [Queues -> QueueType \cup {"absent"}]
    <3>1. "FIFO" \in QueueType
      BY DEF QueueType
    <3> QED
      BY <1>2, <2>1, <3>1, GetOrCreateTyped DEF Typed, DataTypeOK
  <2>9. OnlyKnown'
    BY <1>1, <2>3, <2>6 DEF OnlyKnown, Typed, database, clients
  <2>10. DataTypeOK'
    BY <1>1, <2>2, <2>7, <2>8 DEF DataTypeOK, Typed, sessions, database, clients, faults
  <2> QED
    BY <2>5, <2>9, <2>10 DEF Typed
<1> QED
  BY <1>1, <1>3, <1>4

\* A RECEIPT is sent.
LEMMA ReceiptTyped ==
  ASSUME ConstantsOK, Typed, NEW t \in Tasks, Receipt(t)
  PROVE  Typed'
<1>1. /\ running = t /\ todo[t] # <<>> /\ Head(todo[t]).do = "Receipt" /\ ~ Waits(t)
      /\ Become(t, <<>>) /\ msgs' = msgs
  BY DEF Receipt, Doing, Idle, Waits, Calls
<1>2. Growing /\ <<>> \in Work(Len(msgs'))
  BY <1>1, MessagesTyped DEF Growing, Work
<1>3. TasksOK'
  BY <1>1, <1>2, BecomeKeepsTasks DEF Typed
<1>4. Head(todo[t]).id \in Ids
  BY <1>1, Current, MessagesTyped DEF OfMessage
<1>5. confirmed' \subseteq Ids
  BY <1>4 DEF Receipt, Typed, DataTypeOK
<1> QED
  BY <1>3, <1>5 DEF Receipt, Typed, DataTypeOK, OnlyKnown, Known, memory, sessions, database, faults
-----------------------------------------------------------------------------
(* The loops, and the wall clock. *)

\* A scan begins with one step for each queue there is.
LEMMA TickTyped ==
  ASSUME ConstantsOK, Typed, TimeoutTick \/ ExpiryTick
  PROVE  Typed'
<1>1. PICK t \in Tasks, kind \in {"CheckTimeouts", "PurgeExpired"} : Tick(t, kind)
  BY DEF TimeoutTick, ExpiryTick, Tasks
<1> DEFINE scan == [i \in 1..Len(created) |-> OnQueue(kind, created[i])]
<1>2. /\ running = NoTask /\ ~ Waits(t) /\ msgs' = msgs /\ Continue(t, scan)
      /\ UNCHANGED <<up, msgs, memory, sessions, database, clients, faults>>
  BY <1>1 DEF Tick, Free, Idle, Waits
<1>3. scan \in Seq(Plain(Len(msgs)))
  <2>1. kind \in Kinds /\ kind # "Drain" /\ kind \notin OfMessage
    BY DEF Kinds, OfMessage
  <2>2. \A q \in Queues : OnQueue(kind, q) \in Plain(Len(msgs))
    BY <2>1, MessagesTyped, StepsTyped DEF OnQueue, Do, Plain
  <2>3. created \in Seq(Queues)
    BY DEF Typed, DataTypeOK
  <2>4. Len(created) \in Nat /\ \A i \in 1..Len(created) : created[i] \in Queues
    BY <2>3
  <2> QED
    BY <2>2, <2>4
<1> HIDE DEF scan
<1>4. scan \in Work(Len(msgs')) /\ Growing
  BY <1>2, <1>3, MessagesTyped, PlainWork DEF Growing
<1>5. TasksOK'
  BY <1>2, <1>4, ContinueKeepsTasks DEF Typed
<1> QED
  BY <1>2, <1>5 DEF Typed, DataTypeOK, OnlyKnown, Known, memory, sessions, database, clients, faults

\* The timeout scan of one queue.
LEMMA CheckTimeoutsTyped ==
  ASSUME ConstantsOK, Typed, NEW t \in Tasks, CheckTimeouts(t)
  PROVE  Typed'
<1> DEFINE q == Head(todo[t]).q
<1>1. /\ running = t /\ todo[t] # <<>> /\ Head(todo[t]).do = "CheckTimeouts" /\ ~ Waits(t)
      /\ UNCHANGED <<up, msgs, created, qtype, ready, consumers, turn, sessions,
                     database, clients, faults>>
  BY DEF CheckTimeouts, Doing, Idle, Waits, Calls
<1>2. q \in Queues
  BY <1>1, Current DEF OfQueue, Kinds
<1>3. PICK overdue \in SUBSET InFlightOf(q) : \E ids \in SetToSeqs(overdue) :
        /\ inflight' = TakeOut(overdue)
        /\ Become(t, IF overdue = {} THEN <<>>
                     ELSE Append(ForEach("Failed", q, ids), OnQueue("Deliver", q)))
  BY DEF CheckTimeouts
<1>4. PICK ids \in SetToSeqs(overdue) :
        /\ inflight' = TakeOut(overdue)
        /\ Become(t, IF overdue = {} THEN <<>>
                     ELSE Append(ForEach("Failed", q, ids), OnQueue("Deliver", q)))
  BY <1>3
<1>5. ids \in Seq(1..Len(msgs))
  <2>1. \A id \in overdue : id \in 1..Len(msgs)
    BY DEF InFlightOf
  <2> QED
    BY <2>1, MessagesTyped, OrderingTyped
<1>6. ForEach("Failed", q, ids) \in Work(Len(msgs)) /\ <<>> \in Work(Len(msgs))
  <2>1. "Failed" \in Kinds \ {"Drain"} /\ inflight \in [Ids -> Nat]
    BY DEF Kinds, Typed, DataTypeOK
  <2>2. ForEach("Failed", q, ids) \in Work(Len(msgs))
    BY <1>2, <1>5, <2>1, MessagesTyped, ForEachTyped
  <2>3. <<>> \in Work(Len(msgs))
    BY DEF Work
  <2> QED
    BY <2>2, <2>3
<1>7. Append(ForEach("Failed", q, ids), OnQueue("Deliver", q)) \in Work(Len(msgs))
  <2>1. OnQueue("Deliver", q) \in Plain(Len(msgs))
    <3>1. "Deliver" \in Kinds \ (OfMessage \cup {"Drain"})
      BY DEF Kinds, OfMessage
    <3> QED
      BY <1>2, <3>1, MessagesTyped, StepsTyped DEF OnQueue, Do, Plain
  <2> DEFINE d == OnQueue("Deliver", q)
             f == ForEach("Failed", q, ids)
  <2>2. d \in StepUpTo(Len(msgs)) /\ f \in Seq(StepUpTo(Len(msgs))) /\ f \in Work(Len(msgs))
    BY <1>6, <2>1 DEF Plain, Work
  <2> HIDE DEF d, f
  <2>3. <<d>> \in Seq(Plain(Len(msgs))) /\ Len(msgs) \in Nat
    BY <2>1, MessagesTyped DEF d
  <2>4. <<d>> \in Work(Len(msgs))
    BY <2>3, PlainWork
  <2>5. Append(f, d) = f \o <<d>>
    BY <2>2, AppendIsConcat
  <2>6. f \o <<d>> \in Work(Len(msgs))
    BY <2>2, <2>3, <2>4, WorkConcat
  <2>7. Append(f, d) \in Work(Len(msgs))
    BY <2>5, <2>6
  <2> QED
    BY <2>7 DEF d, f
<1>8. Growing /\ msgs' = msgs
  BY <1>1, MessagesTyped DEF Growing
<1>9. TasksOK'
  <2>1. CASE overdue = {}
    BY <1>1, <1>4, <1>6, <1>8, <2>1, BecomeKeepsTasks DEF Typed
  <2>2. CASE overdue # {}
    BY <1>1, <1>4, <1>7, <1>8, <2>2, BecomeKeepsTasks DEF Typed
  <2> QED
    BY <2>1, <2>2
<1>10. inflight' \in [Ids -> Nat]
  BY <1>4, TakeOutTyped
<1> QED
  BY <1>1, <1>9, <1>10 DEF Typed, DataTypeOK, OnlyKnown, Known, sessions, database, clients, faults

\* The expiry scan of one queue.
LEMMA PurgeExpiredTyped ==
  ASSUME ConstantsOK, Typed, NEW t \in Tasks, PurgeExpired(t)
  PROVE  Typed'
<1> DEFINE q == Head(todo[t]).q
           dead == ExpiredOf(q)
<1>1. /\ running = t /\ todo[t] # <<>> /\ Head(todo[t]).do = "PurgeExpired" /\ ~ Waits(t)
      /\ UNCHANGED <<up, msgs, created, qtype, consumers, turn, sessions,
                     database, clients, faults>>
      /\ ready' = [ready EXCEPT ![q] = Without(@, dead)]
      /\ inflight' = TakeOut(dead)
      /\ \E ids \in SetToSeqs(dead) : Become(t, ForEach("DeleteMessage", q, ids))
  BY DEF PurgeExpired, Doing, Idle, Waits, Calls
<1>2. PICK ids \in SetToSeqs(dead) : Become(t, ForEach("DeleteMessage", q, ids))
  BY <1>1
<1>3. q \in Queues
  BY <1>1, Current DEF OfQueue, Kinds
<1>4. ids \in Seq(1..Len(msgs))
  <2>1. \A id \in dead : id \in 1..Len(msgs)
    BY MessagesTyped DEF ExpiredOf, Typed, OnlyKnown
  <2> QED
    BY <2>1, MessagesTyped, OrderingTyped
<1> HIDE DEF q, dead
<1>5. ForEach("DeleteMessage", q, ids) \in Work(Len(msgs'))
  <2>1. "DeleteMessage" \in Kinds \ {"Drain"} /\ inflight \in [Ids -> Nat]
    BY DEF Kinds, Calls, Typed, DataTypeOK
  <2>2. msgs' = msgs
    BY <1>1
  <2> QED
    BY <1>3, <1>4, <2>1, <2>2, MessagesTyped, ForEachTyped
<1>6. Growing
  <2>1. msgs' = msgs
    BY <1>1
  <2> QED
    BY <2>1, MessagesTyped DEF Growing
<1>7. TasksOK'
  BY <1>1, <1>2, <1>5, <1>6, BecomeKeepsTasks DEF Typed
<1>8. ready' \in [Queues -> Seq(Known)]
  <2>1. ready \in [Queues -> Seq(Known)]
    BY DEF Typed, OnlyKnown
  <2>2. \A r \in Seq(Known) : Without(r, dead) \in Seq(Known)
    BY WithoutType
  <2> QED
    BY <1>1, <2>1, <2>2
<1>9. ready' \in [Queues -> Seq(Ids)]
  BY <1>8, MessagesTyped, SeqMonotonic
<1>10. inflight' \in [Ids -> Nat]
  BY <1>1, TakeOutTyped
<1>11. OnlyKnown'
  BY <1>1, <1>8 DEF OnlyKnown, Known, Typed, database, clients
<1>12. DataTypeOK'
  BY <1>1, <1>9, <1>10 DEF DataTypeOK, Typed, sessions, database, clients, faults
<1> QED
  BY <1>7, <1>11, <1>12 DEF Typed

\* The time of a message runs out.
LEMMA ExpireTyped ==
  ASSUME ConstantsOK, Typed, NEW id \in Ids, Expire(id)
  PROVE  Typed'
<1>1. TasksOK'
  BY SameTasks DEF Expire, Typed
<1> QED
  BY <1>1 DEF Expire, Typed, DataTypeOK, OnlyKnown, Known, memory, sessions, database, faults
-----------------------------------------------------------------------------
(* Storage. *)

\* What an answer of the database thread leaves to show: the rest of its task's
\* steps, and the variables it is about.
LEMMA AnswersTyped ==
  ASSUME ConstantsOK, Typed, NEW t, NEW kind, NEW steps, Answers(t, kind, steps)
  PROVE  /\ t \in Tasks /\ todo[t] # <<>> /\ Head(todo[t]).do = kind
         /\ msgs' = msgs
         /\ steps \in Work(Len(msgs)) => TasksOK'
         /\ UNCHANGED <<up, inflight, consumers, turn, sessions, clients, faults>>
<1>1. /\ dbq # <<>> /\ t = Head(dbq) /\ Head(todo[t]).do = kind /\ msgs' = msgs
      /\ UNCHANGED <<up, inflight, consumers, turn, sessions, clients, faults>>
  BY DEF Answers
<1>2. Len(msgs) \in Nat /\ TasksOK
  BY MessagesTyped DEF Typed
<1>3. t \in Tasks /\ todo[t] # <<>>
  BY <1>1, <1>2, FirstCall
<1>4. steps \in Work(Len(msgs)) => TasksOK'
  BY <1>2, AnswersKeepTasks
<1> QED
  BY <1>1, <1>3, <1>4

\* The rows a statement of Storage leaves.
LEMMA RowsTyped ==
  ASSUME rows \in [Ids -> Status], NEW id \in Ids
  PROVE  /\ SaveMessage(rows, id) \in [Ids -> Status]
         /\ \A status \in Status : UpdateStatus(rows, id, status) \in [Ids -> Status]
         /\ DeleteMessage(rows, id) \in [Ids -> Status]
         /\ ResetInFlight(rows) \in [Ids -> Status]
         /\ \A m \in Ids :
              /\ SaveMessage(rows, id)[m] # "absent" => m = id \/ rows[m] # "absent"
              /\ DeleteMessage(rows, id)[m] # "absent" => rows[m] # "absent"
              /\ ResetInFlight(rows)[m] # "absent" => rows[m] # "absent"
              /\ \A status : UpdateStatus(rows, id, status)[m] # "absent" => rows[m] # "absent"
<1>1. /\ SaveMessage(rows, id) \in [Ids -> Status]
      /\ \A m \in Ids : SaveMessage(rows, id)[m] # "absent" => m = id \/ rows[m] # "absent"
  BY DEF SaveMessage, Status
<1>2. /\ DeleteMessage(rows, id) \in [Ids -> Status]
      /\ \A m \in Ids : DeleteMessage(rows, id)[m] # "absent" => rows[m] # "absent"
  BY DEF DeleteMessage, Status
<1>3. /\ ResetInFlight(rows) \in [Ids -> Status]
      /\ \A m \in Ids : ResetInFlight(rows)[m] # "absent" => rows[m] # "absent"
  BY DEF ResetInFlight, Status
<1>4. /\ \A status \in Status : UpdateStatus(rows, id, status) \in [Ids -> Status]
      /\ \A m \in Ids : \A status :
           UpdateStatus(rows, id, status)[m] # "absent" => rows[m] # "absent"
  BY DEF UpdateStatus, Status
<1> QED
  BY <1>1, <1>2, <1>3, <1>4

\* The rows of a queue and of a message are inserted.
LEMMA SavedTyped ==
  ASSUME ConstantsOK, Typed, NEW t, QueueSaved(t) \/ MessageSaved(t)
  PROVE  Typed'
<1>1. <<>> \in Work(Len(msgs))
  BY DEF Work
<1>2. CASE QueueSaved(t)
  <2> DEFINE q == Head(todo[t]).q
  <2>1. /\ Answers(t, "SaveQueue", <<>>)
        /\ queueRows' = SaveQueue(queueRows, q, qtype[q])
        /\ UNCHANGED <<rows, counts, created, qtype, ready>>
    BY <1>2 DEF QueueSaved
  <2>2. TasksOK' /\ msgs' = msgs
        /\ UNCHANGED <<up, inflight, consumers, turn, sessions, clients, faults>>
        /\ t \in Tasks /\ todo[t] # <<>> /\ Head(todo[t]).do = "SaveQueue"
    BY <1>1, <2>1, AnswersTyped
  <2>3. q \in Queues
    BY <2>2, Current DEF OfQueue, Kinds, Calls
  <2> HIDE DEF q
  <2>4. queueRows' \in [Queues -> QueueType \cup {"absent"}]
    BY <2>1, <2>3 DEF SaveQueue, Typed, DataTypeOK
  <2> QED
    BY <2>1, <2>2, <2>4 DEF Typed, DataTypeOK, OnlyKnown, Known, sessions, clients, faults
<1>3. CASE MessageSaved(t)
  <2> DEFINE id == Head(todo[t]).id
  <2>1. /\ Answers(t, "SaveMessage", <<>>)
        /\ rows' = SaveMessage(rows, id)
        /\ UNCHANGED <<queueRows, counts, created, qtype, ready>>
    BY <1>3 DEF MessageSaved
  <2>2. TasksOK' /\ msgs' = msgs
        /\ UNCHANGED <<up, inflight, consumers, turn, sessions, clients, faults>>
        /\ t \in Tasks /\ todo[t] # <<>> /\ Head(todo[t]).do = "SaveMessage"
    BY <1>1, <2>1, AnswersTyped
  <2>3. id \in Known /\ id \in Ids
    BY <2>2, Current, MessagesTyped DEF OfMessage
  <2> HIDE DEF id
  <2>4. /\ rows' \in [Ids -> Status]
        /\ \A m \in Ids : rows'[m] # "absent" => m = id \/ rows[m] # "absent"
    BY <2>1, <2>3, RowsTyped DEF Typed, DataTypeOK
  <2>5. OnlyKnown'
    BY <2>1, <2>2, <2>3, <2>4 DEF OnlyKnown, Known, Typed, clients
  <2> QED
    BY <2>1, <2>2, <2>4, <2>5 DEF Typed, DataTypeOK, sessions, clients, faults
<1> QED
  BY <1>2, <1>3

\* update_status and delete_message change the row of a message and no other.
LEMMA StatusTyped ==
  ASSUME ConstantsOK, Typed, NEW t, StatusUpdated(t) \/ MessageDeleted(t)
  PROVE  Typed'
<1> DEFINE id == Head(todo[t]).id
<1>1. /\ \E kind \in {"SetReady", "SetInFlight", "DeleteMessage"} : Answers(t, kind, <<>>)
      /\ UNCHANGED <<queueRows, created, qtype, ready>>
      /\ \/ \E status \in {"READY", "IN_FLIGHT"} : rows' = UpdateStatus(rows, id, status)
         \/ rows' = DeleteMessage(rows, id)
      /\ counts' = CountDelivery(rows, counts, id, MaxCount) \/ counts' = counts
  BY DEF StatusUpdated, MessageDeleted
<1>2. <<>> \in Work(Len(msgs))
  BY DEF Work
<1>3. TasksOK' /\ msgs' = msgs
      /\ UNCHANGED <<up, inflight, consumers, turn, sessions, clients, faults>>
      /\ t \in Tasks /\ todo[t] # <<>> /\ Head(todo[t]).do \in OfMessage
  BY <1>1, <1>2, AnswersTyped DEF OfMessage
<1>4. id \in Ids
  BY <1>3, Current, MessagesTyped
<1> HIDE DEF id
<1>5. /\ rows' \in [Ids -> Status]
      /\ \A m \in Ids : rows'[m] # "absent" => rows[m] # "absent"
  <2>1. rows \in [Ids -> Status]
    BY DEF Typed, DataTypeOK
  <2>2. "READY" \in Status /\ "IN_FLIGHT" \in Status
    BY DEF Status
  <2>3. CASE \E status \in {"READY", "IN_FLIGHT"} : rows' = UpdateStatus(rows, id, status)
    BY <1>4, <2>1, <2>2, <2>3, RowsTyped
  <2>4. CASE rows' = DeleteMessage(rows, id)
    BY <1>4, <2>1, <2>4, RowsTyped
  <2> QED
    BY <1>1, <2>3, <2>4
<1>6. counts' \in [Ids -> 0..MaxCount]
  <2>1. counts \in [Ids -> 0..MaxCount] /\ MaxCount \in Nat
    BY DEF Typed, DataTypeOK, ConstantsOK
  <2>2. ASSUME counts[id] # MaxCount
        PROVE  counts[id] + 1 \in 0..MaxCount
    BY <1>4, <2>1, <2>2
  <2> QED
    BY <1>1, <1>4, <2>1, <2>2 DEF CountDelivery
<1>7. OnlyKnown'
  BY <1>1, <1>3, <1>5 DEF OnlyKnown, Known, Typed, clients
<1> QED
  BY <1>1, <1>3, <1>5, <1>6, <1>7 DEF Typed, DataTypeOK, sessions, clients, faults

\* The tables after the statement of a call that raises.
LEMMA ExecutedTyped ==
  ASSUME ConstantsOK, Typed, NEW t \in Tasks, todo[t] # <<>>,
         UNCHANGED database \/ Executed(Head(todo[t]))
  PROVE  /\ queueRows' \in [Queues -> QueueType \cup {"absent"}]
         /\ rows' \in [Ids -> Status] /\ counts' \in [Ids -> 0..MaxCount]
         /\ \A m \in Ids : rows'[m] # "absent" => m \in Known
<1>1. /\ queueRows \in [Queues -> QueueType \cup {"absent"}]
      /\ qtype \in [Queues -> QueueType \cup {"absent"}]
      /\ rows \in [Ids -> Status] /\ counts \in [Ids -> 0..MaxCount] /\ MaxCount \in Nat
      /\ \A m \in Ids : rows[m] # "absent" => m \in Known
      /\ "READY" \in Status /\ "IN_FLIGHT" \in Status
  BY DEF Typed, DataTypeOK, OnlyKnown, ConstantsOK, Status
<1>2. PICK s : s = Head(todo[t])
  OBVIOUS
<1>3. CASE UNCHANGED database
  BY <1>1, <1>3 DEF database
<1>4. CASE s.do = "SaveQueue" /\ Executed(s)
  <2>1. s.q \in Queues
    BY <1>2, <1>4, Current DEF OfQueue, Kinds, Calls
  <2>2. queueRows' = SaveQueue(queueRows, s.q, qtype[s.q]) /\ UNCHANGED <<rows, counts>>
    BY <1>4 DEF Executed
  <2>3. queueRows' \in [Queues -> QueueType \cup {"absent"}]
    BY <1>1, <2>1, <2>2 DEF SaveQueue
  <2> QED
    BY <1>1, <2>2, <2>3
<1>5. CASE s.do # "SaveQueue" /\ Executed(s)
  <2>1. s.id \in Known /\ s.id \in Ids
    BY <1>2, <1>5, Current, MessagesTyped DEF Executed, OfMessage
  <2>2. /\ queueRows' = queueRows
        /\ \/ rows' = SaveMessage(rows, s.id) \/ rows' = DeleteMessage(rows, s.id)
           \/ \E status \in {"READY", "IN_FLIGHT"} : rows' = UpdateStatus(rows, s.id, status)
        /\ counts' = counts \/ counts' = CountDelivery(rows, counts, s.id, MaxCount)
    BY <1>5 DEF Executed
  <2>3. rows' \in [Ids -> Status] /\ \A m \in Ids : rows'[m] # "absent" => m \in Known
    <3>1. PICK id \in Ids : id = s.id /\ id \in Known
      BY <2>1
    <3>2. CASE rows' = SaveMessage(rows, id)
      BY <1>1, <3>1, <3>2, RowsTyped
    <3>3. CASE rows' = DeleteMessage(rows, id)
      BY <1>1, <3>1, <3>3, RowsTyped
    <3>4. CASE \E status \in {"READY", "IN_FLIGHT"} : rows' = UpdateStatus(rows, id, status)
      BY <1>1, <3>1, <3>4, RowsTyped
    <3> QED
      BY <2>2, <3>1, <3>2, <3>3, <3>4
  <2>4. counts' \in [Ids -> 0..MaxCount]
    <3>1. ASSUME counts[s.id] # MaxCount
          PROVE  counts[s.id] + 1 \in 0..MaxCount
      BY <1>1, <2>1, <3>1
    <3> QED
      BY <1>1, <2>1, <2>2, <3>1 DEF CountDelivery
  <2> QED
    BY <1>1, <2>2, <2>3, <2>4
<1> QED
  BY <1>2, <1>3, <1>4, <1>5

\* A storage call raises.
LEMMA StorageFailsTyped ==
  ASSUME ConstantsOK, Typed, NEW t \in Tasks, StorageFails(t)
  PROVE  Typed'
<1>1. /\ running = NoTask /\ dbq # <<>> /\ t = Head(dbq) /\ dbFailures < MaxDbFailures
      /\ dbFailures' = dbFailures + 1
      /\ UNCHANGED database \/ Executed(Head(todo[t]))
      /\ UNCHANGED <<up, msgs, created, qtype, ready, turn, sessions, clients, crashes>>
      /\ \/ Head(todo[t]).do = "SetInFlight" /\ GiveUp(t, Tail(todo[t]), Tail(dbq))
         \/ Proceed(t, <<>>, Tail(dbq)) /\ UNCHANGED <<inflight, consumers>>
  BY DEF StorageFails, Free
<1>2. Len(msgs) \in Nat /\ TasksOK /\ msgs' = msgs
  BY <1>1, MessagesTyped DEF Typed
<1>3. todo[t] # <<>> /\ Remaining(t, Tail(dbq))
  BY <1>1, <1>2, FirstCall
<1>4. TasksOK' /\ inflight' \in [Ids -> Nat] /\ consumers' \in [Queues -> Seq(Consumer)]
  <2>1. CASE Head(todo[t]).do = "SetInFlight" /\ GiveUp(t, Tail(todo[t]), Tail(dbq))
    <3>1. Tail(todo[t]) \in Work(Len(msgs))
      BY <1>3, Current
    <3> QED
      BY <1>1, <1>2, <1>3, <2>1, <3>1, GiveUpTyped
  <2>2. CASE Proceed(t, <<>>, Tail(dbq)) /\ UNCHANGED <<inflight, consumers>>
    <3>1. <<>> \in Work(Len(msgs')) /\ Growing
      BY <1>2 DEF Work, Growing
    <3>2. TasksOK'
      BY <1>1, <1>2, <1>3, <2>2, <3>1, ProceedKeepsTasks
    <3> QED
      BY <2>2, <3>2 DEF Typed, DataTypeOK
  <2> QED
    BY <1>1, <2>1, <2>2
<1>5. dbFailures' \in 0..MaxDbFailures
  <2>1. dbFailures \in 0..MaxDbFailures /\ MaxDbFailures \in Nat
    BY DEF Typed, DataTypeOK, ConstantsOK
  <2> QED
    BY <1>1, <2>1
<1>6. /\ queueRows' \in [Queues -> QueueType \cup {"absent"}]
      /\ rows' \in [Ids -> Status] /\ counts' \in [Ids -> 0..MaxCount] /\ OnlyKnown'
  BY <1>1, <1>3, ExecutedTyped DEF OnlyKnown, Known, Typed, clients
<1> QED
  BY <1>1, <1>4, <1>5, <1>6 DEF Typed, DataTypeOK, sessions, clients
-----------------------------------------------------------------------------
(* Crash and restart. *)

\* A crash empties the memory and keeps the tables.
LEMMA CrashTyped ==
  ASSUME ConstantsOK, Typed, Crash
  PROVE  Typed'
<1>1. MaxCrashes \in Nat /\ crashes \in 0..MaxCrashes /\ crashes' \in 0..MaxCrashes
  BY DEF Crash, ConstantsOK, Typed, DataTypeOK
<1>2. \A n \in Nat : <<>> \in Work(n)
  BY DEF Work
<1>3. msgs' = msgs
  BY DEF Crash
<1>4. TasksOK'
  BY <1>2, <1>3, MessagesTyped DEF Crash, TasksOK, QueuedOnce
<1>5. OnlyKnown'
  BY <1>3 DEF Crash, OnlyKnown, Known, Typed, database
<1>6. DataTypeOK'
  BY <1>1, <1>3 DEF Crash, DataTypeOK, Typed, QueueType, database
<1> QED
  BY <1>4, <1>5, <1>6 DEF Typed

\* restore() starts when no task has anything to do.
LEMMA StartTyped ==
  ASSUME ConstantsOK, Typed, Rests, Start
  PROVE  Typed'
<1>1. /\ Continue(Main, RestoreSteps) /\ msgs' = msgs /\ up' = "restoring"
      /\ UNCHANGED <<memory, sessions, database, clients, faults>>
  BY DEF Start
<1>2. Main \in Tasks /\ Growing /\ running = NoTask /\ ~ Waits(Main)
  BY <1>1, MessagesTyped DEF Tasks, Growing, Start, Rests, Idle, Waits
<1>3. RestoreSteps \in Work(Len(msgs'))
  <2>1. {"ResetInFlight", "LoadQueues", "Serve"} \subseteq Kinds \ (OfQueue \cup {"Drain"})
    BY DEF Kinds, Calls, OfQueue
  <2>2. \A kind \in {"ResetInFlight", "LoadQueues", "Serve"} :
          OnQueue(kind, NoQueue) \in Plain(Len(msgs))
    BY <2>1, MessagesTyped, StepsTyped DEF OnQueue, Do, Plain
  <2>3. RestoreSteps \in Seq(Plain(Len(msgs)))
    BY <2>2 DEF RestoreSteps
  <2> QED
    BY <1>1, <2>3, MessagesTyped, PlainWork
<1>4. TasksOK'
  BY <1>1, <1>2, <1>3, ContinueKeepsTasks DEF Typed
<1> QED
  BY <1>1, <1>4 DEF Typed, DataTypeOK, OnlyKnown, Known, memory, sessions, database, clients, faults

\* restore() puts the rows that were in flight back to READY.
LEMMA InFlightResetTyped ==
  ASSUME ConstantsOK, Typed, InFlightReset
  PROVE  Typed'
<1>1. /\ Answers(Main, "ResetInFlight", <<>>) /\ rows' = ResetInFlight(rows)
      /\ UNCHANGED <<queueRows, counts, created, qtype, ready>>
  BY DEF InFlightReset
<1>2. <<>> \in Work(Len(msgs))
  BY DEF Work
<1>3. TasksOK' /\ msgs' = msgs
      /\ UNCHANGED <<up, inflight, consumers, turn, sessions, clients, faults>>
  BY <1>1, <1>2, AnswersTyped
<1>4. /\ rows' \in [Ids -> Status]
      /\ \A m \in Ids : rows'[m] # "absent" => rows[m] # "absent"
  BY <1>1 DEF ResetInFlight, Typed, DataTypeOK, Status
<1>5. OnlyKnown'
  BY <1>1, <1>3, <1>4 DEF OnlyKnown, Known, Typed, clients
<1> QED
  BY <1>1, <1>3, <1>4, <1>5 DEF Typed, DataTypeOK, sessions, clients, faults

\* One load_messages for each of the stored queues.
LEMMA LoadsTyped ==
  ASSUME ConstantsOK, Typed, NEW names \in SetToSeqs(StoredQueues(queueRows))
  PROVE  /\ Len(names) \in Nat
         /\ [i \in 1..Len(names) |-> OnQueue("LoadMessages", names[i])] \in Work(Len(msgs))
<1> DEFINE stored == StoredQueues(queueRows)
           loads == [i \in 1..Len(names) |-> OnQueue("LoadMessages", names[i])]
<1>1. names \in Seq(Queues)
  <2>1. stored \subseteq Queues
    BY DEF StoredQueues, Typed, DataTypeOK
  <2>2. Cardinality(stored) \in Nat
    BY <2>1, FS_Subset, FS_CardinalityType DEF ConstantsOK
  <2>3. names \in [1..Cardinality(stored) -> stored]
    BY DEF SetToSeqs
  <2> HIDE DEF stored
  <2>4. names \in Seq(stored)
    BY <2>2, <2>3
  <2> QED
    BY <2>1, <2>4, SeqMonotonic
<1>2. Len(names) \in Nat /\ \A i \in 1..Len(names) : names[i] \in Queues
  BY <1>1
<1>3. "LoadMessages" \in Kinds \ (OfMessage \cup {"Drain"})
  BY DEF Kinds, Calls, OfMessage
<1>4. \A q \in Queues : OnQueue("LoadMessages", q) \in Plain(Len(msgs))
  BY <1>3, MessagesTyped, StepsTyped DEF OnQueue, Do, Plain
<1>5. loads \in Seq(Plain(Len(msgs)))
  BY <1>2, <1>4
<1> HIDE DEF loads
<1>6. loads \in Work(Len(msgs))
  BY <1>5, MessagesTyped, PlainWork
<1> QED
  BY <1>2, <1>6 DEF loads

\* restore() goes through the stored queues.
LEMMA QueuesLoadedTyped ==
  ASSUME ConstantsOK, Typed, QueuesLoaded
  PROVE  Typed'
<1>1. PICK names \in SetToSeqs(StoredQueues(queueRows)) :
        Answers(Main, "LoadQueues",
                [i \in 1..Len(names) |-> OnQueue("LoadMessages", names[i])])
  BY DEF QueuesLoaded
<1>2. TasksOK' /\ msgs' = msgs
      /\ UNCHANGED <<up, inflight, consumers, turn, sessions, clients, faults>>
  BY <1>1, LoadsTyped, AnswersTyped
<1>3. UNCHANGED <<database, created, qtype, ready>>
  BY DEF QueuesLoaded
<1> QED
  BY <1>2, <1>3 DEF Typed, DataTypeOK, OnlyKnown, Known, sessions, database, clients, faults

\* restore() creates a stored queue and loads its messages.
LEMMA MessagesLoadedTyped ==
  ASSUME ConstantsOK, Typed, MessagesLoaded
  PROVE  Typed'
<1> DEFINE q == Head(todo[Main]).q
           ids == {id \in StoredMessages(rows) : msgs[id].queue = q}
<1>1. /\ Answers(Main, "LoadMessages", ForEach("Restore", q, Ascending(ids)))
      /\ GetOrCreate(q, queueRows[q])
      /\ UNCHANGED <<database, ready>>
  BY DEF MessagesLoaded
<1>2. Main \in Tasks /\ todo[Main] # <<>> /\ Head(todo[Main]).do = "LoadMessages"
  BY <1>1, AnswersTyped
<1>3. q \in Queues
  BY <1>2, Current DEF OfQueue, Kinds, Calls
<1>4. Ascending(ids) \in Seq(1..Len(msgs))
  <2>1. \A id \in ids : id \in 1..Len(msgs)
    BY MessagesTyped DEF StoredMessages, Typed, DataTypeOK, OnlyKnown
  <2> QED
    BY <2>1, MessagesTyped, AscendingTyped
<1> HIDE DEF q, ids
<1>5. ForEach("Restore", q, Ascending(ids)) \in Work(Len(msgs))
  <2>1. "Restore" \in Kinds \ {"Drain"} /\ inflight \in [Ids -> Nat]
    BY DEF Kinds, Typed, DataTypeOK
  <2> QED
    BY <1>3, <1>4, <2>1, MessagesTyped, ForEachTyped
<1>6. TasksOK' /\ msgs' = msgs
      /\ UNCHANGED <<up, inflight, consumers, turn, sessions, clients, faults>>
  BY <1>1, <1>5, AnswersTyped
<1>7. created' \in Seq(Queues) /\ qtype' \in [Queues -> QueueType \cup {"absent"}]
  BY <1>1, <1>3, GetOrCreateTyped DEF Typed, DataTypeOK
<1> QED
  BY <1>1, <1>6, <1>7 DEF Typed, DataTypeOK, OnlyKnown, Known, sessions, database, clients, faults

\* restore() puts one message in its heap, and opens the socket in the end.
LEMMA RestoreTyped ==
  ASSUME ConstantsOK, Typed, Restore \/ Serve
  PROVE  Typed'
<1>1. Main \in Tasks /\ <<>> \in Work(Len(msgs))
  BY DEF Tasks, Work
<1>2. CASE Restore
  <2> DEFINE s == Head(todo[Main])
  <2>1. /\ running = Main /\ todo[Main] # <<>> /\ s.do = "Restore" /\ ~ Waits(Main)
        /\ UNCHANGED <<up, msgs, created, qtype, inflight, consumers, turn, sessions,
                       database, clients, faults>>
        /\ \/ Become(Main, <<OnMessage("DeleteMessage", s.q, s.id)>>) /\ ready' = ready
           \/ Enqueue(s.q, s.id, Prio, qtype[s.q]) /\ Become(Main, <<>>)
    BY <1>2 DEF Restore, Doing, Idle, Waits, Calls
  <2>2. s.q \in Queues /\ s.id \in Known
    BY <1>1, <2>1, Current DEF OfQueue, OfMessage, Kinds
  <2>3. msgs' = msgs
    BY <2>1
  <2>4. Growing
    BY <2>3, MessagesTyped DEF Growing
  <2>5. <<OnMessage("DeleteMessage", s.q, s.id)>> \in Work(Len(msgs))
    <3>1. "DeleteMessage" \in Kinds \ {"Drain"}
      BY DEF Kinds, Calls
    <3>2. OnMessage("DeleteMessage", s.q, s.id) \in Plain(Len(msgs))
      BY <2>2, <3>1, MessagesTyped, StepsTyped DEF OnMessage, Do, Plain
    <3>3. \A d \in Plain(Len(msgs)) : <<d>> \in Seq(Plain(Len(msgs)))
      OBVIOUS
    <3> QED
      BY <3>2, <3>3, MessagesTyped, PlainWork
  <2> HIDE DEF s
  <2>6. TasksOK'
    BY <1>1, <2>1, <2>3, <2>4, <2>5, BecomeKeepsTasks DEF Typed
  <2>7. ready' \in [Queues -> Seq(Known)]
    BY <2>1, <2>2, EnqueueTyped DEF Typed, OnlyKnown
  <2>8. ready' \in [Queues -> Seq(Ids)]
    BY <2>7, MessagesTyped, SeqMonotonic
  <2>9. OnlyKnown'
    BY <2>1, <2>7 DEF OnlyKnown, Known, Typed, database, clients
  <2>10. DataTypeOK'
    BY <2>1, <2>8 DEF DataTypeOK, Typed, sessions, database, clients, faults
  <2> QED
    BY <2>6, <2>9, <2>10 DEF Typed
<1>3. CASE Serve
  <2>1. /\ running = Main /\ todo[Main] # <<>> /\ ~ Waits(Main) /\ msgs' = msgs
        /\ Become(Main, <<>>) /\ up' = "up"
        /\ UNCHANGED <<memory, sessions, database, clients, faults>>
    BY <1>3 DEF Serve, Doing, Idle, Waits, Calls
  <2>2. Growing
    BY <2>1, MessagesTyped DEF Growing
  <2>3. TasksOK'
    BY <1>1, <2>1, <2>2, BecomeKeepsTasks DEF Typed
  <2> QED
    BY <2>1, <2>3 DEF Typed, DataTypeOK, OnlyKnown, Known, memory, sessions, database, clients, faults
<1> QED
  BY <1>2, <1>3
-----------------------------------------------------------------------------
(* Every step. *)

\* Only clients that are connected, tasks that have something to do and the
\* loops of a server that is up take steps: none of them does while it is down.
LEMMA RestsStep ==
  ASSUME ConstantsOK, Rests, [Next]_vars
  PROVE  Rests'
<1>1. CASE UNCHANGED vars
  BY <1>1 DEF Rests, Idle, vars, control, sessions
<1>2. CASE Crash
  BY <1>2 DEF Crash, Rests, Idle
<1>3. CASE Start \/ Serve
  BY <1>3 DEF Start, Serve, Rests
<1>4. CASE Clients \/ \E c \in Conns : Unregister(c)
  <2>1. PICK c \in Conns : up' = up /\ (up = "up" \/ link[c] \in {"open", "lost"})
    <3>1. \A c \in Conns : Connect(c) => up' = up /\ up = "up"
      BY DEF Connect
    <3>2. \A c \in Conns : Lose(c) \/ Unregister(c) => up' = up /\ link[c] \in {"open", "lost"}
      BY DEF Lose, Unregister
    <3>3. \A c \in Conns : \A q, type, prio, ttl :
            Send(c, q, type, prio, ttl) => up' = up /\ link[c] \in {"open", "lost"}
      BY DEF Send, Frame
    <3>4. \A c \in Conns : \A q, type :
            /\ SendExpired(c, q, type) => up' = up /\ link[c] \in {"open", "lost"}
            /\ \A s : Subscribe(c, s, q, type) => up' = up /\ link[c] \in {"open", "lost"}
      BY DEF SendExpired, Subscribe, Frame
    <3>5. \A c \in Conns : \A s : Unsubscribe(c, s) => up' = up /\ link[c] \in {"open", "lost"}
      BY DEF Unsubscribe, Frame
    <3>6. \A c \in Conns : \A id : Ack(c, id) \/ Nack(c, id) => up' = up /\ link[c] \in {"open", "lost"}
      BY DEF Ack, Nack, Frame
    <3> QED
      BY <1>4, <3>1, <3>2, <3>3, <3>4, <3>5, <3>6 DEF Clients
  <2> QED
    BY <2>1 DEF Rests
<1>5. CASE \E t \in Tasks : Run(t) \/ Suspend(t) \/ StorageFails(t)
  <2>1. PICK t \in Tasks : Run(t) \/ Suspend(t) \/ StorageFails(t)
    BY <1>5
  <2>2. (~ Idle(t) \/ dbq # <<>>) /\ up' = up
    BY <2>1 DEF Run, QueueSaved, MessageSaved, StatusUpdated, MessageDeleted, Answers,
                Deliver, DrainOk, DrainFails, AtDrain, Failed, Receipt, CheckTimeouts,
                PurgeExpired, Suspend, StorageFails, Doing
  <2> QED
    BY <2>2 DEF Rests
<1>6. CASE TimeoutTick \/ ExpiryTick
  BY <1>6 DEF TimeoutTick, ExpiryTick, Tick, Rests
<1>7. CASE \E id \in Ids : Expire(id)
  BY <1>7 DEF Expire, Rests, Idle, control, sessions
<1>8. CASE InFlightReset \/ QueuesLoaded \/ MessagesLoaded \/ Restore
  <2>1. (dbq # <<>> \/ ~ Idle(Main)) /\ up' = up /\ Main \in Tasks
    BY <1>8 DEF InFlightReset, QueuesLoaded, MessagesLoaded, Restore, Answers, Doing, Tasks
  <2> QED
    BY <2>1 DEF Rests
<1> QED
  BY <1>1, <1>2, <1>3, <1>4, <1>5, <1>6, <1>7, <1>8 DEF Next, Restart

\* Every step of the specification keeps the types.
LEMMA TypedStep ==
  ASSUME ConstantsOK, Typed, Rests, [Next]_vars
  PROVE  Typed'
<1>1. CASE UNCHANGED vars
  <2>1. TasksOK'
    BY <1>1, SameTasks DEF vars, Typed
  <2> QED
    BY <1>1, <2>1 DEF Typed, DataTypeOK, OnlyKnown, Known, vars, memory, sessions, database,
                      clients, faults
<1>2. CASE Clients
  <2>1. PICK c \in Conns :
          \/ Connect(c) \/ Lose(c)
          \/ \E q \in Targets, type \in QueueTypes :
               \/ \E prio \in Priorities, ttl \in Ttls : Send(c, q, type, prio, ttl)
               \/ SendExpired(c, q, type)
               \/ \E s \in Subs : Subscribe(c, s, q, type)
          \/ \E s \in Subs : Unsubscribe(c, s)
          \/ \E id \in Ids : Ack(c, id) \/ Nack(c, id)
    BY <1>2 DEF Clients
  <2>2. CASE Connect(c) \/ Lose(c)
    BY <2>2, ConnectTyped
  <2>3. ASSUME NEW q \in Targets, NEW type \in QueueTypes
        PROVE  /\ \A prio \in Priorities, ttl \in Ttls : Send(c, q, type, prio, ttl) => Typed'
               /\ SendExpired(c, q, type) => Typed'
               /\ \A s \in Subs : Subscribe(c, s, q, type) => Typed'
    BY SendTyped, SendExpiredTyped, SubscribeFrameTyped
  <2>4. \A s \in Subs : Unsubscribe(c, s) => Typed'
    BY UnsubscribeTyped
  <2>5. \A id \in Ids : Ack(c, id) \/ Nack(c, id) => Typed'
    BY AnswerTyped
  <2> QED
    BY <2>1, <2>2, <2>3, <2>4, <2>5
<1>3. CASE \E c \in Conns : Unregister(c)
  BY <1>3, ConnectTyped
<1>4. ASSUME NEW t \in Tasks, Run(t) \/ Suspend(t) \/ StorageFails(t)
      PROVE  Typed'
  <2>1. CASE QueueSaved(t) \/ MessageSaved(t)
    BY <2>1, SavedTyped
  <2>2. CASE StatusUpdated(t) \/ MessageDeleted(t)
    BY <2>2, StatusTyped
  <2>3. CASE Deliver(t)
    BY <2>3, DeliverTyped
  <2>4. CASE DrainOk(t) \/ Suspend(t)
    BY <2>4, DrainTyped
  <2>5. CASE DrainFails(t)
    BY <2>5, DrainFailsTyped
  <2>6. CASE Failed(t)
    BY <2>6, FailedTyped
  <2>7. CASE Receipt(t)
    BY <2>7, ReceiptTyped
  <2>8. CASE CheckTimeouts(t)
    BY <2>8, CheckTimeoutsTyped
  <2>9. CASE PurgeExpired(t)
    BY <2>9, PurgeExpiredTyped
  <2>10. CASE StorageFails(t)
    BY <2>10, StorageFailsTyped
  <2> QED
    BY <1>4, <2>1, <2>2, <2>3, <2>4, <2>5, <2>6, <2>7, <2>8, <2>9, <2>10 DEF Run
<1>5. CASE TimeoutTick \/ ExpiryTick
  BY <1>5, TickTyped
<1>6. CASE \E id \in Ids : Expire(id)
  BY <1>6, ExpireTyped
<1>7. CASE Crash
  BY <1>7, CrashTyped
<1>8. CASE Restart
  BY <1>8, StartTyped, InFlightResetTyped, QueuesLoadedTyped, MessagesLoadedTyped, RestoreTyped
     DEF Restart
<1> QED
  BY <1>1, <1>2, <1>3, <1>4, <1>5, <1>6, <1>7, <1>8 DEF Next

\* Every variable keeps its type, whatever the clients, the database thread and
\* the crashes do, for any sets of connections, queues and headers: no handler,
\* scan or restore step leaves a task with a step that names no queue or message.
THEOREM TypeCorrect == Spec => []TypeOK
<1> USE ConstantsOK
<1>1. Init => Typed /\ Rests
  <2>1. Init => Rests
    BY DEF Init, Rests, Idle
  <2> QED
    BY <2>1, InitTyped
<1>2. Typed /\ Rests /\ [Next]_vars => (Typed /\ Rests)'
  BY TypedStep, RestsStep
<1>3. Typed => TypeOK
  <2>1. \A n : Work(n) \subseteq Seq(Step)
    <3>1. \A n : StepUpTo(n) \subseteq Step
      BY DEF StepUpTo
    <3>2. \A n : \A w \in Seq(StepUpTo(n)) : w \in Seq(Step)
      BY <3>1, SeqMonotonic
    <3> QED
      BY <3>2 DEF Work
  <2> QED
    BY <2>1 DEF Typed, TypeOK, TasksOK, TasksTypeOK
<1> QED
  BY <1>1, <1>2, <1>3, PTL DEF Spec
-----------------------------------------------------------------------------
(* What the tables keep. *)

Justified == {id \in Known : Over(id) \/ Moved(id)}
Stored == {id \in Known : rows[id] # "absent"}
Safe == Stored \cup Justified
Homed == {id \in Known : queueRows[msgs[id].queue] # "absent"}

\* What the steps of tasks rely on; it only grows, but for crashes.
Facts == [justified |-> Justified, safe |-> Safe, homed |-> Homed,
          there |-> {q \in Queues : Exists(q)}, of |-> [id \in Known |-> msgs[id].queue]]

\* A message is deleted for a reason; its row comes after the row of its queue,
\* its receipt after its row; a queue that is saved has a type; a drain that
\* fails skips an update_status, not an INSERT.
BackedStep(w, k, f) ==
  /\ w[k].do = "DeleteMessage" => w[k].id \in f.justified
  /\ w[k].do = "SaveQueue" => w[k].q \in f.there
  /\ w[k].do = "SaveMessage" =>
       \/ w[k].id \in f.homed
       \/ \E j \in 1..(k - 1) : w[j].do = "SaveQueue" /\ w[j].q = f.of[w[k].id]
  /\ w[k].do = "Receipt" =>
       \/ w[k].id \in f.safe
       \/ \E j \in 1..(k - 1) : w[j].do = "SaveMessage" /\ w[j].id = w[k].id
  /\ w[k].do = "Drain" => w[k + 1].do = "SetInFlight"
Backed(w, f) == \A k \in 1..Len(w) : BackedStep(w, k, f)

AllBacked == \A t \in Tasks : Backed(todo[t], Facts)

Kept == AllBacked /\ confirmed \subseteq Safe /\ Stored \subseteq Homed
-----------------------------------------------------------------------------
\* Facts g hold where facts f do.
More(f, g) ==
  /\ f.justified \subseteq g.justified /\ f.safe \subseteq g.safe
  /\ f.homed \subseteq g.homed /\ f.there \subseteq g.there
  /\ \A id \in DOMAIN f.of : id \in DOMAIN g.of /\ g.of[id] = f.of[id]

\* Steps stay backed while the facts grow.
LEMMA BackedLasts ==
  ASSUME NEW n \in Nat, NEW w \in Work(n), NEW f, NEW g, DOMAIN f.of = 1..n,
         More(f, g), Backed(w, f)
  PROVE  Backed(w, g)
<1>1. SUFFICES ASSUME NEW k \in 1..Len(w)
               PROVE  BackedStep(w, k, g)
  BY DEF Backed
<1>2. BackedStep(w, k, f)
  BY DEF Backed
<1>3. w[k].do = "SaveMessage" => w[k].id \in DOMAIN f.of
  <2>1. w[k] \in StepUpTo(n)
    BY ElementOfSeq DEF Work
  <2> QED
    BY <2>1 DEF StepUpTo, OfMessage
<1> QED
  BY <1>2, <1>3 DEF BackedStep, More

\* The steps of a call, in front of what is left to do.
LEMMA BackedConcat ==
  ASSUME NEW n \in Nat, NEW v \in Work(n), NEW w \in Work(n), NEW f,
         Backed(v, f), Backed(w, f)
  PROVE  Backed(v \o w, f)
<1> DEFINE u == v \o w
<1>1. /\ v \in Seq(StepUpTo(n)) /\ w \in Seq(StepUpTo(n))
      /\ \A k \in 1..Len(v) : v[k].do = "Drain" => k < Len(v)
      /\ \A k \in 1..Len(w) : w[k].do = "Drain" => k < Len(w)
  BY DEF Work
<1>2. /\ Len(u) = Len(v) + Len(w) /\ Len(v) \in Nat /\ Len(w) \in Nat
      /\ \A i \in 1..Len(v) : u[i] = v[i]
      /\ \A i \in 1..Len(w) : u[Len(v) + i] = w[i]
  BY <1>1, ConcatProperties, LenProperties
<1> HIDE DEF u
<1>3. ASSUME NEW k \in 1..Len(v)
      PROVE  BackedStep(u, k, f)
  <2>1. BackedStep(v, k, f)
    BY DEF Backed
  <2>2. u[k] = v[k] /\ \A j \in 1..(k - 1) : u[j] = v[j]
    BY <1>2
  <2>3. u[k].do = "Drain" => u[k + 1] = v[k + 1]
    BY <1>1, <1>2, <2>2
  <2> QED
    BY <2>1, <2>2, <2>3 DEF BackedStep
<1>4. ASSUME NEW i \in 1..Len(w)
      PROVE  BackedStep(u, Len(v) + i, f)
  <2> DEFINE k == Len(v) + i
  <2>1. BackedStep(w, i, f)
    BY DEF Backed
  <2>2. u[k] = w[i] /\ k \in Nat
    BY <1>2
  <2>3. \A j \in 1..(i - 1) : u[Len(v) + j] = w[j] /\ Len(v) + j \in 1..(k - 1)
    BY <1>2
  <2>4. u[k].do = "Drain" => u[k + 1] = w[i + 1]
    <3>1. i + 1 \in 1..Len(w) => u[Len(v) + (i + 1)] = w[i + 1]
      BY <1>2
    <3> QED
      BY <1>1, <1>2, <2>2, <3>1
  <2> HIDE DEF k
  <2> QED
    BY <2>1, <2>2, <2>3, <2>4 DEF BackedStep, k
<1>5. \A k \in 1..Len(u) : k \in 1..Len(v) \/ \E i \in 1..Len(w) : k = Len(v) + i
  <2>1. SUFFICES ASSUME NEW k \in 1..Len(u), k \notin 1..Len(v)
                 PROVE  \E i \in 1..Len(w) : k = Len(v) + i
    OBVIOUS
  <2>2. k - Len(v) \in 1..Len(w) /\ k = Len(v) + (k - Len(v))
    BY <1>2, <2>1
  <2> QED
    BY <2>2
<1> QED
  BY <1>3, <1>4, <1>5 DEF Backed, u

\* What is left once the first step is done, and has made its fact hold.
LEMMA BackedTail ==
  ASSUME NEW n \in Nat, NEW w \in Work(n), w # <<>>, NEW f, DOMAIN f.of = 1..n, Backed(w, f),
         Head(w).do = "SaveQueue" => \A id \in 1..n : f.of[id] = Head(w).q => id \in f.homed,
         Head(w).do = "SaveMessage" => Head(w).id \in f.safe
  PROVE  Backed(Tail(w), f)
<1>1. /\ Len(w) \in Nat /\ Len(w) > 0 /\ Head(w) = w[1]
      /\ Len(Tail(w)) = Len(w) - 1
      /\ \A k \in 1..Len(Tail(w)) : Tail(w)[k] = w[k + 1]
      /\ w \in Seq(StepUpTo(n))
      /\ \A k \in 1..Len(w) : w[k].do = "Drain" => k < Len(w)
  BY HeadTailProperties, LenProperties, EmptySeq DEF Work
<1>2. SUFFICES ASSUME NEW k \in 1..Len(Tail(w))
               PROVE  BackedStep(Tail(w), k, f)
  BY DEF Backed
<1> DEFINE s == Tail(w)[k]
<1>3. k + 1 \in 1..Len(w) /\ s = w[k + 1] /\ BackedStep(w, k + 1, f)
  BY <1>1 DEF Backed
<1>4. \A j \in 1..k : j = 1 \/ (j - 1 \in 1..(k - 1) /\ Tail(w)[j - 1] = w[j])
  BY <1>1
<1>5. s \in StepUpTo(n)
  BY <1>1, <1>3, ElementOfSeq
<1> HIDE DEF s
<1>6. s.do = "SaveMessage" =>
        \/ s.id \in f.homed
        \/ \E j \in 1..(k - 1) : Tail(w)[j].do = "SaveQueue" /\ Tail(w)[j].q = f.of[s.id]
  <2>1. SUFFICES ASSUME s.do = "SaveMessage", s.id \notin f.homed
                 PROVE  \E j \in 1..(k - 1) : Tail(w)[j].do = "SaveQueue" /\ Tail(w)[j].q = f.of[s.id]
    OBVIOUS
  <2>2. PICK j \in 1..k : w[j].do = "SaveQueue" /\ w[j].q = f.of[s.id]
    BY <1>3, <2>1 DEF BackedStep
  <2>3. s.id \in 1..n
    BY <1>5, <2>1 DEF StepUpTo, OfMessage
  <2>4. j # 1
    BY <1>1, <2>1, <2>2, <2>3
  <2> QED
    BY <1>4, <2>2, <2>4
<1>7. s.do = "Receipt" =>
        \/ s.id \in f.safe
        \/ \E j \in 1..(k - 1) : Tail(w)[j].do = "SaveMessage" /\ Tail(w)[j].id = s.id
  <2>1. SUFFICES ASSUME s.do = "Receipt", s.id \notin f.safe
                 PROVE  \E j \in 1..(k - 1) : Tail(w)[j].do = "SaveMessage" /\ Tail(w)[j].id = s.id
    OBVIOUS
  <2>2. PICK j \in 1..k : w[j].do = "SaveMessage" /\ w[j].id = s.id
    BY <1>3, <2>1 DEF BackedStep
  <2>3. j # 1
    BY <1>1, <2>1, <2>2
  <2> QED
    BY <1>4, <2>2, <2>3
<1>8. s.do = "Drain" => Tail(w)[k + 1].do = "SetInFlight"
  <2>1. SUFFICES ASSUME s.do = "Drain" PROVE Tail(w)[k + 1].do = "SetInFlight"
    OBVIOUS
  <2>2. w[(k + 1) + 1].do = "SetInFlight" /\ k + 1 < Len(w)
    BY <1>1, <1>3, <2>1 DEF BackedStep
  <2>3. Tail(w)[k + 1] = w[(k + 1) + 1]
    BY <1>1, <2>2
  <2> QED
    BY <2>2, <2>3
<1> QED
  BY <1>3, <1>6, <1>7, <1>8 DEF BackedStep, s
-----------------------------------------------------------------------------
(* The steps handlers lay out. *)

\* Steps that rely on nothing.
LEMMA PlainBacked ==
  ASSUME NEW w, NEW f,
         \A k \in 1..Len(w) : w[k].do \notin {"DeleteMessage", "SaveQueue", "SaveMessage",
                                              "Receipt", "Drain"}
  PROVE  Backed(w, f)
BY DEF Backed, BackedStep

\* SEND: save_message follows save_queue, the receipt follows both.
LEMMA PublishBacked ==
  ASSUME NEW f, NEW q, NEW id, q \in f.there, f.of[id] = q
  PROVE  Backed(PublishSteps(q, id), f)
<1> DEFINE w == PublishSteps(q, id)
<1>1. /\ Len(w) = 4 /\ w[1].do = "SaveQueue" /\ w[1].q = q
      /\ w[2].do = "SaveMessage" /\ w[2].id = id /\ w[3].do = "Deliver"
      /\ w[4].do = "Receipt" /\ w[4].id = id
  BY DEF PublishSteps, OnQueue, OnMessage, Do
<1> HIDE DEF w
<1>2. BackedStep(w, 1, f) /\ BackedStep(w, 3, f)
  BY <1>1 DEF BackedStep
<1>3. BackedStep(w, 2, f)
  <2>1. 1 \in 1..(2 - 1) /\ w[1].do = "SaveQueue" /\ w[1].q = f.of[w[2].id]
    BY <1>1
  <2> QED
    BY <1>1, <2>1 DEF BackedStep
<1>4. BackedStep(w, 4, f)
  <2>1. 2 \in 1..(4 - 1) /\ w[2].do = "SaveMessage" /\ w[2].id = w[4].id
    BY <1>1
  <2> QED
    BY <1>1, <2>1 DEF BackedStep
<1>5. \A k \in 1..Len(w) : k = 1 \/ k = 2 \/ k = 3 \/ k = 4
  BY <1>1
<1> QED
  BY <1>2, <1>3, <1>4, <1>5 DEF Backed, w

\* A move to a dead letter queue: its row comes before that of the copy, and the
\* message it deletes has the copy.
LEMMA DlqBacked ==
  ASSUME NEW f, NEW q, NEW id, NEW dlq, NEW copy,
         id \in f.justified, dlq \in f.there, f.of[copy] = dlq
  PROVE  Backed(DlqSteps(q, id, dlq, copy), f)
<1> DEFINE w == DlqSteps(q, id, dlq, copy)
<1>1. /\ Len(w) = 4 /\ w[1].do = "SaveQueue" /\ w[1].q = dlq
      /\ w[2].do = "DeleteMessage" /\ w[2].id = id
      /\ w[3].do = "SaveMessage" /\ w[3].id = copy /\ w[4].do = "Deliver"
  BY DEF DlqSteps, OnQueue, OnMessage, Do
<1> HIDE DEF w
<1>2. BackedStep(w, 1, f) /\ BackedStep(w, 2, f) /\ BackedStep(w, 4, f)
  BY <1>1 DEF BackedStep
<1>3. BackedStep(w, 3, f)
  <2>1. 1 \in 1..(3 - 1) /\ w[1].do = "SaveQueue" /\ w[1].q = f.of[w[3].id]
    BY <1>1
  <2> QED
    BY <1>1, <2>1 DEF BackedStep
<1>4. \A k \in 1..Len(w) : k = 1 \/ k = 2 \/ k = 3 \/ k = 4
  BY <1>1
<1> QED
  BY <1>2, <1>3, <1>4 DEF Backed, w

\* The steps of the other handlers.
LEMMA HandlersBacked ==
  ASSUME NEW f, NEW q, NEW id, NEW att, NEW to
  PROVE  /\ Backed(<<>>, f)
         /\ Backed(NackSteps(q, id, att), f) /\ Backed(RequeueSteps(q, id), f)
         /\ Backed(DispatchSteps(q, id, att, to), f)
         /\ Backed(<<Do("Failed", q, id, att, NoConsumer)>>, f)
         /\ q \in f.there => Backed(SubscribeSteps(q), f)
         /\ id \in f.justified =>
              /\ Backed(AckSteps(q, id), f)
              /\ Backed(<<OnMessage("DeleteMessage", q, id)>>, f)
<1>1. Backed(<<>>, f)
  BY DEF Backed
<1>2. Backed(NackSteps(q, id, att), f) /\ Backed(RequeueSteps(q, id), f)
      /\ Backed(<<Do("Failed", q, id, att, NoConsumer)>>, f)
  BY DEF Backed, BackedStep, NackSteps, RequeueSteps, OnQueue, OnMessage, Do
<1>3. Backed(DispatchSteps(q, id, att, to), f)
  <2> DEFINE d == Do("Drain", q, id, att, to)
             u == Do("SetInFlight", q, id, att, to)
             v == OnQueue("Deliver", q)
  <2>1. d.do = "Drain" /\ u.do = "SetInFlight" /\ v.do = "Deliver"
    BY DEF Do, OnQueue
  <2>2. DispatchSteps(q, id, att, to) =
          (IF to[1] \in Slow \/ link[to[1]] # "open" THEN <<d>> ELSE <<>>) \o <<u, v>>
    BY DEF DispatchSteps
  <2> HIDE DEF d, u, v
  <2>3. <<d>> \in Seq({d, u, v}) /\ <<u, v>> \in Seq({d, u, v})
    OBVIOUS
  <2>4. Backed(<<u, v>>, f)
    BY <2>1 DEF Backed, BackedStep
  <2>5. Backed(<<d>> \o <<u, v>>, f)
    <3> DEFINE w == <<d>> \o <<u, v>>
    <3>1. Len(w) = 3 /\ w[1] = d /\ w[2] = u /\ w[3] = v
      BY <2>3, ConcatProperties
    <3> HIDE DEF w
    <3>2. Backed(w, f)
      BY <2>1, <3>1 DEF Backed, BackedStep
    <3> QED
      BY <3>2 DEF w
  <2>6. <<>> \o <<u, v>> = <<u, v>>
    BY <2>3, ConcatEmptySeq
  <2> QED
    BY <2>2, <2>4, <2>5, <2>6
<1>4. q \in f.there => Backed(SubscribeSteps(q), f)
  BY DEF Backed, BackedStep, SubscribeSteps, OnQueue, Do
<1>5. id \in f.justified => Backed(AckSteps(q, id), f)
                            /\ Backed(<<OnMessage("DeleteMessage", q, id)>>, f)
  BY DEF Backed, BackedStep, AckSteps, OnMessage, OnQueue, Do
<1> QED
  BY <1>1, <1>2, <1>3, <1>4, <1>5

\* A scan may delete each of the messages it found, if each is over.
LEMMA ForEachBacked ==
  ASSUME NEW f, NEW kind, NEW q, NEW n \in Nat, NEW ids \in Seq(1..n),
         \/ kind \in {"Failed", "Restore"}
         \/ kind = "DeleteMessage" /\ \A i \in 1..Len(ids) : ids[i] \in f.justified
  PROVE  Backed(ForEach(kind, q, ids), f)
<1>1. Len(ForEach(kind, q, ids)) = Len(ids)
  BY DEF ForEach
<1>2. \A k \in 1..Len(ids) : /\ ForEach(kind, q, ids)[k].do = kind
                             /\ ForEach(kind, q, ids)[k].id = ids[k]
  BY DEF ForEach, Do
<1> QED
  BY <1>1, <1>2 DEF Backed, BackedStep
-----------------------------------------------------------------------------
(* What every step keeps of the facts. *)

Lasting == More(Facts, Facts')

\* The facts grow when acks, expiries and messages only come, and rows only go
\* of messages that are over or have moved.
LEMMA LastingWhen ==
  ASSUME ConstantsOK, Typed, Typed',
         acked \subseteq acked', expired \subseteq expired',
         msgs' = msgs \/ \E m : msgs' = Append(msgs, m),
         \A id \in Known : rows[id] # "absent" => rows'[id] # "absent" \/ id \in Justified',
         \A q \in Queues : queueRows[q] # "absent" => queueRows'[q] # "absent",
         \A q \in Queues : qtype[q] # "absent" => qtype'[q] # "absent"
  PROVE  Lasting
<1>1. /\ Known = 1..Len(msgs) /\ Known' = 1..Len(msgs') /\ Len(msgs) \in Nat
      /\ \A id \in Known : msgs[id].queue \in Queues
  BY MessagesTyped DEF Known
<1>2. Known \subseteq Known' /\ \A id \in Known : msgs'[id] = msgs[id]
  <2>1. msgs \in Seq(Message)
    BY DEF Typed, DataTypeOK
  <2>2. CASE msgs' = msgs
    BY <1>1, <2>2
  <2>3. ASSUME NEW m, msgs' = Append(msgs, m)
        PROVE  Known \subseteq Known' /\ \A id \in Known : msgs'[id] = msgs[id]
    <3>1. /\ Len(msgs') = Len(msgs) + 1
          /\ \A id \in 1..Len(msgs) : msgs'[id] = msgs[id]
      BY <2>1, <2>3
    <3> QED
      BY <1>1, <3>1
  <2> QED
    BY <2>2, <2>3
<1>3. Justified \subseteq Justified'
  <2>1. \A id \in Known : Over(id) => id \in Justified'
    BY <1>2 DEF Justified, Over
  <2>2. \A id \in Known : Moved(id) => id \in Justified'
    BY <1>2 DEF Justified, Moved, Copies
  <2> QED
    BY <2>1, <2>2 DEF Justified
<1>4. Safe \subseteq Safe'
  BY <1>2, <1>3 DEF Safe, Stored
<1>5. Homed \subseteq Homed'
  BY <1>1, <1>2 DEF Homed
<1> QED
  BY <1>2, <1>3, <1>4, <1>5 DEF Lasting, More, Facts, Exists

\* The steps the tasks have keep their backing, and so does the invariant when
\* the new steps have theirs.
LEMMA KeptWhen ==
  ASSUME ConstantsOK, Typed, Typed', Kept, Lasting,
         NEW t \in Tasks, NEW steps, todo' = [todo EXCEPT ![t] = steps], Backed(steps, Facts'),
         confirmed' \subseteq Safe', Stored' \subseteq Homed'
  PROVE  Kept'
<1>1. ASSUME NEW u \in Tasks, u # t
      PROVE  Backed(todo'[u], Facts')
  <2>1. todo[u] \in Work(Len(msgs)) /\ todo'[u] = todo[u] /\ Len(msgs) \in Nat
    BY <1>1, MessagesTyped DEF Typed, TasksOK
  <2>2. Backed(todo[u], Facts) /\ DOMAIN Facts.of = 1..Len(msgs)
    BY DEF Kept, AllBacked, Facts, Known
  <2> QED
    BY <2>1, <2>2, BackedLasts DEF Lasting
<1>2. Backed(todo'[t], Facts')
  BY DEF Typed, TasksOK
<1> QED
  BY <1>1, <1>2 DEF Kept, AllBacked

\* The same for a step that gives no task anything to do.
LEMMA KeptAnyway ==
  ASSUME ConstantsOK, Typed, Typed', Kept, Lasting, todo' = todo,
         confirmed' \subseteq Safe', Stored' \subseteq Homed'
  PROVE  Kept'
<1>1. ASSUME NEW u \in Tasks
      PROVE  Backed(todo'[u], Facts')
  <2>1. todo[u] \in Work(Len(msgs)) /\ Len(msgs) \in Nat
    BY <1>1, MessagesTyped DEF Typed, TasksOK
  <2>2. Backed(todo[u], Facts) /\ DOMAIN Facts.of = 1..Len(msgs)
    BY DEF Kept, AllBacked, Facts, Known
  <2> QED
    BY <2>1, <2>2, BackedLasts DEF Lasting
<1> QED
  BY <1>1 DEF Kept, AllBacked

\* Memory steps leave the tables as they are.
LEMMA TablesStay ==
  ASSUME ConstantsOK, Typed, Typed', Kept, Lasting, rows' = rows
  PROVE  Stored' \subseteq Homed' /\ Safe \subseteq Safe'
<1>1. Safe \subseteq Safe' /\ Homed \subseteq Homed'
  BY DEF Lasting, More, Facts
<1>2. Stored' \subseteq Stored
  <2>1. Known' \subseteq Ids
    BY DEF Typed, DataTypeOK, Known, Ids, ConstantsOK
  <2> QED
    BY <2>1 DEF Stored, Typed, OnlyKnown
<1> QED
  BY <1>1, <1>2 DEF Kept

\* A step of memory: it confirms only messages that are safe.
Quiet ==
  /\ UNCHANGED <<rows, queueRows>>
  /\ acked \subseteq acked' /\ expired \subseteq expired' /\ confirmed' \subseteq confirmed \cup Safe
  /\ msgs' = msgs \/ \E m : msgs' = Append(msgs, m)
  /\ \A q \in Queues : qtype[q] # "absent" => qtype'[q] # "absent"

\* A step of memory keeps the facts and the tables.
LEMMA QuietLasting ==
  ASSUME ConstantsOK, Typed, Typed', Kept, Quiet
  PROVE  Lasting /\ confirmed' \subseteq Safe' /\ Stored' \subseteq Homed'
<1>1. Lasting
  BY LastingWhen DEF Quiet
<1>2. Stored' \subseteq Homed' /\ Safe \subseteq Safe'
  BY <1>1, TablesStay DEF Quiet
<1> QED
  BY <1>1, <1>2 DEF Kept, Quiet

\* A task that had nothing to do, or drops what it had.
LEMMA QuietKept ==
  ASSUME ConstantsOK, Typed, Typed', Kept, Quiet,
         \/ todo' = todo
         \/ \E t \in Tasks : \E steps : todo' = [todo EXCEPT ![t] = steps] /\ Backed(steps, Facts')
  PROVE  Kept'
<1>1. Lasting /\ confirmed' \subseteq Safe' /\ Stored' \subseteq Homed'
  BY QuietLasting
<1>2. CASE todo' = todo
  BY <1>1, <1>2, KeptAnyway
<1>3. ASSUME NEW t \in Tasks, NEW steps,
             todo' = [todo EXCEPT ![t] = steps], Backed(steps, Facts')
      PROVE  Kept'
  BY <1>1, <1>3, KeptWhen
<1> QED
  BY <1>2, <1>3

\* What a task has left after a step that is not an INSERT.
LEMMA TailBacked ==
  ASSUME ConstantsOK, Typed, Kept, Lasting, NEW t \in Tasks, todo[t] # <<>>,
         Head(todo[t]).do \notin {"SaveQueue", "SaveMessage"}
  PROVE  Backed(Tail(todo[t]), Facts')
<1>1. /\ todo[t] \in Work(Len(msgs)) /\ Tail(todo[t]) \in Work(Len(msgs))
      /\ Len(msgs) \in Nat
  BY Current, MessagesTyped
<1>2. Backed(todo[t], Facts) /\ DOMAIN Facts.of = 1..Len(msgs)
  BY DEF Kept, AllBacked, Facts, Known
<1>3. Backed(Tail(todo[t]), Facts)
  BY <1>1, <1>2, BackedTail
<1> QED
  BY <1>1, <1>2, <1>3, BackedLasts DEF Lasting

\* A task goes on with the steps of a call, then with what it has left.
LEMMA BecomeKept ==
  ASSUME ConstantsOK, Typed, Typed', Kept, Quiet, NEW t \in Tasks, todo[t] # <<>>,
         Head(todo[t]).do \notin {"SaveQueue", "SaveMessage"},
         NEW steps \in Work(Len(msgs')), Backed(steps, Facts'), Become(t, steps)
  PROVE  Kept'
<1>1. Lasting
  BY QuietLasting
<1>2. Backed(Tail(todo[t]), Facts')
  BY <1>1, TailBacked
<1>3. Tail(todo[t]) \in Work(Len(msgs')) /\ Len(msgs') \in Nat
  <2>1. /\ Tail(todo[t]) \in Work(Len(msgs)) /\ Len(msgs) \in Nat
    BY Current, MessagesTyped
  <2>2. Len(msgs') \in Nat
    BY DEF Typed, DataTypeOK
  <2>3. Len(msgs) <= Len(msgs')
    <3>1. msgs \in Seq(Message)
      BY DEF Typed, DataTypeOK
    <3>2. \A m : Len(Append(msgs, m)) = Len(msgs) + 1
      BY <3>1
    <3> QED
      BY <2>1, <3>2 DEF Quiet
  <2> QED
    BY <2>1, <2>2, <2>3, StepsGrow
<1>4. Backed(steps \o Tail(todo[t]), Facts')
  BY <1>2, <1>3, BackedConcat
<1>5. todo' = [todo EXCEPT ![t] = steps \o Tail(todo[t])]
  BY DEF Become, Continue, Proceed
<1> QED
  BY <1>4, <1>5, QuietKept
-----------------------------------------------------------------------------
(* Frames, connections and the clock. *)

\* Connections open, break and are unregistered.
LEMMA ConnectKept ==
  ASSUME ConstantsOK, Typed, Typed', Kept, NEW c \in Conns,
         Connect(c) \/ Lose(c) \/ Unregister(c)
  PROVE  Kept'
<1>1. todo' = todo /\ Quiet
  BY DEF Connect, Lose, Unregister, Quiet, control, memory, database, clients
<1> QED
  BY <1>1, QuietKept

\* get_or_create leaves a queue with a type, and the others as they were.
LEMMA CreatedKept ==
  ASSUME ConstantsOK, Typed, NEW q \in Queues, NEW type \in QueueType, GetOrCreate(q, type)
  PROVE  /\ qtype'[q] # "absent"
         /\ \A p \in Queues : qtype[p] # "absent" => qtype'[p] # "absent"
<1>1. type # "absent" /\ qtype \in [Queues -> QueueType \cup {"absent"}]
  BY DEF QueueType, Typed, DataTypeOK
<1> QED
  BY <1>1 DEF GetOrCreate, Exists

\* A SEND that is dropped only creates its queue.
LEMMA SendExpiredKept ==
  ASSUME ConstantsOK, Typed, Typed', Kept, NEW c \in Conns,
         NEW q \in Targets, NEW type \in QueueTypes, SendExpired(c, q, type)
  PROVE  Kept'
<1>1. q \in Queues /\ type \in QueueType
  BY DEF ConstantsOK
<1>2. todo' = todo /\ Quiet
  BY <1>1, CreatedKept DEF SendExpired, Quiet, control, database, clients
<1> QED
  BY <1>2, QuietKept

\* SUBSCRIBE saves a queue that is there.
LEMMA SubscribeKept ==
  ASSUME ConstantsOK, Typed, Typed', Kept, NEW c \in Conns, NEW s \in Subs,
         NEW q \in Targets, NEW type \in QueueTypes, Subscribe(c, s, q, type)
  PROVE  Kept'
<1>1. q \in Queues /\ type \in QueueType
  BY DEF ConstantsOK
<1>2. /\ qtype'[q] # "absent"
      /\ \A p \in Queues : qtype[p] # "absent" => qtype'[p] # "absent"
  BY <1>1, CreatedKept DEF Subscribe
<1>3. Quiet /\ c \in Tasks /\ todo' = [todo EXCEPT ![c] = SubscribeSteps(q)]
  BY <1>2 DEF Subscribe, Quiet, Continue, Proceed, database, clients, Tasks
<1>4. q \in Facts'.there
  BY <1>1, <1>2 DEF Facts, Exists
<1>5. Backed(SubscribeSteps(q), Facts')
  BY <1>4, HandlersBacked
<1> QED
  BY <1>3, <1>5, QuietKept

\* UNSUBSCRIBE saves nothing.
LEMMA UnsubscribeKept ==
  ASSUME ConstantsOK, Typed, Typed', Kept, NEW c \in Conns, NEW s \in Subs, Unsubscribe(c, s)
  PROVE  Kept'
<1>1. todo' = todo /\ Quiet
  BY DEF Unsubscribe, Quiet, control, database, clients
<1> QED
  BY <1>1, QuietKept

\* SEND: the queue it saves is there, the message it saves is of that queue.
LEMMA SendKept ==
  ASSUME ConstantsOK, Typed, Typed', Kept, NEW c \in Conns, NEW q \in Targets,
         NEW type \in QueueTypes, NEW prio, NEW ttl, Send(c, q, type, prio, ttl)
  PROVE  Kept'
<1>1. type # "absent" /\ q \in Queues /\ qtype \in [Queues -> QueueType \cup {"absent"}]
      /\ msgs \in Seq(Message) /\ c \in Tasks
  BY DEF ConstantsOK, QueueType, Typed, DataTypeOK, Tasks
<1>2. /\ GetOrCreate(q, type) /\ msgs' = Append(msgs, NewMessage(q, prio, ttl, 0))
      /\ todo' = [todo EXCEPT ![c] = PublishSteps(q, NewId)]
      /\ UNCHANGED <<database, clients>>
  BY DEF Send, Continue, Proceed
<1>3. /\ qtype'[q] # "absent"
      /\ \A p \in Queues : qtype[p] # "absent" => qtype'[p] # "absent"
  BY <1>1, <1>2 DEF GetOrCreate, Exists
<1>4. Quiet
  BY <1>2, <1>3 DEF Quiet, database, clients
<1>5. NewId \in Known' /\ msgs'[NewId].queue = q
  BY <1>1, <1>2 DEF NewId, Known, NewMessage
<1>6. q \in Facts'.there /\ Facts'.of[NewId] = q
  BY <1>1, <1>3, <1>5 DEF Facts, Exists
<1>7. Backed(PublishSteps(q, NewId), Facts')
  BY <1>6, PublishBacked
<1> QED
  BY <1>1, <1>2, <1>4, <1>7, QuietKept

\* ACK deletes a message that is acknowledged, NACK deletes nothing yet.
LEMMA AnswerKept ==
  ASSUME ConstantsOK, Typed, Typed', Kept, NEW c \in Conns, NEW id \in Ids,
         Ack(c, id) \/ Nack(c, id)
  PROVE  Kept'
<1>1. Quiet /\ c \in Tasks
  BY DEF Ack, Nack, Quiet, database, Tasks
<1>2. CASE UNCHANGED control
  <2>1. todo' = todo
    BY <1>2 DEF control
  <2> QED
    BY <1>1, <2>1, QuietKept
<1>3. CASE Ack(c, id) /\ ~ UNCHANGED control
  <2>1. /\ todo' = [todo EXCEPT ![c] = AckSteps(msgs[id].queue, id)]
        /\ id \in acked' /\ msgs' = msgs /\ id \in Known
    BY <1>3 DEF Ack, Continue, Proceed, Typed, OnlyKnown
  <2>2. id \in Facts'.justified
    BY <2>1 DEF Facts, Justified, Over, Known
  <2>3. Backed(AckSteps(msgs[id].queue, id), Facts')
    BY <2>2, HandlersBacked
  <2> QED
    BY <1>1, <2>1, <2>3, QuietKept
<1>4. CASE Nack(c, id) /\ ~ UNCHANGED control
  <2>1. todo' = [todo EXCEPT ![c] = NackSteps(msgs[id].queue, id, inflight[id])]
    BY <1>4 DEF Nack, Continue, Proceed
  <2>2. Backed(NackSteps(msgs[id].queue, id, inflight[id]), Facts')
    BY HandlersBacked
  <2> QED
    BY <1>1, <2>1, <2>2, QuietKept
<1> QED
  BY <1>2, <1>3, <1>4

\* The clock passes, and the loops begin their scans.
LEMMA ClockKept ==
  ASSUME ConstantsOK, Typed, Typed', Kept,
         (\E id \in Ids : Expire(id)) \/ TimeoutTick \/ ExpiryTick
  PROVE  Kept'
<1>1. CASE \E id \in Ids : Expire(id)
  <2>1. todo' = todo /\ Quiet
    BY <1>1 DEF Expire, Quiet, control, memory, database
  <2> QED
    BY <2>1, QuietKept
<1>2. CASE TimeoutTick \/ ExpiryTick
  <2>1. PICK t \in Tasks, kind \in {"CheckTimeouts", "PurgeExpired"} : Tick(t, kind)
    BY <1>2 DEF TimeoutTick, ExpiryTick, Tasks
  <2> DEFINE scan == [i \in 1..Len(created) |-> OnQueue(kind, created[i])]
  <2>2. Quiet /\ todo' = [todo EXCEPT ![t] = scan]
    BY <2>1 DEF Tick, Quiet, Continue, Proceed, memory, database, clients
  <2>3. Backed(scan, Facts')
    <3>1. Len(created) \in Nat
      BY DEF Typed, DataTypeOK
    <3>2. Len(scan) = Len(created)
      BY <3>1
    <3>3. \A k \in 1..Len(scan) : scan[k].do = kind
      BY <3>2 DEF OnQueue, Do
    <3> HIDE DEF scan
    <3> QED
      BY <3>3, PlainBacked
  <2> HIDE DEF scan
  <2> QED
    BY <2>2, <2>3, QuietKept
<1> QED
  BY <1>1, <1>2
-----------------------------------------------------------------------------
(* The delivery loop and the scans. *)

\* The delivery loop deletes only a message whose time has run out.
LEMMA DeliverKept ==
  ASSUME ConstantsOK, Typed, Typed', Kept, NEW t \in Tasks, Deliver(t)
  PROVE  Kept'
<1> DEFINE q == Head(todo[t]).q
           to == consumers[q][NextIndex(consumers[q], turn[q]) + 1]
           id == Head(ready[q])
           att == inflight[id] + 1
<1>1. /\ todo[t] # <<>> /\ Head(todo[t]).do = "Deliver"
      /\ UNCHANGED <<msgs, qtype, database, confirmed, acked, expired>>
      /\ \/ Become(t, <<>>)
         \/ /\ ready[q] # <<>> /\ id \in expired
            /\ Become(t, <<OnMessage("DeleteMessage", q, id), OnQueue("Deliver", q)>>)
         \/ /\ ready[q] # <<>> /\ consumers[q] # <<>>
            /\ Become(t, DispatchSteps(q, id, att, to))
  BY DEF Deliver, Doing, Idle, IsExpired
<1>2. Quiet
  BY <1>1 DEF Quiet, database
<1>3. q \in Queues
  BY <1>1, Current DEF OfQueue, Kinds
<1>4. ready[q] # <<>> => id \in Known /\ id \in 1..Len(msgs) /\ att \in Nat
  <2>1. SUFFICES ASSUME ready[q] # <<>>
                 PROVE  id \in Known /\ id \in 1..Len(msgs) /\ att \in Nat
    OBVIOUS
  <2>2. ready[q] \in Seq(Known)
    BY <1>3 DEF Typed, OnlyKnown
  <2>3. id \in Known
    BY <2>1, <2>2, HeadTailProperties
  <2> HIDE DEF id
  <2>4. inflight[id] \in Nat /\ id \in 1..Len(msgs)
    BY <2>3, MessagesTyped
  <2> QED
    BY <2>3, <2>4
<1>5. CASE Become(t, <<>>)
  <2>1. <<>> \in Work(Len(msgs'))
    BY DEF Work
  <2> QED
    BY <1>1, <1>2, <1>5, <2>1, HandlersBacked, BecomeKept
<1>6. CASE /\ ready[q] # <<>> /\ id \in expired
           /\ Become(t, <<OnMessage("DeleteMessage", q, id), OnQueue("Deliver", q)>>)
  <2>1. AckSteps(q, id) \in Work(Len(msgs'))
    BY <1>1, <1>3, <1>4, <1>6, MessagesTyped, HandlersTyped
  <2>2. id \in Facts'.justified
    BY <1>1, <1>4, <1>6 DEF Facts, Justified, Over, Known
  <2>3. Backed(AckSteps(q, id), Facts')
    BY <2>2, HandlersBacked
  <2>4. Become(t, AckSteps(q, id))
    BY <1>6 DEF AckSteps
  <2> QED
    BY <1>1, <1>2, <2>1, <2>3, <2>4, BecomeKept
<1>7. CASE /\ ready[q] # <<>> /\ consumers[q] # <<>>
           /\ Become(t, DispatchSteps(q, id, att, to))
  <2>1. to \in Consumer
    <3>1. consumers[q] \in Seq(Consumer) /\ turn[q] \in Nat
      BY <1>3 DEF Typed, DataTypeOK
    <3> QED
      BY <1>7, <3>1, NextIndexTyped, ElementOfSeq
  <2>2. DispatchSteps(q, id, att, to) \in Work(Len(msgs'))
    BY <1>1, <1>3, <1>4, <1>7, <2>1, MessagesTyped, HandlersTyped
  <2>3. Backed(DispatchSteps(q, id, att, to), Facts')
    BY HandlersBacked
  <2> QED
    BY <1>1, <1>2, <1>7, <2>2, <2>3, BecomeKept
<1> QED
  BY <1>1, <1>5, <1>6, <1>7

\* A drain waits, or returns.
LEMMA DrainKept ==
  ASSUME ConstantsOK, Typed, Typed', Kept, NEW t \in Tasks, Suspend(t) \/ DrainOk(t)
  PROVE  Kept'
<1>1. Quiet
  BY DEF Suspend, DrainOk, Quiet, memory, database, clients
<1>2. CASE Suspend(t)
  BY <1>1, <1>2, QuietKept DEF Suspend
<1>3. CASE DrainOk(t)
  <2>1. todo[t] # <<>> /\ Head(todo[t]).do = "Drain" /\ Become(t, <<>>)
    BY <1>3 DEF DrainOk, AtDrain, Idle
  <2>2. <<>> \in Work(Len(msgs'))
    BY DEF Work
  <2> QED
    BY <1>1, <2>1, <2>2, HandlersBacked, BecomeKept
<1> QED
  BY <1>2, <1>3

\* What follows a drain is the update_status that its failure skips.
LEMMA AfterDrain ==
  ASSUME NEW n \in Nat, NEW w \in Work(n), w # <<>>, NEW f, Backed(w, f), Head(w).do = "Drain"
  PROVE  Tail(w) # <<>> /\ Head(Tail(w)).do = "SetInFlight"
<1>1. w \in Seq(StepUpTo(n)) /\ \A k \in 1..Len(w) : w[k].do = "Drain" => k < Len(w)
  BY DEF Work
<1>2. /\ Len(w) \in Nat /\ Len(w) > 0 /\ Head(w) = w[1] /\ Tail(w) \in Seq(StepUpTo(n))
      /\ Len(Tail(w)) = Len(w) - 1
      /\ \A k \in 1..Len(Tail(w)) : Tail(w)[k] = w[k + 1]
  BY <1>1, HeadTailProperties, LenProperties, EmptySeq
<1>3. 1 \in 1..Len(w) /\ 1 < Len(w)
  BY <1>1, <1>2
<1>4. BackedStep(w, 1, f) /\ 1 + 1 = 2
  BY <1>3 DEF Backed
<1>5. w[2].do = "SetInFlight"
  BY <1>2, <1>4 DEF BackedStep
<1>6. Len(Tail(w)) # 0 /\ Tail(w)[1] = w[2]
  BY <1>2, <1>3
<1>7. Tail(w) # <<>>
  <2>1. Len(<<>>) = 0
    OBVIOUS
  <2> QED
    BY <1>6, <2>1
<1>8. Head(Tail(w)) = Tail(w)[1]
  BY <1>2, <1>7, HeadTailProperties
<1> QED
  BY <1>5, <1>6, <1>7, <1>8

\* A failed delivery in front of what is left to do.
LEMMA FailedBacked ==
  ASSUME ConstantsOK, NEW n \in Nat, n <= MaxMessages, NEW rest \in Work(n), NEW f,
         Backed(rest, f), NEW q \in Queues, NEW id \in 1..n, NEW att \in Nat
  PROVE  Backed(<<Do("Failed", q, id, att, NoConsumer)>> \o rest, f)
<1> DEFINE failed == Do("Failed", q, id, att, NoConsumer)
<1>1. failed \in Plain(n)
  <2>1. "Failed" \in Kinds \ {"Drain"}
    BY DEF Kinds
  <2> QED
    BY <2>1, StepsTyped DEF Do, Plain
<1>2. Backed(<<failed>>, f)
  BY HandlersBacked
<1> HIDE DEF failed
<1>3. <<failed>> \in Seq(Plain(n))
  BY <1>1
<1>4. <<failed>> \in Work(n)
  BY <1>3, PlainWork
<1>5. Backed(<<failed>> \o rest, f)
  BY <1>2, <1>4, BackedConcat
<1> QED
  BY <1>5 DEF failed

\* The except clause of the delivery loop.
LEMMA GiveUpKept ==
  ASSUME ConstantsOK, Typed, Typed', Kept, NEW t \in Tasks, todo[t] # <<>>,
         Head(todo[t]).do \in {"Drain", "SetInFlight"},
         NEW rest \in Work(Len(msgs)), NEW waiting, GiveUp(t, rest, waiting),
         Backed(rest, Facts'), UNCHANGED <<msgs, clients>>, Lasting, Stored' \subseteq Homed'
  PROVE  Kept'
<1> DEFINE q == Head(todo[t]).q
           id == Head(todo[t]).id
           att == Head(todo[t]).att
<1>1. todo' = [todo EXCEPT ![t] = <<Do("Failed", q, id, att, NoConsumer)>> \o rest]
  BY DEF GiveUp, Proceed
<1>2. q \in Queues /\ id \in Known /\ att \in Nat
  BY Current DEF OfQueue, OfMessage, Kinds, Calls
<1> HIDE DEF q, id, att
<1>3. id \in 1..Len(msgs) /\ Len(msgs) \in Nat /\ Len(msgs) <= MaxMessages
  BY <1>2, MessagesTyped
<1>4. Backed(<<Do("Failed", q, id, att, NoConsumer)>> \o rest, Facts')
  BY <1>2, <1>3, FailedBacked
<1>5. confirmed' \subseteq Safe'
  BY DEF Kept, Lasting, More, Facts, clients
<1> QED
  BY <1>1, <1>4, <1>5, KeptWhen

\* The connection is lost: the message fails, its update_status is skipped.
LEMMA DrainFailsKept ==
  ASSUME ConstantsOK, Typed, Typed', Kept, NEW t \in Tasks, DrainFails(t)
  PROVE  Kept'
<1> DEFINE w == todo[t]
<1>1. /\ w # <<>> /\ Head(w).do = "Drain" /\ GiveUp(t, Tail(Tail(w)), dbq)
      /\ UNCHANGED <<msgs, qtype, database, clients>>
  BY DEF DrainFails, AtDrain, Idle
<1>2. Quiet
  BY <1>1 DEF Quiet, database, clients
<1>3. Lasting /\ Stored' \subseteq Homed'
  BY <1>2, QuietLasting
<1>4. w \in Work(Len(msgs)) /\ Tail(w) \in Work(Len(msgs)) /\ Len(msgs) \in Nat
  BY <1>1, Current, MessagesTyped
<1>5. Backed(w, Facts) /\ Backed(Tail(w), Facts')
  BY <1>1, <1>3, TailBacked DEF Kept, AllBacked
<1>6. Tail(w) # <<>> /\ Head(Tail(w)).do = "SetInFlight"
  BY <1>1, <1>4, <1>5, AfterDrain
<1>7. Tail(Tail(w)) \in Work(Len(msgs))
  BY <1>4, <1>6, WorkTail
<1>8. Backed(Tail(Tail(w)), Facts')
  <2>1. DOMAIN Facts'.of = 1..Len(msgs)
    BY <1>1 DEF Facts, Known
  <2> HIDE DEF w
  <2> QED
    BY <1>4, <1>5, <1>6, <2>1, BackedTail
<1> QED
  BY <1>1, <1>3, <1>7, <1>8, GiveUpKept

\* _handle_failed_delivery: a message deleted for a dead letter queue has its
\* copy by then.
LEMMA FailedKept ==
  ASSUME ConstantsOK, Typed, Typed', Kept, NEW t \in Tasks, Failed(t)
  PROVE  Kept'
<1>1. /\ todo[t] # <<>> /\ Head(todo[t]).do = "Failed" /\ UNCHANGED <<database, clients>>
      /\ \/ MoveToDlq(t, Head(todo[t]).q, Head(todo[t]).id)
         \/ Requeue(t, Head(todo[t]).q, Head(todo[t]).id)
  BY DEF Failed, Doing, Idle
<1>2. PICK q \in Queues, id \in Known : MoveToDlq(t, q, id) \/ Requeue(t, q, id)
  BY <1>1, Current DEF OfQueue, OfMessage, Kinds
<1>3. CASE Requeue(t, q, id)
  <2>1. msgs' = msgs /\ qtype' = qtype /\ Become(t, RequeueSteps(q, id))
    BY <1>3 DEF Requeue
  <2>2. Quiet
    BY <1>1, <2>1 DEF Quiet, database, clients
  <2>3. RequeueSteps(q, id) \in Work(Len(msgs'))
    BY <2>1, MessagesTyped, HandlersTyped
  <2>4. Backed(RequeueSteps(q, id), Facts')
    BY HandlersBacked
  <2> QED
    BY <1>1, <2>2, <2>3, <2>4, <2>1, BecomeKept
<1>4. CASE MoveToDlq(t, q, id)
  <2> DEFINE dlq == DlqOf[q]
             n == Len(msgs')
             copy == Len(msgs) + 1
  <2>1. /\ GetOrCreate(dlq, "FIFO") /\ dlq \in Queues
        /\ msgs' = Append(msgs, NewMessage(dlq, msgs[id].prio, FALSE, id))
        /\ Become(t, DlqSteps(q, id, dlq, copy))
    BY <1>4 DEF MoveToDlq, NewId, ConstantsOK
  <2>2. qtype'[dlq] # "absent"
        /\ \A p \in Queues : qtype[p] # "absent" => qtype'[p] # "absent"
    <3>1. qtype \in [Queues -> QueueType \cup {"absent"}]
      BY DEF Typed, DataTypeOK
    <3> QED
      BY <2>1, <3>1 DEF GetOrCreate, Exists
  <2>3. Quiet
    BY <1>1, <2>1, <2>2 DEF Quiet, database, clients
  <2>4. /\ Len(msgs) \in Nat /\ n = Len(msgs) + 1 /\ id \in 1..Len(msgs)
        /\ msgs'[copy] = NewMessage(dlq, msgs[id].prio, FALSE, id)
    <3>1. msgs \in Seq(Message) /\ Len(msgs) \in Nat
      BY DEF Typed, DataTypeOK
    <3>2. \A m : Len(Append(msgs, m)) = Len(msgs) + 1 /\ Append(msgs, m)[Len(msgs) + 1] = m
      BY <3>1
    <3>3. id \in 1..Len(msgs)
      BY MessagesTyped
    <3> QED
      BY <2>1, <3>1, <3>2, <3>3
  <2>5. n <= MaxMessages
    BY DEF Typed, DataTypeOK
  <2>6. n \in Nat /\ copy \in 1..n /\ id \in 1..n
    BY <2>4
  <2>7. msgs'[copy].from = id /\ msgs'[copy].queue = dlq
    BY <2>4 DEF NewMessage
  <2>8. copy \in Known' /\ id \in Known'
    BY <2>6 DEF Known
  <2>9. id \in Facts'.justified
    <3>1. \A i, j \in Known' : msgs'[j].from = i => i \in Justified'
      BY DEF Justified, Moved, Copies
    <3> QED
      BY <2>7, <2>8, <3>1 DEF Facts
  <2>10. dlq \in Facts'.there /\ Facts'.of[copy] = dlq
    BY <2>1, <2>2, <2>7, <2>8 DEF Facts, Exists
  <2> HIDE DEF dlq, copy, n
  <2>11. DlqSteps(q, id, dlq, copy) \in Work(n)
    BY <2>1, <2>5, <2>6, HandlersTyped
  <2>12. Backed(DlqSteps(q, id, dlq, copy), Facts')
    BY <2>9, <2>10, DlqBacked
  <2> QED
    BY <1>1, <2>1, <2>3, <2>11, <2>12, BecomeKept DEF n
<1> QED
  BY <1>2, <1>3, <1>4

\* The receipt of a message follows its row.
LEMMA FirstBacked ==
  ASSUME NEW n \in Nat, NEW w \in Work(n), w # <<>>, NEW f, Backed(w, f)
  PROVE  /\ Head(w).do = "DeleteMessage" => Head(w).id \in f.justified
         /\ Head(w).do = "SaveQueue" => Head(w).q \in f.there
         /\ Head(w).do = "SaveMessage" => Head(w).id \in f.homed
         /\ Head(w).do = "Receipt" => Head(w).id \in f.safe
<1>1. w \in Seq(StepUpTo(n))
  BY DEF Work
<1>2. Len(w) \in Nat /\ Len(w) > 0 /\ Head(w) = w[1]
  BY <1>1, HeadTailProperties, LenProperties, EmptySeq
<1>3. BackedStep(w, 1, f)
  BY <1>2 DEF Backed
<1>4. ~ \E j \in 1..(1 - 1) : TRUE
  OBVIOUS
<1> QED
  BY <1>2, <1>3, <1>4 DEF BackedStep

\* A RECEIPT is sent.
LEMMA ReceiptKept ==
  ASSUME ConstantsOK, Typed, Typed', Kept, NEW t \in Tasks, Receipt(t)
  PROVE  Kept'
<1>1. /\ todo[t] # <<>> /\ Head(todo[t]).do = "Receipt" /\ Become(t, <<>>)
      /\ UNCHANGED <<msgs, qtype, database, acked, expired>>
      /\ confirmed' \subseteq confirmed \cup {Head(todo[t]).id}
  BY DEF Receipt, Doing, Idle, memory
<1>2. Head(todo[t]).id \in Safe
  <2>1. todo[t] \in Work(Len(msgs)) /\ Len(msgs) \in Nat
    BY <1>1, Current, MessagesTyped
  <2>2. Backed(todo[t], Facts)
    BY DEF Kept, AllBacked
  <2> QED
    BY <1>1, <2>1, <2>2, FirstBacked DEF Facts
<1>3. Quiet
  BY <1>1, <1>2 DEF Quiet, database
<1>4. <<>> \in Work(Len(msgs'))
  BY DEF Work
<1> QED
  BY <1>1, <1>3, <1>4, HandlersBacked, BecomeKept

\* The timeout scan of one queue.
LEMMA CheckTimeoutsKept ==
  ASSUME ConstantsOK, Typed, Typed', Kept, NEW t \in Tasks, CheckTimeouts(t)
  PROVE  Kept'
<1>1. /\ todo[t] # <<>> /\ Head(todo[t]).do = "CheckTimeouts"
      /\ UNCHANGED <<msgs, qtype, database, clients>>
  BY DEF CheckTimeouts, Doing, Idle
<1> DEFINE q == Head(todo[t]).q
<1>2. PICK overdue \in SUBSET InFlightOf(q) : \E ids \in SetToSeqs(overdue) :
        Become(t, IF overdue = {} THEN <<>>
                  ELSE Append(ForEach("Failed", q, ids), OnQueue("Deliver", q)))
  BY DEF CheckTimeouts
<1>3. PICK ids \in SetToSeqs(overdue) :
        Become(t, IF overdue = {} THEN <<>>
                  ELSE Append(ForEach("Failed", q, ids), OnQueue("Deliver", q)))
  BY <1>2
<1>4. q \in Queues
  BY <1>1, Current DEF OfQueue, Kinds
<1> HIDE DEF q
<1>5. Quiet
  BY <1>1 DEF Quiet, database, clients
<1>6. ids \in Seq(1..Len(msgs))
  <2>1. \A id \in overdue : id \in 1..Len(msgs)
    BY DEF InFlightOf, q
  <2> QED
    BY <2>1, MessagesTyped, OrderingTyped
<1>7. CASE overdue = {}
  <2>1. <<>> \in Work(Len(msgs')) /\ Become(t, <<>>)
    BY <1>3, <1>7 DEF Work
  <2> QED
    BY <1>1, <1>5, <2>1, HandlersBacked, BecomeKept
<1>8. CASE overdue # {}
  <2> DEFINE d == OnQueue("Deliver", q)
             f == ForEach("Failed", q, ids)
  <2>1. f \in Work(Len(msgs)) /\ Backed(f, Facts')
    <3>1. "Failed" \in Kinds \ {"Drain"} /\ inflight \in [Ids -> Nat]
      BY DEF Kinds, Typed, DataTypeOK
    <3>2. f \in Work(Len(msgs))
      BY <1>6, <1>4, <3>1, MessagesTyped, ForEachTyped
    <3>3. Backed(f, Facts')
      BY <1>6, MessagesTyped, ForEachBacked
    <3> QED
      BY <3>2, <3>3
  <2>2. d \in Plain(Len(msgs)) /\ d.do = "Deliver"
    <3>1. "Deliver" \in Kinds \ (OfMessage \cup {"Drain"})
      BY DEF Kinds, OfMessage
    <3> QED
      BY <1>4, <3>1, MessagesTyped, StepsTyped DEF OnQueue, Do, Plain
  <2>3. f \in Seq(StepUpTo(Len(msgs))) /\ d \in StepUpTo(Len(msgs))
    BY <2>1, <2>2 DEF Work, Plain
  <2>4. Become(t, Append(f, d)) /\ msgs' = msgs
    BY <1>1, <1>3, <1>8
  <2> HIDE DEF d, f
  <2>5. <<d>> \in Seq(Plain(Len(msgs))) /\ Len(msgs) \in Nat
    BY <2>2, MessagesTyped
  <2>6. <<d>> \in Work(Len(msgs))
    BY <2>5, PlainWork
  <2>7. Backed(<<d>>, Facts')
    BY <2>2, PlainBacked
  <2>8. Append(f, d) = f \o <<d>>
    BY <2>3, AppendIsConcat
  <2>9. f \o <<d>> \in Work(Len(msgs)) /\ Backed(f \o <<d>>, Facts')
    BY <2>1, <2>5, <2>6, <2>7, WorkConcat, BackedConcat
  <2>10. Append(f, d) \in Work(Len(msgs')) /\ Backed(Append(f, d), Facts')
    BY <2>4, <2>8, <2>9
  <2> QED
    BY <1>1, <1>5, <2>4, <2>10, BecomeKept
<1> QED
  BY <1>7, <1>8

\* The expiry scan of one queue deletes messages whose time has run out.
LEMMA PurgeExpiredKept ==
  ASSUME ConstantsOK, Typed, Typed', Kept, NEW t \in Tasks, PurgeExpired(t)
  PROVE  Kept'
<1>1. /\ todo[t] # <<>> /\ Head(todo[t]).do = "PurgeExpired"
      /\ UNCHANGED <<msgs, qtype, database, clients>>
  BY DEF PurgeExpired, Doing, Idle
<1>2. PICK q \in Queues : \E ids \in SetToSeqs(ExpiredOf(q)) :
        Become(t, ForEach("DeleteMessage", q, ids))
  <2>1. Head(todo[t]).q \in Queues
    BY <1>1, Current DEF OfQueue, Kinds
  <2> QED
    BY <2>1 DEF PurgeExpired
<1>3. PICK ids \in SetToSeqs(ExpiredOf(q)) : Become(t, ForEach("DeleteMessage", q, ids))
  BY <1>2
<1>4. Quiet /\ msgs' = msgs /\ expired' = expired
  BY <1>1 DEF Quiet, database, clients
<1>5. \A id \in ExpiredOf(q) : id \in 1..Len(msgs) /\ id \in expired
  BY MessagesTyped DEF ExpiredOf, Typed, OnlyKnown
<1>6. ids \in Seq(1..Len(msgs)) /\ \A i \in 1..Len(ids) : ids[i] \in expired
  <2> DEFINE dead == ExpiredOf(q)
  <2>1. ids \in Seq(1..Len(msgs))
    BY <1>5, MessagesTyped, OrderingTyped
  <2>2. Cardinality(dead) \in Nat
    <3> HIDE DEF dead
    <3>1. \A id \in dead : id \in 1..Len(msgs)
      BY <1>5 DEF dead
    <3> QED
      BY <3>1, MessagesTyped, Positions
  <2>3. ids \in [1..Cardinality(dead) -> dead]
    BY <1>3 DEF SetToSeqs
  <2> HIDE DEF dead
  <2>4. \A i \in 1..Len(ids) : ids[i] \in dead
    BY <2>2, <2>3
  <2> QED
    BY <1>5, <2>1, <2>4 DEF dead
<1>7. \A i \in 1..Len(ids) : ids[i] \in Facts'.justified
  <2>1. \A i \in 1..Len(ids) : ids[i] \in Known' /\ ids[i] \in expired'
    BY <1>4, <1>6 DEF Known
  <2> QED
    BY <2>1 DEF Facts, Justified, Over
<1>8. ForEach("DeleteMessage", q, ids) \in Work(Len(msgs'))
  <2>1. "DeleteMessage" \in Kinds \ {"Drain"} /\ inflight \in [Ids -> Nat]
    BY DEF Kinds, Calls, Typed, DataTypeOK
  <2> QED
    BY <1>4, <1>6, <2>1, MessagesTyped, ForEachTyped
<1>9. Backed(ForEach("DeleteMessage", q, ids), Facts')
  BY <1>6, <1>7, MessagesTyped, ForEachBacked
<1> QED
  BY <1>1, <1>3, <1>4, <1>8, <1>9, BecomeKept

\* Whatever the statement of a call that raises did to the tables, the facts
\* hold as before, and a row it took away is of a message that is over or has
\* moved.
LEMMA ExecutedKept ==
  ASSUME ConstantsOK, Typed, Typed', Kept, NEW t \in Tasks, todo[t] # <<>>,
         UNCHANGED <<msgs, qtype, clients>>, UNCHANGED database \/ Executed(Head(todo[t]))
  PROVE  /\ Lasting /\ Stored' \subseteq Homed'
         /\ \A id \in Ids : rows'[id] = "absent" => rows[id] = "absent" \/ id \in Justified
<1>1. PICK s : s = Head(todo[t])
  OBVIOUS
<1>2. /\ s.do = "DeleteMessage" => s.id \in Justified
      /\ s.do = "SaveQueue" => Exists(s.q)
      /\ s.do = "SaveMessage" => s.id \in Homed
  <2>1. todo[t] \in Work(Len(msgs)) /\ Len(msgs) \in Nat /\ Backed(todo[t], Facts)
    BY Current, MessagesTyped DEF Kept, AllBacked
  <2> QED
    BY <1>1, <2>1, FirstBacked DEF Facts
<1>3. Known' = Known /\ Justified' = Justified /\ Known \subseteq Ids
  BY MessagesTyped DEF Justified, Known, Over, Moved, Copies, clients
<1>4. \A id \in Ids : rows'[id] = "absent" => rows[id] = "absent" \/ id \in Justified
  <2>1. rows \in [Ids -> Status]
    BY DEF Typed, DataTypeOK
  <2>2. CASE UNCHANGED rows
    BY <2>2
  <2>3. CASE rows' = SaveMessage(rows, s.id)
    BY <2>1, <2>3 DEF SaveMessage
  <2>4. CASE \E status \in {"READY", "IN_FLIGHT"} : rows' = UpdateStatus(rows, s.id, status)
    BY <2>1, <2>4 DEF UpdateStatus
  <2>5. CASE s.do = "DeleteMessage" /\ rows' = DeleteMessage(rows, s.id)
    BY <1>2, <2>1, <2>5 DEF DeleteMessage
  <2> QED
    BY <1>1, <2>2, <2>3, <2>4, <2>5 DEF Executed, database
<1>5. \A q \in Queues : queueRows[q] # "absent" => queueRows'[q] # "absent"
  <2>1. CASE UNCHANGED queueRows
    BY <2>1
  <2>2. CASE s.do = "SaveQueue" /\ queueRows' = SaveQueue(queueRows, s.q, qtype[s.q])
    BY <1>2, <2>2 DEF SaveQueue, Exists, Typed, DataTypeOK
  <2> QED
    BY <1>1, <2>1, <2>2 DEF Executed, database
<1>6. Lasting
  <2>1. \A id \in Known : rows[id] # "absent" => rows'[id] # "absent" \/ id \in Justified'
    BY <1>3, <1>4
  <2> QED
    BY <1>5, <2>1, LastingWhen DEF clients
<1>7. Stored' \subseteq Homed'
  <2>1. Homed \subseteq Homed' /\ Stored \subseteq Homed
    BY <1>6 DEF Lasting, More, Facts, Kept
  <2>2. rows \in [Ids -> Status]
    BY DEF Typed, DataTypeOK
  <2>3. CASE UNCHANGED rows
    BY <1>3, <2>1, <2>3 DEF Stored
  <2>4. CASE s.do = "SaveMessage" /\ rows' = SaveMessage(rows, s.id)
    <3>1. Stored' \subseteq Stored \cup {s.id}
      BY <1>3, <2>2, <2>4 DEF Stored, SaveMessage
    <3> QED
      BY <1>2, <2>1, <2>4, <3>1
  <2>5. CASE \/ \E status \in {"READY", "IN_FLIGHT"} : rows' = UpdateStatus(rows, s.id, status)
             \/ rows' = DeleteMessage(rows, s.id)
    <3>1. Stored' \subseteq Stored
      BY <1>3, <2>2, <2>5 DEF Stored, UpdateStatus, DeleteMessage
    <3> QED
      BY <2>1, <3>1
  <2> QED
    BY <1>1, <2>3, <2>4, <2>5 DEF Executed, database
<1> QED
  BY <1>4, <1>6, <1>7

\* A storage call raises: what its task had left is dropped, but for the rest
\* of the delivery loop.
LEMMA StorageFailsKept ==
  ASSUME ConstantsOK, Typed, Typed', Kept, NEW t \in Tasks, StorageFails(t)
  PROVE  Kept'
<1>1. /\ dbq # <<>> /\ t = Head(dbq)
      /\ UNCHANGED <<msgs, qtype, clients>>
      /\ UNCHANGED database \/ Executed(Head(todo[t]))
      /\ \/ Head(todo[t]).do = "SetInFlight" /\ GiveUp(t, Tail(todo[t]), Tail(dbq))
         \/ todo' = [todo EXCEPT ![t] = <<>>]
  BY DEF StorageFails, Proceed
<1>2. todo[t] # <<>>
  BY <1>1, FirstCall, MessagesTyped DEF Typed
<1>3. Lasting /\ Stored' \subseteq Homed'
  BY <1>1, <1>2, ExecutedKept
<1>4. CASE todo' = [todo EXCEPT ![t] = <<>>]
  <2>1. confirmed' \subseteq Safe'
    BY <1>1, <1>3 DEF Kept, Lasting, More, Facts, clients
  <2> QED
    BY <1>3, <1>4, <2>1, HandlersBacked, KeptWhen
<1>5. CASE Head(todo[t]).do = "SetInFlight" /\ GiveUp(t, Tail(todo[t]), Tail(dbq))
  <2>1. Backed(Tail(todo[t]), Facts')
    BY <1>2, <1>3, <1>5, TailBacked
  <2>2. Tail(todo[t]) \in Work(Len(msgs))
    BY <1>2, Current
  <2> QED
    BY <1>1, <1>2, <1>3, <1>5, <2>1, <2>2, GiveUpKept
<1> QED
  BY <1>1, <1>4, <1>5
-----------------------------------------------------------------------------
(* Storage. *)

\* A task that has nothing left relies on nothing.
LEMMA NothingBacked ==
  ASSUME NEW n, NEW f
  PROVE  <<>> \in Work(n) /\ Backed(<<>>, f)
BY DEF Work, Backed

\* The task of a call that was answered goes on with what it has left.
LEMMA AnswersKept ==
  ASSUME ConstantsOK, Typed, Typed', Kept, Lasting, NEW t, NEW kind,
         NEW steps \in Work(Len(msgs)), Answers(t, kind, steps), Backed(steps, Facts'),
         \/ kind \notin {"SaveQueue", "SaveMessage"}
         \/ Backed(Tail(todo[t]), Facts'),
         Stored' \subseteq Homed'
  PROVE  Kept'
<1>1. /\ t \in Tasks /\ todo[t] # <<>> /\ Head(todo[t]).do = kind /\ confirmed' = confirmed
      /\ todo' = [todo EXCEPT ![t] = steps \o Tail(todo[t])]
  BY AnswersTyped DEF Answers, Proceed, clients
<1>2. Backed(Tail(todo[t]), Facts')
  BY <1>1, TailBacked
<1>3. Tail(todo[t]) \in Work(Len(msgs)) /\ Len(msgs) \in Nat
  BY <1>1, Current, MessagesTyped
<1>4. Backed(steps \o Tail(todo[t]), Facts')
  BY <1>2, <1>3, BackedConcat
<1>5. confirmed' \subseteq Safe'
  BY <1>1 DEF Kept, Lasting, More, Facts
<1> QED
  BY <1>1, <1>4, <1>5, KeptWhen

\* save_queue: the row is written with the type the queue has by then, and the
\* messages that follow it have the row of their queue.
LEMMA QueueSavedKept ==
  ASSUME ConstantsOK, Typed, Typed', Kept, NEW t, QueueSaved(t)
  PROVE  Kept'
<1>1. PICK q : /\ q = Head(todo[t]).q /\ Answers(t, "SaveQueue", <<>>)
               /\ queueRows' = SaveQueue(queueRows, q, qtype[q])
               /\ UNCHANGED <<rows, qtype>>
  BY DEF QueueSaved
<1>2. /\ t \in Tasks /\ todo[t] # <<>> /\ Head(todo[t]).do = "SaveQueue"
      /\ UNCHANGED <<msgs, clients>>
  BY <1>1, AnswersTyped
<1>3. todo[t] \in Work(Len(msgs)) /\ Len(msgs) \in Nat /\ q \in Queues
  BY <1>1, <1>2, Current, MessagesTyped DEF OfQueue, Kinds, Calls
<1>4. Backed(todo[t], Facts) /\ DOMAIN Facts.of = 1..Len(msgs)
  BY <1>2 DEF Kept, AllBacked, Facts, Known
<1>5. qtype[q] # "absent"
  <2>1. q \in Facts.there
    BY <1>1, <1>2, <1>3, <1>4, FirstBacked
  <2> QED
    BY <2>1 DEF Facts, Exists
<1>6. /\ queueRows'[q] # "absent"
      /\ \A p \in Queues : queueRows[p] # "absent" => queueRows'[p] # "absent"
  <2>1. queueRows \in [Queues -> QueueType \cup {"absent"}]
    BY DEF Typed, DataTypeOK
  <2> QED
    BY <1>1, <1>3, <1>5, <2>1 DEF SaveQueue
<1>7. Lasting
  BY <1>1, <1>2, <1>6, LastingWhen DEF clients
<1>8. Stored' \subseteq Homed'
  BY <1>1, <1>7, TablesStay
<1>9. Backed(todo[t], Facts') /\ DOMAIN Facts'.of = 1..Len(msgs)
  <2>1. DOMAIN Facts'.of = 1..Len(msgs)
    BY <1>2 DEF Facts, Known
  <2> QED
    BY <1>3, <1>4, <1>7, <2>1, BackedLasts DEF Lasting
<1>10. \A id \in 1..Len(msgs) : Facts'.of[id] = q => id \in Facts'.homed
  BY <1>2, <1>6 DEF Facts, Homed, Known
<1>11. Backed(Tail(todo[t]), Facts')
  BY <1>1, <1>2, <1>3, <1>9, <1>10, BackedTail
<1>12. <<>> \in Work(Len(msgs)) /\ Backed(<<>>, Facts')
  BY NothingBacked
<1> QED
  BY <1>1, <1>7, <1>8, <1>11, <1>12, AnswersKept

\* save_message: the message has a row, and its queue had one before.
LEMMA MessageSavedKept ==
  ASSUME ConstantsOK, Typed, Typed', Kept, NEW t, MessageSaved(t)
  PROVE  Kept'
<1>1. PICK id : /\ id = Head(todo[t]).id /\ Answers(t, "SaveMessage", <<>>)
                /\ rows' = SaveMessage(rows, id)
                /\ UNCHANGED <<queueRows, qtype>>
  BY DEF MessageSaved
<1>2. /\ t \in Tasks /\ todo[t] # <<>> /\ Head(todo[t]).do = "SaveMessage"
      /\ UNCHANGED <<msgs, clients>>
  BY <1>1, AnswersTyped
<1>3. todo[t] \in Work(Len(msgs)) /\ Len(msgs) \in Nat
  BY <1>2, Current, MessagesTyped
<1>4. Backed(todo[t], Facts) /\ DOMAIN Facts.of = 1..Len(msgs)
  BY <1>2 DEF Kept, AllBacked, Facts, Known
<1>5. id \in Homed /\ id \in Known /\ id \in Ids
  <2>1. id \in Homed
    BY <1>1, <1>2, <1>3, <1>4, FirstBacked DEF Facts
  <2> QED
    BY <2>1, MessagesTyped DEF Homed
<1>6. /\ rows'[id] # "absent"
      /\ \A m \in Ids : m # id => rows'[m] = rows[m]
  BY <1>1, <1>5 DEF SaveMessage, Typed, DataTypeOK
<1>7. Known' = Known /\ Known \subseteq Ids
  BY <1>2, MessagesTyped DEF Known
<1>8. Lasting
  <2>1. \A m \in Known : rows[m] # "absent" => rows'[m] # "absent"
    BY <1>6, <1>7
  <2> QED
    BY <1>1, <1>2, <2>1, LastingWhen DEF clients
<1>9. Stored' \subseteq Homed'
  <2>1. Stored' \subseteq Stored \cup {id} /\ Homed \subseteq Homed'
    BY <1>6, <1>7, <1>8 DEF Stored, Lasting, More, Facts
  <2> QED
    BY <1>5, <2>1 DEF Kept
<1>10. id \in Facts'.safe
  BY <1>5, <1>6, <1>7 DEF Facts, Safe, Stored
<1>11. Backed(Tail(todo[t]), Facts')
  <2>1. DOMAIN Facts'.of = 1..Len(msgs)
    BY <1>2 DEF Facts, Known
  <2>2. Backed(todo[t], Facts')
    BY <1>3, <1>4, <1>8, BackedLasts DEF Lasting
  <2> QED
    BY <1>1, <1>2, <1>3, <1>10, <2>1, <2>2, BackedTail
<1>12. <<>> \in Work(Len(msgs)) /\ Backed(<<>>, Facts')
  BY NothingBacked
<1> QED
  BY <1>1, <1>8, <1>9, <1>11, <1>12, AnswersKept

\* A row that an answer of the database takes away is of a message that is over
\* or has moved.
LEMMA RowsGo ==
  ASSUME ConstantsOK, Typed, Kept, NEW t, StatusUpdated(t) \/ MessageDeleted(t)
  PROVE  \A id \in Ids : /\ rows'[id] # "absent" => rows[id] # "absent"
                         /\ rows'[id] = "absent" => rows[id] = "absent" \/ id \in Justified
<1>1. rows \in [Ids -> Status]
  BY DEF Typed, DataTypeOK
<1>2. CASE StatusUpdated(t)
  <2>1. PICK status \in {"READY", "IN_FLIGHT"} : \E m : rows' = UpdateStatus(rows, m, status)
    BY <1>2 DEF StatusUpdated
  <2>2. status # "absent"
    OBVIOUS
  <2> QED
    BY <1>1, <2>1, <2>2 DEF UpdateStatus
<1>3. CASE MessageDeleted(t)
  <2>1. PICK m : /\ m = Head(todo[t]).id /\ Answers(t, "DeleteMessage", <<>>)
                 /\ rows' = DeleteMessage(rows, m)
    BY <1>3 DEF MessageDeleted
  <2>2. t \in Tasks /\ todo[t] # <<>> /\ Head(todo[t]).do = "DeleteMessage"
    BY <2>1, AnswersTyped
  <2>3. m \in Justified
    <3>1. todo[t] \in Work(Len(msgs)) /\ Len(msgs) \in Nat
      BY <2>2, Current, MessagesTyped
    <3>2. Backed(todo[t], Facts)
      BY <2>2 DEF Kept, AllBacked
    <3> QED
      BY <2>1, <2>2, <3>1, <3>2, FirstBacked DEF Facts
  <2> QED
    BY <1>1, <2>1, <2>3 DEF DeleteMessage
<1> QED
  BY <1>2, <1>3

\* update_status and delete_message.
LEMMA StatusKept ==
  ASSUME ConstantsOK, Typed, Typed', Kept, NEW t, StatusUpdated(t) \/ MessageDeleted(t)
  PROVE  Kept'
<1>1. PICK kind \in {"SetReady", "SetInFlight", "DeleteMessage"} : Answers(t, kind, <<>>)
  BY DEF StatusUpdated, MessageDeleted
<1>2. UNCHANGED <<msgs, qtype, queueRows, clients>>
  BY <1>1, AnswersTyped DEF StatusUpdated, MessageDeleted
<1>3. /\ Known \subseteq Ids /\ Justified' = Justified
      /\ Known' = Known
  BY <1>2, MessagesTyped DEF Justified, Known, Over, Moved, Copies, clients
<1>4. Lasting
  <2>1. \A id \in Known : rows[id] # "absent" => rows'[id] # "absent" \/ id \in Justified'
    BY <1>3, RowsGo
  <2> QED
    BY <1>2, <2>1, LastingWhen DEF clients
<1>5. Stored' \subseteq Homed'
  <2>1. Stored' \subseteq Stored
    BY <1>3, RowsGo DEF Stored
  <2>2. Homed \subseteq Homed'
    BY <1>4 DEF Lasting, More, Facts
  <2> QED
    BY <2>1, <2>2 DEF Kept
<1> QED
  BY <1>1, <1>4, <1>5, NothingBacked, AnswersKept
-----------------------------------------------------------------------------
(* Crash and restart. *)

\* A crash leaves no task anything to do, and the tables as they were committed.
LEMMA CrashKept ==
  ASSUME ConstantsOK, Typed, Typed', Kept, Crash
  PROVE  Kept'
<1>1. /\ todo' = [t \in Tasks |-> <<>>]
      /\ UNCHANGED <<msgs, queueRows, rows, confirmed, acked, expired>>
  BY DEF Crash, database
<1>2. AllBacked'
  BY <1>1, NothingBacked DEF AllBacked
<1>3. Safe' = Safe /\ Stored' = Stored /\ Homed' = Homed
  BY <1>1 DEF Safe, Stored, Homed, Justified, Known, Over, Moved, Copies
<1> QED
  BY <1>1, <1>2, <1>3 DEF Kept

\* restore() begins.
LEMMA StartKept ==
  ASSUME ConstantsOK, Typed, Typed', Kept, Start
  PROVE  Kept'
<1>1. /\ Main \in Tasks /\ todo' = [todo EXCEPT ![Main] = RestoreSteps]
      /\ UNCHANGED <<msgs, qtype, database, clients>>
  BY DEF Start, Continue, Proceed, Tasks, memory
<1>2. Quiet
  BY <1>1 DEF Quiet, database, clients
<1>3. Backed(RestoreSteps, Facts')
  BY DEF Backed, BackedStep, RestoreSteps, OnQueue, Do
<1> QED
  BY <1>1, <1>2, <1>3, QuietKept

\* restore() puts the rows that were in flight back to READY.
LEMMA InFlightResetKept ==
  ASSUME ConstantsOK, Typed, Typed', Kept, InFlightReset
  PROVE  Kept'
<1>1. Answers(Main, "ResetInFlight", <<>>) /\ UNCHANGED <<msgs, qtype, queueRows, clients>>
  BY AnswersTyped DEF InFlightReset
<1>2. \A id \in Ids : rows'[id] = "absent" <=> rows[id] = "absent"
  BY DEF InFlightReset, ResetInFlight, Typed, DataTypeOK
<1>3. Known \subseteq Ids /\ Known' = Known
  BY <1>1, MessagesTyped DEF Known
<1>4. Lasting
  <2>1. \A id \in Known : rows[id] # "absent" => rows'[id] # "absent"
    BY <1>2, <1>3
  <2> QED
    BY <1>1, <2>1, LastingWhen DEF clients
<1>5. Stored' \subseteq Homed'
  <2>1. Stored' = Stored
    BY <1>2, <1>3 DEF Stored
  <2>2. Homed \subseteq Homed'
    BY <1>4 DEF Lasting, More, Facts
  <2> QED
    BY <2>1, <2>2 DEF Kept
<1> QED
  BY <1>1, <1>4, <1>5, NothingBacked, AnswersKept

\* restore() goes through the stored queues and their messages.
LEMMA LoadedKept ==
  ASSUME ConstantsOK, Typed, Typed', Kept, QueuesLoaded \/ MessagesLoaded
  PROVE  Kept'
<1>1. CASE QueuesLoaded
  <2>1. PICK names \in SetToSeqs(StoredQueues(queueRows)) :
          Answers(Main, "LoadQueues",
                  [i \in 1..Len(names) |-> OnQueue("LoadMessages", names[i])])
    BY <1>1 DEF QueuesLoaded
  <2> DEFINE loads == [i \in 1..Len(names) |-> OnQueue("LoadMessages", names[i])]
  <2>2. UNCHANGED <<msgs, qtype, database, clients>>
    BY <1>1, <2>1, AnswersTyped DEF QueuesLoaded
  <2>3. Quiet
    BY <2>2 DEF Quiet, database, clients
  <2>4. Lasting /\ Stored' \subseteq Homed'
    BY <2>3, QuietLasting
  <2>5. loads \in Work(Len(msgs))
    BY <2>1, LoadsTyped
  <2>6. Backed(loads, Facts')
    <3>1. loads \in Seq(StepUpTo(Len(msgs)))
      BY <2>5 DEF Work
    <3>2. Len(names) \in Nat
      BY <2>1, LoadsTyped
    <3>3. Len(loads) = Len(names) /\ \A k \in 1..Len(loads) : loads[k].do = "LoadMessages"
      BY <3>2 DEF OnQueue, Do
    <3> HIDE DEF loads
    <3> QED
      BY <3>3, PlainBacked
  <2> HIDE DEF loads
  <2>7. Answers(Main, "LoadQueues", loads)
    BY <2>1 DEF loads
  <2> QED
    BY <2>4, <2>5, <2>6, <2>7, AnswersKept
<1>2. CASE MessagesLoaded
  <2> DEFINE q == Head(todo[Main]).q
             ids == {id \in StoredMessages(rows) : msgs[id].queue = q}
             restores == ForEach("Restore", q, Ascending(ids))
  <2>1. Answers(Main, "LoadMessages", restores) /\ GetOrCreate(q, queueRows[q])
        /\ UNCHANGED database
    BY <1>2 DEF MessagesLoaded
  <2>2. /\ Main \in Tasks /\ todo[Main] # <<>> /\ Head(todo[Main]).do = "LoadMessages"
        /\ UNCHANGED <<msgs, clients>>
    BY <2>1, AnswersTyped
  <2>3. q \in Queues
    BY <2>2, Current DEF OfQueue, Kinds, Calls
  <2>4. Ascending(ids) \in Seq(1..Len(msgs))
    <3>1. \A id \in ids : id \in 1..Len(msgs)
      BY MessagesTyped DEF StoredMessages, Typed, DataTypeOK, OnlyKnown
    <3> QED
      BY <3>1, MessagesTyped, AscendingTyped
  <2> HIDE DEF q, ids
  <2>5. \A p \in Queues : qtype[p] # "absent" => qtype'[p] # "absent"
    <3>1. qtype \in [Queues -> QueueType \cup {"absent"}]
      BY DEF Typed, DataTypeOK
    <3>2. qtype[q] = "absent" => qtype' = [qtype EXCEPT ![q] = queueRows[q]]
      BY <2>1 DEF GetOrCreate, Exists
    <3>3. qtype[q] # "absent" => qtype' = qtype
      BY <2>1 DEF GetOrCreate, Exists
    <3> QED
      BY <2>3, <3>1, <3>2, <3>3
  <2>6. Quiet
    BY <2>1, <2>2, <2>5 DEF Quiet, database, clients
  <2>7. Lasting /\ Stored' \subseteq Homed'
    BY <2>6, QuietLasting
  <2>8. restores \in Work(Len(msgs))
    <3>1. "Restore" \in Kinds \ {"Drain"} /\ inflight \in [Ids -> Nat]
      BY DEF Kinds, Typed, DataTypeOK
    <3> QED
      BY <2>3, <2>4, <3>1, MessagesTyped, ForEachTyped
  <2>9. Backed(restores, Facts')
    BY <2>4, MessagesTyped, ForEachBacked
  <2> HIDE DEF restores
  <2> QED
    BY <2>1, <2>7, <2>8, <2>9, AnswersKept
<1> QED
  BY <1>1, <1>2

\* restore() deletes what has expired, and loads the rest.
LEMMA RestoreKept ==
  ASSUME ConstantsOK, Typed, Typed', Kept, Restore \/ Serve
  PROVE  Kept'
<1>1. Main \in Tasks
  BY DEF Tasks
<1>2. CASE Restore
  <2>1. /\ todo[Main] # <<>> /\ Head(todo[Main]).do = "Restore"
        /\ UNCHANGED <<msgs, qtype, database, clients>>
    BY <1>2 DEF Restore, Doing, Idle
  <2>2. PICK q \in Queues, id \in Known :
          \/ id \in expired /\ Become(Main, <<OnMessage("DeleteMessage", q, id)>>)
          \/ Become(Main, <<>>)
    <3>1. Head(todo[Main]).q \in Queues /\ Head(todo[Main]).id \in Known
      BY <1>1, <2>1, Current DEF OfQueue, OfMessage, Kinds
    <3> QED
      BY <1>2, <3>1 DEF Restore, IsExpired
  <2>3. Quiet
    BY <2>1 DEF Quiet, database, clients
  <2>4. CASE Become(Main, <<>>)
    BY <1>1, <2>1, <2>3, <2>4, NothingBacked, BecomeKept
  <2>5. CASE id \in expired /\ Become(Main, <<OnMessage("DeleteMessage", q, id)>>)
    <3>1. id \in Facts'.justified
      BY <2>1, <2>5 DEF Facts, Justified, Over, Known, clients
    <3>2. Backed(<<OnMessage("DeleteMessage", q, id)>>, Facts')
      BY <3>1, HandlersBacked
    <3>3. <<OnMessage("DeleteMessage", q, id)>> \in Work(Len(msgs))
      <4> DEFINE d == OnMessage("DeleteMessage", q, id)
      <4>1. "DeleteMessage" \in Kinds \ {"Drain"}
        BY DEF Kinds, Calls
      <4>2. d \in Plain(Len(msgs))
        BY <4>1, MessagesTyped, StepsTyped DEF OnMessage, Do, Plain
      <4> HIDE DEF d
      <4>3. <<d>> \in Seq(Plain(Len(msgs)))
        BY <4>2
      <4>4. <<d>> \in Work(Len(msgs))
        BY <4>3, MessagesTyped, PlainWork
      <4> QED
        BY <4>4 DEF d
    <3>4. <<OnMessage("DeleteMessage", q, id)>> \in Work(Len(msgs'))
      BY <2>1, <3>3
    <3> QED
      BY <1>1, <2>1, <2>3, <2>5, <3>2, <3>4, BecomeKept
  <2> QED
    BY <2>2, <2>4, <2>5
<1>3. CASE Serve
  <2>1. /\ todo[Main] # <<>> /\ Head(todo[Main]).do = "Serve" /\ Become(Main, <<>>)
        /\ UNCHANGED <<msgs, qtype, database, clients>>
    BY <1>3 DEF Serve, Doing, Idle, memory
  <2>2. Quiet
    BY <2>1 DEF Quiet, database, clients
  <2> QED
    BY <1>1, <2>1, <2>2, NothingBacked, BecomeKept
<1> QED
  BY <1>2, <1>3
-----------------------------------------------------------------------------
(* Every step. *)

\* Every step keeps the invariant.
LEMMA KeptStep ==
  ASSUME ConstantsOK, Typed, Typed', Kept, [Next]_vars
  PROVE  Kept'
<1>1. CASE UNCHANGED vars
  <2>1. todo' = todo /\ Quiet
    BY <1>1 DEF vars, control, memory, database, clients, Quiet
  <2> QED
    BY <2>1, QuietKept
<1>2. CASE Clients
  <2>1. PICK c \in Conns :
          \/ Connect(c) \/ Lose(c)
          \/ \E q \in Targets, type \in QueueTypes :
               \/ \E prio \in Priorities, ttl \in Ttls : Send(c, q, type, prio, ttl)
               \/ SendExpired(c, q, type)
               \/ \E s \in Subs : Subscribe(c, s, q, type)
          \/ \E s \in Subs : Unsubscribe(c, s)
          \/ \E id \in Ids : Ack(c, id) \/ Nack(c, id)
    BY <1>2 DEF Clients
  <2>2. CASE Connect(c) \/ Lose(c)
    BY <2>2, ConnectKept
  <2>3. ASSUME NEW q \in Targets, NEW type \in QueueTypes
        PROVE  /\ \A prio \in Priorities, ttl \in Ttls : Send(c, q, type, prio, ttl) => Kept'
               /\ SendExpired(c, q, type) => Kept'
               /\ \A s \in Subs : Subscribe(c, s, q, type) => Kept'
    BY SendKept, SendExpiredKept, SubscribeKept
  <2>4. \A s \in Subs : Unsubscribe(c, s) => Kept'
    BY UnsubscribeKept
  <2>5. \A id \in Ids : Ack(c, id) \/ Nack(c, id) => Kept'
    BY AnswerKept
  <2> QED
    BY <2>1, <2>2, <2>3, <2>4, <2>5
<1>3. CASE \E c \in Conns : Unregister(c)
  BY <1>3, ConnectKept
<1>4. ASSUME NEW t \in Tasks, Run(t) \/ Suspend(t) \/ StorageFails(t)
      PROVE  Kept'
  <2>1. CASE QueueSaved(t) \/ MessageSaved(t)
    BY <2>1, QueueSavedKept, MessageSavedKept
  <2>2. CASE StatusUpdated(t) \/ MessageDeleted(t)
    BY <2>2, StatusKept
  <2>3. CASE Deliver(t)
    BY <2>3, DeliverKept
  <2>4. CASE DrainOk(t) \/ Suspend(t)
    BY <2>4, DrainKept
  <2>5. CASE DrainFails(t)
    BY <2>5, DrainFailsKept
  <2>6. CASE Failed(t)
    BY <2>6, FailedKept
  <2>7. CASE Receipt(t)
    BY <2>7, ReceiptKept
  <2>8. CASE CheckTimeouts(t)
    BY <2>8, CheckTimeoutsKept
  <2>9. CASE PurgeExpired(t)
    BY <2>9, PurgeExpiredKept
  <2>10. CASE StorageFails(t)
    BY <2>10, StorageFailsKept
  <2> QED
    BY <1>4, <2>1, <2>2, <2>3, <2>4, <2>5, <2>6, <2>7, <2>8, <2>9, <2>10 DEF Run
<1>5. CASE TimeoutTick \/ ExpiryTick \/ \E id \in Ids : Expire(id)
  BY <1>5, ClockKept
<1>6. CASE Crash
  BY <1>6, CrashKept
<1>7. CASE Restart
  BY <1>7, StartKept, InFlightResetKept, LoadedKept, RestoreKept DEF Restart
<1> QED
  BY <1>1, <1>2, <1>3, <1>4, <1>5, <1>6, <1>7 DEF Next

\* No task has anything to do in the initial state, and the tables hold no message.
LEMMA InitKept ==
  ASSUME ConstantsOK, Init
  PROVE  Kept
<1>1. AllBacked
  BY NothingBacked DEF Init, AllBacked
<1>2. Known = {}
  <2>1. Len(msgs) = 0
    BY DEF Init
  <2> QED
    BY <2>1 DEF Known
<1> QED
  BY <1>1, <1>2 DEF Init, Kept, Stored

\* Both invariants hold together.
LEMMA KeptAlways == Spec => [](Typed /\ Rests /\ Kept)
<1> USE ConstantsOK
<1>1. Init => Typed /\ Rests /\ Kept
  <2>1. Init => Rests
    BY DEF Init, Rests, Idle
  <2> QED
    BY <2>1, InitTyped, InitKept
<1>2. Typed /\ Rests /\ Kept /\ [Next]_vars => (Typed /\ Rests /\ Kept)'
  BY TypedStep, RestsStep, KeptStep
<1> QED
  BY <1>1, <1>2, PTL DEF Spec

\* A message whose publisher was sent a RECEIPT has a row until a consumer
\* acknowledged it, its time ran out or a copy of it went to a dead letter queue:
\* no crash, failed storage call, scan or lost connection comes in between.
THEOREM ConfirmedIsStored == Spec => []Durable
<1>1. Kept => Durable
  BY DEF Kept, Durable, Safe, Stored, Justified
<1> QED
  BY <1>1, KeptAlways, PTL

\* restore() finds every stored message: the row of its queue is there before
\* its own, for every publisher and for copies made for a dead letter queue.
THEOREM QueueRowIsFirst == Spec => []QueueRowFirst
<1>1. Kept => QueueRowFirst
  BY DEF Kept, QueueRowFirst, Stored, Homed
<1> QED
  BY <1>1, KeptAlways, PTL

\* The steps that take a row away.
LEMMA RowsStep ==
  ASSUME ConstantsOK, Typed, Typed', Kept, [Next]_vars,
         NEW id \in Ids, rows[id] # "absent", rows'[id] = "absent"
  PROVE  Over(id)' \/ Moved(id)'
<1>1. CASE UNCHANGED rows
  BY <1>1
<1>2. ASSUME NEW t \in Tasks, StatusUpdated(t) \/ MessageDeleted(t)
      PROVE  Over(id)' \/ Moved(id)'
  <2>1. id \in Justified
    BY <1>2, RowsGo
  <2>2. PICK kind, steps : Answers(t, kind, steps)
    BY <1>2 DEF StatusUpdated, MessageDeleted
  <2>3. UNCHANGED <<msgs, acked, expired>>
    BY <2>2 DEF Answers, clients
  <2> QED
    BY <2>1, <2>3 DEF Justified, Over, Moved, Copies, Known
<1>3. ASSUME NEW t \in Tasks, MessageSaved(t)
      PROVE  FALSE
  BY <1>3 DEF MessageSaved, SaveMessage, Typed, DataTypeOK
<1>4. CASE InFlightReset
  BY <1>4 DEF InFlightReset, ResetInFlight, Typed, DataTypeOK
<1>5. CASE UNCHANGED vars \/ Crash \/ TimeoutTick \/ ExpiryTick \/ \E m \in Ids : Expire(m)
  <2>1. UNCHANGED rows
    BY <1>5 DEF vars, database, Crash, TimeoutTick, ExpiryTick, Tick, Expire
  <2> QED
    BY <1>1, <2>1
<1>6. ASSUME NEW c \in Conns
      PROVE  /\ Connect(c) \/ Lose(c) \/ Unregister(c) => UNCHANGED rows
             /\ \A q, type :
                  /\ \A prio, ttl : Send(c, q, type, prio, ttl) => UNCHANGED rows
                  /\ SendExpired(c, q, type) => UNCHANGED rows
                  /\ \A s : Subscribe(c, s, q, type) => UNCHANGED rows
             /\ \A s : Unsubscribe(c, s) => UNCHANGED rows
             /\ \A m : Ack(c, m) \/ Nack(c, m) => UNCHANGED rows
  BY DEF Connect, Lose, Unregister, Send, SendExpired, Subscribe, Unsubscribe, Ack, Nack,
         database
<1>9. CASE Clients \/ \E c \in Conns : Unregister(c)
  <2>1. UNCHANGED rows
    BY <1>6, <1>9 DEF Clients
  <2> QED
    BY <1>1, <2>1
<1>7. CASE Restart /\ ~ InFlightReset
  <2>1. UNCHANGED rows
    BY <1>7 DEF Restart, Start, QueuesLoaded, MessagesLoaded, Restore, Serve, database
  <2> QED
    BY <1>1, <2>1
<1>8. ASSUME NEW t \in Tasks,
             \/ Run(t) /\ ~ (StatusUpdated(t) \/ MessageDeleted(t) \/ MessageSaved(t))
             \/ Suspend(t)
      PROVE  UNCHANGED rows
  BY <1>8 DEF Run, QueueSaved, Deliver, DrainOk, DrainFails, Failed, Receipt, CheckTimeouts,
              PurgeExpired, Suspend, database
<1>10. ASSUME NEW t \in Tasks, StorageFails(t)
       PROVE  Over(id)' \/ Moved(id)'
  <2>1. /\ dbq # <<>> /\ t = Head(dbq) /\ UNCHANGED <<msgs, qtype, clients>>
        /\ UNCHANGED database \/ Executed(Head(todo[t]))
    BY <1>10 DEF StorageFails
  <2>2. todo[t] # <<>>
    BY <2>1, FirstCall, MessagesTyped DEF Typed
  <2>3. id \in Justified
    BY <2>1, <2>2, ExecutedKept
  <2> QED
    BY <2>1, <2>3 DEF Justified, Over, Moved, Copies, Known, clients
<1> QED
  BY <1>1, <1>2, <1>3, <1>4, <1>5, <1>7, <1>8, <1>9, <1>10 DEF Next, Run

\* A row goes only when its message is over or was copied, whatever the order
\* in which handlers, scans and restore() delete.
THEOREM RowsAreKept == Spec => RowsGoForAReason
<1> USE ConstantsOK
<1>1. ASSUME Typed, Typed', Kept, [Next]_vars
      PROVE  [\A id \in Ids : rows[id] # "absent" /\ rows'[id] = "absent"
                => Over(id)' \/ Moved(id)']_vars
  BY <1>1, RowsStep
<1> QED
  BY <1>1, KeptAlways, PTL DEF Spec, RowsGoForAReason
=============================================================================
