--------------------------- MODULE TopicsTheorems ---------------------------
(***************************************************************************)
(* Topics keeps its types, forgets connections that are unregistered and   *)
(* implements FanOut, for any number of connections, subscriptions and     *)
(* messages.                                                               *)
(***************************************************************************)
EXTENDS Topics, QueueTheorems

\* The task that holds the event loop has a subscriber to send to.
Scheduled == running \in Conns => ~Idle(running) /\ running \notin waits

\* What is sent has been published.
Sent(f) == f.do = "SEND" => f.id \in 1..Len(msgs)
AllSent == \A c \in Conns : \A i \in 1..Len(inq[c]) : Sent(inq[c][i])

\* The handlers of a connection are over when it is unregistered.
Departed == \A c \in Conns : link[c] = "gone" => inq[c] = <<>>

Orderly ==
  /\ TypeOK /\ Len(msgs) <= MaxMessages
  /\ Scheduled /\ AllSent /\ Departed /\ NoGhostSubscriber
-----------------------------------------------------------------------------
(* The registrations. *)

RegistrationsTypeOK ==
  /\ exact \in [Destinations -> SUBSET Registration]
  /\ wildcard \in Seq(Destinations \X Conns \X Subs)

\* TopicManager.subscribe: who registers is connected.
LEMMA RegisterKeeps ==
  ASSUME RegistrationsTypeOK, NoGhostSubscriber, NEW dest \in Destinations, NEW c \in Conns,
         NEW s \in Subs, link' = link, link[c] # "gone", Register(dest, c, s)
  PROVE  RegistrationsTypeOK' /\ NoGhostSubscriber'
<1>1. CASE HasStar(dest)
  <2> DEFINE w == <<dest, c, s>>
  <2>1. w \in Destinations \X Conns \X Subs /\ w[2] = c
    OBVIOUS
  <2>2. wildcard' = Append(wildcard, w) /\ exact' = exact
    BY <1>1 DEF Register
  <2> HIDE DEF w
  <2>3. /\ wildcard' \in Seq(Destinations \X Conns \X Subs) /\ Len(wildcard') = Len(wildcard) + 1
        /\ \A i \in 1..Len(wildcard) : wildcard'[i] = wildcard[i]
        /\ wildcard'[Len(wildcard) + 1] = w
    BY <2>1, <2>2, AppendProperties DEF RegistrationsTypeOK
  <2>4. \A i \in DOMAIN wildcard' : i \in DOMAIN wildcard \/ wildcard'[i] = w
    BY <2>3 DEF RegistrationsTypeOK
  <2> QED
    BY <2>1, <2>2, <2>3, <2>4 DEF RegistrationsTypeOK, NoGhostSubscriber
<1>2. CASE ~HasStar(dest)
  <2>1. <<c, s>> \in Registration /\ <<c, s>>[1] = c
    BY DEF Registration
  <2>2. exact' = [exact EXCEPT ![dest] = @ \cup {<<c, s>>}] /\ wildcard' = wildcard
    BY <1>2 DEF Register
  <2>3. \A d \in Destinations : \A r \in exact'[d] : r \in exact[d] \/ r = <<c, s>>
    BY <2>2 DEF RegistrationsTypeOK
  <2>4. \A d \in Destinations : \A r \in exact'[d] : link'[r[1]] # "gone"
    BY <2>1, <2>3 DEF NoGhostSubscriber, RegistrationsTypeOK, Registration
  <2> QED
    BY <2>1, <2>2, <2>4 DEF RegistrationsTypeOK, NoGhostSubscriber
<1> QED
  BY <1>1, <1>2

\* Forget takes the registrations out wherever they are, and adds none.
LEMMA ForgetKeeps ==
  ASSUME RegistrationsTypeOK, NoGhostSubscriber, NEW regs \in SUBSET Registration,
         Forget(regs), NEW c \in Conns, link \in [Conns -> {"open", "lost", "gone"}],
         \/ link' = link
         \/ link' = [link EXCEPT ![c] = "gone"] /\ regs = {c} \X Subs
  PROVE  RegistrationsTypeOK' /\ NoGhostSubscriber'
<1> DEFINE All == Destinations \X Conns \X Subs
           Alive == {w \in All : link[w[2]] # "gone"}
           Out == {<<dest, r[1], r[2]>> : dest \in Destinations, r \in regs}
<1>1. wildcard \in Seq(Alive)
  <2>1. wildcard \in Seq(All) /\ \A i \in 1..Len(wildcard) : wildcard[i] \in All
    BY DEF RegistrationsTypeOK
  <2>2. \A i \in 1..Len(wildcard) : wildcard[i] \in Alive
    BY <2>1 DEF NoGhostSubscriber
  <2> HIDE DEF Alive, All
  <2> QED
    BY <2>1, <2>2
<1>2. wildcard' = Without(wildcard, Out)
  BY DEF Forget
<1>3. /\ wildcard' \in Seq(Alive)
      /\ \A i \in 1..Len(wildcard') : wildcard'[i] \in Alive \ Out
  <2> HIDE DEF Alive, All, Out
  <2>1. wildcard' \in Seq(Alive) /\ \A i \in 1..Len(wildcard') : wildcard'[i] \notin Out
    BY <1>1, <1>2, WithoutType
  <2> QED
    BY <2>1
<1>4. wildcard' \in Seq(All)
  <2>1. Alive \subseteq All
    OBVIOUS
  <2> HIDE DEF Alive, All
  <2> QED
    BY <1>3, <2>1, SeqMonotonic
<1>5. exact' \in [Destinations -> SUBSET Registration]
  BY DEF Forget, RegistrationsTypeOK
<1>6. CASE link' = link
  <2>1. \A i \in DOMAIN wildcard' : link'[wildcard'[i][2]] # "gone"
    BY <1>3, <1>6
  <2> QED
    BY <1>4, <1>5, <1>6, <2>1 DEF Forget, RegistrationsTypeOK, NoGhostSubscriber
<1>7. CASE link' = [link EXCEPT ![c] = "gone"] /\ regs = {c} \X Subs
  <2>1. ASSUME NEW i \in DOMAIN wildcard'
        PROVE  wildcard'[i][2] \in Conns /\ link'[wildcard'[i][2]] # "gone"
    <3>1. i \in 1..Len(wildcard')
      BY <1>3
    <3>2. PICK dest \in Destinations, d \in Conns, s \in Subs :
            wildcard'[i] = <<dest, d, s>> /\ link[d] # "gone"
      BY <1>3, <3>1
    <3>3. d # c
      <4> SUFFICES ASSUME d = c PROVE FALSE
        OBVIOUS
      <4>1. <<c, s>> \in regs /\ <<c, s>>[1] = c /\ <<c, s>>[2] = s
        BY <1>7
      <4>2. <<dest, c, s>> \in Out
        BY <4>1
      <4> QED
        BY <1>3, <3>1, <3>2, <4>2
    <3> QED
      BY <1>7, <3>2, <3>3
  <2>2. \A dest \in Destinations : \A r \in exact'[dest] :
          r \in exact[dest] /\ r \notin {c} \X Subs
    BY <1>7 DEF Forget
  <2>3. \A dest \in Destinations : \A r \in exact'[dest] :
          r[1] \in Conns /\ link'[r[1]] # "gone"
    BY <1>7, <2>2 DEF RegistrationsTypeOK, NoGhostSubscriber, Registration
  <2> QED
    BY <1>4, <1>5, <2>1, <2>3 DEF RegistrationsTypeOK, NoGhostSubscriber
<1> QED
  BY <1>6, <1>7
-----------------------------------------------------------------------------
(* The frames a server has not read. *)

\* What is left of one inbox, and what another connection's inbox holds.
LEMMA ReadsKeeps ==
  ASSUME Orderly, NEW c \in Conns, NEW do, Reads(c, do), msgs' = msgs,
         \A d \in Conns : link'[d] = "gone" => link[d] = "gone"
  PROVE  /\ inq' \in [Conns -> Seq(Frame)] /\ AllSent' /\ Departed'
         /\ Head(inq[c]) \in Frame /\ Sent(Head(inq[c])) /\ Head(inq[c]).do = do
         /\ link[c] # "gone" /\ running = NoConn /\ c \notin waits
<1> DEFINE q == inq[c]
<1>1. q \in Seq(Frame) /\ q # <<>> /\ \A i \in 1..Len(q) : Sent(q[i])
  BY DEF Reads, Orderly, TypeOK, AllSent
<1>2. inq' = [inq EXCEPT ![c] = Tail(q)] /\ Head(q).do = do
  BY DEF Reads
<1>3. inq \in [Conns -> Seq(Frame)]
  BY DEF Orderly, TypeOK
<1> HIDE DEF q
<1>4. /\ Head(q) \in Frame /\ Head(q) = q[1] /\ Tail(q) \in Seq(Frame)
      /\ Len(Tail(q)) = Len(q) - 1 /\ Len(q) \in Nat \ {0}
      /\ \A i \in 1..Len(Tail(q)) : Tail(q)[i] = q[i + 1]
  BY <1>1, HeadTailProperties, EmptySeq
<1>5. inq' \in [Conns -> Seq(Frame)]
  BY <1>2, <1>3, <1>4
<1>6. ASSUME NEW i \in 1..Len(Tail(q))
      PROVE  Sent(Tail(q)[i])
  <2>1. i + 1 \in 1..Len(q)
    BY <1>4
  <2> QED
    BY <1>1, <1>4, <2>1
<1>7. \A d \in Conns : \A i \in 1..Len(inq'[d]) : Sent(inq'[d][i])
  BY <1>2, <1>3, <1>6 DEF Orderly, AllSent
<1>8. link[c] # "gone" /\ Departed'
  BY <1>1, <1>2, <1>3 DEF Orderly, Departed, q
<1>9. running = NoConn /\ c \notin waits
  BY DEF Reads, Free, Idle, Orderly, TypeOK
<1> QED
  BY <1>1, <1>2, <1>4, <1>5, <1>7, <1>8, <1>9 DEF AllSent, Sent, q

\* A frame is appended to the inbox of a connection that is open.
LEMMA WritesKeeps ==
  ASSUME Orderly, NEW c \in Conns, NEW f \in Frame, link' = link,
         \/ inq' = inq
         \/ link[c] = "open" /\ inq' = [inq EXCEPT ![c] = Append(@, f)],
         msgs' \in Seq([from : Conns, dest : Destinations]),
         Len(msgs) <= Len(msgs'), f.do = "SEND" => f.id \in 1..Len(msgs')
  PROVE  inq' \in [Conns -> Seq(Frame)] /\ AllSent' /\ Departed'
<1>1. inq \in [Conns -> Seq(Frame)] /\ Len(msgs) \in Nat /\ Len(msgs') \in Nat
  BY DEF Orderly, TypeOK
<1>2. ASSUME NEW d \in Conns, NEW i \in 1..Len(inq[d])
      PROVE  Sent(inq[d][i])'  \/ inq' # inq
  BY <1>1, <1>2 DEF Orderly, AllSent, Sent
<1>3. CASE inq' = inq
  BY <1>1, <1>3 DEF Orderly, AllSent, Sent, Departed
<1>4. CASE link[c] = "open" /\ inq' = [inq EXCEPT ![c] = Append(@, f)]
  <2> DEFINE q == inq[c]
  <2>1. q \in Seq(Frame)
    BY <1>1
  <2>2. inq' = [inq EXCEPT ![c] = Append(q, f)]
    BY <1>4
  <2> HIDE DEF q
  <2>3. /\ Append(q, f) \in Seq(Frame) /\ Len(Append(q, f)) = Len(q) + 1 /\ Len(q) \in Nat
        /\ \A i \in 1..Len(q) : Append(q, f)[i] = q[i]
        /\ Append(q, f)[Len(q) + 1] = f
    BY <2>1, AppendProperties
  <2>4. \A i \in 1..Len(Append(q, f)) : i \in 1..Len(q) \/ Append(q, f)[i] = f
    BY <2>3
  <2>5. \A i \in 1..Len(q) : q[i].do = "SEND" => q[i].id \in 1..Len(msgs')
    BY <1>1 DEF q, Orderly, AllSent, Sent
  <2>6. \A i \in 1..Len(Append(q, f)) :
          Append(q, f)[i].do = "SEND" => Append(q, f)[i].id \in 1..Len(msgs')
    BY <2>3, <2>4, <2>5
  <2>7. \A d \in Conns \ {c} : inq'[d] = inq[d]
    BY <1>1, <2>2
  <2>8. inq'[c] = Append(q, f)
    BY <1>1, <2>2
  <2>9. \A d \in Conns \ {c} : \A i \in 1..Len(inq[d]) :
          inq[d][i].do = "SEND" => inq[d][i].id \in 1..Len(msgs')
    BY <1>1 DEF Orderly, AllSent, Sent
  <2>10. AllSent'
    BY <2>6, <2>7, <2>8, <2>9 DEF AllSent, Sent
  <2>11. Departed'
    BY <1>4, <2>7 DEF Orderly, Departed
  <2> QED
    BY <1>1, <2>2, <2>3, <2>10, <2>11
<1> QED
  BY <1>3, <1>4
-----------------------------------------------------------------------------
(* The server. *)

\* The handler of SUBSCRIBE.
LEMMA ReadSubscribeKeeps ==
  ASSUME Orderly, NEW c \in Conns, ReadSubscribe(c)
  PROVE  Orderly'
<1> DEFINE f == Head(inq[c])
<1>1. /\ inq' \in [Conns -> Seq(Frame)] /\ AllSent' /\ Departed'
      /\ f \in Frame /\ f.do = "SUBSCRIBE" /\ link[c] # "gone"
  BY ReadsKeeps DEF ReadSubscribe, clients
<1>2. f.sub \in Subs /\ f.dest \in Destinations
  BY <1>1 DEF Frame
<1>3. RegistrationsTypeOK' /\ NoGhostSubscriber'
  BY <1>1, <1>2, RegisterKeeps DEF ReadSubscribe, Orderly, TypeOK, RegistrationsTypeOK
<1>4. subs' \in [Conns -> [Subs -> Destinations \cup {NoDest}]]
  <2>1. subs' = [subs EXCEPT ![c] = [subs[c] EXCEPT ![f.sub] = f.dest]]
    BY DEF ReadSubscribe
  <2> HIDE DEF f
  <2> QED
    BY <1>2, <2>1 DEF Orderly, TypeOK
<1>5. TypeOK'
  BY <1>1, <1>3, <1>4 DEF ReadSubscribe, clients, Orderly, TypeOK, RegistrationsTypeOK, Idle
<1> QED
  BY <1>1, <1>3, <1>5 DEF ReadSubscribe, clients, Orderly, Scheduled, Idle

\* The handler of UNSUBSCRIBE.
LEMMA ReadUnsubscribeKeeps ==
  ASSUME Orderly, NEW c \in Conns, ReadUnsubscribe(c)
  PROVE  Orderly'
<1> DEFINE s == Head(inq[c]).sub
<1>1. /\ inq' \in [Conns -> Seq(Frame)] /\ AllSent' /\ Departed'
      /\ Head(inq[c]) \in Frame /\ Head(inq[c]).do = "UNSUBSCRIBE"
  BY ReadsKeeps DEF ReadUnsubscribe, clients
<1>2. s \in Subs
  BY <1>1 DEF Frame
<1>3. RegistrationsTypeOK' /\ NoGhostSubscriber'
  <2>1. {<<c, s>>} \in SUBSET Registration
    BY <1>2 DEF Registration
  <2> HIDE DEF s
  <2> QED
    BY <2>1, ForgetKeeps DEF ReadUnsubscribe, Orderly, TypeOK, RegistrationsTypeOK, s
<1>4. subs' \in [Conns -> [Subs -> Destinations \cup {NoDest}]]
  <2>1. subs' = [subs EXCEPT ![c] = [subs[c] EXCEPT ![s] = NoDest]]
    BY DEF ReadUnsubscribe
  <2> HIDE DEF s
  <2> QED
    BY <1>2, <2>1 DEF Orderly, TypeOK
<1>5. TypeOK'
  BY <1>1, <1>3, <1>4 DEF ReadUnsubscribe, clients, Orderly, TypeOK, RegistrationsTypeOK, Idle
<1> QED
  BY <1>1, <1>3, <1>5 DEF ReadUnsubscribe, clients, Orderly, Scheduled, Idle

\* unregister forgets every registration of a connection that has nothing left to read.
LEMMA UnregisterKeeps ==
  ASSUME Orderly, NEW c \in Conns, Unregister(c)
  PROVE  Orderly'
<1>1. RegistrationsTypeOK' /\ NoGhostSubscriber'
  <2>1. {c} \X Subs \in SUBSET Registration
    BY DEF Registration
  <2> QED
    BY <2>1, ForgetKeeps DEF Unregister, Orderly, TypeOK, RegistrationsTypeOK
<1>2. TypeOK'
  BY <1>1 DEF Unregister, clients, Orderly, TypeOK, RegistrationsTypeOK, Idle
<1>3. AllSent' /\ Departed' /\ Scheduled'
  BY DEF Unregister, clients, Orderly, TypeOK, AllSent, Sent, Departed, Scheduled, Idle
<1> QED
  BY <1>1, <1>2, <1>3 DEF Unregister, clients, Orderly

\* The handler of DISCONNECT.
LEMMA ReadDisconnectKeeps ==
  ASSUME Orderly, NEW c \in Conns, ReadDisconnect(c)
  PROVE  Orderly'
<1>1. link' \in [Conns -> {"open", "lost", "gone"}]
  BY DEF ReadDisconnect, Orderly, TypeOK
<1>2. \A d \in Conns : link'[d] = "gone" => link[d] = "gone"
  BY DEF ReadDisconnect, Orderly, TypeOK
<1>3. inq' \in [Conns -> Seq(Frame)] /\ AllSent' /\ Departed'
  BY <1>2, ReadsKeeps DEF ReadDisconnect, clients
<1>4. TypeOK'
  BY <1>1, <1>3 DEF ReadDisconnect, server, clients, Orderly, TypeOK, Idle
<1>5. NoGhostSubscriber'
  BY <1>2 DEF ReadDisconnect, server, Orderly, NoGhostSubscriber
<1> QED
  BY <1>3, <1>4, <1>5 DEF ReadDisconnect, server, clients, Orderly, Scheduled, Idle

\* The subscribers of a message are registrations.
LEMMA SubscribersType ==
  ASSUME RegistrationsTypeOK, NEW dest \in Destinations, NEW regs \in Subscribers(dest)
  PROVE  regs \in Seq(Registration)
<1> DEFINE matching == Without(wildcard, {w \in Range(wildcard) : ~Match(w[1], dest)})
           patterns == [i \in DOMAIN matching |-> <<matching[i][2], matching[i][3]>>]
<1>1. PICK first \in SetToSeqs(exact[dest]) : regs = first \o patterns
  BY DEF Subscribers
<1>2. first \in Seq(Registration)
  <2>1. exact[dest] \in SUBSET Registration
    BY DEF RegistrationsTypeOK
  <2>2. Cardinality(exact[dest]) \in Nat
    BY <2>1, TopicConstantsOK, FS_Subset, FS_CardinalityType
  <2>3. first \in [1..Cardinality(exact[dest]) -> Registration]
    BY <1>1, <2>1 DEF SetToSeqs
  <2> QED
    BY <2>2, <2>3
<1>3. patterns \in Seq(Registration)
  <2>1. matching \in Seq(Destinations \X Conns \X Subs)
    BY WithoutType DEF RegistrationsTypeOK
  <2> HIDE DEF matching
  <2>2. \A i \in 1..Len(matching) : <<matching[i][2], matching[i][3]>> \in Registration
    BY <2>1 DEF Registration
  <2> QED
    BY <2>1, <2>2
<1> QED
  BY <1>1, <1>2, <1>3, ConcatProperties

\* The handler of SEND: the list it computes names registrations of a message there is.
LEMMA ReadSendKeeps ==
  ASSUME Orderly, NEW c \in Conns, ReadSend(c)
  PROVE  Orderly'
<1> DEFINE m == Head(inq[c]).id
<1>1. /\ inq' \in [Conns -> Seq(Frame)] /\ AllSent' /\ Departed'
      /\ Sent(Head(inq[c])) /\ Head(inq[c]).do = "SEND" /\ running = NoConn /\ c \notin waits
  BY ReadsKeeps DEF ReadSend, clients
<1>2. m \in 1..Len(msgs)
  BY <1>1 DEF Sent
<1>3. m \in 1..MaxMessages /\ msgs[m].dest \in Destinations
  <2> HIDE DEF m
  <2>1. msgs \in Seq([from : Conns, dest : Destinations]) /\ Len(msgs) <= MaxMessages
    BY DEF Orderly, TypeOK
  <2>2. msgs[m] \in [from : Conns, dest : Destinations]
    BY <1>2, <2>1, ElementOfSeq
  <2>3. Len(msgs) \in Nat /\ MaxMessages \in Nat
    BY <2>1, TopicConstantsOK
  <2> QED
    BY <1>2, <2>1, <2>2, <2>3
<1> DEFINE copies(regs) == [i \in DOMAIN regs |-> [to |-> regs[i], id |-> m]]
<1>4. PICK regs \in Subscribers(msgs[m].dest) :
        /\ todo' = [todo EXCEPT ![c] = copies(regs)]
        /\ running' = IF regs = <<>> THEN NoConn ELSE c
  BY DEF ReadSend
<1>5. regs \in Seq(Registration)
  BY <1>3, <1>4, SubscribersType DEF Orderly, TypeOK, RegistrationsTypeOK
<1> HIDE DEF m
<1>6. /\ copies(regs) \in Seq([to : Registration, id : 1..MaxMessages])
      /\ regs # <<>> => copies(regs) # <<>>
  <2>1. \A i \in 1..Len(regs) : [to |-> regs[i], id |-> m] \in [to : Registration, id : 1..MaxMessages]
    BY <1>3, <1>5
  <2>2. DOMAIN regs = 1..Len(regs) /\ Len(regs) \in Nat
    BY <1>5
  <2>3. regs # <<>> => 1 \in DOMAIN copies(regs)
    BY <1>5, <2>2
  <2> QED
    BY <2>1, <2>2, <2>3
<1> HIDE DEF copies
<1>7. /\ todo' \in [Conns -> Seq([to : Registration, id : 1..MaxMessages])]
      /\ \A d \in Conns \ {c} : todo'[d] = todo[d]
      /\ todo'[c] = copies(regs)
  BY <1>4, <1>6 DEF Orderly, TypeOK
<1>8. waits' \subseteq {d \in Conns : ~Idle(d)'}
  BY <1>1, <1>7 DEF ReadSend, Orderly, TypeOK, Idle
<1>9. Scheduled'
  BY <1>1, <1>4, <1>6, <1>7, TopicConstantsOK DEF ReadSend, Scheduled, Idle
<1>10. TypeOK'
  BY <1>1, <1>4, <1>7, <1>8 DEF ReadSend, clients, Orderly, TypeOK, Idle
<1>11. NoGhostSubscriber'
  BY DEF ReadSend, Orderly, NoGhostSubscriber
<1> QED
  BY <1>1, <1>9, <1>10, <1>11 DEF ReadSend, clients, Orderly
-----------------------------------------------------------------------------
(* The copies a publication still has to send. *)

\* What holds of a task that is done with its first subscriber.
LEMMA NextSubscriberKeeps ==
  ASSUME Orderly, NEW c \in Conns, ~Idle(c), NextSubscriber(c), waits' = waits \ {c}
  PROVE  /\ todo' \in [Conns -> Seq([to : Registration, id : 1..MaxMessages])]
         /\ running' \in Conns \cup {NoConn}
         /\ waits' \subseteq {d \in Conns : todo'[d] # <<>>} /\ Scheduled'
<1> DEFINE q == todo[c]
<1>1. q \in Seq([to : Registration, id : 1..MaxMessages]) /\ q # <<>>
  BY DEF Orderly, TypeOK, Idle
<1>2. Tail(q) \in Seq([to : Registration, id : 1..MaxMessages])
  BY <1>1
<1>3. todo' = [todo EXCEPT ![c] = Tail(q)] /\ running' = IF Tail(q) = <<>> THEN NoConn ELSE c
  BY DEF NextSubscriber
<1> HIDE DEF q
<1>4. /\ todo' \in [Conns -> Seq([to : Registration, id : 1..MaxMessages])]
      /\ \A d \in Conns \ {c} : todo'[d] = todo[d]
      /\ todo'[c] = Tail(q)
  BY <1>2, <1>3 DEF Orderly, TypeOK
<1>5. \A d \in waits' : d \in Conns /\ todo'[d] # <<>>
  BY <1>4 DEF Orderly, TypeOK, Idle
<1>6. Scheduled'
  BY <1>3, <1>4, TopicConstantsOK DEF Scheduled, Idle
<1> QED
  BY <1>3, <1>4, <1>5, <1>6

\* A drain of the server returns, and the task goes on with the next subscriber.
LEMMA DrainedKeeps ==
  ASSUME Orderly, NEW c \in Conns, Drained(c)
  PROVE  Orderly'
<1>1. ~Idle(c) /\ NextSubscriber(c) /\ waits' = waits \ {c}
  BY DEF Drained, Orderly, TypeOK
<1>2. /\ todo' \in [Conns -> Seq([to : Registration, id : 1..MaxMessages])]
      /\ running' \in Conns \cup {NoConn}
      /\ waits' \subseteq {d \in Conns : todo'[d] # <<>>} /\ Scheduled'
  BY <1>1, NextSubscriberKeeps
<1>3. TypeOK'
  BY <1>2 DEF Drained, clients, Orderly, TypeOK, Idle
<1> QED
  BY <1>2, <1>3 DEF Drained, clients, Orderly, AllSent, Sent, Departed, NoGhostSubscriber

\* One MESSAGE is written to one subscriber.
LEMMA SendMessageKeeps ==
  ASSUME Orderly, NEW c \in Conns, SendMessage(c)
  PROVE  Orderly'
<1> DEFINE to == Head(todo[c]).to
           copy == [sub |-> to[2], id |-> Head(todo[c]).id]
<1>1. running = c /\ ~Idle(c) /\ c \notin waits
  BY DEF SendMessage, Orderly, Scheduled
<1>2. Head(todo[c]) \in [to : Registration, id : 1..MaxMessages]
  <2>1. todo[c] \in Seq([to : Registration, id : 1..MaxMessages]) /\ todo[c] # <<>>
    BY <1>1 DEF Orderly, TypeOK, Idle
  <2> QED
    BY <2>1, HeadTailProperties
<1>3. to[1] \in Conns /\ copy \in [sub : Subs, id : 1..MaxMessages]
  BY <1>2 DEF Registration
<1>4. outq' = outq \/ outq' = [outq EXCEPT ![to[1]] = Append(@, copy)]
  BY DEF SendMessage
<1>5. outq' \in [Conns -> Seq([sub : Subs, id : 1..MaxMessages])]
  <2> DEFINE d == to[1]
             e == copy
  <2>1. /\ d \in Conns /\ e \in [sub : Subs, id : 1..MaxMessages]
        /\ outq' = outq \/ outq' = [outq EXCEPT ![d] = Append(outq[d], e)]
    BY <1>3, <1>4
  <2>2. outq \in [Conns -> Seq([sub : Subs, id : 1..MaxMessages])]
    BY DEF Orderly, TypeOK
  <2> HIDE DEF d, e
  <2>3. Append(outq[d], e) \in Seq([sub : Subs, id : 1..MaxMessages])
    BY <2>1, <2>2, AppendProperties
  <2> QED
    BY <2>1, <2>2, <2>3
<1>6. /\ todo' \in [Conns -> Seq([to : Registration, id : 1..MaxMessages])]
      /\ running' \in Conns \cup {NoConn}
      /\ waits' \subseteq {d \in Conns : todo'[d] # <<>>} /\ Scheduled'
  <2>1. CASE running' = NoConn /\ waits' = waits \cup {c} /\ UNCHANGED todo
    <3>1. \A d \in waits' : d \in Conns /\ todo'[d] # <<>>
      BY <1>1, <2>1 DEF Orderly, TypeOK, Idle
    <3> QED
      BY <2>1, <3>1, TopicConstantsOK DEF Orderly, TypeOK, Scheduled
  <2>2. CASE NextSubscriber(c) /\ UNCHANGED waits
    <3>1. waits' = waits \ {c}
      BY <1>1, <2>2
    <3> QED
      BY <1>1, <2>2, <3>1, NextSubscriberKeeps
  <2> QED
    BY <2>1, <2>2 DEF SendMessage
<1>7. TypeOK'
  BY <1>5, <1>6 DEF SendMessage, clients, Orderly, TypeOK, Idle
<1> QED
  BY <1>6, <1>7 DEF SendMessage, clients, Orderly, AllSent, Sent, Departed, NoGhostSubscriber
-----------------------------------------------------------------------------
(* The client. *)

\* publish() of a client, in a handler or not: the SEND names the new message.
LEMMA PublishKeeps ==
  ASSUME Orderly, NEW c \in Conns, NEW dest \in Destinations,
         Publish(c, dest) \/ Relay(c, dest)
  PROVE  Orderly'
<1> DEFINE f == [do |-> "SEND", id |-> Len(msgs) + 1]
           e == [from |-> c, dest |-> dest]
<1>1. /\ msgs \in Seq([from : Conns, dest : Destinations]) /\ Len(msgs) \in Nat
      /\ Len(msgs) < MaxMessages /\ MaxMessages \in Nat
  <2>1. msgs \in Seq([from : Conns, dest : Destinations])
    BY DEF Orderly, TypeOK
  <2>2. Len(msgs) \in Nat
    BY <2>1
  <2>3. MaxPublished \in Nat /\ MaxMessages \in Nat /\ MaxPublished <= MaxMessages
    BY TopicConstantsOK
  <2>4. Len(msgs) < MaxPublished \/ Len(msgs) < MaxMessages
    BY DEF Publish, Relay
  <2> QED
    BY <2>1, <2>2, <2>3, <2>4
<1>2. e \in [from : Conns, dest : Destinations] /\ msgs' = Append(msgs, e)
  BY DEF Publish, Relay
<1>3. msgs' \in Seq([from : Conns, dest : Destinations]) /\ Len(msgs') = Len(msgs) + 1
  <2> HIDE DEF e
  <2> QED
    BY <1>1, <1>2, AppendProperties
<1>4. f \in Frame /\ (f.do = "SEND" => f.id \in 1..Len(msgs'))
  BY <1>1, <1>3 DEF Frame
<1>5. \/ inq' = inq
      \/ link[c] = "open" /\ inq' = [inq EXCEPT ![c] = Append(@, f)]
  BY DEF Publish, Relay, Writes
<1>6. inq' \in [Conns -> Seq(Frame)] /\ AllSent' /\ Departed'
  <2> HIDE DEF f
  <2>1. link' = link /\ Len(msgs) <= Len(msgs')
    BY <1>1, <1>3 DEF Publish, Relay
  <2> QED
    BY <1>3, <1>4, <1>5, <2>1, WritesKeeps
<1>7. /\ reading' \subseteq Conns \ busy' /\ busy' \subseteq Conns
      /\ relaying' \subseteq busy' /\ closing' \subseteq Conns
  BY DEF Publish, Relay, Orderly, TypeOK
<1>8. TypeOK'
  BY <1>3, <1>6, <1>7 DEF Publish, Relay, server, Orderly, TypeOK, Idle
<1> QED
  BY <1>1, <1>3, <1>6, <1>8
  DEF Publish, Relay, server, Orderly, Scheduled, Idle, NoGhostSubscriber

\* subscribe() and unsubscribe() of a client.
LEMMA SubscribeKeeps ==
  ASSUME Orderly, NEW c \in Conns, NEW s \in Subs,
         (\E dest \in Destinations : Subscribe(c, s, dest)) \/ Unsubscribe(c, s)
  PROVE  Orderly'
<1>1. PICK f \in Frame : f.do # "SEND" /\ Writes(c, f)
  BY DEF Subscribe, Unsubscribe, Frame
<1>2. inq' \in [Conns -> Seq(Frame)] /\ AllSent' /\ Departed'
  <2>1. /\ msgs' = msgs /\ link' = link /\ msgs \in Seq([from : Conns, dest : Destinations])
        /\ Len(msgs) \in Nat
    <3>1. msgs \in Seq([from : Conns, dest : Destinations])
      BY DEF Orderly, TypeOK
    <3>2. Len(msgs) \in Nat
      BY <3>1
    <3> QED
      BY <3>1, <3>2 DEF Subscribe, Unsubscribe
  <2>2. \/ inq' = inq
        \/ link[c] = "open" /\ inq' = [inq EXCEPT ![c] = Append(@, f)]
    BY <1>1 DEF Writes
  <2>3. msgs' \in Seq([from : Conns, dest : Destinations]) /\ Len(msgs) <= Len(msgs')
    BY <2>1
  <2> QED
    BY <1>1, <2>1, <2>2, <2>3, WritesKeeps
<1>3. handlers' \in [Conns -> [Subs -> {"unused", "on", "off"}]]
  <2>1. PICK v \in {"on", "off"} : handlers' = [handlers EXCEPT ![c] = [handlers[c] EXCEPT ![s] = v]]
    BY DEF Subscribe, Unsubscribe
  <2>2. handlers[c] \in [Subs -> {"unused", "on", "off"}]
    BY DEF Orderly, TypeOK
  <2> QED
    BY <2>1, <2>2 DEF Orderly, TypeOK
<1>4. TypeOK'
  BY <1>2, <1>3 DEF Subscribe, Unsubscribe, server, Orderly, TypeOK, Idle
<1> QED
  BY <1>2, <1>4
  DEF Subscribe, Unsubscribe, server, Orderly, Scheduled, Idle, NoGhostSubscriber

\* The listener of a client reads a frame, or its handler ends.
LEMMA ListenerKeeps ==
  ASSUME Orderly, NEW c \in Conns, Listener(c)
  PROVE  Orderly'
<1> USE DEF server
<1>1. CASE Listen(c)
  <2> DEFINE f == Head(outq[c])
             Copy == [sub : Subs, id : 1..MaxMessages]
  <2>1. outq[c] \in Seq(Copy) /\ outq[c] # <<>> /\ outq \in [Conns -> Seq(Copy)]
    BY <1>1 DEF Listen, Orderly, TypeOK
  <2>2. f \in Copy /\ Tail(outq[c]) \in Seq(Copy)
    <3> HIDE DEF Copy
    <3> QED
      BY <2>1, HeadTailProperties
  <2>3. outq' \in [Conns -> Seq(Copy)]
    BY <1>1, <2>1, <2>2 DEF Listen
  <2>4. /\ reading' \subseteq Conns \ busy' /\ busy' \subseteq Conns
        /\ relaying' \subseteq busy' /\ closing' \subseteq Conns
    BY <1>1 DEF Listen, ReadsOn, Orderly, TypeOK
  <2>5. got' \in [Registration -> Seq(1..MaxMessages)]
    <3> DEFINE r == <<c, f.sub>>
               m == f.id
    <3>1. r \in Registration /\ m \in 1..MaxMessages
      BY <2>2 DEF Registration
    <3>2. got' = got \/ got' = [got EXCEPT ![r] = Append(got[r], m)]
      BY <1>1 DEF Listen
    <3>3. got \in [Registration -> Seq(1..MaxMessages)]
      BY DEF Orderly, TypeOK
    <3> HIDE DEF r, m
    <3>4. Append(got[r], m) \in Seq(1..MaxMessages)
      BY <3>1, <3>3, AppendProperties
    <3> QED
      BY <3>1, <3>2, <3>3, <3>4
  <2>6. TypeOK'
    BY <1>1, <2>3, <2>4, <2>5 DEF Listen, Orderly, TypeOK, Idle
  <2> QED
    BY <1>1, <2>6
    DEF Listen, Orderly, Scheduled, Idle, AllSent, Sent, Departed, NoGhostSubscriber
<1>2. CASE HandlerEnds(c)
  <2>1. TypeOK'
    BY <1>2 DEF HandlerEnds, ReadsOn, Orderly, TypeOK, Idle
  <2> QED
    BY <1>2, <2>1
    DEF HandlerEnds, Orderly, Scheduled, Idle, AllSent, Sent, Departed, NoGhostSubscriber
<1>3. CASE EndOfStream(c)
  <2>1. TypeOK'
    BY <1>3 DEF EndOfStream, Orderly, TypeOK, Idle
  <2> QED
    BY <1>3, <2>1
    DEF EndOfStream, Orderly, Scheduled, Idle, AllSent, Sent, Departed, NoGhostSubscriber
<1> QED
  BY <1>1, <1>2, <1>3 DEF Listener

\* close() of a client.
LEMMA CloseKeeps ==
  ASSUME Orderly, NEW c \in Conns, Close(c)
  PROVE  Orderly'
<1> DEFINE f == [do |-> "DISCONNECT"]
<1>1. f \in Frame /\ f.do # "SEND" /\ Writes(c, f)
  BY DEF Close, Frame
<1>2. inq' \in [Conns -> Seq(Frame)] /\ AllSent' /\ Departed'
  <2>1. /\ msgs' = msgs /\ link' = link /\ msgs \in Seq([from : Conns, dest : Destinations])
        /\ Len(msgs) \in Nat
    BY DEF Close, Orderly, TypeOK
  <2>2. \/ inq' = inq
        \/ link[c] = "open" /\ inq' = [inq EXCEPT ![c] = Append(@, f)]
    BY <1>1 DEF Writes
  <2>3. msgs' \in Seq([from : Conns, dest : Destinations]) /\ Len(msgs) <= Len(msgs')
    BY <2>1
  <2> HIDE DEF f
  <2> QED
    BY <1>1, <2>1, <2>2, <2>3, WritesKeeps
<1>3. TypeOK'
  BY <1>2 DEF Close, server, Orderly, TypeOK, Idle
<1> QED
  BY <1>2, <1>3 DEF Close, server, Orderly, Scheduled, Idle, NoGhostSubscriber

\* A connection is lost, with any part of what was under way.
LEMMA SeveredKeeps ==
  ASSUME Orderly, NEW c \in Conns, Severed(c), UNCHANGED <<server, msgs, handlers, got>>,
         client' \in [Conns -> BOOLEAN], closing' \subseteq Conns,
         reading' \subseteq Conns \ busy', busy' \subseteq Conns, relaying' \subseteq busy'
  PROVE  Orderly'
<1> DEFINE Copy == [sub : Subs, id : 1..MaxMessages]
<1>1. PICK n \in 0..Len(inq[c]) : inq' = [inq EXCEPT ![c] = SubSeq(@, 1, n)]
  BY DEF Severed
<1>2. PICK k \in 0..Len(outq[c]) : outq' = [outq EXCEPT ![c] = SubSeq(@, 1, k)]
  BY DEF Severed
<1>3. /\ inq[c] \in Seq(Frame) /\ Len(inq[c]) \in Nat /\ n \in Nat
      /\ outq[c] \in Seq(Copy) /\ Len(outq[c]) \in Nat /\ k \in Nat
  <2>1. inq[c] \in Seq(Frame) /\ outq[c] \in Seq(Copy)
    BY DEF Orderly, TypeOK
  <2> HIDE DEF Copy
  <2> QED
    BY <2>1
<1>4. /\ SubSeq(inq[c], 1, n) \in Seq(Frame) /\ Len(SubSeq(inq[c], 1, n)) = n
      /\ \A i \in 1..n : SubSeq(inq[c], 1, n)[i] = inq[c][i]
  <2>1. \A i \in 1..n : inq[c][i] \in Frame
    BY <1>3
  <2> QED
    BY <1>3, <2>1, SubSeqProperties
<1>5. SubSeq(outq[c], 1, k) \in Seq(Copy)
  <2> HIDE DEF Copy
  <2>1. \A i \in 1..k : outq[c][i] \in Copy
    BY <1>3
  <2> QED
    BY <1>3, <2>1, SubSeqProperties
<1>6. inq' \in [Conns -> Seq(Frame)] /\ outq' \in [Conns -> Seq(Copy)]
  BY <1>1, <1>2, <1>4, <1>5 DEF Orderly, TypeOK
<1>7. AllSent'
  <2>1. ASSUME NEW d \in Conns, NEW i \in 1..Len(inq'[d])
        PROVE  i \in 1..Len(inq[d]) /\ inq'[d][i] = inq[d][i]
    BY <1>1, <1>3, <1>4 DEF Orderly, TypeOK
  <2>2. msgs' = msgs
    OBVIOUS
  <2> QED
    BY <2>1, <2>2 DEF Orderly, AllSent, Sent
<1>8. /\ link' \in [Conns -> {"open", "lost", "gone"}]
      /\ \A d \in Conns : link'[d] = "gone" => d # c /\ link[d] = "gone"
  BY DEF Severed, Orderly, TypeOK
<1>9. Departed' /\ NoGhostSubscriber'
  BY <1>1, <1>8 DEF Severed, server, Orderly, TypeOK, Departed, NoGhostSubscriber
<1>10. TypeOK'
  BY <1>6, <1>8 DEF Severed, server, Orderly, TypeOK, Idle
<1> QED
  BY <1>7, <1>9, <1>10 DEF Severed, server, Orderly, Scheduled, Idle
\* A connection breaks, or its client closes it.
LEMMA LoseKeeps ==
  ASSUME Orderly, NEW c \in Conns, Lose(c) \/ CloseSocket(c)
  PROVE  Orderly'
<1>1. /\ client \in [Conns -> BOOLEAN] /\ closing \subseteq Conns
      /\ reading \subseteq Conns \ busy /\ busy \subseteq Conns /\ relaying \subseteq busy
  BY DEF Orderly, TypeOK
<1>2. /\ client' \in [Conns -> BOOLEAN] /\ closing' \subseteq Conns
      /\ reading' \subseteq Conns \ busy' /\ busy' \subseteq Conns /\ relaying' \subseteq busy'
  BY <1>1 DEF Lose, CloseSocket, clients
<1>3. UNCHANGED <<server, msgs, handlers, got>>
  BY DEF Lose, CloseSocket, clients
<1>4. CASE Severed(c)
  BY <1>2, <1>3, <1>4, SeveredKeeps
<1>5. CASE UNCHANGED <<link, inq, outq>>
  <2>1. TypeOK'
    BY <1>2, <1>3, <1>5 DEF server, Orderly, TypeOK, Idle
  <2> QED
    BY <1>3, <1>5, <2>1
    DEF server, Orderly, Scheduled, Idle, AllSent, Sent, Departed, NoGhostSubscriber
<1> QED
  BY <1>4, <1>5 DEF Lose, CloseSocket
-----------------------------------------------------------------------------
(* The theorems. *)

\* Nobody is connected or registered at first.
LEMMA Beginning == Init => Orderly
<1> SUFFICES ASSUME Init PROVE Orderly
  OBVIOUS
<1>1. TypeOK
  BY DEF Init, TypeOK
<1> QED
  BY <1>1, TopicConstantsOK
  DEF Init, Orderly, Scheduled, AllSent, Departed, NoGhostSubscriber

\* Every step keeps the invariant.
LEMMA Inductive == Orderly /\ [Next]_vars => Orderly'
<1> SUFFICES ASSUME Orderly, [Next]_vars PROVE Orderly'
  OBVIOUS
<1>1. CASE UNCHANGED vars
  <2>1. TypeOK'
    BY <1>1 DEF vars, server, clients, Orderly, TypeOK, Idle
  <2> QED
    BY <1>1, <2>1
    DEF vars, server, clients, Orderly, Scheduled, Idle, AllSent, Sent, Departed, NoGhostSubscriber
<1>2. ASSUME NEW c \in Conns, Handle(c) \/ FansOut(c)
      PROVE  Orderly'
  BY <1>2, ReadSendKeeps, ReadSubscribeKeeps, ReadUnsubscribeKeeps, ReadDisconnectKeeps,
     UnregisterKeeps, SendMessageKeeps, DrainedKeeps DEF Handle, FansOut
<1>3. ASSUME NEW c \in Conns, Listener(c) \/ Close(c) \/ CloseSocket(c) \/ Lose(c)
      PROVE  Orderly'
  BY <1>3, ListenerKeeps, CloseKeeps, LoseKeeps
<1>4. ASSUME NEW c \in Conns, NEW dest \in Destinations, Publish(c, dest) \/ Relay(c, dest)
      PROVE  Orderly'
  BY <1>4, PublishKeeps
<1>5. ASSUME NEW c \in Conns, NEW s \in Subs,
             (\E dest \in Destinations : Subscribe(c, s, dest)) \/ Unsubscribe(c, s)
      PROVE  Orderly'
  BY <1>5, SubscribeKeeps
<1> QED
  BY <1>1, <1>2, <1>3, <1>4, <1>5 DEF Next

\* The invariant holds in every run.
THEOREM Order == Spec => []Orderly
<1> QED
  BY Beginning, Inductive, PTL DEF Spec

\* Every variable keeps its type, and a task of the server that waits in a drain
\* of _handle_send has a subscriber left to send to.
THEOREM Types == Spec => []TypeOK
<1>1. Orderly => TypeOK
  BY DEF Orderly
<1> QED
  BY <1>1, Order, PTL

\* After unregister neither TopicManager index names the connection: a later
\* SUBSCRIBE frame of it cannot be read any more.
THEOREM Ghosts == Spec => []NoGhostSubscriber
<1>1. Orderly => NoGhostSubscriber
  BY DEF Orderly
<1> QED
  BY <1>1, Order, PTL
-----------------------------------------------------------------------------
(* The order of a sequence, without its positions. *)

\* y comes after x in s.
Follows(s, x, y) == \E i, j \in 1..Len(s) : i < j /\ s[i] = x /\ s[j] = y

\* t is s, with some members left out.
Thins(t, s) ==
  /\ Members(t) \subseteq Members(s)
  /\ \A x, y : Follows(t, x, y) => Follows(s, x, y)

\* What is in a sequence and in which order.
LEMMA OrderOf ==
  ASSUME NEW S, NEW s \in Seq(S)
  PROVE  /\ Members(s) \subseteq S /\ (Members(s) = {} <=> s = <<>>)
         /\ \A x, y : Follows(s, x, y) => x \in Members(s) /\ y \in Members(s)
         /\ Thins(s, s)
<1>1. Len(s) \in Nat /\ \A i \in 1..Len(s) : s[i] \in S
  BY LenProperties, ElementOfSeq
<1>2. s # <<>> => 1 \in 1..Len(s)
  BY <1>1, EmptySeq
<1>3. s = <<>> => Len(s) = 0
  BY EmptySeq
<1>4. Members(s) \subseteq S
  BY <1>1 DEF Members
<1>5. Members(s) = {} <=> s = <<>>
  <2>1. s # <<>> => s[1] \in Members(s)
    BY <1>2 DEF Members
  <2>2. s = <<>> => 1..Len(s) = {}
    BY <1>3
  <2> QED
    BY <2>1, <2>2 DEF Members
<1>6. \A x, y : Follows(s, x, y) => x \in Members(s) /\ y \in Members(s)
  BY DEF Members, Follows
<1> QED
  BY <1>4, <1>5, <1>6 DEF Thins

\* Append.
LEMMA AppendOrder ==
  ASSUME NEW S, NEW s \in Seq(S), NEW z \in S
  PROVE  /\ Members(Append(s, z)) = Members(s) \cup {z}
         /\ \A x, y : Follows(Append(s, z), x, y) =>
              Follows(s, x, y) \/ (x \in Members(s) /\ y = z)
<1> DEFINE t == Append(s, z)
<1>1. /\ Len(s) \in Nat /\ Len(t) = Len(s) + 1 /\ t[Len(s) + 1] = z
      /\ \A i \in 1..Len(s) : t[i] = s[i]
  BY LenProperties, AppendProperties
<1> HIDE DEF t
<1>2. \A i \in 1..Len(t) : i \in 1..Len(s) \/ i = Len(s) + 1
  BY <1>1
<1>3. Len(s) + 1 \in 1..Len(t) /\ \A i \in 1..Len(s) : i \in 1..Len(t)
  BY <1>1
<1>4. Members(t) = Members(s) \cup {z}
  BY <1>1, <1>2, <1>3 DEF Members
<1>5. ASSUME NEW x, NEW y, Follows(t, x, y)
      PROVE  Follows(s, x, y) \/ (x \in Members(s) /\ y = z)
  <2>1. PICK i \in 1..Len(t), j \in 1..Len(t) : i < j /\ t[i] = x /\ t[j] = y
    BY <1>5 DEF Follows
  <2>2. i \in 1..Len(s)
    BY <1>1, <1>2, <2>1
  <2>3. x \in Members(s)
    BY <1>1, <2>1, <2>2 DEF Members
  <2>4. CASE j \in 1..Len(s)
    BY <1>1, <2>1, <2>2, <2>4 DEF Follows
  <2>5. CASE j = Len(s) + 1
    BY <1>1, <2>1, <2>3, <2>5
  <2> QED
    BY <1>2, <2>4, <2>5
<1> QED
  BY <1>4, <1>5 DEF t

\* Head and Tail.
LEMMA TailOrder ==
  ASSUME NEW S, NEW s \in Seq(S), s # <<>>
  PROVE  /\ Members(s) = Members(Tail(s)) \cup {Head(s)} /\ Thins(Tail(s), s)
         /\ \A y \in Members(Tail(s)) : Follows(s, Head(s), y)
<1> DEFINE t == Tail(s)
<1>1. /\ Len(s) \in Nat /\ 1 \in 1..Len(s) /\ Len(t) = Len(s) - 1 /\ Head(s) = s[1]
      /\ \A i \in 1..Len(t) : t[i] = s[i + 1]
  BY LenProperties, EmptySeq, HeadTailProperties
<1> HIDE DEF t
<1>2. \A i \in 1..Len(t) : i + 1 \in 1..Len(s) /\ 1 < i + 1
  BY <1>1
<1>3. \A i \in 1..Len(s) : i = 1 \/ (i - 1 \in 1..Len(t) /\ t[i - 1] = s[i])
  BY <1>1
<1>4. Members(s) = Members(t) \cup {Head(s)}
  BY <1>1, <1>2, <1>3 DEF Members
<1>5. ASSUME NEW x, NEW y, Follows(t, x, y)
      PROVE  Follows(s, x, y)
  <2>1. PICK i \in 1..Len(t), j \in 1..Len(t) : i < j /\ t[i] = x /\ t[j] = y
    BY <1>5 DEF Follows
  <2>2. i + 1 < j + 1 /\ s[i + 1] = x /\ s[j + 1] = y
    BY <1>1, <2>1
  <2> QED
    BY <1>2, <2>2 DEF Follows
<1>6. \A y \in Members(t) : Follows(s, Head(s), y)
  BY <1>1, <1>2 DEF Members, Follows
<1> QED
  BY <1>4, <1>5, <1>6 DEF t, Thins

\* The beginning of a sequence.
LEMMA CutOrder ==
  ASSUME NEW S, NEW s \in Seq(S), NEW n \in 0..Len(s)
  PROVE  Thins(SubSeq(s, 1, n), s)
<1> DEFINE t == SubSeq(s, 1, n)
<1>1. Len(s) \in Nat /\ \A i \in 1..Len(s) : s[i] \in S
  BY LenProperties, ElementOfSeq
<1>2. n \in Int /\ \A i \in 1..n : s[i] \in S
  BY <1>1
<1>3. Len(t) = n /\ \A i \in 1..n : t[i] = s[i]
  BY <1>1, <1>2, SubSeqProperties
<1> HIDE DEF t
<1>4. \A i \in 1..Len(t) : i \in 1..Len(s) /\ t[i] = s[i]
  BY <1>1, <1>3
<1> QED
  BY <1>4 DEF Thins, Members, Follows, t

\* A list comprehension.
LEMMA WithoutThins ==
  ASSUME NEW S, NEW s \in Seq(S), NEW X
  PROVE  Members(Without(s, X)) = Members(s) \ X /\ Thins(Without(s, X), s)
<1> DEFINE t == Without(s, X)
<1>1. Members(t) = Members(s) \ X
  BY WithoutMembers
<1>2. \A i, j \in 1..Len(t) :
        i < j => \E k, l \in 1..Len(s) : k < l /\ t[i] = s[k] /\ t[j] = s[l]
  BY WithoutOrder
<1> HIDE DEF t
<1>3. ASSUME NEW x, NEW y, Follows(t, x, y)
      PROVE  Follows(s, x, y)
  <2>1. PICK i \in 1..Len(t), j \in 1..Len(t) : i < j /\ t[i] = x /\ t[j] = y
    BY <1>3 DEF Follows
  <2> QED
    BY <1>2, <2>1 DEF Follows
<1> QED
  BY <1>1, <1>3 DEF Thins, t
-----------------------------------------------------------------------------
(* What is under way, in which order. *)

\* A message of c that the server has read.
Routed(c, id) ==
  /\ id \in 1..Len(msgs) /\ msgs[id].from = c
  /\ \A f \in Members(inq[c]) : f.do = "SEND" => id < f.id

\* A connection carries the messages of its own client, in their order.
InOrder ==
  \A c \in Conns : \A f \in Members(inq[c]) : f.do = "SEND" =>
    /\ msgs[f.id].from = c
    /\ \A g \in Members(inq[c]) : g.do = "SEND" /\ Follows(inq[c], f, g) => f.id < g.id

\* A task sends one message that was read, to each of its subscribers once.
FanningOut ==
  \A c \in Conns : \A t \in Members(todo[c]) :
    /\ Routed(c, t.id)
    /\ \A u \in Members(todo[c]) : t.id = u.id /\ (Follows(todo[c], t, u) => t.to # u.to)

\* The copy e in the outbox of d is older than all that its publisher c still
\* has to be read, or to be sent to the same subscription.
OlderCopy(d, e, c) ==
  /\ Routed(c, e.id)
  /\ \A t \in Members(todo[c]) : e.id <= t.id
  /\ \A t \in Members(Unsent(c)) : t.to = <<d, e.sub>> => e.id < t.id
  /\ \A g \in Members(outq[d]) :
       Follows(outq[d], e, g) /\ g.sub = e.sub /\ msgs[g.id].from = c => e.id < g.id
Copied == \A d \in Conns : \A e \in Members(outq[d]) : OlderCopy(d, e, msgs[e.id].from)

\* Both indexes of TopicManager hold what Connection.subscriptions says.
Indexed ==
  /\ \A c \in Conns, s \in Subs, dest \in Destinations :
       /\ <<c, s>> \in exact[dest] <=> Registered(<<c, s>>) = dest /\ ~HasStar(dest)
       /\ <<dest, c, s>> \in Members(wildcard) <=> Registered(<<c, s>>) = dest /\ HasStar(dest)
  /\ \A v, w \in Members(wildcard) : Follows(wildcard, v, w) => <<v[2], v[3]>> # <<w[2], w[3]>>

\* A subscription id is used once.
SubscribesOnce ==
  \A c \in Conns :
    /\ \A s \in Subs : handlers[c][s] = "unused" => subs[c][s] = NoDest
    /\ \A f \in Members(inq[c]) : f.do = "SUBSCRIBE" =>
         /\ handlers[c][f.sub] # "unused" /\ subs[c][f.sub] = NoDest
         /\ \A g \in Members(inq[c]) : g.do = "SUBSCRIBE" /\ Follows(inq[c], f, g) => g.sub # f.sub

Ordered == InOrder /\ FanningOut /\ Copied
Known == Indexed /\ SubscribesOnce
Promising == Orderly /\ Ordered /\ Known

\* Of the frames of one kind, t has those of s with some left out.
ThinsOf(kind, t, s) ==
  \A f \in Members(t) : f.do = kind =>
    /\ f \in Members(s)
    /\ \A g \in Members(t) : g.do = kind /\ Follows(t, f, g) => Follows(s, f, g)

\* Nothing new is under way.
Shrinks ==
  /\ msgs' = msgs
  /\ \A c \in Conns : /\ ThinsOf("SEND", inq'[c], inq[c]) /\ Thins(todo'[c], todo[c])
                      /\ Thins(Unsent(c)', Unsent(c)) /\ Thins(outq'[c], outq[c])

\* A message that was published has a publisher and a topic.
LEMMA SentBy ==
  ASSUME Orderly, NEW id \in 1..Len(msgs)
  PROVE  msgs[id].from \in Conns /\ msgs[id].dest \in Destinations /\ id \in Nat
<1>1. msgs \in Seq([from : Conns, dest : Destinations])
  BY DEF Orderly, TypeOK
<1> DEFINE Message == [from : Conns, dest : Destinations]
<1>2. msgs \in Seq(Message)
  BY <1>1
<1> HIDE DEF Message
<1>3. msgs[id] \in Message /\ Len(msgs) \in Nat
  BY <1>2, ElementOfSeq, LenProperties
<1> QED
  BY <1>3 DEF Message

\* What is under way stays ordered when parts of it go.
LEMMA ShrinksKeeps ==
  ASSUME Orderly, Ordered, Shrinks
  PROVE  Ordered'
<1>1. msgs' = msgs /\ msgs \in Seq([from : Conns, dest : Destinations])
  BY DEF Shrinks, Orderly, TypeOK
<1>2. \A id \in 1..Len(msgs) : msgs[id].from \in Conns
  BY <1>1, SentBy
<1>3. ASSUME NEW c \in Conns, NEW id, Routed(c, id)
      PROVE  Routed(c, id)'
  BY <1>1, <1>3 DEF Routed, Shrinks, ThinsOf
<1>4. InOrder'
  BY <1>1 DEF Ordered, InOrder, Shrinks, ThinsOf
<1>5. FanningOut'
  BY <1>3 DEF Ordered, FanningOut, Shrinks, Thins
<1>6. ASSUME NEW d \in Conns, NEW e \in Members(outq'[d])
      PROVE  OlderCopy(d, e, msgs[e.id].from)'
  <2>1. PICK c : c = msgs[e.id].from
    OBVIOUS
  <2>2. e \in Members(outq[d]) /\ OlderCopy(d, e, c)
    BY <1>6, <2>1 DEF Ordered, Copied, Shrinks, Thins
  <2>3. Routed(c, e.id) /\ c \in Conns
    BY <1>2, <2>1, <2>2 DEF OlderCopy, Routed
  <2>4. Routed(c, e.id)'
    BY <1>3, <2>3
  <2>5. OlderCopy(d, e, c)'
    BY <1>1, <2>2, <2>3, <2>4 DEF OlderCopy, Shrinks, Thins
  <2> QED
    BY <1>1, <2>1, <2>5
<1> QED
  BY <1>4, <1>5, <1>6 DEF Ordered, Copied

\* Where nothing changes nothing goes.
LEMMA SameThins == \A s : Thins(s, s) /\ \A kind : ThinsOf(kind, s, s)
BY DEF Thins, ThinsOf

\* The server takes the next frame of c.
LEMMA ReadsOrder ==
  ASSUME Orderly, NEW c \in Conns, NEW do, Reads(c, do)
  PROVE  /\ \A d \in Conns \ {c} : inq'[d] = inq[d]
         /\ inq'[c] = Tail(inq[c]) /\ Head(inq[c]).do = do /\ Head(inq[c]) \in Frame
         /\ Members(inq[c]) = Members(inq'[c]) \cup {Head(inq[c])}
         /\ \A d \in Conns : Thins(inq'[d], inq[d])
         /\ \A f \in Members(inq'[c]) : Follows(inq[c], Head(inq[c]), f)
<1> DEFINE q == inq[c]
<1>1. q \in Seq(Frame) /\ q # <<>> /\ inq \in [Conns -> Seq(Frame)]
  BY DEF Reads, Orderly, TypeOK
<1>2. inq' = [inq EXCEPT ![c] = Tail(q)] /\ Head(q).do = do
  BY DEF Reads
<1> HIDE DEF q
<1>3. /\ Members(q) = Members(Tail(q)) \cup {Head(q)} /\ Thins(Tail(q), q)
      /\ \A y \in Members(Tail(q)) : Follows(q, Head(q), y)
      /\ Head(q) \in Frame
  BY <1>1, TailOrder, HeadTailProperties
<1>4. inq'[c] = Tail(q) /\ \A d \in Conns \ {c} : inq'[d] = inq[d]
  BY <1>1, <1>2
<1> QED
  BY <1>2, <1>3, <1>4, SameThins DEF q

\* Thinning a sequence thins its frames of one kind.
LEMMA ThinsThinsOf == \A s, t, kind : Thins(t, s) => ThinsOf(kind, t, s)
BY DEF Thins, ThinsOf

\* The client c writes a frame.
LEMMA WritesOrder ==
  ASSUME Orderly, NEW c \in Conns, NEW f \in Frame,
         \/ inq' = inq
         \/ inq' = [inq EXCEPT ![c] = Append(@, f)]
  PROVE  /\ \A d \in Conns \ {c} : inq'[d] = inq[d]
         /\ Members(inq'[c]) \subseteq Members(inq[c]) \cup {f}
         /\ \A x, y : Follows(inq'[c], x, y) =>
              Follows(inq[c], x, y) \/ (x \in Members(inq[c]) /\ y = f)
         /\ \A d \in Conns : \A kind : kind # f.do => ThinsOf(kind, inq'[d], inq[d])
<1> DEFINE q == inq[c]
<1>1. q \in Seq(Frame) /\ inq \in [Conns -> Seq(Frame)]
  BY DEF Orderly, TypeOK
<1>2. inq' = inq \/ inq' = [inq EXCEPT ![c] = Append(q, f)]
  OBVIOUS
<1> HIDE DEF q
<1>3. /\ Members(Append(q, f)) = Members(q) \cup {f}
      /\ \A x, y : Follows(Append(q, f), x, y) => Follows(q, x, y) \/ (x \in Members(q) /\ y = f)
  BY <1>1, AppendOrder
<1>4. \A kind : kind # f.do => ThinsOf(kind, Append(q, f), q)
  BY <1>3 DEF ThinsOf
<1>5. CASE inq' = inq
  BY <1>5, SameThins DEF q
<1>6. CASE inq' = [inq EXCEPT ![c] = Append(q, f)]
  <2>1. inq'[c] = Append(q, f) /\ \A d \in Conns \ {c} : inq'[d] = inq[d]
    BY <1>1, <1>6
  <2>2. \A d \in Conns : \A kind : kind # f.do => ThinsOf(kind, inq'[d], inq[d])
    BY <1>4, <2>1, SameThins DEF q
  <2> QED
    BY <1>3, <2>1, <2>2 DEF q
<1> QED
  BY <1>2, <1>5, <1>6
-----------------------------------------------------------------------------
(* Each operation keeps what is under way in order. *)

Copies == [to : Registration, id : 1..MaxMessages]

\* A handler that sends nothing.
LEMMA ReadShrinks ==
  ASSUME Orderly, NEW c \in Conns, NEW do, Reads(c, do), UNCHANGED <<todo, waits, outq, msgs>>
  PROVE  Shrinks
<1>1. \A d \in Conns : Thins(inq'[d], inq[d])
  BY ReadsOrder
<1>2. \A d \in Conns : Unsent(d)' = Unsent(d)
  BY DEF Unsent
<1> QED
  BY <1>1, <1>2, SameThins, ThinsThinsOf DEF Shrinks

\* A frame of a client that is no SEND.
LEMMA WriteShrinks ==
  ASSUME Orderly, NEW c \in Conns, NEW f \in Frame, f.do # "SEND",
         UNCHANGED <<todo, waits, outq, msgs>>,
         \/ inq' = inq
         \/ inq' = [inq EXCEPT ![c] = Append(@, f)]
  PROVE  Shrinks
<1>1. \A d \in Conns : ThinsOf("SEND", inq'[d], inq[d])
  BY WritesOrder
<1>2. \A d \in Conns : Unsent(d)' = Unsent(d)
  BY DEF Unsent
<1> QED
  BY <1>1, <1>2, SameThins DEF Shrinks

\* The task of c is done with the subscriber its drain was for.
LEMMA DrainedOrder ==
  ASSUME Orderly, NEW c \in Conns, Drained(c)
  PROVE  Shrinks /\ \A d \in Conns : Unsent(d)' = Unsent(d)
<1>1. c \in waits /\ todo[c] # <<>> /\ waits' = waits \ {c}
  BY DEF Drained, Orderly, TypeOK, Idle
<1>2. todo \in [Conns -> Seq(Copies)]
  BY DEF Orderly, TypeOK, Copies
<1>3. Thins(Tail(todo[c]), todo[c])
  BY <1>1, <1>2, TailOrder
<1>4. todo'[c] = Tail(todo[c]) /\ \A d \in Conns \ {c} : todo'[d] = todo[d]
  BY <1>2 DEF Drained, NextSubscriber
<1>5. \A d \in Conns : Unsent(d)' = Unsent(d)
  BY <1>1, <1>4 DEF Unsent
<1>6. \A d \in Conns : Thins(todo'[d], todo[d])
  BY <1>3, <1>4, SameThins
<1> QED
  BY <1>5, <1>6, SameThins DEF Shrinks, Drained, clients

\* The task of c has written its first copy, and waits or goes on.
LEMMA SendMessageOrder ==
  ASSUME Orderly, NEW c \in Conns, SendMessage(c)
  PROVE  /\ Unsent(c) = todo[c] /\ todo[c] # <<>> /\ Unsent(c)' = Tail(todo[c])
         /\ todo'[c] = todo[c] \/ todo'[c] = Tail(todo[c])
         /\ \A d \in Conns \ {c} : todo'[d] = todo[d] /\ Unsent(d)' = Unsent(d)
         /\ \A d \in Conns : Thins(todo'[d], todo[d]) /\ Thins(Unsent(d)', Unsent(d))
         /\ Head(todo[c]) \in Copies /\ Head(todo[c]) \in Members(todo[c])
         /\ Members(todo[c]) = Members(Tail(todo[c])) \cup {Head(todo[c])}
         /\ \A t \in Members(Tail(todo[c])) : Follows(todo[c], Head(todo[c]), t)
<1>1. running = c /\ todo[c] # <<>> /\ c \notin waits
  BY DEF SendMessage, Orderly, Scheduled, Idle
<1>2. todo \in [Conns -> Seq(Copies)] /\ todo[c] \in Seq(Copies)
  BY DEF Orderly, TypeOK, Copies
<1>3. /\ Members(todo[c]) = Members(Tail(todo[c])) \cup {Head(todo[c])}
      /\ \A t \in Members(Tail(todo[c])) : Follows(todo[c], Head(todo[c]), t)
      /\ Thins(Tail(todo[c]), todo[c])
  BY <1>1, <1>2, TailOrder
<1>4. Head(todo[c]) \in Copies
  BY <1>1, <1>2, HeadTailProperties
<1>5. \/ waits' = waits \cup {c} /\ todo' = todo
      \/ waits' = waits /\ todo' = [todo EXCEPT ![c] = Tail(@)]
  BY DEF SendMessage, NextSubscriber
<1>6. /\ todo'[c] = todo[c] \/ todo'[c] = Tail(todo[c])
      /\ \A d \in Conns \ {c} : todo'[d] = todo[d]
  BY <1>2, <1>5
<1>7. /\ Unsent(c) = todo[c] /\ Unsent(c)' = Tail(todo[c])
      /\ \A d \in Conns \ {c} : Unsent(d)' = Unsent(d)
  BY <1>1, <1>2, <1>5 DEF Unsent
<1>8. \A d \in Conns : Thins(todo'[d], todo[d]) /\ Thins(Unsent(d)', Unsent(d))
  BY <1>3, <1>6, <1>7, SameThins
<1> QED
  BY <1>1, <1>3, <1>4, <1>6, <1>7, <1>8

\* A copy that meets a broken connection is dropped.
LEMMA DropShrinks ==
  ASSUME Orderly, NEW c \in Conns, SendMessage(c), link[Head(todo[c]).to[1]] # "open"
  PROVE  Shrinks
<1>1. \A d \in Conns : Thins(todo'[d], todo[d]) /\ Thins(Unsent(d)', Unsent(d))
  BY SendMessageOrder
<1>2. outq' = outq /\ inq' = inq /\ msgs' = msgs
  BY DEF SendMessage, clients
<1> QED
  BY <1>1, <1>2, SameThins DEF Shrinks

\* The listener takes a frame.
LEMMA ListenOrder ==
  ASSUME Orderly, NEW c \in Conns, Listen(c)
  PROVE  /\ \A d \in Conns \ {c} : outq'[d] = outq[d]
         /\ Members(outq[c]) = Members(outq'[c]) \cup {Head(outq[c])}
         /\ \A e \in Members(outq'[c]) : Follows(outq[c], Head(outq[c]), e)
         /\ Head(outq[c]) \in [sub : Subs, id : 1..MaxMessages]
         /\ Shrinks /\ \A d \in Conns : Unsent(d)' = Unsent(d)
<1> DEFINE q == outq[c]
           Copy == [sub : Subs, id : 1..MaxMessages]
<1>1. q \in Seq(Copy) /\ q # <<>> /\ outq \in [Conns -> Seq(Copy)]
  BY DEF Listen, Orderly, TypeOK
<1>2. outq' = [outq EXCEPT ![c] = Tail(q)]
  BY DEF Listen
<1> HIDE DEF q, Copy
<1>3. /\ Members(q) = Members(Tail(q)) \cup {Head(q)} /\ Thins(Tail(q), q)
      /\ \A y \in Members(Tail(q)) : Follows(q, Head(q), y)
  BY <1>1, TailOrder
<1>4. Head(q) \in Copy
  BY <1>1, HeadTailProperties
<1>5. outq'[c] = Tail(q) /\ \A d \in Conns \ {c} : outq'[d] = outq[d]
  BY <1>1, <1>2
<1>6. \A d \in Conns : Thins(outq'[d], outq[d])
  BY <1>3, <1>5, SameThins DEF q
<1>7. \A d \in Conns : Unsent(d)' = Unsent(d)
  BY DEF Unsent, Listen, server
<1>8. Shrinks
  BY <1>6, <1>7, SameThins DEF Shrinks, Listen, server
<1> QED
  BY <1>3, <1>4, <1>5, <1>7, <1>8 DEF q, Copy

\* What was on a connection is cut off.
LEMMA SeveredOrder ==
  ASSUME Orderly, NEW c \in Conns, Severed(c), UNCHANGED <<server, msgs>>
  PROVE  /\ \A d \in Conns \ {c} : inq'[d] = inq[d] /\ outq'[d] = outq[d]
         /\ \A d \in Conns : Thins(inq'[d], inq[d]) /\ Thins(outq'[d], outq[d])
         /\ Shrinks /\ \A d \in Conns : Unsent(d)' = Unsent(d)
<1> DEFINE Copy == [sub : Subs, id : 1..MaxMessages]
<1>1. /\ inq \in [Conns -> Seq(Frame)] /\ outq \in [Conns -> Seq(Copy)]
      /\ inq[c] \in Seq(Frame) /\ outq[c] \in Seq(Copy)
  BY DEF Orderly, TypeOK
<1> HIDE DEF Copy
<1>2. PICK n \in 0..Len(inq[c]) : inq' = [inq EXCEPT ![c] = SubSeq(@, 1, n)]
  BY DEF Severed
<1>3. PICK k \in 0..Len(outq[c]) : outq' = [outq EXCEPT ![c] = SubSeq(@, 1, k)]
  BY DEF Severed
<1>4. /\ inq'[c] = SubSeq(inq[c], 1, n) /\ outq'[c] = SubSeq(outq[c], 1, k)
      /\ \A d \in Conns \ {c} : inq'[d] = inq[d] /\ outq'[d] = outq[d]
  BY <1>1, <1>2, <1>3
<1>5. Thins(inq'[c], inq[c])
  BY <1>1, <1>4, CutOrder
<1>6. Thins(outq'[c], outq[c])
  BY <1>1, <1>4, CutOrder
<1>7. \A d \in Conns : Thins(inq'[d], inq[d]) /\ Thins(outq'[d], outq[d])
  BY <1>4, <1>5, <1>6, SameThins
<1>8. \A d \in Conns : Unsent(d)' = Unsent(d)
  BY DEF Unsent, server
<1>9. Shrinks
  BY <1>7, <1>8, SameThins, ThinsThinsOf DEF Shrinks, server
<1> QED
  BY <1>4, <1>7, <1>8, <1>9

\* The connection of c breaks, or is closed.
LEMMA LoseOrder ==
  ASSUME Orderly, NEW c \in Conns, Lose(c) \/ CloseSocket(c)
  PROVE  /\ \A d \in Conns \ {c} : inq'[d] = inq[d] /\ outq'[d] = outq[d]
         /\ \A d \in Conns : Thins(inq'[d], inq[d]) /\ Thins(outq'[d], outq[d])
         /\ Shrinks /\ \A d \in Conns : Unsent(d)' = Unsent(d)
<1>1. UNCHANGED <<server, msgs>>
  BY DEF Lose, CloseSocket, clients
<1>2. CASE Severed(c)
  BY <1>1, <1>2, SeveredOrder
<1>3. CASE UNCHANGED <<link, inq, outq>>
  <2>1. \A d \in Conns : Unsent(d)' = Unsent(d)
    BY <1>1 DEF Unsent, server
  <2> QED
    BY <1>1, <1>3, <2>1, SameThins, ThinsThinsOf DEF Shrinks, server
<1> QED
  BY <1>2, <1>3 DEF Lose, CloseSocket

\* A message is published.
LEMMA PublishOrder ==
  ASSUME Orderly, NEW c \in Conns, NEW dest \in Destinations,
         Publish(c, dest) \/ Relay(c, dest)
  PROVE  LET m == Len(msgs) + 1
             f == [do |-> "SEND", id |-> m]
         IN  /\ link[c] = "open" /\ Len(msgs) \in Nat
             /\ msgs' = Append(msgs, [from |-> c, dest |-> dest])
             /\ Len(msgs') = m /\ msgs'[m].from = c /\ \A i \in 1..Len(msgs) : msgs'[i] = msgs[i]
             /\ f \in Frame /\ inq' = [inq EXCEPT ![c] = Append(@, f)]
             /\ inq'[c] = Append(inq[c], f)
             /\ UNCHANGED <<server, link, outq, handlers, client, got>>
<1> DEFINE Message == [from : Conns, dest : Destinations]
           m == Len(msgs) + 1
           f == [do |-> "SEND", id |-> m]
           e == [from |-> c, dest |-> dest]
<1>1. /\ link[c] = "open" /\ inq' = [inq EXCEPT ![c] = Append(@, f)]
      /\ msgs' = Append(msgs, e) /\ (Len(msgs) < MaxPublished \/ Len(msgs) < MaxMessages)
      /\ UNCHANGED <<server, link, outq, handlers, client, got>>
  BY DEF Publish, Relay, Writes
<1>2. msgs \in Seq(Message) /\ e \in Message /\ e.from = c
  BY DEF Orderly, TypeOK
<1> HIDE DEF Message, e
<1>3. /\ Len(msgs') = m /\ msgs'[m] = e /\ \A i \in 1..Len(msgs) : msgs'[i] = msgs[i]
      /\ Len(msgs) \in Nat
  BY <1>1, <1>2, AppendProperties, LenProperties
<1>4. f \in Frame
  BY <1>1, <1>3, TopicConstantsOK DEF Frame
<1>5. inq'[c] = Append(inq[c], f)
  BY <1>1 DEF Orderly, TypeOK
<1> QED
  BY <1>1, <1>2, <1>3, <1>4, <1>5 DEF e

\* What is published comes last.
LEMMA PublishKeepsOrder ==
  ASSUME Orderly, Ordered, NEW c \in Conns, NEW dest \in Destinations,
         Publish(c, dest) \/ Relay(c, dest)
  PROVE  Ordered'
<1> DEFINE m == Len(msgs) + 1
           f == [do |-> "SEND", id |-> m]
<1>1. /\ Len(msgs) \in Nat /\ Len(msgs') = m /\ msgs'[m].from = c
      /\ \A i \in 1..Len(msgs) : msgs'[i] = msgs[i]
      /\ f \in Frame /\ inq' = [inq EXCEPT ![c] = Append(@, f)]
      /\ todo' = todo /\ waits' = waits /\ outq' = outq
  BY PublishOrder DEF server
<1>2. /\ \A d \in Conns \ {c} : inq'[d] = inq[d]
      /\ Members(inq'[c]) \subseteq Members(inq[c]) \cup {f}
      /\ \A x, y : Follows(inq'[c], x, y) =>
           Follows(inq[c], x, y) \/ (x \in Members(inq[c]) /\ y = f)
  <2> HIDE DEF f
  <2> QED
    BY <1>1, WritesOrder
<1>3. f.do = "SEND" /\ f.id = m
  OBVIOUS
<1> HIDE DEF f
<1>4. \A d \in Conns : \A g \in Members(inq[d]) :
        g.do = "SEND" => g.id \in 1..Len(msgs) /\ g.id < m
  BY <1>1 DEF Members, Orderly, AllSent, Sent
<1>5. ASSUME NEW d \in Conns, NEW id, Routed(d, id)
      PROVE  Routed(d, id)'
  BY <1>1, <1>2, <1>3, <1>5 DEF Routed
<1>6. InOrder'
  <2>1. ASSUME NEW d \in Conns, NEW g \in Members(inq'[d]), g.do = "SEND"
        PROVE  /\ msgs'[g.id].from = d
               /\ \A h \in Members(inq'[d]) :
                    h.do = "SEND" /\ Follows(inq'[d], g, h) => g.id < h.id
    <3>1. CASE d # c
      BY <1>1, <1>2, <1>4, <2>1, <3>1 DEF Ordered, InOrder
    <3>2. CASE d = c
      <4>1. msgs'[g.id].from = c
        BY <1>1, <1>2, <1>3, <1>4, <2>1, <3>2 DEF Ordered, InOrder
      <4>2. ASSUME NEW h \in Members(inq'[c]), h.do = "SEND", Follows(inq'[c], g, h)
            PROVE  g.id < h.id
        <5>1. CASE Follows(inq[c], g, h)
          <6>1. g \in Members(inq[c]) /\ h \in Members(inq[c])
            BY <5>1 DEF Follows, Members
          <6> QED
            BY <2>1, <4>2, <5>1, <6>1 DEF Ordered, InOrder
        <5>2. CASE g \in Members(inq[c]) /\ h = f
          BY <1>3, <1>4, <2>1, <5>2
        <5> QED
          BY <1>2, <4>2, <5>1, <5>2
      <4> QED
        BY <3>2, <4>1, <4>2
    <3> QED
      BY <3>1, <3>2
  <2> QED
    BY <2>1 DEF InOrder
<1>7. FanningOut'
  BY <1>1, <1>5 DEF Ordered, FanningOut
<1>8. ASSUME NEW d \in Conns, NEW e \in Members(outq[d])
      PROVE  OlderCopy(d, e, msgs[e.id].from)'
  <2>1. PICK p : p = msgs[e.id].from
    OBVIOUS
  <2>2. OlderCopy(d, e, p) /\ Routed(p, e.id)
    BY <2>1 DEF Ordered, Copied, OlderCopy
  <2>3. p \in Conns /\ msgs'[e.id] = msgs[e.id] /\ Routed(p, e.id)'
    BY <1>1, <1>5, <2>1, <2>2, SentBy DEF Routed
  <2>4. \A g \in Members(outq[d]) : g.id \in 1..Len(msgs) /\ msgs'[g.id] = msgs[g.id]
    BY <1>1 DEF Ordered, Copied, OlderCopy, Routed
  <2>5. Unsent(p)' = Unsent(p)
    BY <1>1 DEF Unsent
  <2>6. OlderCopy(d, e, p)'
    BY <1>1, <2>2, <2>3, <2>4, <2>5 DEF OlderCopy
  <2> QED
    BY <2>1, <2>3, <2>6
<1> QED
  BY <1>1, <1>6, <1>7, <1>8 DEF Ordered, Copied

\* A copy that is written comes after those of earlier messages.
LEMMA CopyKeepsOrder ==
  ASSUME Orderly, Ordered, NEW c \in Conns, SendMessage(c),
         link[Head(todo[c]).to[1]] = "open"
  PROVE  Ordered'
<1> DEFINE first == Head(todo[c])
           Copy == [sub : Subs, id : 1..MaxMessages]
<1>1. /\ Unsent(c) = todo[c] /\ todo[c] # <<>> /\ Unsent(c)' = Tail(todo[c])
      /\ todo'[c] = todo[c] \/ todo'[c] = Tail(todo[c])
      /\ \A p \in Conns \ {c} : todo'[p] = todo[p] /\ Unsent(p)' = Unsent(p)
      /\ \A p \in Conns : Thins(todo'[p], todo[p]) /\ Thins(Unsent(p)', Unsent(p))
      /\ first \in Copies /\ first \in Members(todo[c])
      /\ Members(todo[c]) = Members(Tail(todo[c])) \cup {first}
      /\ \A t \in Members(Tail(todo[c])) : Follows(todo[c], first, t)
  BY SendMessageOrder
<1>2. PICK d \in Conns, e \in Copy : first.to = <<d, e.sub>> /\ e.id = first.id
  <2>1. first.to \in Conns \X Subs /\ first.id \in 1..MaxMessages
    BY <1>1 DEF Copies, Registration
  <2>2. PICK d \in Conns, s \in Subs : first.to = <<d, s>>
    BY <2>1
  <2> DEFINE e == [sub |-> s, id |-> first.id]
  <2>3. e \in Copy /\ e.sub = s /\ e.id = first.id
    BY <2>1
  <2> QED
    BY <2>2, <2>3
<1>3. outq' = [outq EXCEPT ![d] = Append(@, e)] /\ inq' = inq /\ msgs' = msgs
  <2>1. d = first.to[1] /\ e = [sub |-> first.to[2], id |-> first.id]
    BY <1>2 DEF Copy
  <2> QED
    BY <2>1 DEF SendMessage, clients
<1>4. outq \in [Conns -> Seq(Copy)] /\ outq[d] \in Seq(Copy)
  BY <1>2 DEF Orderly, TypeOK
<1> HIDE DEF first, Copy
<1>5. outq'[d] = Append(outq[d], e) /\ \A p \in Conns \ {d} : outq'[p] = outq[p]
  BY <1>2, <1>3, <1>4
<1>6. /\ Members(outq'[d]) = Members(outq[d]) \cup {e}
      /\ \A x, y : Follows(outq'[d], x, y) =>
           Follows(outq[d], x, y) \/ (x \in Members(outq[d]) /\ y = e)
  BY <1>2, <1>4, <1>5, AppendOrder
<1>7. \A p, id : Routed(p, id)' <=> Routed(p, id)
  BY <1>3 DEF Routed
<1>8. Routed(c, e.id) /\ \A t \in Members(todo[c]) : t.id = e.id
  BY <1>1, <1>2 DEF Ordered, FanningOut
<1>9. InOrder'
  BY <1>3 DEF Ordered, InOrder
<1>10. FanningOut'
  BY <1>1, <1>7 DEF Ordered, FanningOut, Thins
<1>11. ASSUME NEW p \in Conns, NEW x \in Members(outq[p])
       PROVE  OlderCopy(p, x, msgs[x.id].from)'
  <2>1. PICK b : b = msgs[x.id].from
    OBVIOUS
  <2>2. OlderCopy(p, x, b) /\ Routed(b, x.id)
    BY <2>1 DEF Ordered, Copied, OlderCopy
  <2>3. b \in Conns
    BY <2>1, <2>2, SentBy DEF Routed
  <2>4. /\ \A t \in Members(todo'[b]) : x.id <= t.id
        /\ \A t \in Members(Unsent(b)') : t.to = <<p, x.sub>> => x.id < t.id
    BY <1>1, <2>2, <2>3 DEF OlderCopy, Thins
  <2>5. ASSUME NEW g \in Members(outq'[p]), Follows(outq'[p], x, g), g.sub = x.sub,
               msgs[g.id].from = b
        PROVE  x.id < g.id
    <3>1. CASE Follows(outq[p], x, g)
      <4>1. g \in Members(outq[p])
        BY <3>1 DEF Follows, Members
      <4> QED
        BY <2>2, <2>5, <3>1, <4>1 DEF OlderCopy
    <3>2. CASE p = d /\ x \in Members(outq[d]) /\ g = e
      <4>1. b = c /\ first.to = <<p, x.sub>>
        BY <1>2, <1>8, <2>5, <3>2 DEF Routed
      <4> QED
        BY <1>1, <1>2, <2>2, <3>2, <4>1 DEF OlderCopy
    <3>3. Follows(outq[p], x, g) \/ (p = d /\ x \in Members(outq[d]) /\ g = e)
      <4>1. p # d => outq'[p] = outq[p]
        BY <1>5
      <4>2. p = d => Follows(outq[p], x, g) \/ (x \in Members(outq[d]) /\ g = e)
        BY <1>6, <2>5
      <4> QED
        BY <2>5, <4>1, <4>2
    <3> QED
      BY <3>1, <3>2, <3>3
  <2>6. OlderCopy(p, x, b)'
    BY <1>3, <1>7, <2>2, <2>4, <2>5 DEF OlderCopy
  <2> QED
    BY <1>3, <2>1, <2>6
<1>12. OlderCopy(d, e, c)'
  <2>1. \A t \in Members(todo'[c]) : e.id <= t.id
    <3>1. e.id \in Int
      BY <1>8, SentBy DEF Routed
    <3> QED
      BY <1>1, <1>8, <3>1 DEF Thins
  <2>2. \A t \in Members(Unsent(c)') : t.to # <<d, e.sub>>
    BY <1>1, <1>2 DEF Ordered, FanningOut
  <2>3. ASSUME NEW g \in Members(outq'[d]), Follows(outq'[d], e, g), g.sub = e.sub,
               msgs[g.id].from = c
        PROVE  e.id < g.id
    <3>1. e \in Members(outq[d])
      <4>1. Follows(outq[d], e, g) \/ e \in Members(outq[d])
        BY <1>6, <2>3
      <4> QED
        BY <4>1 DEF Follows, Members
    <3>2. OlderCopy(d, e, c)
      BY <1>2, <1>8, <3>1 DEF Ordered, Copied, Routed
    <3>3. FALSE
      BY <1>1, <1>2, <1>8, <3>2, SentBy DEF OlderCopy, Routed
    <3> QED
      BY <3>3
  <2> QED
    BY <1>3, <1>7, <1>8, <2>1, <2>2, <2>3 DEF OlderCopy
<1>13. msgs'[e.id].from = c
  BY <1>3, <1>8 DEF Routed
<1>14. Copied'
  <2>1. ASSUME NEW p \in Conns, NEW x \in Members(outq'[p])
        PROVE  OlderCopy(p, x, msgs[x.id].from)'
    <3>1. x \in Members(outq[p]) \/ (p = d /\ x = e)
      BY <1>5, <1>6
    <3> QED
      BY <1>11, <1>12, <1>13, <3>1
  <2> QED
    BY <2>1 DEF Copied
<1> QED
  BY <1>9, <1>10, <1>14 DEF Ordered
-----------------------------------------------------------------------------
(* The subscribers of a message. *)

\* A list of a set has each of its members once.
LEMMA SetToSeqsMembers ==
  ASSUME NEW S, IsFiniteSet(S), NEW f \in SetToSeqs(S)
  PROVE  f \in Seq(S) /\ Members(f) = S /\ Distinct(f)
<1> DEFINE n == Cardinality(S)
<1>1. n \in Nat
  BY FS_CardinalityType
<1>2. f \in [1..n -> S] /\ \A i, j \in 1..n : i # j => f[i] # f[j]
  BY DEF SetToSeqs
<1>3. IsFiniteSet(1..n) /\ Cardinality(1..n) = n
  BY <1>1, FS_Interval
<1> HIDE DEF n
<1>4. f \in Seq(S) /\ Len(f) = n
  BY <1>1, <1>2
<1>5. f \in Injection(1..n, S)
  BY <1>2 DEF Injection, IsInjective
<1>6. f \in Surjection(1..n, S)
  <2>1. Cardinality(1..n) = Cardinality(S)
    BY <1>3 DEF n
  <2> QED
    BY <1>5, <2>1, FS_Injection
<1>7. \A x \in S : \E i \in 1..n : f[i] = x
  BY <1>6 DEF Surjection
<1> QED
  BY <1>2, <1>4, <1>7 DEF Members, Distinct

\* One list after another.
LEMMA ConcatMembers ==
  ASSUME NEW S, NEW s \in Seq(S), NEW t \in Seq(S)
  PROVE  /\ s \o t \in Seq(S) /\ Members(s \o t) = Members(s) \cup Members(t)
         /\ Distinct(s) /\ Distinct(t) /\ Members(s) \cap Members(t) = {} => Distinct(s \o t)
<1> DEFINE u == s \o t
<1>1. /\ u \in Seq(S) /\ Len(s) \in Nat /\ Len(t) \in Nat /\ Len(u) = Len(s) + Len(t)
      /\ \A i \in 1..Len(s) + Len(t) : u[i] = IF i <= Len(s) THEN s[i] ELSE t[i - Len(s)]
  BY ConcatProperties, LenProperties
<1> HIDE DEF u
<1>2. \A i \in 1..Len(u) : \/ i \in 1..Len(s) /\ u[i] = s[i]
                           \/ i - Len(s) \in 1..Len(t) /\ u[i] = t[i - Len(s)]
  BY <1>1
<1>3. \A i \in 1..Len(s) : i \in 1..Len(u) /\ u[i] = s[i]
  BY <1>1
<1>4. \A i \in 1..Len(t) : i + Len(s) \in 1..Len(u) /\ u[i + Len(s)] = t[i]
  BY <1>1
<1>5. Members(u) = Members(s) \cup Members(t)
  <2>1. Members(u) \subseteq Members(s) \cup Members(t)
    BY <1>2 DEF Members
  <2>2. Members(s) \subseteq Members(u)
    BY <1>3 DEF Members
  <2>3. Members(t) \subseteq Members(u)
    BY <1>4 DEF Members
  <2> QED
    BY <2>1, <2>2, <2>3
<1>6. ASSUME Distinct(s), Distinct(t), Members(s) \cap Members(t) = {},
             NEW i \in 1..Len(u), NEW j \in 1..Len(u), u[i] = u[j]
      PROVE  i = j
  <2>1. CASE i \in 1..Len(s) /\ u[i] = s[i] /\ j \in 1..Len(s) /\ u[j] = s[j]
    BY <1>6, <2>1 DEF Distinct
  <2>2. CASE i \in 1..Len(s) /\ u[i] = s[i] /\ j - Len(s) \in 1..Len(t) /\ u[j] = t[j - Len(s)]
    BY <1>6, <2>2 DEF Members
  <2>3. CASE i - Len(s) \in 1..Len(t) /\ u[i] = t[i - Len(s)] /\ j \in 1..Len(s) /\ u[j] = s[j]
    BY <1>6, <2>3 DEF Members
  <2>4. CASE /\ i - Len(s) \in 1..Len(t) /\ u[i] = t[i - Len(s)]
             /\ j - Len(s) \in 1..Len(t) /\ u[j] = t[j - Len(s)]
    <3>1. i - Len(s) = j - Len(s)
      BY <1>6, <2>4 DEF Distinct
    <3> QED
      BY <1>1, <3>1
  <2> QED
    BY <1>2, <1>6, <2>1, <2>2, <2>3, <2>4
<1> QED
  BY <1>1, <1>5, <1>6 DEF Distinct, u

\* What TopicManager matches is what a destination covers.
LEMMA CoversIs ==
  ASSUME NEW pattern \in Destinations, NEW dest \in Destinations
  PROVE  Promise!Covers(pattern, dest) <=>
           IF HasStar(pattern) THEN Match(pattern, dest) ELSE pattern = dest
<1>1. /\ pattern \in Seq(STRING) /\ dest \in Seq(STRING) /\ "*" \in Starred
      /\ pattern = [i \in DOMAIN pattern |-> pattern[i]] /\ dest = [i \in DOMAIN dest |-> dest[i]]
  BY TopicConstantsOK
<1>2. /\ DOMAIN pattern = 1..Len(pattern) /\ DOMAIN dest = 1..Len(dest)
      /\ Len(pattern) \in Nat /\ Len(dest) \in Nat
  BY <1>1
<1> DEFINE filled(parts) ==
             [i \in DOMAIN pattern |-> IF pattern[i] = "*" THEN parts[i] ELSE pattern[i]]
<1>3. /\ pattern \in [DOMAIN pattern -> PartsThere]
      /\ DOMAIN dest = DOMAIN pattern => dest \in [DOMAIN pattern -> PartsThere]
  BY <1>1 DEF PartsThere
<1>4. CASE ~HasStar(pattern)
  <2>1. \A i \in DOMAIN pattern : pattern[i] # "*"
    BY <1>1, <1>4 DEF HasStar
  <2>2. \A parts : filled(parts) = pattern
    BY <1>1, <2>1
  <2> HIDE DEF filled
  <2>3. Promise!Covers(pattern, dest) <=> \E parts \in [DOMAIN pattern -> PartsThere] : dest = filled(parts)
    BY DEF Promise!Covers, filled
  <2> QED
    BY <1>3, <1>4, <2>2, <2>3
<1>5. CASE HasStar(pattern)
  <2>1. ASSUME NEW parts \in [DOMAIN pattern -> PartsThere], dest = filled(parts)
        PROVE  Match(pattern, dest)
    <3>1. DOMAIN dest = DOMAIN pattern
      BY <2>1
    <3>2. Len(pattern) = Len(dest)
      <4>1. \A i : i \in 1..Len(pattern) <=> i \in 1..Len(dest)
        BY <1>2, <3>1
      <4>2. /\ Len(pattern) \in 1..Len(pattern) \/ Len(pattern) = 0
            /\ Len(dest) \in 1..Len(dest) \/ Len(dest) = 0
        BY <1>2
      <4>3. Len(pattern) <= Len(dest) /\ Len(dest) <= Len(pattern)
        BY <1>2, <4>1, <4>2
      <4>4. Len(pattern) \in Int /\ Len(dest) \in Int
        BY <1>2
      <4> QED
        BY <4>3, <4>4
    <3>3. \A i \in DOMAIN pattern : pattern[i] = "*" \/ pattern[i] = dest[i]
      BY <2>1
    <3> QED
      BY <3>2, <3>3 DEF Match
  <2>2. ASSUME Match(pattern, dest)
        PROVE  dest = filled(dest) /\ dest \in [DOMAIN pattern -> PartsThere]
    <3>1. DOMAIN dest = DOMAIN pattern
      BY <1>2, <2>2 DEF Match
    <3>2. \A i \in DOMAIN pattern : pattern[i] = "*" \/ pattern[i] = dest[i]
      BY <2>2 DEF Match
    <3> QED
      BY <1>1, <1>3, <3>1, <3>2
  <2>3. Promise!Covers(pattern, dest) <=> \E parts \in [DOMAIN pattern -> PartsThere] : dest = filled(parts)
    BY DEF Promise!Covers
  <2> HIDE DEF filled
  <2> QED
    BY <1>5, <2>1, <2>2, <2>3
<1> QED
  BY <1>4, <1>5

\* What was registered under one of the indexes.
LEMMA RegisteredType ==
  ASSUME Orderly, NEW r \in Registration
  PROVE  /\ Registered(r) \in Destinations \cup {NoDest}
         /\ r = <<r[1], r[2]>> /\ r[1] \in Conns /\ r[2] \in Subs
<1>1. r[1] \in Conns /\ r[2] \in Subs /\ r = <<r[1], r[2]>>
  BY DEF Registration
<1>2. subs[r[1]][r[2]] \in Destinations \cup {NoDest}
  BY <1>1 DEF Orderly, TypeOK
<1> QED
  BY <1>1, <1>2 DEF Registered

\* get_subscribers names the subscriptions that cover the topic, each once.
LEMMA SubscribersOnce ==
  ASSUME Orderly, Indexed, NEW dest \in Destinations, NEW regs \in Subscribers(dest)
  PROVE  /\ regs \in Seq(Registration) /\ Distinct(regs)
         /\ \A r \in Registration :
              r \in Members(regs) <=>
                Registered(r) # NoDest /\ Promise!Covers(Registered(r), dest)
<1> DEFINE Entry == Destinations \X Conns \X Subs
           others == {w \in Range(wildcard) : ~Match(w[1], dest)}
           matching == Without(wildcard, others)
           patterns == [i \in DOMAIN matching |-> <<matching[i][2], matching[i][3]>>]
<1>1. PICK first \in SetToSeqs(exact[dest]) : regs = first \o patterns
  BY DEF Subscribers
<1>2. first \in Seq(Registration) /\ Members(first) = exact[dest] /\ Distinct(first)
  <2>1. exact[dest] \in SUBSET Registration
    BY DEF Orderly, TypeOK
  <2>2. IsFiniteSet(exact[dest])
    BY <2>1, TopicConstantsOK, FS_Subset
  <2>3. first \in Seq(exact[dest]) /\ Members(first) = exact[dest] /\ Distinct(first)
    BY <2>2, SetToSeqsMembers
  <2> QED
    BY <2>1, <2>3, SeqMonotonic
<1>3. wildcard \in Seq(Entry)
  BY DEF Orderly, TypeOK
<1>4. Members(wildcard) = Range(wildcard)
  BY <1>3 DEF Members, Range
<1>5. /\ matching \in Seq(Entry) /\ Thins(matching, wildcard)
      /\ Members(matching) = Members(wildcard) \ others
  <2> HIDE DEF others, Entry
  <2> QED
    BY <1>3, WithoutType, WithoutThins
<1>6. \A w : w \in Members(matching) <=> w \in Members(wildcard) /\ Match(w[1], dest)
  <2> HIDE DEF matching
  <2> QED
    BY <1>4, <1>5
<1> HIDE DEF matching
<1>7. \A i \in 1..Len(matching) : matching[i] \in Members(matching) /\ matching[i] \in Entry
  BY <1>5 DEF Members
<1>8. \A i \in 1..Len(matching) : <<matching[i][2], matching[i][3]>> \in Registration
  BY <1>7 DEF Registration
<1>9. /\ patterns \in Seq(Registration) /\ Len(patterns) = Len(matching) /\ Len(matching) \in Nat
      /\ \A i \in 1..Len(matching) : patterns[i] = <<matching[i][2], matching[i][3]>>
  <2>1. DOMAIN matching = 1..Len(matching) /\ Len(matching) \in Nat
    BY <1>5, LenProperties
  <2>2. patterns = [i \in 1..Len(matching) |-> <<matching[i][2], matching[i][3]>>]
    BY <2>1
  <2>3. patterns \in Seq(Registration)
    BY <1>8, <2>1, <2>2
  <2> QED
    BY <2>1, <2>2, <2>3
<1> HIDE DEF patterns
<1>10. Distinct(patterns)
  <2>1. SUFFICES ASSUME NEW i \in 1..Len(matching), NEW j \in 1..Len(matching), i < j,
                        patterns[i] = patterns[j]
                 PROVE  FALSE
    <3>1. \A i, j \in 1..Len(patterns) : i < j \/ j < i \/ i = j
      BY <1>9
    <3> QED
      BY <1>9, <3>1 DEF Distinct
  <2>2. PICK v, w : v = matching[i] /\ w = matching[j]
    OBVIOUS
  <2>3. Follows(matching, v, w)
    BY <2>1, <2>2 DEF Follows
  <2>4. Follows(wildcard, v, w) /\ v \in Members(wildcard) /\ w \in Members(wildcard)
    BY <1>5, <1>7, <2>1, <2>2, <2>3 DEF Thins
  <2>5. <<v[2], v[3]>> # <<w[2], w[3]>>
    BY <2>4 DEF Indexed
  <2> QED
    BY <1>9, <2>1, <2>2, <2>5
<1>11. ASSUME NEW c \in Conns, NEW s \in Subs
       PROVE  <<c, s>> \in Members(patterns) <=>
                \E d \in Destinations :
                  Registered(<<c, s>>) = d /\ HasStar(d) /\ Match(d, dest)
  <2>1. ASSUME NEW d \in Destinations, Registered(<<c, s>>) = d, HasStar(d), Match(d, dest)
        PROVE  <<c, s>> \in Members(patterns)
    <3>1. <<d, c, s>> \in Members(matching)
      BY <1>6, <2>1 DEF Indexed
    <3>2. PICK i \in 1..Len(matching) : matching[i] = <<d, c, s>>
      BY <3>1 DEF Members
    <3>3. patterns[i] = <<c, s>>
      BY <1>9, <3>2
    <3> QED
      BY <1>9, <3>3 DEF Members
  <2>2. ASSUME <<c, s>> \in Members(patterns)
        PROVE  \E d \in Destinations :
                 Registered(<<c, s>>) = d /\ HasStar(d) /\ Match(d, dest)
    <3>1. PICK i \in 1..Len(matching) : patterns[i] = <<c, s>>
      BY <1>9, <2>2 DEF Members
    <3>2. PICK d \in Destinations, p \in Conns, q \in Subs : matching[i] = <<d, p, q>>
      BY <1>7, <3>1
    <3>3. p = c /\ q = s
      BY <1>9, <3>1, <3>2
    <3>4. <<d, c, s>> \in Members(wildcard) /\ Match(d, dest)
      BY <1>6, <1>7, <3>1, <3>2, <3>3
    <3> QED
      BY <3>4 DEF Indexed
  <2> QED
    BY <2>1, <2>2
<1>12. ASSUME NEW c \in Conns, NEW s \in Subs
       PROVE  <<c, s>> \in exact[dest] <=> Registered(<<c, s>>) = dest /\ ~HasStar(dest)
  BY DEF Indexed
<1>13. Members(first) \cap Members(patterns) = {}
  <2>1. ASSUME NEW r \in Registration, r \in Members(first), r \in Members(patterns)
        PROVE  FALSE
    <3>1. PICK c \in Conns, s \in Subs : r = <<c, s>>
      BY DEF Registration
    <3> QED
      BY <1>2, <1>11, <1>12, <2>1, <3>1
  <2>2. Members(first) \subseteq Registration
    BY <1>2, OrderOf
  <2> QED
    BY <2>1, <2>2
<1>14. /\ regs \in Seq(Registration) /\ Distinct(regs)
       /\ Members(regs) = Members(first) \cup Members(patterns)
  BY <1>1, <1>2, <1>9, <1>10, <1>13, ConcatMembers
<1>15. ASSUME NEW r \in Registration
       PROVE  r \in Members(regs) <=>
                Registered(r) # NoDest /\ Promise!Covers(Registered(r), dest)
  <2>1. PICK c \in Conns, s \in Subs : r = <<c, s>>
    BY DEF Registration
  <2>2. Registered(r) \in Destinations \cup {NoDest} /\ NoDest \notin Destinations
    BY RegisteredType, TopicConstantsOK
  <2>3. \A d \in Destinations :
          Promise!Covers(d, dest) <=> IF HasStar(d) THEN Match(d, dest) ELSE d = dest
    BY CoversIs
  <2>4. r \in Members(regs) <=>
          \/ Registered(r) = dest /\ ~HasStar(dest)
          \/ \E d \in Destinations : Registered(r) = d /\ HasStar(d) /\ Match(d, dest)
    BY <1>2, <1>11, <1>12, <1>14, <2>1
  <2> QED
    BY <2>2, <2>3, <2>4
<1> QED
  BY <1>14, <1>15

\* The copies a task is going to send: one for each subscriber.
Addressed(q, m, regs) ==
  /\ q \in Seq(Copies)
  /\ \A t \in Members(q) : t.id = m /\ t.to \in Members(regs)
  /\ \A r \in Members(regs) : \E t \in Members(q) : t.to = r
  /\ \A t, u : Follows(q, t, u) => t.to # u.to

\* The list the handler of SEND makes of its subscribers.
LEMMA AddressedOnce ==
  ASSUME NEW m \in 1..MaxMessages, NEW regs \in Seq(Registration), Distinct(regs)
  PROVE  Addressed([i \in DOMAIN regs |-> [to |-> regs[i], id |-> m]], m, regs)
<1> DEFINE q == [i \in DOMAIN regs |-> [to |-> regs[i], id |-> m]]
<1>1. /\ DOMAIN regs = 1..Len(regs) /\ Len(regs) \in Nat
      /\ \A i \in 1..Len(regs) : regs[i] \in Registration
  BY LenProperties, ElementOfSeq
<1>2. \A i \in 1..Len(regs) : [to |-> regs[i], id |-> m] \in Copies
  BY <1>1 DEF Copies
<1>3. /\ q \in Seq(Copies) /\ Len(q) = Len(regs)
      /\ \A i \in 1..Len(regs) : q[i].to = regs[i] /\ q[i].id = m
  BY <1>1, <1>2
<1> HIDE DEF q
<1>4. \A t \in Members(q) : t.id = m /\ t.to \in Members(regs)
  BY <1>3 DEF Members
<1>5. \A r \in Members(regs) : \E t \in Members(q) : t.to = r
  BY <1>3 DEF Members
<1>6. ASSUME NEW t, NEW u, Follows(q, t, u)
      PROVE  t.to # u.to
  <2>1. PICK i \in 1..Len(q), j \in 1..Len(q) : i < j /\ q[i] = t /\ q[j] = u
    BY <1>6 DEF Follows
  <2>2. i # j
    BY <2>1
  <2>3. t.to = regs[i] /\ u.to = regs[j]
    BY <1>3, <2>1
  <2> QED
    BY <1>3, <2>1, <2>2, <2>3 DEF Distinct
<1> QED
  BY <1>3, <1>4, <1>5, <1>6 DEF Addressed, q

\* The task of c starts on the next message of its client.
LEMMA ReadSendOrder ==
  ASSUME Orderly, Ordered, Indexed, NEW c \in Conns, ReadSend(c)
  PROVE  \E m \in 1..Len(msgs) : \E regs \in Subscribers(msgs[m].dest) :
           /\ Head(inq[c]).id = m /\ Head(inq[c]).do = "SEND" /\ msgs[m].from = c
           /\ m \in Nat /\ regs \in Seq(Registration) /\ Distinct(regs)
           /\ Addressed(todo'[c], m, regs)
           /\ Unsent(c) = <<>> /\ Unsent(c)' = todo'[c]
           /\ \A d \in Conns \ {c} : todo'[d] = todo[d] /\ Unsent(d)' = Unsent(d)
           /\ outq' = outq /\ msgs' = msgs
<1> DEFINE q == inq[c]
<1>1. /\ Reads(c, "SEND") /\ todo[c] = <<>> /\ waits' = waits /\ outq' = outq /\ msgs' = msgs
      /\ link' = link
  BY DEF ReadSend, Reads, Idle, clients
<1>2. /\ Head(q) \in Members(q) /\ Head(q).do = "SEND" /\ Head(q) \in Frame
      /\ Sent(Head(q)) /\ c \notin waits
  BY <1>1, ReadsOrder, ReadsKeeps
<1>3. PICK m \in 1..Len(msgs) : m = Head(q).id
  BY <1>2 DEF Sent
<1>4. msgs[m].from = c
  BY <1>2, <1>3 DEF Ordered, InOrder
<1>5. m \in Nat /\ msgs[m].dest \in Destinations /\ m \in 1..MaxMessages
  <2>1. m \in 1..MaxMessages
    BY <1>2, <1>3 DEF Frame
  <2> QED
    BY <2>1, SentBy
<1>6. PICK regs \in Subscribers(msgs[m].dest) :
        todo' = [todo EXCEPT ![c] = [i \in DOMAIN regs |-> [to |-> regs[i], id |-> m]]]
  BY <1>3 DEF ReadSend
<1>7. regs \in Seq(Registration) /\ Distinct(regs)
  BY <1>5, <1>6, SubscribersOnce
<1>8. Addressed([i \in DOMAIN regs |-> [to |-> regs[i], id |-> m]], m, regs)
  BY <1>5, <1>7, AddressedOnce
<1>9. Addressed(todo'[c], m, regs) /\ \A d \in Conns \ {c} : todo'[d] = todo[d]
  <2> DEFINE copies == [i \in DOMAIN regs |-> [to |-> regs[i], id |-> m]]
  <2>1. todo' = [todo EXCEPT ![c] = copies] /\ Addressed(copies, m, regs)
    BY <1>6, <1>8
  <2>2. todo \in [Conns -> Seq([to : Registration, id : 1..MaxMessages])]
    BY DEF Orderly, TypeOK
  <2> HIDE DEF copies
  <2> QED
    BY <2>1, <2>2
<1>10. /\ Unsent(c) = <<>> /\ Unsent(c)' = todo'[c]
       /\ \A d \in Conns \ {c} : Unsent(d)' = Unsent(d)
  BY <1>1, <1>2, <1>9 DEF Unsent
<1> HIDE DEF q
<1> QED
  BY <1>1, <1>2, <1>3, <1>4, <1>5, <1>7, <1>9, <1>10 DEF q

\* A message that is read comes before all that its client sent later.
LEMMA ReadSendKeepsOrder ==
  ASSUME Orderly, Ordered, Indexed, NEW c \in Conns, ReadSend(c)
  PROVE  Ordered'
<1>1. PICK m \in 1..Len(msgs), regs \in Subscribers(msgs[Head(inq[c]).id].dest) :
        /\ Head(inq[c]).id = m /\ Head(inq[c]).do = "SEND" /\ msgs[m].from = c
        /\ m \in Nat /\ Addressed(todo'[c], m, regs)
        /\ Unsent(c) = <<>> /\ Unsent(c)' = todo'[c]
        /\ \A d \in Conns \ {c} : todo'[d] = todo[d] /\ Unsent(d)' = Unsent(d)
        /\ outq' = outq /\ msgs' = msgs
  BY ReadSendOrder
<1>2. /\ \A d \in Conns \ {c} : inq'[d] = inq[d]
      /\ Members(inq[c]) = Members(inq'[c]) \cup {Head(inq[c])}
      /\ \A d \in Conns : Thins(inq'[d], inq[d])
      /\ \A f \in Members(inq'[c]) : Follows(inq[c], Head(inq[c]), f)
  BY ReadsOrder DEF ReadSend
<1>3. ASSUME NEW d, NEW id, d \in Conns, Routed(d, id)
      PROVE  Routed(d, id)'
  BY <1>1, <1>2, <1>3 DEF Routed, Thins
<1>4. Routed(c, m)'
  BY <1>1, <1>2 DEF Routed, Ordered, InOrder
<1>5. InOrder'
  BY <1>1, <1>2 DEF Ordered, InOrder, Thins
<1>6. ASSUME NEW d \in Conns, NEW t \in Members(todo'[d])
      PROVE  /\ Routed(d, t.id)'
             /\ \A u \in Members(todo'[d]) :
                  t.id = u.id /\ (Follows(todo'[d], t, u) => t.to # u.to)
  <2>1. CASE d = c
    BY <1>1, <1>4, <1>6, <2>1 DEF Addressed
  <2>2. CASE d # c
    BY <1>1, <1>3, <1>6, <2>2 DEF Ordered, FanningOut
  <2> QED
    BY <2>1, <2>2
<1>7. ASSUME NEW d \in Conns, NEW e \in Members(outq[d])
      PROVE  OlderCopy(d, e, msgs[e.id].from)'
  <2>1. PICK p : p = msgs[e.id].from
    OBVIOUS
  <2>2. OlderCopy(d, e, p) /\ Routed(p, e.id)
    BY <2>1 DEF Ordered, Copied, OlderCopy
  <2>3. p \in Conns /\ e.id \in Nat
    BY <2>1, <2>2, SentBy DEF Routed
  <2>4. Routed(p, e.id)'
    BY <1>3, <2>2, <2>3
  <2>5. /\ \A t \in Members(todo'[p]) : e.id <= t.id
        /\ \A t \in Members(Unsent(p)') : t.to = <<d, e.sub>> => e.id < t.id
    <3>1. CASE p = c
      <4>1. e.id < m
        BY <1>1, <1>2, <2>2, <3>1 DEF Routed
      <4> QED
        BY <1>1, <2>3, <3>1, <4>1 DEF Addressed
    <3>2. CASE p # c
      BY <1>1, <2>2, <2>3, <3>2 DEF OlderCopy
    <3> QED
      BY <3>1, <3>2
  <2>6. OlderCopy(d, e, p)'
    BY <1>1, <2>2, <2>4, <2>5 DEF OlderCopy
  <2> QED
    BY <1>1, <2>1, <2>6
<1>8. FanningOut'
  BY <1>6 DEF FanningOut
<1>9. Copied'
  BY <1>1, <1>7 DEF Copied
<1> QED
  BY <1>5, <1>8, <1>9 DEF Ordered
-----------------------------------------------------------------------------
(* The indexes and the subscriptions. *)

Entries == Destinations \X Conns \X Subs

\* TopicManager.subscribe, of a subscription that is not registered.
LEMMA RegisterIndexes ==
  ASSUME Orderly, Indexed, NEW dest \in Destinations, NEW c \in Conns, NEW s \in Subs,
         Register(dest, c, s), Registered(<<c, s>>) = NoDest,
         Registered(<<c, s>>)' = dest,
         \A p \in Conns, q \in Subs :
           <<p, q>> # <<c, s>> => Registered(<<p, q>>)' = Registered(<<p, q>>)
  PROVE  Indexed'
<1>1. NoDest \notin Destinations
  BY TopicConstantsOK
<1>2. wildcard \in Seq(Entries) /\ exact \in [Destinations -> SUBSET Registration]
  BY DEF Orderly, TypeOK, Entries
<1>3. CASE HasStar(dest)
  <2> DEFINE new == <<dest, c, s>>
  <2>1. new \in Entries /\ wildcard' = Append(wildcard, new) /\ exact' = exact
    BY <1>3 DEF Register, Entries
  <2>2. /\ Members(wildcard') = Members(wildcard) \cup {new}
        /\ \A v, w : Follows(wildcard', v, w) =>
             Follows(wildcard, v, w) \/ (v \in Members(wildcard) /\ w = new)
    <3> HIDE DEF new
    <3> QED
      BY <1>2, <2>1, AppendOrder
  <2>3. ASSUME NEW p \in Conns, NEW q \in Subs, NEW d \in Destinations
        PROVE  /\ <<p, q>> \in exact'[d] <=> Registered(<<p, q>>)' = d /\ ~HasStar(d)
               /\ <<d, p, q>> \in Members(wildcard') <=> Registered(<<p, q>>)' = d /\ HasStar(d)
    <3>1. CASE <<p, q>> = <<c, s>>
      BY <1>1, <1>3, <2>1, <2>2, <3>1 DEF Indexed
    <3>2. CASE <<p, q>> # <<c, s>>
      <4>1. <<d, p, q>> # new
        BY <3>2
      <4>2. <<d, p, q>> \in Members(wildcard') <=> <<d, p, q>> \in Members(wildcard)
        BY <2>2, <4>1
      <4>3. /\ <<p, q>> \in exact[d] <=> Registered(<<p, q>>) = d /\ ~HasStar(d)
            /\ <<d, p, q>> \in Members(wildcard) <=> Registered(<<p, q>>) = d /\ HasStar(d)
        BY DEF Indexed
      <4>4. Registered(<<p, q>>)' = Registered(<<p, q>>)
        BY <3>2
      <4> QED
        BY <2>1, <4>2, <4>3, <4>4
    <3> QED
      BY <3>1, <3>2
  <2>4. ASSUME NEW v \in Members(wildcard)
        PROVE  <<v[2], v[3]>> # <<c, s>>
    <3>1. v \in Entries
      BY <1>2, OrderOf
    <3>2. PICK d \in Destinations, p \in Conns, q \in Subs : v = <<d, p, q>>
      BY <3>1 DEF Entries
    <3>3. Registered(<<p, q>>) = d
      BY <2>4, <3>2 DEF Indexed
    <3> QED
      BY <1>1, <3>2, <3>3
  <2>5. new[2] = c /\ new[3] = s
    OBVIOUS
  <2> HIDE DEF new
  <2>6. ASSUME NEW v \in Members(wildcard'), NEW w \in Members(wildcard'), Follows(wildcard', v, w)
        PROVE  <<v[2], v[3]>> # <<w[2], w[3]>>
    <3>1. CASE Follows(wildcard, v, w)
      <4>1. v \in Members(wildcard) /\ w \in Members(wildcard)
        BY <1>2, <3>1, OrderOf
      <4> QED
        BY <3>1, <4>1 DEF Indexed
    <3>2. CASE v \in Members(wildcard) /\ w = new
      BY <2>4, <2>5, <3>2
    <3> QED
      BY <2>2, <2>6, <3>1, <3>2
  <2> QED
    BY <2>3, <2>6 DEF Indexed
<1>4. CASE ~HasStar(dest)
  <2>1. exact' = [exact EXCEPT ![dest] = @ \cup {<<c, s>>}] /\ wildcard' = wildcard
    BY <1>4 DEF Register
  <2>2. ASSUME NEW p \in Conns, NEW q \in Subs, NEW d \in Destinations
        PROVE  /\ <<p, q>> \in exact'[d] <=> Registered(<<p, q>>)' = d /\ ~HasStar(d)
               /\ <<d, p, q>> \in Members(wildcard') <=> Registered(<<p, q>>)' = d /\ HasStar(d)
    <3>1. <<p, q>> \in exact'[d] <=> <<p, q>> \in exact[d] \/ (d = dest /\ <<p, q>> = <<c, s>>)
      BY <1>2, <2>1
    <3>2. CASE <<p, q>> = <<c, s>>
      BY <1>1, <1>4, <2>1, <3>1, <3>2 DEF Indexed
    <3>3. CASE <<p, q>> # <<c, s>>
      BY <2>1, <3>1, <3>3 DEF Indexed
    <3> QED
      BY <3>2, <3>3
  <2> QED
    BY <2>1, <2>2 DEF Indexed
<1> QED
  BY <1>3, <1>4

\* TopicManager.unsubscribe and remove_connection.
LEMMA ForgetIndexes ==
  ASSUME Orderly, Indexed, NEW regs \in SUBSET Registration, Forget(regs),
         \A r \in Registration :
           Registered(r)' = IF r \in regs THEN NoDest ELSE Registered(r)
  PROVE  Indexed'
<1> DEFINE out == {<<dest, r[1], r[2]>> : dest \in Destinations, r \in regs}
<1>1. NoDest \notin Destinations
  BY TopicConstantsOK
<1>2. wildcard \in Seq(Entries) /\ exact \in [Destinations -> SUBSET Registration]
  BY DEF Orderly, TypeOK, Entries
<1>3. exact' = [dest \in Destinations |-> exact[dest] \ regs] /\ wildcard' = Without(wildcard, out)
  BY DEF Forget
<1>4. \A p \in Conns, q \in Subs, d \in Destinations : <<d, p, q>> \in out <=> <<p, q>> \in regs
  <2>1. \A r \in regs : r = <<r[1], r[2]>>
    BY DEF Registration
  <2> QED
    BY <2>1
<1> HIDE DEF out
<1>5. Members(wildcard') = Members(wildcard) \ out /\ Thins(wildcard', wildcard)
  BY <1>2, <1>3, WithoutThins
<1>6. ASSUME NEW p \in Conns, NEW q \in Subs, NEW d \in Destinations
      PROVE  /\ <<p, q>> \in exact'[d] <=> Registered(<<p, q>>)' = d /\ ~HasStar(d)
             /\ <<d, p, q>> \in Members(wildcard') <=> Registered(<<p, q>>)' = d /\ HasStar(d)
  <2>1. <<p, q>> \in Registration
    BY DEF Registration
  <2>2. <<p, q>> \in exact'[d] <=> <<p, q>> \in exact[d] /\ <<p, q>> \notin regs
    BY <1>3
  <2>3. <<d, p, q>> \in Members(wildcard') <=> <<d, p, q>> \in Members(wildcard) /\ <<p, q>> \notin regs
    BY <1>4, <1>5
  <2> QED
    BY <1>1, <2>1, <2>2, <2>3 DEF Indexed
<1> QED
  BY <1>5, <1>6 DEF Indexed, Thins

\* Nothing else changes what is registered.
LEMMA SameIndexes ==
  ASSUME Indexed, UNCHANGED <<exact, wildcard, subs>>,
         \A c \in Conns : link'[c] = "gone" <=> link[c] = "gone"
  PROVE  Indexed' /\ \A r \in Registration : Registered(r)' = Registered(r)
<1>1. \A r \in Registration : r[1] \in Conns
  BY DEF Registration
<1>2. \A r \in Registration : Registered(r)' = Registered(r)
  BY <1>1 DEF Registered
<1>3. \A c \in Conns, s \in Subs : <<c, s>> \in Registration
  BY DEF Registration
<1> QED
  BY <1>2, <1>3 DEF Indexed

\* No new SUBSCRIBE is written, and no subscription is used again.
LEMMA SameSubscribes ==
  ASSUME Orderly, SubscribesOnce,
         \A c \in Conns : ThinsOf("SUBSCRIBE", inq'[c], inq[c]),
         \A c \in Conns, s \in Subs :
           /\ handlers'[c][s] = "unused" <=> handlers[c][s] = "unused"
           /\ subs[c][s] = NoDest => subs'[c][s] = NoDest
  PROVE  SubscribesOnce'
<1>1. \A c \in Conns : \A f \in Members(inq[c]) : f.do = "SUBSCRIBE" => f.sub \in Subs
  <2>1. \A c \in Conns : Members(inq[c]) \subseteq Frame
    BY OrderOf DEF Orderly, TypeOK
  <2> QED
    BY <2>1 DEF Frame
<1>2. ASSUME NEW c \in Conns, NEW f \in Members(inq'[c]), f.do = "SUBSCRIBE"
      PROVE  /\ handlers'[c][f.sub] # "unused" /\ subs'[c][f.sub] = NoDest
             /\ \A g \in Members(inq'[c]) :
                  g.do = "SUBSCRIBE" /\ Follows(inq'[c], f, g) => g.sub # f.sub
  <2>1. f \in Members(inq[c]) /\ f.sub \in Subs
    BY <1>1, <1>2 DEF ThinsOf
  <2>2. /\ handlers[c][f.sub] # "unused" /\ subs[c][f.sub] = NoDest
        /\ \A g \in Members(inq[c]) :
             g.do = "SUBSCRIBE" /\ Follows(inq[c], f, g) => g.sub # f.sub
    BY <1>2, <2>1 DEF SubscribesOnce
  <2>3. \A g \in Members(inq'[c]) : g.do = "SUBSCRIBE" /\ Follows(inq'[c], f, g) =>
          g \in Members(inq[c]) /\ Follows(inq[c], f, g)
    BY <1>2 DEF ThinsOf
  <2> QED
    BY <2>1, <2>2, <2>3
<1> QED
  BY <1>2 DEF SubscribesOnce
-----------------------------------------------------------------------------
(* What the subscriptions are promised. *)

\* The copies a task still has to write.
LEMMA UnsentType == Orderly => \A c \in Conns : Unsent(c) \in Seq(Copies)
<1> SUFFICES ASSUME Orderly, NEW c \in Conns PROVE Unsent(c) \in Seq(Copies)
  OBVIOUS
<1>1. todo[c] \in Seq(Copies) /\ (c \in waits => todo[c] # <<>>)
  BY DEF Orderly, TypeOK, Copies, Idle
<1>2. c \in waits => Tail(todo[c]) \in Seq(Copies)
  BY <1>1, HeadTailProperties
<1> QED
  BY <1>1, <1>2 DEF Unsent

\* The messages in the frames of the clients, and the copies for one subscription.
InFrames ==
  \A m : m \in ToBeRead <=>
    \E c \in Conns : \E f \in Members(inq[c]) : f.do = "SEND" /\ f.id = m
InCopies ==
  \A r \in Registration : \A m : m \in OnTheWay(r) <=>
    \/ \E c \in Conns : \E t \in Members(Unsent(c)) : t.to = r /\ t.id = m
    \/ \E e \in Members(outq[r[1]]) : e.sub = r[2] /\ e.id = m

\* The messages in the frames of the clients.
LEMMA ToBeReadIs == Orderly => InFrames
<1> SUFFICES ASSUME Orderly, NEW m
             PROVE  m \in ToBeRead <=>
                      \E c \in Conns : \E f \in Members(inq[c]) : f.do = "SEND" /\ f.id = m
  BY DEF InFrames
<1>1. \A c \in Conns : DOMAIN inq[c] = 1..Len(inq[c])
  BY LenProperties DEF Orderly, TypeOK
<1>2. m \in ToBeRead <=>
        \E c \in Conns : \E i \in DOMAIN inq[c] : inq[c][i].do = "SEND" /\ inq[c][i].id = m
  BY DEF ToBeRead
<1> QED
  BY <1>1, <1>2 DEF Members

\* The copies for one subscription.
LEMMA OnTheWayIs == Orderly => InCopies
<1> SUFFICES ASSUME Orderly, NEW r \in Registration, NEW m
             PROVE  m \in OnTheWay(r) <=>
                      \/ \E c \in Conns : \E t \in Members(Unsent(c)) : t.to = r /\ t.id = m
                      \/ \E e \in Members(outq[r[1]]) : e.sub = r[2] /\ e.id = m
  BY DEF InCopies
<1>1. \A c \in Conns : DOMAIN Unsent(c) = 1..Len(Unsent(c))
  BY UnsentType, LenProperties
<1>2. DOMAIN outq[r[1]] = 1..Len(outq[r[1]])
  <2>1. r[1] \in Conns
    BY RegisteredType
  <2>2. outq[r[1]] \in Seq([sub : Subs, id : 1..MaxMessages])
    BY <2>1 DEF Orderly, TypeOK
  <2> QED
    BY <2>2, LenProperties
<1>3. m \in OnTheWay(r) <=>
        \/ \E c \in Conns : \E i \in DOMAIN Unsent(c) : Unsent(c)[i].to = r /\ Unsent(c)[i].id = m
        \/ \E i \in DOMAIN outq[r[1]] : outq[r[1]][i].sub = r[2] /\ outq[r[1]][i].id = m
  BY DEF OnTheWay
<1> QED
  BY <1>1, <1>2, <1>3 DEF Members

\* All of them are messages there are.
LEMMA OnTheWayType ==
  ASSUME Promising, NEW r \in Registration
  PROVE  OnTheWay(r) \subseteq 1..Len(msgs)
<1>1. \A c \in Conns : \A t \in Members(Unsent(c)) : t.id \in 1..Len(msgs)
  <2>1. ASSUME NEW c \in Conns, NEW t \in Members(Unsent(c))
        PROVE  t \in Members(todo[c])
    <3>1. CASE c \in waits
      <4>1. todo[c] \in Seq(Copies) /\ todo[c] # <<>>
        BY <3>1 DEF Promising, Orderly, TypeOK, Copies, Idle
      <4>2. Members(todo[c]) = Members(Tail(todo[c])) \cup {Head(todo[c])}
        BY <4>1, TailOrder
      <4> QED
        BY <2>1, <3>1, <4>2 DEF Unsent
    <3> QED
      BY <2>1, <3>1 DEF Unsent
  <2> QED
    BY <2>1 DEF Promising, Ordered, FanningOut, Routed
<1>2. \A e \in Members(outq[r[1]]) : e.id \in 1..Len(msgs)
  BY RegisteredType DEF Promising, Ordered, Copied, OlderCopy, Routed
<1> QED
  BY <1>1, <1>2, OnTheWayIs DEF Promising, InCopies

\* The connections that are open, the subscriptions and the copies for them.
People == {c \in Conns : link[c] = "open"}
Audience == {r \in Registration : IsListening(r)}
Destined == [r \in Registration |-> Registered(r)]
Coming == [r \in Registration |-> OnTheWay(r)]
Promised == <<msgs, ToBeRead, People, Destined, Audience, Coming, got>>

\* What goes when nothing new comes.
LEMMA ShrinksComing ==
  ASSUME Orderly, Orderly', Shrinks
  PROVE  /\ ToBeRead' \subseteq ToBeRead
         /\ \A r \in Registration : OnTheWay(r)' \subseteq OnTheWay(r)
<1>1. InFrames /\ InFrames' /\ InCopies /\ InCopies'
  BY ToBeReadIs, OnTheWayIs, PTL
<1>2. ToBeRead' \subseteq ToBeRead
  BY <1>1 DEF InFrames, Shrinks, ThinsOf
<1>3. \A r \in Registration : OnTheWay(r)' \subseteq OnTheWay(r)
  BY <1>1, RegisteredType DEF InCopies, Shrinks, Thins
<1> QED
  BY <1>2, <1>3

\* A step that drops what nobody listens to, or what comes from clients that
\* are gone.
LEMMA SessionStep ==
  ASSUME Promising, Promising', Shrinks, got' = got, People' \subseteq People,
         \A c \in People' : \A f \in Members(inq[c]) : f.do = "SEND" => f \in Members(inq'[c]),
         \A r \in Registration : IsListening(r)' => OnTheWay(r) \subseteq OnTheWay(r)'
  PROVE  Promise!Session
<1>1. /\ ToBeRead' \subseteq ToBeRead
      /\ \A r \in Registration : OnTheWay(r)' \subseteq OnTheWay(r)
  BY ShrinksComing DEF Promising
<1>2. msgs' = msgs
  BY DEF Shrinks
<1>3. ASSUME NEW m \in ToBeRead \ ToBeRead'
      PROVE  msgs[m].from \notin People'
  <2>1. PICK c \in Conns : \E f \in Members(inq[c]) : f.do = "SEND" /\ f.id = m
    BY <1>3, ToBeReadIs DEF Promising, InFrames
  <2>2. PICK f \in Members(inq[c]) : f.do = "SEND" /\ f.id = m
    BY <2>1
  <2>3. msgs[m].from = c
    BY <2>2 DEF Promising, Ordered, InOrder
  <2>4. f \notin Members(inq'[c])
    <3>1. Orderly'
      BY DEF Promising
    <3>2. InFrames'
      BY <3>1, ToBeReadIs, PTL
    <3> QED
      BY <1>3, <2>2, <3>2 DEF InFrames
  <2> QED
    BY <2>2, <2>3, <2>4
<1>4. Destined' \in [Registration -> Destinations \cup {NoDest}]
  <2>1. \A r \in Registration : Registered(r)' \in Destinations \cup {NoDest}
    <3>1. \A c \in Conns, s \in Subs : subs'[c][s] \in Destinations \cup {NoDest}
      BY DEF Promising, Orderly, TypeOK
    <3> QED
      BY <3>1 DEF Registered, Registration
  <2> QED
    BY <2>1 DEF Destined
<1>5. Coming' \in [Registration -> SUBSET (1..Len(msgs))]
  BY <1>1, OnTheWayType DEF Coming
<1>6. \A r \in Registration : /\ Coming'[r] \subseteq Coming[r]
                              /\ r \in Audience' => Coming'[r] = Coming[r]
  BY <1>1 DEF Coming, Audience
<1>7. Audience' \in SUBSET Registration
  BY DEF Audience
<1> QED
  BY <1>1, <1>2, <1>3, <1>4, <1>5, <1>6, <1>7
  DEF Promise!Session, People, Audience, Destined, Coming
-----------------------------------------------------------------------------
(* Each operation keeps what is registered. *)

\* The steps of c but those of the handlers of SUBSCRIBE and UNSUBSCRIBE and of unregister.
Elsewhere(c) ==
  \/ ReadSend(c) \/ ReadDisconnect(c) \/ FansOut(c) \/ Listener(c) \/ Close(c) \/ CloseSocket(c) \/ Lose(c)
  \/ \E dest \in Destinations :
       Publish(c, dest) \/ Relay(c, dest) \/ \E s \in Subs : Subscribe(c, s, dest)
  \/ \E s \in Subs : Unsubscribe(c, s)

\* A step is one of these.
LEMMA StepsAre ==
  ASSUME Next
  PROVE  \E c \in Conns :
           ReadSubscribe(c) \/ ReadUnsubscribe(c) \/ Unregister(c) \/ Elsewhere(c)
BY DEF Next, Handle, Elsewhere

\* They leave the indexes alone, and unregister nobody.
LEMMA ElsewhereSame ==
  ASSUME Orderly, NEW c \in Conns, Elsewhere(c)
  PROVE  /\ UNCHANGED <<exact, wildcard, subs>>
         /\ \A d \in Conns : /\ link'[d] = "gone" <=> link[d] = "gone"
                             /\ link'[d] = "open" => link[d] = "open"
<1>1. UNCHANGED <<exact, wildcard, subs>>
  BY ZenonT(30) DEF Elsewhere, ReadSend, ReadDisconnect, FansOut, SendMessage, Drained, Listener, Listen,
         HandlerEnds, EndOfStream, Close, CloseSocket, Lose, Publish, Relay, Subscribe, Unsubscribe, server
<1>2. \/ link' = link
      \/ link[c] # "gone" /\ link' = [link EXCEPT ![c] = IF @ = "open" THEN "lost" ELSE @]
  <2>1. CASE ReadDisconnect(c)
    BY <2>1 DEF ReadDisconnect, Reads, Orderly, Departed
  <2>2. CASE Lose(c) \/ CloseSocket(c)
    BY <2>2 DEF Lose, CloseSocket, Severed
  <2>3. CASE ~ReadDisconnect(c) /\ ~Lose(c) /\ ~CloseSocket(c)
    BY ZenonT(30), <2>3 DEF Elsewhere, ReadSend, FansOut, SendMessage, Drained, Listener, Listen,
                HandlerEnds, EndOfStream, Close, Publish, Relay, Subscribe, Unsubscribe
  <2> QED
    BY <2>1, <2>2, <2>3
<1> QED
  BY <1>1, <1>2 DEF Orderly, TypeOK

\* What the handler of SUBSCRIBE is given.
LEMMA ReadSubscribeIs ==
  ASSUME Promising, NEW c \in Conns, ReadSubscribe(c)
  PROVE  \E s \in Subs, dest \in Destinations :
           /\ s = Head(inq[c]).sub /\ dest = Head(inq[c]).dest /\ link[c] # "gone"
           /\ handlers[c][s] # "unused" /\ subs[c][s] = NoDest /\ Register(dest, c, s)
           /\ subs' = [subs EXCEPT ![c] = [subs[c] EXCEPT ![s] = dest]]
           /\ \A g \in Members(inq'[c]) : g.do = "SUBSCRIBE" => g.sub # s
<1> DEFINE f == Head(inq[c])
<1>1. /\ Members(inq[c]) = Members(inq'[c]) \cup {f}
      /\ \A g \in Members(inq'[c]) : Follows(inq[c], f, g)
      /\ f.do = "SUBSCRIBE" /\ f \in Frame
  BY ReadsOrder DEF ReadSubscribe, Promising
<1>2. link[c] # "gone"
  BY DEF ReadSubscribe, Reads, Promising, Orderly, Departed
<1>3. /\ Register(f.dest, c, f.sub)
      /\ subs' = [subs EXCEPT ![c] = [subs[c] EXCEPT ![f.sub] = f.dest]]
  BY DEF ReadSubscribe
<1> HIDE DEF f
<1>4. f.sub \in Subs /\ f.dest \in Destinations
  BY <1>1 DEF Frame
<1>5. /\ handlers[c][f.sub] # "unused" /\ subs[c][f.sub] = NoDest
      /\ \A g \in Members(inq'[c]) : g.do = "SUBSCRIBE" => g.sub # f.sub
  BY <1>1 DEF Promising, Known, SubscribesOnce
<1> QED
  BY <1>2, <1>3, <1>4, <1>5 DEF f

\* The handler of SUBSCRIBE.
LEMMA ReadSubscribeIndexes ==
  ASSUME Promising, NEW c \in Conns, ReadSubscribe(c)
  PROVE  Indexed'
<1>1. PICK s \in Subs, dest \in Destinations :
        /\ link[c] # "gone" /\ subs[c][s] = NoDest /\ Register(dest, c, s)
        /\ subs' = [subs EXCEPT ![c] = [subs[c] EXCEPT ![s] = dest]]
  BY ReadSubscribeIs
<1>2. link' = link /\ subs \in [Conns -> [Subs -> Destinations \cup {NoDest}]]
  BY DEF ReadSubscribe, Promising, Orderly, TypeOK
<1>3. subs'[c][s] = dest /\ \A p \in Conns, q \in Subs : p # c \/ q # s => subs'[p][q] = subs[p][q]
  BY <1>1, <1>2
<1>4. /\ Registered(<<c, s>>) = NoDest /\ Registered(<<c, s>>)' = dest
      /\ \A p \in Conns, q \in Subs :
           <<p, q>> # <<c, s>> => Registered(<<p, q>>)' = Registered(<<p, q>>)
  BY <1>1, <1>2, <1>3 DEF Registered
<1> QED
  BY <1>1, <1>4, RegisterIndexes DEF Promising, Known

\* The handler of UNSUBSCRIBE, and unregister.
LEMMA ForgettingIndexes ==
  ASSUME Promising, NEW c \in Conns, ReadUnsubscribe(c) \/ Unregister(c)
  PROVE  Indexed'
<1>1. CASE ReadUnsubscribe(c)
  <2> DEFINE s == Head(inq[c]).sub
  <2>1. s \in Subs
    BY <1>1, ReadsOrder DEF ReadUnsubscribe, Promising, Frame
  <2>2. /\ subs' = [subs EXCEPT ![c] = [subs[c] EXCEPT ![s] = NoDest]]
        /\ Forget({<<c, s>>}) /\ link' = link
    BY <1>1 DEF ReadUnsubscribe
  <2>3. subs \in [Conns -> [Subs -> Destinations \cup {NoDest}]]
    BY DEF Promising, Orderly, TypeOK
  <2> HIDE DEF s
  <2>4. /\ subs'[c][s] = NoDest
        /\ \A p \in Conns, q \in Subs : p # c \/ q # s => subs'[p][q] = subs[p][q]
    BY <2>1, <2>2, <2>3
  <2>5. ASSUME NEW r \in Registration
        PROVE  Registered(r)' = IF r \in {<<c, s>>} THEN NoDest ELSE Registered(r)
    BY <2>1, <2>2, <2>4, RegisteredType DEF Registered, Promising
  <2>6. {<<c, s>>} \in SUBSET Registration
    BY <2>1 DEF Registration
  <2> QED
    BY <2>2, <2>5, <2>6, ForgetIndexes DEF Promising, Known
<1>2. CASE Unregister(c)
  <2>1. Forget({c} \X Subs) /\ link' = [link EXCEPT ![c] = "gone"] /\ subs' = subs
    BY <1>2 DEF Unregister
  <2>2. link \in [Conns -> {"open", "lost", "gone"}]
    BY DEF Promising, Orderly, TypeOK
  <2>3. ASSUME NEW r \in Registration
        PROVE  Registered(r)' = IF r \in {c} \X Subs THEN NoDest ELSE Registered(r)
    <3>1. r[1] \in Conns /\ (r \in {c} \X Subs <=> r[1] = c)
      BY DEF Registration
    <3> QED
      BY <2>1, <2>2, <3>1 DEF Registered
  <2>4. {c} \X Subs \in SUBSET Registration
    BY DEF Registration
  <2> QED
    BY <2>1, <2>3, <2>4, ForgetIndexes DEF Promising, Known
<1> QED
  BY <1>1, <1>2

\* A subscription id that is used is not used again.
LEMMA SubscribesKeeps ==
  ASSUME Promising, Next
  PROVE  SubscribesOnce'
<1>1. /\ SubscribesOnce /\ Orderly
      /\ handlers \in [Conns -> [Subs -> {"unused", "on", "off"}]]
      /\ subs \in [Conns -> [Subs -> Destinations \cup {NoDest}]]
  BY DEF Promising, Known, Orderly, TypeOK
<1>2. PICK c \in Conns :
        ReadSubscribe(c) \/ ReadUnsubscribe(c) \/ Unregister(c) \/ Elsewhere(c)
  BY StepsAre
<1>3. ASSUME \A d \in Conns : ThinsOf("SUBSCRIBE", inq'[d], inq[d]), UNCHANGED <<subs, handlers>>
      PROVE  SubscribesOnce'
  BY <1>1, <1>3, SameSubscribes
<1>4. ASSUME NEW do, Reads(c, do)
      PROVE  \A d \in Conns : ThinsOf("SUBSCRIBE", inq'[d], inq[d])
  BY <1>1, <1>4, ReadsOrder, ThinsThinsOf
<1>5. ASSUME NEW f \in Frame, Writes(c, f), f.do # "SUBSCRIBE"
      PROVE  \A d \in Conns : ThinsOf("SUBSCRIBE", inq'[d], inq[d])
  BY ZenonT(30), <1>1, <1>5, WritesOrder DEF Writes
<1>6. CASE ReadSubscribe(c)
  <2>1. PICK s \in Subs, dest \in Destinations :
          /\ handlers[c][s] # "unused" /\ subs[c][s] = NoDest
          /\ subs' = [subs EXCEPT ![c] = [subs[c] EXCEPT ![s] = dest]]
          /\ \A g \in Members(inq'[c]) : g.do = "SUBSCRIBE" => g.sub # s
    BY <1>6, ReadSubscribeIs
  <2>2. \A p \in Conns, q \in Subs : p # c \/ q # s => subs'[p][q] = subs[p][q]
    BY <1>1, <2>1
  <2>3. handlers' = handlers /\ \A d \in Conns : ThinsOf("SUBSCRIBE", inq'[d], inq[d])
    BY <1>4, <1>6 DEF ReadSubscribe, clients
  <2>4. \A d \in Conns : \A f \in Members(inq[d]) : f.do = "SUBSCRIBE" => f.sub \in Subs
    <3>1. \A d \in Conns : Members(inq[d]) \subseteq Frame
      BY OrderOf DEF Promising, Orderly, TypeOK
    <3> QED
      BY <3>1 DEF Frame
  <2>5. ASSUME NEW d \in Conns, NEW f \in Members(inq'[d]), f.do = "SUBSCRIBE"
        PROVE  /\ handlers'[d][f.sub] # "unused" /\ subs'[d][f.sub] = NoDest
               /\ \A g \in Members(inq'[d]) :
                    g.do = "SUBSCRIBE" /\ Follows(inq'[d], f, g) => g.sub # f.sub
    <3>1. /\ f \in Members(inq[d]) /\ f.sub \in Subs
          /\ \A g \in Members(inq'[d]) : g.do = "SUBSCRIBE" /\ Follows(inq'[d], f, g) =>
               g \in Members(inq[d]) /\ Follows(inq[d], f, g)
      BY <2>3, <2>4, <2>5 DEF ThinsOf
    <3>2. /\ handlers[d][f.sub] # "unused" /\ subs[d][f.sub] = NoDest
          /\ \A g \in Members(inq[d]) :
               g.do = "SUBSCRIBE" /\ Follows(inq[d], f, g) => g.sub # f.sub
      BY <1>1, <2>5, <3>1 DEF SubscribesOnce
    <3>3. subs'[d][f.sub] = NoDest
      BY <2>1, <2>2, <2>5, <3>1, <3>2
    <3> QED
      BY <2>3, <3>1, <3>2, <3>3
  <2>6. ASSUME NEW d \in Conns, NEW q \in Subs, handlers'[d][q] = "unused"
        PROVE  subs'[d][q] = NoDest
    BY <1>1, <2>1, <2>2, <2>3, <2>6 DEF SubscribesOnce
  <2> QED
    BY <2>5, <2>6 DEF SubscribesOnce
<1>7. CASE ReadUnsubscribe(c)
  <2>1. Head(inq[c]).sub \in Subs
    BY <1>1, <1>7, ReadsOrder DEF ReadUnsubscribe, Frame
  <2>2. subs' = [subs EXCEPT ![c] = [subs[c] EXCEPT ![Head(inq[c]).sub] = NoDest]]
    BY <1>7 DEF ReadUnsubscribe
  <2>3. \A p \in Conns, q \in Subs : subs[p][q] = NoDest => subs'[p][q] = NoDest
    BY <1>1, <2>1, <2>2
  <2> QED
    BY <1>1, <1>4, <1>7, <2>3, SameSubscribes DEF ReadUnsubscribe, clients
<1>8. CASE ReadSend(c) \/ ReadDisconnect(c)
  BY <1>3, <1>4, <1>8 DEF ReadSend, ReadDisconnect, server, clients
<1>9. CASE Unregister(c) \/ FansOut(c) \/ Listener(c)
  <2>1. inq' = inq /\ UNCHANGED <<subs, handlers>>
    BY ZenonT(30), <1>9 DEF Unregister, FansOut, SendMessage, Drained, Listener, Listen, HandlerEnds,
                EndOfStream, server, clients
  <2> QED
    BY <1>3, <2>1, SameThins
<1>10. CASE Lose(c) \/ CloseSocket(c)
  <2>1. \A d \in Conns : Thins(inq'[d], inq[d])
    BY <1>1, <1>10, LoseOrder
  <2> QED
    BY <1>3, <1>10, <2>1, ThinsThinsOf DEF Lose, CloseSocket, server, clients
<1>11. CASE Close(c)
  <2>1. [do |-> "DISCONNECT"] \in Frame /\ [do |-> "DISCONNECT"].do # "SUBSCRIBE"
    BY DEF Frame
  <2> QED
    BY <1>3, <1>5, <1>11, <2>1 DEF Close, server
<1>12. ASSUME NEW dest \in Destinations, Publish(c, dest) \/ Relay(c, dest)
       PROVE  SubscribesOnce'
  <2> DEFINE f == [do |-> "SEND", id |-> Len(msgs) + 1]
  <2>1. f \in Frame /\ inq' = [inq EXCEPT ![c] = Append(@, f)] /\ UNCHANGED <<subs, handlers>>
    BY <1>12, PublishOrder DEF Promising, server
  <2>2. f.do # "SUBSCRIBE"
    OBVIOUS
  <2> HIDE DEF f
  <2>3. \A d \in Conns : ThinsOf("SUBSCRIBE", inq'[d], inq[d])
    BY <1>1, <2>1, <2>2, WritesOrder
  <2> QED
    BY <1>3, <2>1, <2>3
<1>13. ASSUME NEW s \in Subs, Unsubscribe(c, s)
       PROVE  SubscribesOnce'
  <2> DEFINE f == [do |-> "UNSUBSCRIBE", sub |-> s]
  <2>1. f \in Frame /\ f.do # "SUBSCRIBE" /\ Writes(c, f)
    BY <1>13 DEF Frame, Unsubscribe
  <2>2. \A p \in Conns, q \in Subs : handlers'[p][q] = "unused" <=> handlers[p][q] = "unused"
    BY <1>1, <1>13 DEF Unsubscribe
  <2>3. subs' = subs
    BY <1>13 DEF Unsubscribe, server
  <2> HIDE DEF f
  <2> QED
    BY <1>1, <1>5, <2>1, <2>2, <2>3, SameSubscribes
<1>14. ASSUME NEW s \in Subs, NEW dest \in Destinations, Subscribe(c, s, dest)
       PROVE  SubscribesOnce'
  <2> DEFINE f == [do |-> "SUBSCRIBE", sub |-> s, dest |-> dest]
  <2>1. f \in Frame /\ f.do = "SUBSCRIBE" /\ f.sub = s /\ Writes(c, f)
    BY <1>14 DEF Frame, Subscribe
  <2> HIDE DEF f
  <2>2. /\ \A d \in Conns \ {c} : inq'[d] = inq[d]
        /\ Members(inq'[c]) \subseteq Members(inq[c]) \cup {f}
        /\ \A x, y : Follows(inq'[c], x, y) =>
             Follows(inq[c], x, y) \/ (x \in Members(inq[c]) /\ y = f)
    BY <1>1, <2>1, WritesOrder DEF Writes
  <2>3. /\ handlers[c][s] = "unused" /\ handlers'[c][s] = "on" /\ subs' = subs
        /\ \A p \in Conns, q \in Subs : p # c \/ q # s => handlers'[p][q] = handlers[p][q]
    BY <1>1, <1>14 DEF Subscribe, server
  <2>4. \A d \in Conns : \A g \in Members(inq[d]) : g.do = "SUBSCRIBE" => g.sub \in Subs
    <3>1. \A d \in Conns : Members(inq[d]) \subseteq Frame
      BY OrderOf DEF Promising, Orderly, TypeOK
    <3> QED
      BY <3>1 DEF Frame
  <2>5. ASSUME NEW d \in Conns, NEW x \in Members(inq'[d]), x.do = "SUBSCRIBE"
        PROVE  /\ handlers'[d][x.sub] # "unused" /\ subs'[d][x.sub] = NoDest
               /\ \A g \in Members(inq'[d]) :
                    g.do = "SUBSCRIBE" /\ Follows(inq'[d], x, g) => g.sub # x.sub
    <3>1. ASSUME x \in Members(inq[d])
          PROVE  /\ handlers[d][x.sub] # "unused" /\ subs[d][x.sub] = NoDest /\ x.sub \in Subs
                 /\ d # c \/ x.sub # s
                 /\ \A g \in Members(inq[d]) :
                      g.do = "SUBSCRIBE" /\ Follows(inq[d], x, g) => g.sub # x.sub
      BY <1>1, <2>3, <2>4, <2>5, <3>1 DEF SubscribesOnce
    <3>2. CASE d # c
      BY <2>2, <2>3, <2>5, <3>1, <3>2
    <3>3. CASE d = c
      <4>1. handlers'[d][x.sub] # "unused" /\ subs'[d][x.sub] = NoDest
        <5>1. CASE x = f
          BY <1>1, <2>1, <2>3, <3>3, <5>1 DEF SubscribesOnce
        <5>2. CASE x \in Members(inq[c])
          BY <2>3, <3>1, <3>3, <5>2
        <5> QED
          BY <2>2, <2>5, <3>3, <5>1, <5>2
      <4>2. ASSUME NEW g \in Members(inq'[d]), g.do = "SUBSCRIBE", Follows(inq'[d], x, g)
            PROVE  g.sub # x.sub
        <5>1. CASE Follows(inq[c], x, g)
          <6>1. x \in Members(inq[c]) /\ g \in Members(inq[c])
            BY <5>1 DEF Follows, Members
          <6> QED
            BY <3>1, <3>3, <4>2, <5>1, <6>1
        <5>2. CASE x \in Members(inq[c]) /\ g = f
          BY <2>1, <3>1, <3>3, <5>2
        <5> QED
          BY <2>2, <3>3, <4>2, <5>1, <5>2
      <4> QED
        BY <4>1, <4>2
    <3> QED
      BY <3>2, <3>3
  <2>6. ASSUME NEW d \in Conns, NEW q \in Subs, handlers'[d][q] = "unused"
        PROVE  subs'[d][q] = NoDest
    BY <1>1, <2>3, <2>6 DEF SubscribesOnce
  <2> QED
    BY <2>5, <2>6 DEF SubscribesOnce
<1> QED
  BY <1>2, <1>6, <1>7, <1>8, <1>9, <1>10, <1>11, <1>12, <1>13, <1>14 DEF Elsewhere
-----------------------------------------------------------------------------
(* Every step keeps the promise. *)

\* A connection that is not open is not opened again.
LEMMA Leaving ==
  ASSUME Promising, Next
  PROVE  People' \subseteq People
<1>1. PICK c \in Conns :
        ReadSubscribe(c) \/ ReadUnsubscribe(c) \/ Unregister(c) \/ Elsewhere(c)
  BY StepsAre
<1>2. \A d \in Conns : link'[d] = "open" => link[d] = "open"
  <2>1. CASE Elsewhere(c)
    BY <2>1, ElsewhereSame DEF Promising
  <2>2. CASE ReadSubscribe(c) \/ ReadUnsubscribe(c) \/ Unregister(c)
    BY <2>2 DEF ReadSubscribe, ReadUnsubscribe, Unregister, Promising, Orderly, TypeOK
  <2> QED
    BY <1>1, <2>1, <2>2
<1> QED
  BY <1>2 DEF People

\* The steps that add nothing to what is under way.
Quiet(c) ==
  \/ ReadSubscribe(c) \/ ReadUnsubscribe(c) \/ ReadDisconnect(c) \/ Unregister(c) \/ Drained(c)
  \/ SendMessage(c) /\ link[Head(todo[c]).to[1]] # "open"
  \/ Listener(c) \/ Close(c) \/ CloseSocket(c) \/ Lose(c)
  \/ \E s \in Subs : Unsubscribe(c, s) \/ \E dest \in Destinations : Subscribe(c, s, dest)

\* Any other adds a publication or a copy.
LEMMA QuietOrNot ==
  ASSUME Next
  PROVE  \E c \in Conns :
           \/ Quiet(c) \/ ReadSend(c)
           \/ SendMessage(c) /\ link[Head(todo[c]).to[1]] = "open"
           \/ \E dest \in Destinations : Publish(c, dest) \/ Relay(c, dest)
BY StepsAre DEF Quiet, Elsewhere, FansOut

\* The frame a client writes when it subscribes, unsubscribes or closes.
LEMMA WritesNoSend ==
  ASSUME NEW c \in Conns, \/ Close(c)
                          \/ \E s \in Subs : \/ Unsubscribe(c, s)
                                             \/ \E dest \in Destinations : Subscribe(c, s, dest)
  PROVE  /\ \E f \in Frame : /\ f.do # "SEND"
                             /\ inq' = inq \/ inq' = [inq EXCEPT ![c] = Append(@, f)]
         /\ UNCHANGED <<todo, waits, outq, msgs, got>>
<1>1. CASE Close(c)
  <2>1. [do |-> "DISCONNECT"] \in Frame
    BY DEF Frame
  <2> QED
    BY <1>1, <2>1 DEF Close, Writes, server
<1>2. ASSUME NEW s \in Subs, Unsubscribe(c, s)
      PROVE  /\ \E f \in Frame : /\ f.do # "SEND"
                                 /\ inq' = inq \/ inq' = [inq EXCEPT ![c] = Append(@, f)]
             /\ UNCHANGED <<todo, waits, outq, msgs, got>>
  <2>1. [do |-> "UNSUBSCRIBE", sub |-> s] \in Frame
    BY DEF Frame
  <2> QED
    BY <1>2, <2>1 DEF Unsubscribe, Writes, server
<1>3. ASSUME NEW s \in Subs, NEW dest \in Destinations, Subscribe(c, s, dest)
      PROVE  /\ \E f \in Frame : /\ f.do # "SEND"
                                 /\ inq' = inq \/ inq' = [inq EXCEPT ![c] = Append(@, f)]
             /\ UNCHANGED <<todo, waits, outq, msgs, got>>
  <2>1. [do |-> "SUBSCRIBE", sub |-> s, dest |-> dest] \in Frame
    BY DEF Frame
  <2> QED
    BY <1>3, <2>1 DEF Subscribe, Writes, server
<1> QED
  BY <1>1, <1>2, <1>3

\* They only make what is under way less.
LEMMA QuietShrinks ==
  ASSUME Promising, NEW c \in Conns, Quiet(c)
  PROVE  Shrinks
<1> USE DEF Promising
<1>1. CASE ReadSubscribe(c) \/ ReadUnsubscribe(c) \/ ReadDisconnect(c)
  <2>1. PICK do : Reads(c, do)
    BY <1>1 DEF ReadSubscribe, ReadUnsubscribe, ReadDisconnect
  <2>2. UNCHANGED <<todo, waits, outq, msgs>>
    BY <1>1 DEF ReadSubscribe, ReadUnsubscribe, ReadDisconnect, server, clients
  <2> QED
    BY <2>1, <2>2, ReadShrinks
<1>2. CASE Unregister(c) \/ HandlerEnds(c) \/ EndOfStream(c)
  <2>1. UNCHANGED <<inq, todo, waits, outq, msgs>>
    BY <1>2 DEF Unregister, HandlerEnds, EndOfStream, server, clients
  <2>2. \A d \in Conns : Unsent(d)' = Unsent(d)
    BY <2>1 DEF Unsent
  <2> QED
    BY <2>1, <2>2, SameThins DEF Shrinks
<1>3. CASE \/ Close(c)
           \/ \E s \in Subs : Unsubscribe(c, s) \/ \E dest \in Destinations : Subscribe(c, s, dest)
  <2>1. PICK f \in Frame : /\ f.do # "SEND"
                           /\ inq' = inq \/ inq' = [inq EXCEPT ![c] = Append(@, f)]
    BY <1>3, WritesNoSend
  <2>2. UNCHANGED <<todo, waits, outq, msgs>>
    BY <1>3, WritesNoSend
  <2> QED
    BY <2>1, <2>2, WriteShrinks
<1> QED
  BY <1>1, <1>2, <1>3, DrainedOrder, DropShrinks, ListenOrder, LoseOrder DEF Quiet, Listener

\* What is under way stays in order.
LEMMA OrderedKeeps ==
  ASSUME Promising, Next
  PROVE  Ordered'
<1>1. PICK c \in Conns :
        \/ Quiet(c) \/ ReadSend(c)
        \/ SendMessage(c) /\ link[Head(todo[c]).to[1]] = "open"
        \/ \E dest \in Destinations : Publish(c, dest) \/ Relay(c, dest)
  BY QuietOrNot
<1>2. CASE Quiet(c)
  BY <1>2, QuietShrinks, ShrinksKeeps DEF Promising
<1>3. CASE ReadSend(c)
  BY <1>3, ReadSendKeepsOrder DEF Promising, Known
<1>4. CASE SendMessage(c) /\ link[Head(todo[c]).to[1]] = "open"
  BY <1>4, CopyKeepsOrder DEF Promising
<1>5. CASE \E dest \in Destinations : Publish(c, dest) \/ Relay(c, dest)
  BY <1>5, PublishKeepsOrder DEF Promising, Known
<1> QED
  BY <1>1, <1>2, <1>3, <1>4, <1>5

\* The indexes hold what is registered.
LEMMA IndexedKeeps ==
  ASSUME Promising, Next
  PROVE  Indexed'
<1>1. PICK c \in Conns :
        ReadSubscribe(c) \/ ReadUnsubscribe(c) \/ Unregister(c) \/ Elsewhere(c)
  BY StepsAre
<1>2. CASE ReadSubscribe(c)
  BY <1>2, ReadSubscribeIndexes
<1>3. CASE ReadUnsubscribe(c) \/ Unregister(c)
  BY <1>3, ForgettingIndexes
<1>4. CASE Elsewhere(c)
  BY <1>4, ElsewhereSame, SameIndexes DEF Promising, Known
<1> QED
  BY <1>1, <1>2, <1>3, <1>4

\* Nothing is under way or registered at first.
LEMMA PromisingInit == Init => Promising
<1> SUFFICES ASSUME Init PROVE Promising
  OBVIOUS
<1>1. Orderly
  BY Beginning
<1>2. Members(<<>>) = {}
  <2>1. <<>> \in Seq({})
    OBVIOUS
  <2> QED
    BY <2>1, OrderOf
<1>3. Ordered
  BY <1>2 DEF Init, Ordered, InOrder, FanningOut, Copied
<1>4. Indexed
  <2>1. \A c \in Conns, s \in Subs : Registered(<<c, s>>) = NoDest
    BY DEF Init, Registered
  <2> QED
    BY <1>2, <2>1, TopicConstantsOK DEF Init, Indexed
<1>5. SubscribesOnce
  BY <1>2 DEF Init, SubscribesOnce
<1> QED
  BY <1>1, <1>3, <1>4, <1>5 DEF Promising, Known

\* Every step keeps the whole invariant.
LEMMA PromisingKeeps == Promising /\ [Next]_vars => Promising'
<1> SUFFICES ASSUME Promising, [Next]_vars PROVE Promising'
  OBVIOUS
<1>1. Orderly'
  BY Inductive DEF Promising
<1>2. CASE Next
  BY <1>1, <1>2, OrderedKeeps, IndexedKeeps, SubscribesKeeps DEF Promising, Known
<1>3. CASE UNCHANGED vars
  <2>1. Ordered'
    <3>1. \A d \in Conns : Unsent(d)' = Unsent(d)
      BY <1>3 DEF Unsent, vars, server
    <3>2. Shrinks
      BY <1>3, <3>1, SameThins DEF Shrinks, vars, server, clients
    <3> QED
      BY <3>2, ShrinksKeeps DEF Promising
  <2>2. Indexed'
    BY <1>3, SameIndexes DEF Promising, Known, vars, server
  <2>3. SubscribesOnce'
    BY <1>3 DEF Promising, Known, SubscribesOnce, vars, server, clients
  <2> QED
    BY <1>1, <2>1, <2>2, <2>3 DEF Promising, Known
<1> QED
  BY <1>2, <1>3

\* What the promise rests on holds in every run.
THEOREM Promises == Spec => []Promising
<1> QED
  BY PromisingInit, PromisingKeeps, PTL DEF Spec
-----------------------------------------------------------------------------
(* Topics implements FanOut. *)

\* What is on its way to a subscription depends on the copies alone.
LEMMA SameComing ==
  ASSUME \A c \in Conns : Unsent(c)' = Unsent(c), outq' = outq
  PROVE  \A r \in Registration : OnTheWay(r)' = OnTheWay(r)
BY DEF OnTheWay

\* The frames that a client has sent are still there, or it is gone, and so are
\* the copies for those who listen.
LEMMA QuietRefines ==
  ASSUME Promising, Promising', Next, NEW c \in Conns, Quiet(c), ~Listen(c)
  PROVE  Promise!Session
<1>1. Shrinks /\ People' \subseteq People
  BY QuietShrinks, Leaving
<1>2. ASSUME got' = got,
             \A d \in People' : \A f \in Members(inq[d]) : f.do = "SEND" => f \in Members(inq'[d]),
             \A r \in Registration : IsListening(r)' => OnTheWay(r) \subseteq OnTheWay(r)'
      PROVE  Promise!Session
  BY <1>1, <1>2, SessionStep
<1>3. ASSUME got' = got, UNCHANGED <<todo, waits, outq>>,
             \A d \in People' : \A f \in Members(inq[d]) : f.do = "SEND" => f \in Members(inq'[d])
      PROVE  Promise!Session
  <2>1. \A d \in Conns : Unsent(d)' = Unsent(d)
    BY <1>3 DEF Unsent
  <2>2. \A r \in Registration : OnTheWay(r)' = OnTheWay(r)
    BY <1>3, <2>1, SameComing
  <2> QED
    BY <1>2, <1>3, <2>2
<1>4. CASE ReadSubscribe(c) \/ ReadUnsubscribe(c) \/ ReadDisconnect(c)
  <2>1. PICK do \in {"SUBSCRIBE", "UNSUBSCRIBE", "DISCONNECT"} : Reads(c, do)
    BY <1>4 DEF ReadSubscribe, ReadUnsubscribe, ReadDisconnect
  <2>2. UNCHANGED <<todo, waits, outq, msgs, got>>
    BY <1>4 DEF ReadSubscribe, ReadUnsubscribe, ReadDisconnect, server, clients
  <2>3. /\ \A d \in Conns \ {c} : inq'[d] = inq[d]
        /\ Head(inq[c]).do = do /\ Members(inq[c]) = Members(inq'[c]) \cup {Head(inq[c])}
    BY <2>1, ReadsOrder DEF Promising
  <2>4. \A d \in Conns : \A f \in Members(inq[d]) : f.do = "SEND" => f \in Members(inq'[d])
    BY <2>1, <2>3
  <2> QED
    BY <1>3, <2>2, <2>4 DEF People
<1>5. CASE Unregister(c) \/ HandlerEnds(c) \/ EndOfStream(c)
  <2>1. UNCHANGED <<inq, todo, waits, outq, msgs, got>>
    BY <1>5 DEF Unregister, HandlerEnds, EndOfStream, server, clients
  <2> QED
    BY <1>3, <2>1
<1>6. CASE \/ Close(c)
           \/ \E s \in Subs : Unsubscribe(c, s) \/ \E dest \in Destinations : Subscribe(c, s, dest)
  <2>1. PICK f \in Frame : inq' = inq \/ inq' = [inq EXCEPT ![c] = Append(@, f)]
    BY <1>6, WritesNoSend
  <2>2. UNCHANGED <<todo, waits, outq, msgs, got>>
    BY <1>6, WritesNoSend
  <2>3. \A d \in Conns : Members(inq[d]) \subseteq Members(inq'[d])
    <3>1. inq[c] \in Seq(Frame) /\ inq \in [Conns -> Seq(Frame)]
      BY DEF Promising, Orderly, TypeOK
    <3>2. Members(Append(inq[c], f)) = Members(inq[c]) \cup {f}
      BY <3>1, AppendOrder
    <3> QED
      BY <2>1, <3>1, <3>2
  <2> QED
    BY <1>3, <2>2, <2>3 DEF People
<1>7. CASE Drained(c)
  <2>1. UNCHANGED <<inq, outq, got>>
    BY <1>7 DEF Drained, clients
  <2>2. \A r \in Registration : OnTheWay(r)' = OnTheWay(r)
    BY <1>7, <2>1, DrainedOrder, SameComing DEF Promising
  <2> QED
    BY <1>2, <2>1, <2>2
<1>8. CASE SendMessage(c) /\ link[Head(todo[c]).to[1]] # "open"
  <2> DEFINE first == Head(todo[c])
  <2>1. /\ UNCHANGED <<inq, outq, got>> /\ link' = link /\ handlers' = handlers
    BY <1>8 DEF SendMessage, clients
  <2>2. /\ Unsent(c) = todo[c] /\ Unsent(c)' = Tail(todo[c])
        /\ \A d \in Conns \ {c} : Unsent(d)' = Unsent(d)
        /\ Members(todo[c]) = Members(Tail(todo[c])) \cup {first}
    BY <1>8, SendMessageOrder DEF Promising
  <2>3. InCopies /\ InCopies'
    <3>1. Orderly /\ Orderly'
      BY DEF Promising
    <3> QED
      BY <3>1, OnTheWayIs, PTL
  <2>4. ASSUME NEW r \in Registration, IsListening(r)', NEW m \in OnTheWay(r)
        PROVE  m \in OnTheWay(r)'
    <3>1. first.to # r
      BY <1>8, <2>1, <2>4 DEF IsListening
    <3>2. CASE \E e \in Members(outq[r[1]]) : e.sub = r[2] /\ e.id = m
      BY <2>1, <2>3, <3>2 DEF InCopies
    <3>3. ASSUME NEW d \in Conns, NEW t \in Members(Unsent(d)), t.to = r, t.id = m
          PROVE  m \in OnTheWay(r)'
      <4>1. t \in Members(Unsent(d)')
        BY <2>2, <3>1, <3>3
      <4> QED
        BY <2>3, <3>3, <4>1 DEF InCopies
    <3> QED
      BY <2>3, <2>4, <3>2, <3>3 DEF InCopies
  <2> QED
    BY <1>2, <2>1, <2>4
<1>9. CASE Lose(c) \/ CloseSocket(c)
  <2>1. /\ \A d \in Conns \ {c} : inq'[d] = inq[d] /\ outq'[d] = outq[d]
        /\ \A d \in Conns : Unsent(d)' = Unsent(d)
    BY <1>9, LoseOrder DEF Promising
  <2>2. link'[c] # "open" /\ got' = got
    BY <1>9 DEF Lose, CloseSocket, Severed, clients, Promising, Orderly, TypeOK
  <2>3. \A d \in People' : inq'[d] = inq[d]
    BY <2>1, <2>2 DEF People
  <2>4. ASSUME NEW r \in Registration, IsListening(r)'
        PROVE  OnTheWay(r)' = OnTheWay(r)
    <3>1. r[1] \in Conns /\ outq'[r[1]] = outq[r[1]]
      BY <2>1, <2>2, <2>4 DEF IsListening, Registration
    <3> QED
      BY <2>1, <3>1 DEF OnTheWay
  <2> QED
    BY <1>2, <2>2, <2>3, <2>4
<1> QED
  BY <1>4, <1>5, <1>6, <1>7, <1>8, <1>9 DEF Quiet, Listener

\* What the listener reads is the oldest of its publisher that is on its way
\* to the subscription, and is there once.
LEMMA ListenTakes ==
  ASSUME Promising, Promising', NEW c \in Conns, Listen(c)
  PROVE  \E r \in Registration, m \in 1..Len(msgs) :
           /\ r = <<c, Head(outq[c]).sub>> /\ m = Head(outq[c]).id /\ m \in OnTheWay(r)
           /\ \A k \in OnTheWay(r) : k < m => msgs[k].from # msgs[m].from
           /\ OnTheWay(r)' = OnTheWay(r) \ {m}
           /\ \A q \in Registration \ {r} : OnTheWay(q)' = OnTheWay(q)
<1>1. PICK f : f = Head(outq[c])
  OBVIOUS
<1>2. /\ \A d \in Conns \ {c} : outq'[d] = outq[d]
      /\ Members(outq[c]) = Members(outq'[c]) \cup {f}
      /\ \A e \in Members(outq'[c]) : Follows(outq[c], f, e)
      /\ f \in [sub : Subs, id : 1..MaxMessages]
      /\ \A d \in Conns : Unsent(d)' = Unsent(d)
  BY <1>1, ListenOrder DEF Promising
<1>3. PICK r \in Registration, m \in 1..MaxMessages : r = <<c, f.sub>> /\ m = f.id
  BY <1>2 DEF Registration
<1>4. r[1] = c /\ r[2] = f.sub
  BY <1>3
<1>5. InCopies /\ InCopies'
  <2>1. Orderly /\ Orderly'
    BY DEF Promising
  <2> QED
    BY <2>1, OnTheWayIs, PTL
<1>6. PICK p : p = msgs[m].from
  OBVIOUS
<1>7. /\ Routed(p, m)
      /\ \A t \in Members(Unsent(p)) : t.to = <<c, f.sub>> => m < t.id
      /\ \A g \in Members(outq[c]) :
           Follows(outq[c], f, g) /\ g.sub = f.sub /\ msgs[g.id].from = p => m < g.id
  BY <1>2, <1>3, <1>6 DEF Promising, Ordered, Copied, OlderCopy
<1>8. m \in 1..Len(msgs) /\ p \in Conns
  BY <1>6, <1>7, SentBy DEF Routed, Promising
<1>9. \A d \in Conns : \A t \in Members(Unsent(d)) : msgs[t.id].from = d /\ t.id \in Int
  <2>1. \A d \in Conns : Members(Unsent(d)) \subseteq Members(todo[d])
    <3>1. ASSUME NEW d \in Conns, d \in waits
          PROVE  Members(Unsent(d)) \subseteq Members(todo[d])
      <4>1. todo[d] \in Seq(Copies) /\ todo[d] # <<>>
        BY <3>1 DEF Promising, Orderly, TypeOK, Copies, Idle
      <4>2. Members(todo[d]) = Members(Tail(todo[d])) \cup {Head(todo[d])}
        BY <4>1, TailOrder
      <4> QED
        BY <3>1, <4>2 DEF Unsent
    <3> QED
      BY <3>1 DEF Unsent
  <2>2. \A d \in Conns : \A t \in Members(todo[d]) : msgs[t.id].from = d /\ t.id \in Int
    BY SentBy DEF Promising, Ordered, FanningOut, Routed
  <2> QED
    BY <2>1, <2>2
<1>10. \A e \in Members(outq[c]) : e.id \in Int
  BY SentBy DEF Promising, Ordered, Copied, OlderCopy, Routed
<1>11. m \in Int
  BY <1>3
<1>12. ASSUME NEW d \in Conns, NEW t \in Members(Unsent(d)), t.to = r
       PROVE  t.id # m /\ (t.id < m => msgs[t.id].from # p)
  <2>1. msgs[t.id].from = p => m < t.id
    BY <1>3, <1>7, <1>9, <1>12
  <2> QED
    BY <1>6, <1>9, <1>11, <1>12, <2>1
<1>13. ASSUME NEW e \in Members(outq'[c]), e.sub = f.sub
       PROVE  e.id # m /\ (e.id < m => msgs[e.id].from # p)
  <2>1. msgs[e.id].from = p => m < e.id
    BY <1>2, <1>7, <1>13
  <2> QED
    BY <1>2, <1>6, <1>10, <1>11, <1>13, <2>1
<1>14. m \in OnTheWay(r)
  BY <1>2, <1>3, <1>4, <1>5 DEF InCopies
<1>15. ASSUME NEW k \in OnTheWay(r), k < m
       PROVE  msgs[k].from # msgs[m].from
  <2>1. \/ \E d \in Conns : \E t \in Members(Unsent(d)) : t.to = r /\ t.id = k
        \/ \E e \in Members(outq[c]) : e.sub = f.sub /\ e.id = k
    BY <1>4, <1>5, <1>15 DEF InCopies
  <2>2. k # m
    BY <1>11, <1>15
  <2>3. ASSUME NEW e \in Members(outq[c]), e.sub = f.sub, e.id = k
        PROVE  msgs[k].from # p
    BY <1>2, <1>3, <1>13, <1>15, <2>2, <2>3
  <2> QED
    BY <1>6, <1>12, <1>15, <2>1, <2>3
<1>16. OnTheWay(r)' = OnTheWay(r) \ {m}
  <2>1. ASSUME NEW k
        PROVE  k \in OnTheWay(r)' <=> k \in OnTheWay(r) /\ k # m
    <3>1. k \in OnTheWay(r)' <=>
            \/ \E d \in Conns : \E t \in Members(Unsent(d)) : t.to = r /\ t.id = k
            \/ \E e \in Members(outq'[c]) : e.sub = f.sub /\ e.id = k
      BY <1>2, <1>4, <1>5 DEF InCopies
    <3>2. k \in OnTheWay(r) <=>
            \/ \E d \in Conns : \E t \in Members(Unsent(d)) : t.to = r /\ t.id = k
            \/ \E e \in Members(outq[c]) : e.sub = f.sub /\ e.id = k
      BY <1>4, <1>5 DEF InCopies
    <3> QED
      BY <1>2, <1>3, <1>12, <1>13, <3>1, <3>2
  <2> QED
    BY <2>1
<1>17. ASSUME NEW q \in Registration \ {r}
       PROVE  OnTheWay(q)' = OnTheWay(q)
  <2>1. q[1] \in Conns /\ q = <<q[1], q[2]>>
    BY DEF Registration
  <2>2. ASSUME NEW k
        PROVE  k \in OnTheWay(q)' <=> k \in OnTheWay(q)
    <3>1. (\E e \in Members(outq'[q[1]]) : e.sub = q[2] /\ e.id = k)
            <=> \E e \in Members(outq[q[1]]) : e.sub = q[2] /\ e.id = k
      <4>1. CASE q[1] # c
        BY <1>2, <2>1, <4>1
      <4>2. CASE q[1] = c
        <5>1. q[2] # f.sub
          BY <1>3, <1>17, <2>1, <4>2
        <5> QED
          BY <1>2, <4>2, <5>1
      <4> QED
        BY <4>1, <4>2
    <3> QED
      BY <1>2, <1>5, <3>1 DEF InCopies
  <2> QED
    BY <2>2
<1> QED
  BY <1>1, <1>3, <1>8, <1>14, <1>15, <1>16, <1>17

\* The listener calls the handler, or drops what has none any more.
LEMMA ListenRefines ==
  ASSUME Promising, Promising', Next, NEW c \in Conns, Listen(c)
  PROVE  \/ Promise!Session
         \/ \E r \in Registration : \E m \in OnTheWay(r) : Promise!Deliver(r, m)
<1>1. PICK r \in Registration, m \in 1..Len(msgs) :
        /\ r = <<c, Head(outq[c]).sub>> /\ m = Head(outq[c]).id /\ m \in OnTheWay(r)
        /\ \A k \in OnTheWay(r) : k < m => msgs[k].from # msgs[m].from
        /\ OnTheWay(r)' = OnTheWay(r) \ {m}
        /\ \A q \in Registration \ {r} : OnTheWay(q)' = OnTheWay(q)
  BY ListenTakes
<1>2. UNCHANGED <<server, link, inq, msgs, handlers, client>>
  BY DEF Listen
<1>3. CASE handlers[c][Head(outq[c]).sub] = "on"
  <2>1. got' = [got EXCEPT ![r] = Append(@, m)]
    BY <1>1, <1>3 DEF Listen
  <2>2. /\ Coming' = [Coming EXCEPT ![r] = @ \ {m}] /\ m \in Coming[r]
        /\ Promise!EarlierOf(m, Coming[r]) = {}
    BY <1>1 DEF Coming, Promise!EarlierOf
  <2>3. UNCHANGED <<msgs, ToBeRead, People, Destined, Audience>>
    BY <1>2 DEF ToBeRead, People, Destined, Registered, Audience, IsListening, server
  <2>4. Promise!Deliver(r, m)
    BY <2>1, <2>2, <2>3 DEF Promise!Deliver, Coming, People, Destined, Audience
  <2> QED
    BY <1>1, <2>4
<1>4. CASE handlers[c][Head(outq[c]).sub] # "on"
  <2>1. got' = got
    BY <1>4 DEF Listen
  <2>2. ~IsListening(r)'
    BY <1>1, <1>2, <1>4 DEF IsListening
  <2>3. \A q \in Registration : IsListening(q)' => OnTheWay(q) \subseteq OnTheWay(q)'
    BY <1>1, <2>2
  <2>4. Shrinks /\ People' \subseteq People
    BY Leaving, ListenOrder DEF Promising
  <2> QED
    BY <1>2, <2>1, <2>3, <2>4, SessionStep
<1> QED
  BY <1>3, <1>4

\* A copy that is written is on its way as before.
LEMMA CopyRefines ==
  ASSUME Promising, Promising', NEW c \in Conns, SendMessage(c),
         link[Head(todo[c]).to[1]] = "open"
  PROVE  UNCHANGED Promised
<1> DEFINE first == Head(todo[c])
           Copy == [sub : Subs, id : 1..MaxMessages]
<1>1. /\ UNCHANGED <<exact, wildcard, subs, link, inq, clients>>
      /\ outq' = [outq EXCEPT ![first.to[1]] =
                    Append(@, [sub |-> first.to[2], id |-> first.id])]
  BY DEF SendMessage
<1>2. UNCHANGED <<msgs, ToBeRead, People, Destined, Audience, got>>
  BY <1>1 DEF ToBeRead, People, Destined, Registered, Audience, IsListening, clients
<1>3. /\ Unsent(c) = todo[c] /\ Unsent(c)' = Tail(todo[c])
      /\ \A d \in Conns \ {c} : Unsent(d)' = Unsent(d)
      /\ first \in Copies /\ Members(todo[c]) = Members(Tail(todo[c])) \cup {first}
  BY SendMessageOrder DEF Promising
<1>4. PICK p \in Conns, s \in Subs : first.to = <<p, s>>
  BY <1>3 DEF Copies, Registration
<1>5. PICK e \in Copy : e = [sub |-> first.to[2], id |-> first.id]
  BY <1>3 DEF Copies, Registration
<1>6. outq' = [outq EXCEPT ![p] = Append(@, e)] /\ e.sub = s /\ e.id = first.id
  <2>1. p = first.to[1] /\ s = first.to[2]
    BY <1>4
  <2>2. e.sub = s /\ e.id = first.id
    BY <1>5, <2>1
  <2>3. outq' = [outq EXCEPT ![first.to[1]] = Append(@, e)]
    BY <1>1, <1>5
  <2> QED
    BY <2>1, <2>2, <2>3
<1>7. outq \in [Conns -> Seq(Copy)] /\ outq[p] \in Seq(Copy)
  BY DEF Promising, Orderly, TypeOK
<1> HIDE DEF first, Copy
<1>8. Members(outq'[p]) = Members(outq[p]) \cup {e} /\ \A d \in Conns \ {p} : outq'[d] = outq[d]
  <2>1. outq'[p] = Append(outq[p], e) /\ \A d \in Conns \ {p} : outq'[d] = outq[d]
    BY <1>6, <1>7
  <2> QED
    BY <1>7, <2>1, AppendOrder
<1>9. InCopies /\ InCopies'
  <2>1. Orderly /\ Orderly'
    BY DEF Promising
  <2> QED
    BY <2>1, OnTheWayIs, PTL
<1>10. ASSUME NEW r \in Registration
       PROVE  OnTheWay(r)' = OnTheWay(r)
  <2>1. r[1] \in Conns /\ r = <<r[1], r[2]>>
    BY DEF Registration
  <2>2. r = first.to <=> r[1] = p /\ r[2] = s
    BY <1>4, <2>1
  <2>3. ASSUME NEW m
        PROVE  m \in OnTheWay(r)' <=> m \in OnTheWay(r)
    <3>1. (\E d \in Conns : \E t \in Members(Unsent(d)) : t.to = r /\ t.id = m) <=>
            \/ \E d \in Conns : \E t \in Members(Unsent(d)') : t.to = r /\ t.id = m
            \/ first.to = r /\ first.id = m
      BY <1>3
    <3>2. (\E x \in Members(outq'[r[1]]) : x.sub = r[2] /\ x.id = m) <=>
            \/ \E x \in Members(outq[r[1]]) : x.sub = r[2] /\ x.id = m
            \/ r[1] = p /\ e.sub = r[2] /\ e.id = m
      <4>1. CASE r[1] = p
        BY <1>8, <4>1
      <4>2. CASE r[1] # p
        BY <1>8, <2>1, <4>2
      <4> QED
        BY <4>1, <4>2
    <3>3. (first.to = r /\ first.id = m) <=> (r[1] = p /\ e.sub = r[2] /\ e.id = m)
      BY <1>6, <2>2
    <3>4. m \in OnTheWay(r) <=>
            \/ \E d \in Conns : \E t \in Members(Unsent(d)) : t.to = r /\ t.id = m
            \/ \E x \in Members(outq[r[1]]) : x.sub = r[2] /\ x.id = m
      BY <1>9 DEF InCopies
    <3>5. m \in OnTheWay(r)' <=>
            \/ \E d \in Conns : \E t \in Members(Unsent(d)') : t.to = r /\ t.id = m
            \/ \E x \in Members(outq'[r[1]]) : x.sub = r[2] /\ x.id = m
      BY <1>9 DEF InCopies
    <3> QED
      BY <3>1, <3>2, <3>3, <3>4, <3>5
  <2> QED
    BY <2>3
<1> QED
  BY <1>2, <1>10 DEF Promised, Coming

\* The handler of SEND makes the message one for every subscription that covers it.
LEMMA ReadSendRefines ==
  ASSUME Promising, Promising', NEW c \in Conns, ReadSend(c)
  PROVE  \E m \in ToBeRead : Promise!Publish(m)
<1>1. PICK m \in 1..Len(msgs) : \E regs \in Subscribers(msgs[m].dest) :
        /\ Head(inq[c]).id = m /\ Head(inq[c]).do = "SEND" /\ msgs[m].from = c
        /\ m \in Nat /\ regs \in Seq(Registration) /\ Distinct(regs)
        /\ Addressed(todo'[c], m, regs)
        /\ Unsent(c) = <<>> /\ Unsent(c)' = todo'[c]
        /\ \A d \in Conns \ {c} : todo'[d] = todo[d] /\ Unsent(d)' = Unsent(d)
        /\ outq' = outq /\ msgs' = msgs
  BY ReadSendOrder DEF Promising, Known
<1>2. PICK regs \in Subscribers(msgs[m].dest) :
        /\ Head(inq[c]).id = m /\ Head(inq[c]).do = "SEND" /\ msgs[m].from = c
        /\ m \in Nat /\ Addressed(todo'[c], m, regs)
        /\ Unsent(c) = <<>> /\ Unsent(c)' = todo'[c]
        /\ \A d \in Conns \ {c} : Unsent(d)' = Unsent(d)
        /\ outq' = outq /\ msgs' = msgs
  BY <1>1
<1>3. PICK f : f = Head(inq[c])
  OBVIOUS
<1>4. /\ \A d \in Conns \ {c} : inq'[d] = inq[d]
      /\ Members(inq[c]) = Members(inq'[c]) \cup {f}
      /\ \A g \in Members(inq'[c]) : Follows(inq[c], f, g)
  BY <1>3, ReadsOrder DEF ReadSend, Promising
<1>5. /\ f \in Members(inq[c]) /\ f.do = "SEND" /\ f.id = m /\ msgs[m].from = c
      /\ \A d \in Conns : \A g \in Members(inq[d]) :
           g.do = "SEND" => msgs[g.id].from = d /\ g.id \in Int
      /\ \A g \in Members(inq'[c]) : g.do = "SEND" => m < g.id
  <2>1. \A d \in Conns : \A g \in Members(inq[d]) : g.do = "SEND" => g.id \in 1..Len(msgs)
    BY DEF Members, Promising, Orderly, AllSent, Sent
  <2>2. \A g \in Members(inq'[c]) : g.do = "SEND" => m < g.id
    BY <1>2, <1>3, <1>4 DEF Promising, Ordered, InOrder
  <2>3. \A d \in Conns : \A g \in Members(inq[d]) : g.do = "SEND" => g.id \in Int
    BY <2>1, SentBy DEF Promising
  <2> QED
    BY <1>2, <1>3, <1>4, <2>2, <2>3 DEF Promising, Ordered, InOrder
<1>6. InFrames /\ InFrames' /\ InCopies /\ InCopies'
  <2>1. Orderly /\ Orderly'
    BY DEF Promising
  <2> QED
    BY <2>1, ToBeReadIs, OnTheWayIs, PTL
<1>7. m \in ToBeRead /\ m \in Int
  BY <1>2, <1>5, <1>6 DEF InFrames
<1>8. ASSUME NEW k \in ToBeRead, k < m
      PROVE  msgs[k].from # msgs[m].from
  <2>1. PICK d \in Conns : \E g \in Members(inq[d]) : g.do = "SEND" /\ g.id = k
    BY <1>6, <1>8 DEF InFrames
  <2>2. PICK g \in Members(inq[d]) : g.do = "SEND" /\ g.id = k
    BY <2>1
  <2>3. CASE d # c
    BY <1>5, <2>2, <2>3
  <2>4. CASE d = c
    BY <1>4, <1>5, <1>7, <1>8, <2>2, <2>4
  <2> QED
    BY <2>3, <2>4
<1>9. ToBeRead' = ToBeRead \ {m}
  <2>1. ASSUME NEW k \in ToBeRead'
        PROVE  k \in ToBeRead /\ k # m
    <3>1. PICK d \in Conns : \E g \in Members(inq'[d]) : g.do = "SEND" /\ g.id = k
      BY <1>6, <2>1 DEF InFrames
    <3>2. PICK g \in Members(inq'[d]) : g.do = "SEND" /\ g.id = k
      BY <3>1
    <3>3. g \in Members(inq[d])
      BY <1>4, <3>2
    <3>4. k \in ToBeRead
      BY <1>6, <3>2, <3>3 DEF InFrames
    <3>5. CASE d = c
      BY <1>5, <1>7, <3>2, <3>4, <3>5
    <3>6. CASE d # c
      BY <1>5, <3>2, <3>3, <3>4, <3>6
    <3> QED
      BY <3>5, <3>6
  <2>2. ASSUME NEW k \in ToBeRead, k # m
        PROVE  k \in ToBeRead'
    <3>1. PICK d \in Conns : \E g \in Members(inq[d]) : g.do = "SEND" /\ g.id = k
      BY <1>6, <2>2 DEF InFrames
    <3>2. PICK g \in Members(inq[d]) : g.do = "SEND" /\ g.id = k
      BY <3>1
    <3>3. g \in Members(inq'[d])
      BY <1>4, <1>5, <2>2, <3>2
    <3> QED
      BY <1>6, <3>2, <3>3 DEF InFrames
  <2> QED
    BY <2>1, <2>2
<1>10. ASSUME NEW r \in Registration
       PROVE  OnTheWay(r)' =
                IF Registered(r) # NoDest /\ Promise!Covers(Registered(r), msgs[m].dest)
                THEN OnTheWay(r) \cup {m} ELSE OnTheWay(r)
  <2>1. r \in Members(regs) <=>
          Registered(r) # NoDest /\ Promise!Covers(Registered(r), msgs[m].dest)
    <3>1. msgs[m].dest \in Destinations
      BY SentBy DEF Promising
    <3> QED
      BY <3>1, SubscribersOnce DEF Promising, Known
  <2>2. Members(Unsent(c)) = {}
    <3>1. <<>> \in Seq({}) /\ Unsent(c) = <<>>
      BY <1>2
    <3> QED
      BY <3>1, OrderOf
  <2>3. ASSUME NEW k
        PROVE  k \in OnTheWay(r)' <=> k \in OnTheWay(r) \/ (r \in Members(regs) /\ k = m)
    <3>1. (\E t \in Members(Unsent(c)') : t.to = r /\ t.id = k) <=> r \in Members(regs) /\ k = m
      BY <1>2 DEF Addressed
    <3>2. k \in OnTheWay(r) <=>
            \/ \E d \in Conns : \E t \in Members(Unsent(d)) : t.to = r /\ t.id = k
            \/ \E x \in Members(outq[r[1]]) : x.sub = r[2] /\ x.id = k
      BY <1>6 DEF InCopies
    <3>3. k \in OnTheWay(r)' <=>
            \/ \E d \in Conns : \E t \in Members(Unsent(d)') : t.to = r /\ t.id = k
            \/ \E x \in Members(outq[r[1]]) : x.sub = r[2] /\ x.id = k
      BY <1>2, <1>6 DEF InCopies
    <3>4. (\E d \in Conns : \E t \in Members(Unsent(d)') : t.to = r /\ t.id = k) <=>
            \/ \E d \in Conns : \E t \in Members(Unsent(d)) : t.to = r /\ t.id = k
            \/ \E t \in Members(Unsent(c)') : t.to = r /\ t.id = k
      BY <1>2, <2>2
    <3> QED
      BY <3>1, <3>2, <3>3, <3>4
  <2> QED
    BY <2>1, <2>3
<1>11. UNCHANGED <<msgs, People, Destined, Audience, got>>
  BY DEF ReadSend, People, Destined, Registered, Audience, IsListening, clients
<1>12. Promise!EarlierOf(m, ToBeRead) = {}
  BY <1>8 DEF Promise!EarlierOf
<1>13. Coming' = [r \in Registration |->
         IF Destined[r] # NoDest /\ Promise!Covers(Destined[r], msgs[m].dest)
         THEN Coming[r] \cup {m} ELSE Coming[r]]
  BY <1>10 DEF Coming, Destined
<1>14. Promise!Publish(m)
  BY <1>7, <1>9, <1>11, <1>12, <1>13
  DEF Promise!Publish, Coming, Destined, People, Audience
<1> QED
  BY <1>7, <1>14

\* publish() of a client.
LEMMA PublishRefines ==
  ASSUME Promising, Promising', NEW c \in Conns, NEW dest \in Destinations,
         Publish(c, dest) \/ Relay(c, dest)
  PROVE  Promise!Send
<1> DEFINE m == Len(msgs) + 1
           f == [do |-> "SEND", id |-> m]
<1>1. /\ link[c] = "open" /\ Len(msgs) \in Nat
      /\ msgs' = Append(msgs, [from |-> c, dest |-> dest])
      /\ f \in Frame /\ inq' = [inq EXCEPT ![c] = Append(@, f)]
      /\ inq'[c] = Append(inq[c], f)
      /\ UNCHANGED <<server, link, outq, handlers, client, got>>
  BY PublishOrder DEF Promising
<1>2. f.do = "SEND" /\ f.id = m
  OBVIOUS
<1> HIDE DEF f
<1>3. inq[c] \in Seq(Frame) /\ inq \in [Conns -> Seq(Frame)]
  BY DEF Promising, Orderly, TypeOK
<1>4. /\ Members(inq'[c]) = Members(inq[c]) \cup {f}
      /\ \A d \in Conns \ {c} : inq'[d] = inq[d]
  <2>1. \A d \in Conns \ {c} : inq'[d] = inq[d]
    BY <1>1, <1>3
  <2> QED
    BY <1>1, <1>3, <2>1, AppendOrder
<1>5. InFrames /\ InFrames'
  <2>1. Orderly /\ Orderly'
    BY DEF Promising
  <2> QED
    BY <2>1, ToBeReadIs, PTL
<1>6. ToBeRead' = ToBeRead \cup {m}
  <2>1. ASSUME NEW k
        PROVE  k \in ToBeRead' <=> k \in ToBeRead \/ k = m
    BY <1>2, <1>4, <1>5 DEF InFrames
  <2> QED
    BY <2>1
<1>7. \A d \in Conns : Unsent(d)' = Unsent(d)
  BY <1>1 DEF Unsent, server
<1>8. UNCHANGED <<People, Destined, Audience, Coming, got>>
  <2>1. \A r \in Registration : OnTheWay(r)' = OnTheWay(r)
    BY <1>1, <1>7, SameComing
  <2>2. Coming' = Coming
    BY <2>1 DEF Coming
  <2> QED
    BY <1>1, <2>2 DEF People, Destined, Registered, Audience, IsListening, server
<1>9. c \in People
  BY <1>1 DEF People
<1> QED
  BY <1>1, <1>6, <1>8, <1>9 DEF Promise!Send, Coming, Destined, People, Audience

\* Every step is one of FanOut, or changes nothing that FanOut promises of.
LEMMA NextRefines == Promising /\ [Next]_vars => [Promise!Next]_Promised
<1> SUFFICES ASSUME Promising, [Next]_vars
             PROVE  Promise!Next \/ UNCHANGED Promised
  OBVIOUS
<1>1. Promising'
  BY PromisingKeeps
<1>2. CASE UNCHANGED vars
  BY <1>2 DEF vars, server, clients, Promised, ToBeRead, People, Destined, Registered, Audience,
              IsListening, Coming, OnTheWay, Unsent
<1>3. CASE Next
  <2>1. PICK c \in Conns :
          \/ Quiet(c) \/ ReadSend(c)
          \/ SendMessage(c) /\ link[Head(todo[c]).to[1]] = "open"
          \/ \E dest \in Destinations : Publish(c, dest) \/ Relay(c, dest)
    BY <1>3, QuietOrNot
  <2>2. CASE Quiet(c) /\ ~Listen(c)
    BY <1>1, <1>3, <2>2, QuietRefines DEF Promise!Next
  <2>3. CASE Listen(c)
    <3>1. CASE Promise!Session
      BY <3>1 DEF Promise!Next
    <3>2. ASSUME NEW r \in Registration, NEW m \in OnTheWay(r), Promise!Deliver(r, m)
          PROVE  Promise!Next
      BY <3>2 DEF Promise!Next
    <3> QED
      BY <1>1, <1>3, <2>3, <3>1, <3>2, ListenRefines
  <2>4. CASE ReadSend(c)
    BY <1>1, <2>4, ReadSendRefines DEF Promise!Next
  <2>5. CASE SendMessage(c) /\ link[Head(todo[c]).to[1]] = "open"
    BY <1>1, <2>5, CopyRefines
  <2>6. CASE \E dest \in Destinations : Publish(c, dest) \/ Relay(c, dest)
    BY <1>1, <2>6, PublishRefines DEF Promise!Next
  <2> QED
    BY <2>1, <2>2, <2>3, <2>4, <2>5, <2>6
<1> QED
  BY <1>2, <1>3

\* Nothing has been sent at first.
LEMMA InitRefines == Init => Promise!Init
<1> SUFFICES ASSUME Init PROVE Promise!Init
  OBVIOUS
<1>1. \A r \in Registration : OnTheWay(r) = {} /\ Registered(r) = NoDest /\ ~IsListening(r)
  BY DEF Init, OnTheWay, Unsent, Registered, IsListening, Registration
<1>2. ToBeRead = {}
  BY DEF Init, ToBeRead
<1>3. {c \in Conns : link[c] = "open"} = Conns
  BY DEF Init
<1>4. {r \in Registration : IsListening(r)} = {}
  BY <1>1
<1>5. /\ [r \in Registration |-> Registered(r)] = [r \in Registration |-> NoDest]
      /\ [r \in Registration |-> OnTheWay(r)] = [r \in Registration |-> {}]
  BY <1>1
<1>6. msgs = <<>> /\ got = [r \in Registration |-> <<>>]
  BY DEF Init
<1> QED
  BY <1>2, <1>3, <1>4, <1>5, <1>6 DEF Promise!Init

\* Every behaviour of Topics is one of FanOut: whatever publishers, subscribers
\* and connections do between the awaits of _handle_send, a message reaches the
\* subscriptions that cover its topic when it is read, once and in order.
THEOREM FanOuts == Spec => FansOutOnce
<1>1. Promising /\ [Next]_vars =>
        [Promise!Next]_<<msgs, ToBeRead, {c \in Conns : link[c] = "open"},
                         [r \in Registration |-> Registered(r)],
                         {r \in Registration : IsListening(r)},
                         [r \in Registration |-> OnTheWay(r)], got>>
  BY NextRefines DEF Promised, People, Destined, Audience, Coming
<1> QED
  BY <1>1, InitRefines, Promises, PTL DEF Spec, FansOutOnce, Promise!Spec
=============================================================================
