------------------------------- MODULE Topics -------------------------------
(***************************************************************************)
(* Topics: topic.py, the topic branches of the handlers of broker.py and   *)
(* the client of client.py at both ends of its connection.                 *)
(*                                                                         *)
(* A publication is handled by the task of its connection, which awaits    *)
(* one subscriber after the other: drain waits while the bytes a client    *)
(* has not read exceed the high-water mark.  The client's listener awaits  *)
(* a handler, and the handler the drain of what it publishes, before it    *)
(* reads the next frame.                                                   *)
(*                                                                         *)
(* An operator name_mistake, put in the place of `name', must make one of  *)
(* the properties below fail; the model uses none.                         *)
(***************************************************************************)
EXTENDS SequencesExt, Lists

CONSTANTS
  Conns,          \* connections, each with a client
  Subs,           \* subscription ids of a client, each used once
  Destinations,   \* topics and patterns, as sequences of parts
  Starred,        \* parts that contain a star
  NoDest, NoConn

\* What the environment does, and the bounds of the model.
CONSTANTS
  Targets,        \* topics each client publishes to
  Relays,         \* topics its handlers publish to
  Patterns,       \* destinations it subscribes to
  Lossy,          \* clients that close or whose connection breaks
  High,           \* frames a drain leaves unread
  MaxPublished,   \* messages published before handlers only may publish
  MaxMessages     \* messages published

Registration == Conns \X Subs

ASSUME TopicConstantsOK ==
  /\ Destinations \subseteq Seq(STRING) /\ NoDest \notin Destinations
  /\ {Targets, Relays, Patterns} \subseteq [Conns -> SUBSET Destinations]
  /\ Starred \subseteq STRING /\ "*" \in Starred
  /\ NoConn \notin Conns /\ IsFiniteSet(Registration)
  /\ {High, MaxPublished, MaxMessages} \subseteq Nat /\ MaxPublished <= MaxMessages

VARIABLES
  running,    \* the task that holds the event loop of the server
  todo,       \* for every task, the subscribers it still has to send to
  waits,      \* tasks that wait in a drain, for the first of those
  exact, wildcard,   \* TopicManager
  subs,       \* Connection.subscriptions
  link,       \* "open", "lost" (broken or closed, not noticed yet) or "gone"
  inq, outq,  \* frames to and from the server that the other side has not read
  msgs,       \* messages published: [from, dest]
  handlers,   \* BrokerClient._handlers: "unused", "on" or "off"
  client,     \* BrokerClient._connected
  reading,    \* clients whose listener awaits a frame
  busy,       \* those whose listener awaits a handler
  relaying,   \* those whose handler has published and awaits the drain
  closing,    \* clients whose close() awaits the drain of DISCONNECT
  got         \* the messages every handler was called with

server == <<running, todo, waits, exact, wildcard, subs>>
clients == <<msgs, handlers, client, reading, busy, relaying, closing, got>>
vars == <<server, link, inq, outq, clients>>
-----------------------------------------------------------------------------
(* topic.py. *)

HasStar(dest) == \E i \in DOMAIN dest : dest[i] \in Starred

Match_anyLength(pattern, dest) ==
  \A i \in DOMAIN pattern \cap DOMAIN dest : pattern[i] = "*" \/ pattern[i] = dest[i]
Match(pattern, dest) ==
  /\ Len(pattern) = Len(dest)
  /\ \A i \in DOMAIN pattern : pattern[i] = "*" \/ pattern[i] = dest[i]

Register(dest, c, s) ==
  IF HasStar(dest)
  THEN wildcard' = Append(wildcard, <<dest, c, s>>) /\ UNCHANGED exact
  ELSE exact' = [exact EXCEPT ![dest] = @ \cup {<<c, s>>}] /\ UNCHANGED wildcard

\* unsubscribe and remove_connection: these registrations are taken out.
Forget_exactOnly(regs) ==
  exact' = [dest \in Destinations |-> exact[dest] \ regs] /\ UNCHANGED wildcard
Forget(regs) ==
  /\ exact' = [dest \in Destinations |-> exact[dest] \ regs]
  /\ wildcard' = Without(wildcard, {<<dest, r[1], r[2]>> : dest \in Destinations, r \in regs})

\* get_subscribers: a set in any order, then the patterns in theirs.
Subscribers(dest) ==
  LET matching == Without(wildcard, {w \in Range(wildcard) : ~Match(w[1], dest)})
  IN  {first \o [i \in DOMAIN matching |-> <<matching[i][2], matching[i][3]>>] :
         first \in SetToSeqs(exact[dest])}
-----------------------------------------------------------------------------
(* The server. *)

Free == running = NoConn
Idle(c) == todo[c] = <<>>

\* The next frame of a connection whose task is at rest.
Reads(c, do) ==
  /\ Free /\ Idle(c) /\ inq[c] # <<>> /\ Head(inq[c]).do = do
  /\ inq' = [inq EXCEPT ![c] = Tail(@)]

\* SEND: a MESSAGE frame for each of the subscribers there are now.
ReadSend(c) ==
  LET m == Head(inq[c]).id IN
  /\ Reads(c, "SEND")
  /\ \E regs \in Subscribers(msgs[m].dest) :
       /\ todo' = [todo EXCEPT ![c] = [i \in DOMAIN regs |-> [to |-> regs[i], id |-> m]]]
       /\ running' = IF regs = <<>> THEN NoConn ELSE c
  /\ UNCHANGED <<waits, exact, wildcard, subs, link, outq, clients>>

ReadSubscribe(c) ==
  LET f == Head(inq[c]) IN
  /\ Reads(c, "SUBSCRIBE")
  /\ subs' = [subs EXCEPT ![c][f.sub] = f.dest]
  /\ Register(f.dest, c, f.sub)
  /\ UNCHANGED <<running, todo, waits, link, outq, clients>>

ReadUnsubscribe(c) ==
  LET s == Head(inq[c]).sub IN
  /\ Reads(c, "UNSUBSCRIBE")
  /\ subs' = [subs EXCEPT ![c][s] = NoDest]
  /\ Forget({<<c, s>>})
  /\ UNCHANGED <<running, todo, waits, link, outq, clients>>

\* DISCONNECT: the transport is closed.
ReadDisconnect(c) ==
  /\ Reads(c, "DISCONNECT")
  /\ link' = [link EXCEPT ![c] = IF @ = "open" THEN "lost" ELSE @]
  /\ UNCHANGED <<server, outq, clients>>

\* The reader is at its end: unregister.
Unregister(c) ==
  /\ Free /\ Idle(c) /\ link[c] = "lost" /\ inq[c] = <<>>
  /\ link' = [link EXCEPT ![c] = "gone"]
  /\ Forget({c} \X Subs)
  /\ UNCHANGED <<running, todo, waits, subs, inq, outq, clients>>

\* Task c is done with its first subscriber.
NextSubscriber(c) ==
  /\ todo' = [todo EXCEPT ![c] = Tail(@)]
  /\ running' = IF Tail(todo[c]) = <<>> THEN NoConn ELSE c

\* send_frame to the first subscriber; an error of it is caught.
SendMessage(c) ==
  LET to == Head(todo[c]).to
      out == IF link[to[1]] = "open"
             THEN [outq EXCEPT ![to[1]] = Append(@, [sub |-> to[2], id |-> Head(todo[c]).id])]
             ELSE outq
  IN
  /\ running = c
  /\ outq' = out
  /\ IF link[to[1]] = "open" /\ Len(out[to[1]]) > High
     THEN running' = NoConn /\ waits' = waits \cup {c} /\ UNCHANGED todo
     ELSE NextSubscriber(c) /\ UNCHANGED waits
  /\ UNCHANGED <<exact, wildcard, subs, link, inq, clients>>

Drained_openOnly(c) ==
  /\ Free /\ c \in waits
  /\ Len(outq[Head(todo[c]).to[1]]) <= High
  /\ waits' = waits \ {c}
  /\ NextSubscriber(c)
  /\ UNCHANGED <<exact, wildcard, subs, link, inq, outq, clients>>
Drained_waitsOn(c) ==
  /\ Free /\ c \in waits
  /\ Len(outq[Head(todo[c]).to[1]]) <= High
  /\ NextSubscriber(c)
  /\ UNCHANGED <<waits, exact, wildcard, subs, link, inq, outq, clients>>

\* A drain ends when the client has read enough, or with its connection.
Drained(c) ==
  LET to == Head(todo[c]).to[1] IN
  /\ Free /\ c \in waits
  /\ Len(outq[to]) <= High \/ link[to] # "open"
  /\ waits' = waits \ {c}
  /\ NextSubscriber(c)
  /\ UNCHANGED <<exact, wildcard, subs, link, inq, outq, clients>>
-----------------------------------------------------------------------------
(* The client. *)

\* _send, once the drain of the client's last frame has returned.
Writes(c, frame) ==
  /\ client[c] /\ Len(inq[c]) <= High
  /\ inq' = IF link[c] = "open" THEN [inq EXCEPT ![c] = Append(@, frame)] ELSE inq

Publish(c, dest) ==
  /\ dest \in Targets[c] /\ Len(msgs) < MaxPublished /\ link[c] = "open"
  /\ Writes(c, [do |-> "SEND", id |-> Len(msgs) + 1])
  /\ msgs' = Append(msgs, [from |-> c, dest |-> dest])
  /\ UNCHANGED <<server, link, outq, handlers, client, reading, busy, relaying, closing, got>>

Subscribe(c, s, dest) ==
  /\ dest \in Patterns[c] /\ handlers[c][s] = "unused"
  /\ handlers' = [handlers EXCEPT ![c][s] = "on"]
  /\ Writes(c, [do |-> "SUBSCRIBE", sub |-> s, dest |-> dest])
  /\ UNCHANGED <<server, link, outq, msgs, client, reading, busy, relaying, closing, got>>

Unsubscribe(c, s) ==
  /\ handlers[c][s] = "on"
  /\ handlers' = [handlers EXCEPT ![c][s] = "off"]
  /\ Writes(c, [do |-> "UNSUBSCRIBE", sub |-> s])
  /\ UNCHANGED <<server, link, outq, msgs, client, reading, busy, relaying, closing, got>>

\* The listener awaits the next frame, unless close() was called meanwhile.
ReadsOn(c) == IF client[c] THEN reading \cup {c} ELSE reading \ {c}

\* The listener reads a frame and calls its handler, if there is one still.
Listen(c) ==
  LET f == Head(outq[c]) IN
  /\ c \in reading /\ outq[c] # <<>>
  /\ outq' = [outq EXCEPT ![c] = Tail(@)]
  /\ IF handlers[c][f.sub] = "on"
     THEN /\ reading' = reading \ {c} /\ busy' = busy \cup {c}
          /\ got' = [got EXCEPT ![<<c, f.sub>>] = Append(@, f.id)]
     ELSE reading' = ReadsOn(c) /\ UNCHANGED <<busy, got>>
  /\ UNCHANGED <<server, link, inq, msgs, handlers, client, relaying, closing>>

\* A handler publishes: it writes at once, and awaits the drain.
Relay(c, dest) ==
  /\ c \in busy \ relaying /\ dest \in Relays[c]
  /\ Len(msgs) < MaxMessages /\ link[c] = "open"
  /\ inq' = [inq EXCEPT ![c] = Append(@, [do |-> "SEND", id |-> Len(msgs) + 1])]
  /\ msgs' = Append(msgs, [from |-> c, dest |-> dest])
  /\ relaying' = relaying \cup {c}
  /\ UNCHANGED <<server, link, outq, handlers, client, reading, busy, closing, got>>

\* What c has written is more than its drain leaves unread.
Undrained(c) == Len(inq[c]) > High /\ link[c] = "open"

\* The handler of c cannot end before the server has read what it published.
InDrain(c) == c \in relaying /\ Undrained(c)

HandlerEnds(c) ==
  /\ c \in busy /\ ~InDrain(c)
  /\ busy' = busy \ {c} /\ relaying' = relaying \ {c} /\ reading' = ReadsOn(c)
  /\ UNCHANGED <<server, link, inq, outq, msgs, handlers, client, closing, got>>

\* The listener meets the end of the stream.
EndOfStream(c) ==
  /\ c \in reading /\ outq[c] = <<>> /\ link[c] # "open"
  /\ client' = [client EXCEPT ![c] = FALSE] /\ reading' = reading \ {c}
  /\ UNCHANGED <<server, link, inq, outq, msgs, handlers, busy, relaying, closing, got>>

\* close() writes DISCONNECT and awaits its drain; the listener goes on with
\* what it awaits, and stops then.
Close(c) ==
  /\ c \in Lossy
  /\ Writes(c, [do |-> "DISCONNECT"])
  /\ client' = [client EXCEPT ![c] = FALSE] /\ closing' = closing \cup {c}
  /\ UNCHANGED <<server, link, outq, msgs, handlers, reading, busy, relaying, got>>

\* The connection of c is no more: of the bytes under way some may still arrive.
Severed(c) ==
  /\ link' = [link EXCEPT ![c] = "lost"]
  /\ \E n \in 0..Len(inq[c]) : inq' = [inq EXCEPT ![c] = SubSeq(@, 1, n)]
  /\ \E n \in 0..Len(outq[c]) : outq' = [outq EXCEPT ![c] = SubSeq(@, 1, n)]

\* The drain has returned or failed: close() cancels the listener, in its handler
\* or not, and closes the socket.
CloseSocket(c) ==
  /\ c \in closing /\ ~Undrained(c)
  /\ closing' = closing \ {c}
  /\ reading' = reading \ {c} /\ busy' = busy \ {c} /\ relaying' = relaying \ {c}
  /\ IF link[c] = "open" THEN Severed(c) ELSE UNCHANGED <<link, inq, outq>>
  /\ UNCHANGED <<server, msgs, handlers, client, got>>

\* The connection breaks.
Lose(c) == c \in Lossy /\ link[c] = "open" /\ Severed(c) /\ UNCHANGED <<server, clients>>
-----------------------------------------------------------------------------
Init ==
  /\ running = NoConn
  /\ todo = [c \in Conns |-> <<>>] /\ waits = {}
  /\ exact = [dest \in Destinations |-> {}] /\ wildcard = <<>>
  /\ subs = [c \in Conns |-> [s \in Subs |-> NoDest]]
  /\ link = [c \in Conns |-> "open"]
  /\ inq = [c \in Conns |-> <<>>] /\ outq = [c \in Conns |-> <<>>]
  /\ msgs = <<>>
  /\ handlers = [c \in Conns |-> [s \in Subs |-> "unused"]]
  /\ client = [c \in Conns |-> TRUE]
  /\ reading = Conns /\ busy = {} /\ relaying = {} /\ closing = {}
  /\ got = [r \in Registration |-> <<>>]

Handle(c) ==
  ReadSend(c) \/ ReadSubscribe(c) \/ ReadUnsubscribe(c) \/ ReadDisconnect(c) \/ Unregister(c)
FansOut(c) == SendMessage(c) \/ Drained(c)
Listener(c) == Listen(c) \/ HandlerEnds(c) \/ EndOfStream(c)

Next ==
  \E c \in Conns :
    \/ Handle(c) \/ FansOut(c) \/ Listener(c) \/ Close(c) \/ CloseSocket(c) \/ Lose(c)
    \/ \E dest \in Destinations :
         Publish(c, dest) \/ Relay(c, dest) \/ \E s \in Subs : Subscribe(c, s, dest)
    \/ \E s \in Subs : Unsubscribe(c, s)

Spec == Init /\ [][Next]_vars

\* While a task of the server, a listener or a close() can go on, one of them will.
FairSpec ==
  Spec /\ WF_vars(\E c \in Conns : \/ Handle(c) \/ FansOut(c) \/ Listen(c) \/ HandlerEnds(c)
                                    \/ CloseSocket(c))
-----------------------------------------------------------------------------
Frame ==
  [do : {"SEND"}, id : 1..MaxMessages]
  \cup [do : {"SUBSCRIBE"}, sub : Subs, dest : Destinations]
  \cup [do : {"UNSUBSCRIBE"}, sub : Subs] \cup [do : {"DISCONNECT"}]

\* Every variable has its type; a task that waits waits for a subscriber.
TypeOK ==
  /\ running \in Conns \cup {NoConn} /\ waits \subseteq {c \in Conns : ~Idle(c)}
  /\ todo \in [Conns -> Seq([to : Registration, id : 1..MaxMessages])]
  /\ exact \in [Destinations -> SUBSET Registration]
  /\ wildcard \in Seq(Destinations \X Conns \X Subs)
  /\ subs \in [Conns -> [Subs -> Destinations \cup {NoDest}]]
  /\ link \in [Conns -> {"open", "lost", "gone"}]
  /\ inq \in [Conns -> Seq(Frame)]
  /\ outq \in [Conns -> Seq([sub : Subs, id : 1..MaxMessages])]
  /\ msgs \in Seq([from : Conns, dest : Destinations])
  /\ handlers \in [Conns -> [Subs -> {"unused", "on", "off"}]]
  /\ client \in [Conns -> BOOLEAN] /\ closing \subseteq Conns
  /\ reading \subseteq Conns \ busy /\ busy \subseteq Conns /\ relaying \subseteq busy
  /\ got \in [Registration -> Seq(1..MaxMessages)]

\* A connection that was unregistered is sent nothing more that is published:
\* neither its exact nor its wildcard subscriptions are left.
NoGhostSubscriber ==
  \A c \in Conns : link[c] = "gone" =>
    /\ \A dest \in Destinations : \A r \in exact[dest] : r[1] # c
    /\ \A i \in DOMAIN wildcard : wildcard[i][2] # c
-----------------------------------------------------------------------------
(* Refinement of FanOut. *)

ToBeRead ==
  UNION {{inq[c][i].id : i \in {k \in DOMAIN inq[c] : inq[c][k].do = "SEND"}} : c \in Conns}

Unsent(c) == IF c \in waits THEN Tail(todo[c]) ELSE todo[c]
OnTheWay(r) ==
  {outq[r[1]][i].id : i \in {k \in DOMAIN outq[r[1]] : outq[r[1]][k].sub = r[2]}}
  \cup (UNION {{Unsent(c)[i].id : i \in {k \in DOMAIN Unsent(c) : Unsent(c)[k].to = r}} : c \in Conns})

Registered(r) == IF link[r[1]] = "gone" THEN NoDest ELSE subs[r[1]][r[2]]
IsListening(r) == handlers[r[1]][r[2]] = "on" /\ client[r[1]] /\ link[r[1]] = "open"

PartsThere == UNION {{dest[i] : i \in DOMAIN dest} : dest \in Destinations}

Promise == INSTANCE FanOut WITH
  Clients <- Conns, Recipients <- Registration,
  Parts <- PartsThere,
  unread <- ToBeRead,
  connected <- {c \in Conns : link[c] = "open"},
  subs <- [r \in Registration |-> Registered(r)],
  listening <- {r \in Registration : IsListening(r)},
  pending <- [r \in Registration |-> OnTheWay(r)]

\* Whatever publishers, slow subscribers, UNSUBSCRIBE and broken connections do
\* between the awaits of a publication, a message reaches the subscriptions that
\* cover its topic when the broker reads it, each once, in the order of its
\* publisher; only those nobody listens to may miss it.
FansOutOnce == Promise!Spec

\* A client that reads nothing more before the server has read what it wrote: in
\* a handler that publishes, or in close() once the listener has stopped.
Stuck(c) == InDrain(c) \/ (c \in closing \ (reading \cup busy) /\ Undrained(c))

\* The server and these clients wait for each other: each of them for the server
\* to read on, the server's task for it for what another of them reads.
Tied(S) ==
  /\ S # {}
  /\ \A c \in S : /\ Stuck(c) /\ c \in waits
                  /\ LET to == Head(todo[c]).to[1] IN to \in S /\ Len(outq[to]) > High

\* The broker gets to every message that is sent, and its copies arrive or are
\* dropped, but for clients that leave: no connection is held up for ever by a
\* subscriber of its publications, unless clients that publish in a handler or
\* wait in close() have tied themselves to the server.
UnderWay(m) ==
  m \in ToBeRead \/ \E r \in Registration : client[r[1]] /\ m \in OnTheWay(r)
EveryoneServed ==
  (\E m \in DOMAIN msgs : UnderWay(m))
  ~> (\A m \in DOMAIN msgs : ~UnderWay(m)) \/ (\E S \in SUBSET Conns : Tied(S))
=============================================================================
