------------------------------- MODULE FanOut -------------------------------
(***************************************************************************)
(* What publishing to a topic promises.  A message goes to every           *)
(* subscription whose pattern covers its topic when it is published, once, *)
(* after the earlier messages of the same publisher; it is given up only   *)
(* for a subscription that nobody listens to.                              *)
(***************************************************************************)
EXTENDS Integers, Sequences

CONSTANTS
  Clients,        \* clients, connected at first
  Recipients,     \* subscriptions
  Destinations,   \* topics and patterns: sequences of parts
  Parts,          \* what a star may stand for
  NoDest

VARIABLES
  msgs,       \* messages sent: [from, dest]
  unread,     \* those the broker has not routed yet
  connected,  \* clients that are connected
  subs,       \* the destination of every subscription
  listening,  \* subscriptions with a client that listens
  pending,    \* messages on their way to a subscription
  got         \* messages a subscription received

\* One star stands for one part.
Covers(pattern, topic) ==
  \E parts \in [DOMAIN pattern -> Parts] :
    topic = [i \in DOMAIN pattern |-> IF pattern[i] = "*" THEN parts[i] ELSE pattern[i]]

EarlierOf(m, M) == {k \in M : k < m /\ msgs[k].from = msgs[m].from}

Init ==
  /\ msgs = <<>> /\ unread = {} /\ listening = {}
  /\ connected = Clients
  /\ subs = [r \in Recipients |-> NoDest]
  /\ pending = [r \in Recipients |-> {}] /\ got = [r \in Recipients |-> <<>>]

Send ==
  /\ \E from \in connected, dest \in Destinations :
       msgs' = Append(msgs, [from |-> from, dest |-> dest])
  /\ unread' = unread \cup {Len(msgs) + 1}
  /\ UNCHANGED <<connected, subs, listening, pending, got>>

Publish(m) ==
  /\ m \in unread /\ EarlierOf(m, unread) = {}
  /\ unread' = unread \ {m}
  /\ pending' = [r \in Recipients |->
       IF subs[r] # NoDest /\ Covers(subs[r], msgs[m].dest)
       THEN pending[r] \cup {m} ELSE pending[r]]
  /\ UNCHANGED <<msgs, connected, subs, listening, got>>

Deliver(r, m) ==
  /\ m \in pending[r] /\ EarlierOf(m, pending[r]) = {}
  /\ pending' = [pending EXCEPT ![r] = @ \ {m}]
  /\ got' = [got EXCEPT ![r] = Append(@, m)]
  /\ UNCHANGED <<msgs, unread, connected, subs, listening>>

\* Clients come and go; what was on its way to or from one that left may be
\* dropped.
Session ==
  /\ connected' \in SUBSET connected
  /\ unread' \in SUBSET unread
  /\ \A m \in unread \ unread' : msgs[m].from \notin connected'
  /\ subs' \in [Recipients -> Destinations \cup {NoDest}]
  /\ listening' \in SUBSET Recipients
  /\ pending' \in [Recipients -> SUBSET (1..Len(msgs))]
  /\ \A r \in Recipients : /\ pending'[r] \subseteq pending[r]
                           /\ r \in listening' => pending'[r] = pending[r]
  /\ UNCHANGED <<msgs, got>>

Next ==
  \/ Send \/ Session
  \/ \E m \in unread : Publish(m)
  \/ \E r \in Recipients : \E m \in pending[r] : Deliver(r, m)

Spec == Init /\ [][Next]_<<msgs, unread, connected, subs, listening, pending, got>>
=============================================================================
