---------------------------- MODULE MessageQueue ----------------------------
(***************************************************************************)
(* The in-memory queue of pybroker/server/queue.py, as operators on the    *)
(* values the broker keeps per queue.                                      *)
(*                                                                         *)
(* The ready messages are a binary heap of (-priority, order, id) entries. *)
(* Since no two entries of a heap are equal, its sequence of pops is fixed *)
(* by its contents; the model keeps that sequence, `ready', next pop first.*)
(* HeapQueue.tla keeps the entries themselves and is checked against it.   *)
(***************************************************************************)
EXTENDS Lists

Ahead_noLifo(s, m, prio, type) == {i \in 1..Len(s) : prio[s[i]] >= prio[m]}

\* The positions of the messages that still pop before m once m is added.
Ahead(s, m, prio, type) ==
  {i \in 1..Len(s) : \/ prio[s[i]] > prio[m]
                     \/ prio[s[i]] = prio[m] /\ type # "LIFO"}

\* add_message: order is seq, or -seq in a LIFO queue.
AddMessage(s, m, prio, type) ==
  LET n == Cardinality(Ahead(s, m, prio, type))
  IN  SubSeq(s, 1, n) \o <<m>> \o SubSeq(s, n + 1, Len(s))

\* remove_consumer(connection, sub_id) and remove_consumer(connection).
RemoveConsumer(cs, consumer) == Without(cs, {consumer})
RemoveConnection_topicsOnly(cs, conn, Subs) == cs
RemoveConnection(cs, conn, Subs) == Without(cs, {conn} \X Subs)

\* next_consumer: _consumer_index is taken modulo the consumers there are now,
\* so it may point past the end of a list that has shrunk.
NextIndex(cs, index) == index % Len(cs)
=============================================================================
