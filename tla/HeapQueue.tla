----------------------------- MODULE HeapQueue ------------------------------
(***************************************************************************)
(* The ready messages of one MessageQueue as queue.py keeps them: a heap   *)
(* of entries (-priority, order, id, message).  heapq returns the least    *)
(* entry, so the heap is the set of its entries; no two are equal, `order' *)
(* being taken from a counter.                                             *)
(***************************************************************************)
EXTENDS Integers, FiniteSets

CONSTANTS
  Messages, NoMessage,
  Priorities,     \* priority headers
  MaxSeq          \* messages ever added, a bound of the model

ASSUME HeapConstantsOK ==
  /\ Priorities \subseteq Int /\ MaxSeq \in Nat /\ NoMessage \notin Messages

VARIABLES type, prio, heap, seq, out
vars == <<type, prio, heap, seq, out>>

Order_unsigned(n) == n
Order(n) == IF type = "LIFO" THEN -n ELSE n

\* The order of tuples; the ids need no comparison.
Less(e, f) == e.key < f.key \/ (e.key = f.key /\ e.order < f.order)
Least == CHOOSE e \in heap : \A f \in heap \ {e} : Less(e, f)

Init ==
  /\ type \in {"FIFO", "LIFO"} /\ prio \in [Messages -> Priorities]
  /\ heap = {} /\ seq = 0 /\ out = NoMessage

AddToHeap(m) ==
  /\ seq < MaxSeq
  /\ seq' = seq + 1
  /\ heap' = heap \cup {[key |-> -prio[m], order |-> Order(seq), id |-> m]}
  /\ UNCHANGED <<type, prio, out>>

PopMessage ==
  /\ IF heap = {} THEN out' = NoMessage /\ UNCHANGED heap
                  ELSE out' = Least.id /\ heap' = heap \ {Least}
  /\ UNCHANGED <<type, prio, seq>>

PurgeHeap(dead) ==
  /\ heap' = {e \in heap : e.id \notin dead}
  /\ UNCHANGED <<type, prio, seq, out>>

Next ==
  \/ \E m \in Messages : AddToHeap(m)
  \/ PopMessage
  \/ \E dead \in SUBSET Messages : PurgeHeap(dead)

Spec == Init /\ [][Next]_vars
-----------------------------------------------------------------------------
\* The messages in the order in which they will pop.
Before(e) == Cardinality({f \in heap : Less(f, e)})
PopOrder ==
  [i \in 1..Cardinality(heap) |-> (CHOOSE e \in heap : Before(e) = i - 1).id]

\* Whatever is pushed, popped and purged, the heap and the counter of queue.py
\* pop the messages in the sequence Broker keeps as `ready'.
Ready == INSTANCE ReadyQueue WITH ready <- PopOrder
PopsInSequence == Ready!Spec
=============================================================================
