----------------------------- MODULE ReadyQueue -----------------------------
(***************************************************************************)
(* What the ready messages of one queue promise, as Broker uses them: a    *)
(* sequence, next pop first, to which AddMessage of MessageQueue adds.     *)
(***************************************************************************)
EXTENDS MessageQueue

CONSTANTS Messages, NoMessage

VARIABLES
  type,   \* queue_type
  prio,   \* the priority header of every message
  ready,  \* the messages, next pop first
  out     \* what the last pop returned

Init == /\ type \in {"FIFO", "LIFO"} /\ prio \in [Messages -> Int]
        /\ ready = <<>> /\ out = NoMessage

Add(m) == ready' = AddMessage(ready, m, prio, type) /\ UNCHANGED out
Pop == /\ ready # <<>> /\ out' = Head(ready) /\ ready' = Tail(ready)
PopNone == ready = <<>> /\ out' = NoMessage /\ UNCHANGED ready
Purge(dead) == ready' = Without(ready, dead) /\ UNCHANGED out

Next == /\ UNCHANGED <<type, prio>>
        /\ \/ \E m \in Messages : Add(m)
           \/ Pop \/ PopNone
           \/ \E dead \in SUBSET Messages : Purge(dead)

Spec == Init /\ [][Next]_<<type, prio, ready, out>>
=============================================================================
