--------------------------- MODULE PartsTheorems ----------------------------
(***************************************************************************)
(* The two parts that MCParts puts side by side, for every value of their  *)
(* constants.                                                              *)
(*                                                                         *)
(* HeapQueue implements ReadyQueue, for any messages, priorities and       *)
(* number of additions: what heapq returns is what the sequence `ready' of *)
(* Broker returns.                                                         *)
(*                                                                         *)
(* Wire carries frames unchanged, whatever their headers and bodies, their *)
(* number and the limits are, and wherever the connection breaks.  What    *)
(* escapes, lines and frames look like is proved by induction over         *)
(* sequences, in the form of a set that has them all (Appending).          *)
(***************************************************************************)
EXTENDS HeapQueue, Wire, QueueTheorems

Entry == [key : Int, order : Int, id : Messages]

\* An entry has the priority of its message and an `order' given out before.
EntriesOK ==
  \A e \in heap : e.key = -prio[e.id] /\ \E k \in 0..(seq - 1) : e.order = Order(k)

\* q has the entries of the heap, the least first.
Sorted(q) ==
  /\ q \in Seq(heap) /\ Members(q) = heap
  /\ \A i, j \in 1..Len(q) : i < j => Less(q[i], q[j])

Heaped ==
  /\ type \in {"FIFO", "LIFO"} /\ prio \in [Messages -> Priorities]
  /\ heap \subseteq Entry /\ seq \in Nat /\ EntriesOK
  /\ \E q \in Seq(heap) : Sorted(q)

Ids(q) == [i \in 1..Len(q) |-> q[i].id]
-----------------------------------------------------------------------------
\* No entry comes before itself, and none both before and after another.
LEMMA LessIsStrict ==
  ASSUME NEW e \in Entry, NEW f \in Entry, Less(e, f)
  PROVE  ~Less(f, e) /\ e # f
BY DEF Less, Entry

\* The size of a set is the same in every module.
LEMMA SameSize == \A S : Ready!Cardinality(S) = Cardinality(S)
BY DEF Ready!Cardinality, Cardinality

\* The operators of MessageQueue are those of the sequence that is promised.
LEMMA SameOperators ==
  ASSUME NEW s, NEW m, NEW p, NEW t, NEW X
  PROVE  /\ Ready!AddMessage(s, m, p, t) = AddMessage(s, m, p, t)
         /\ Ready!Without(s, X) = Without(s, X)
<1>1. Ready!Ahead(s, m, p, t) = Ahead(s, m, p, t)
  BY DEF Ready!Ahead, Ahead
<1>2. Ready!AddMessage(s, m, p, t) = AddMessage(s, m, p, t)
  BY <1>1, SameSize DEF Ready!AddMessage, AddMessage
<1>3. ASSUME NEW J, NEW i
      PROVE  Ready!Nth(J, i) = Nth(J, i)
  BY SameSize DEF Ready!Nth, Nth
<1>4. Ready!Without(s, X) = Without(s, X)
  BY SameSize, <1>3 DEF Ready!Without, Without
<1> QED
  BY <1>2, <1>4

\* The k-th entry has k - 1 entries before it, and is the only one that has: so it
\* pops as the k-th.
LEMMA SortedPops ==
  ASSUME heap \subseteq Entry, NEW q, Sorted(q)
  PROVE  /\ IsFiniteSet(heap) /\ Cardinality(heap) = Len(q)
         /\ PopOrder = Ids(q)
<1>1. /\ q \in Seq(heap) /\ Len(q) \in Nat
      /\ \A i \in 1..Len(q) : q[i] \in heap
      /\ \A e \in heap : \E i \in 1..Len(q) : q[i] = e
  BY DEF Sorted, Members
<1>2. \A i, j \in 1..Len(q) : (i < j <=> Less(q[i], q[j])) /\ (q[i] = q[j] => i = j)
  <2>1. SUFFICES ASSUME NEW i \in 1..Len(q), NEW j \in 1..Len(q)
                 PROVE  (i < j <=> Less(q[i], q[j])) /\ (q[i] = q[j] => i = j)
    OBVIOUS
  <2>2. q[i] \in Entry /\ q[j] \in Entry
    BY <1>1
  <2>3. (i < j => Less(q[i], q[j])) /\ (j < i => Less(q[j], q[i]))
    BY DEF Sorted
  <2>4. /\ Less(q[i], q[j]) => ~Less(q[j], q[i]) /\ q[i] # q[j]
        /\ Less(q[j], q[i]) => q[i] # q[j]
    BY <2>2, LessIsStrict
  <2>5. i < j \/ i = j \/ j < i
    BY <1>1
  <2>6. i < j => i # j /\ ~(j < i)
    BY <1>1
  <2> QED
    BY <2>3, <2>4, <2>5, <2>6
<1>3. ASSUME NEW n \in 0..Len(q)
      PROVE  /\ IsFiniteSet({q[k] : k \in 1..n})
             /\ Cardinality({q[k] : k \in 1..n}) = n
  <2>1. IsFiniteSet(1..n) /\ Cardinality(1..n) = n
    BY <1>1, FS_Interval
  <2>2. PICK S : S = {q[k] : k \in 1..n}
    OBVIOUS
  <2>3. PICK g : g = [k \in 1..n |-> q[k]]
    OBVIOUS
  <2>4. \A k, l \in 1..n : k \in 1..Len(q) /\ g[k] = q[k] /\ (g[k] = g[l] => k = l)
    <3>1. \A k \in 1..n : k \in 1..Len(q) /\ g[k] = q[k]
      BY <1>1, <2>3
    <3> QED
      BY <1>2, <3>1
  <2>5. g \in [1..n -> S]
    BY <2>2, <2>3
  <2>6. g \in Bijection(1..n, S)
    BY <2>2, <2>4, <2>5 DEF Bijection, Injection, Surjection, IsInjective
  <2>7. IsFiniteSet(S) /\ Cardinality(S) = Cardinality(1..n)
    BY <2>1, <2>6, FS_Bijection DEF ExistsBijection
  <2> QED
    BY <2>1, <2>2, <2>7
<1>4. IsFiniteSet(heap) /\ Cardinality(heap) = Len(q)
  <2>1. heap = {q[k] : k \in 1..Len(q)} /\ Len(q) \in 0..Len(q)
    BY <1>1
  <2> QED
    BY <1>3, <2>1
<1>5. ASSUME NEW i \in 1..Len(q)
      PROVE  Before(q[i]) = i - 1
  <2>1. ASSUME NEW f \in heap
        PROVE  Less(f, q[i]) <=> \E k \in 1..(i - 1) : q[k] = f
    <3>1. PICK j \in 1..Len(q) : q[j] = f
      BY <1>1
    <3>2. Less(f, q[i]) <=> j < i
      BY <1>2, <3>1
    <3>3. j < i <=> j \in 1..(i - 1)
      <4>1. i \in Int /\ j \in Int /\ 1 <= j
        BY <1>1
      <4> QED
        BY <4>1
    <3>4. \A k \in 1..(i - 1) : k \in 1..Len(q)
      BY <1>1
    <3> QED
      BY <1>2, <3>1, <3>2, <3>3, <3>4
  <2>2. {f \in heap : Less(f, q[i])} = {q[k] : k \in 1..(i - 1)}
    <3>1. \A k \in 1..(i - 1) : q[k] \in heap
      BY <1>1
    <3> QED
      BY <2>1, <3>1
  <2>3. i - 1 \in 0..Len(q)
    BY <1>1
  <2> QED
    BY <1>3, <2>2, <2>3 DEF Before
<1>6. ASSUME NEW i \in 1..Len(q)
      PROVE  (CHOOSE e \in heap : Before(e) = i - 1) = q[i]
  <2>1. q[i] \in heap /\ Before(q[i]) = i - 1
    BY <1>1, <1>5
  <2>2. \A e \in heap : Before(e) = i - 1 => e = q[i]
    <3>1. SUFFICES ASSUME NEW e \in heap, Before(e) = i - 1
                   PROVE  e = q[i]
      OBVIOUS
    <3>2. PICK j \in 1..Len(q) : q[j] = e
      BY <1>1
    <3>3. j - 1 = i - 1
      BY <1>5, <3>1, <3>2
    <3>4. i \in Int /\ j \in Int
      OBVIOUS
    <3>5. i = j
      BY <3>3, <3>4
    <3> QED
      BY <3>2, <3>5
  <2> QED
    BY <2>1, <2>2
<1>7. PopOrder = Ids(q)
  <2>1. PopOrder = [i \in 1..Len(q) |-> (CHOOSE e \in heap : Before(e) = i - 1).id]
    BY <1>4 DEF PopOrder
  <2> QED
    BY <1>6, <2>1 DEF Ids
<1> QED
  BY <1>4, <1>7
\* The entries pop as they are sorted.
PopsAsSorted ==
  heap \subseteq Entry => \A q : Sorted(q) => PopOrder = Ids(q)

\* So they do in every state.
LEMMA PopsSorted == PopsAsSorted
BY SortedPops DEF PopsAsSorted
-----------------------------------------------------------------------------
\* The messages that pop, by the entries they are of.
LEMMA ReadyMessages ==
  ASSUME Heaped, NEW q, Sorted(q)
  PROVE  /\ Ids(q) \in Seq(Messages) /\ Len(Ids(q)) = Len(q)
         /\ \A i \in 1..Len(q) : Ids(q)[i] = q[i].id /\ q[i] \in heap /\ q[i] \in Entry
         /\ Falling(Ids(q), prio)
<1>1. q \in Seq(heap) /\ Len(q) \in Nat /\ \A i \in 1..Len(q) : q[i] \in heap
  BY DEF Sorted
<1>2. \A i \in 1..Len(q) : q[i] \in Entry /\ q[i].id \in Messages
  BY <1>1 DEF Heaped, Entry
<1>3. /\ Ids(q) \in Seq(Messages) /\ Len(Ids(q)) = Len(q)
      /\ \A i \in 1..Len(q) : Ids(q)[i] = q[i].id
  BY <1>1, <1>2 DEF Ids
<1>4. ASSUME NEW i \in 1..Len(q), NEW j \in 1..Len(q), i < j
      PROVE  prio[q[i].id] >= prio[q[j].id]
  <2>1. Less(q[i], q[j])
    BY <1>4 DEF Sorted
  <2>2. q[i].key = -prio[q[i].id] /\ q[j].key = -prio[q[j].id]
    BY <1>1 DEF Heaped, EntriesOK
  <2>3. prio[q[i].id] \in Int /\ prio[q[j].id] \in Int
    <3>1. prio \in [Messages -> Priorities] /\ Priorities \subseteq Int
      BY HeapConstantsOK DEF Heaped
    <3> QED
      BY <1>2, <3>1
  <2> QED
    BY <2>1, <2>2, <2>3 DEF Less
<1> QED
  BY <1>1, <1>2, <1>3, <1>4 DEF Falling

\* AddToHeap: the entry goes between those whose messages pop before and after
\* its message.
LEMMA AddRefines ==
  ASSUME Heaped, NEW m \in Messages, AddToHeap(m)
  PROVE  Heaped' /\ PopOrder' = AddMessage(PopOrder, m, prio, type)
<1>1. PICK q : Sorted(q)
  BY DEF Heaped
<1>2. PICK e : e = [key |-> -prio[m], order |-> Order(seq), id |-> m]
  OBVIOUS
<1>3. heap' = heap \cup {e} /\ seq' = seq + 1 /\ UNCHANGED <<type, prio, out>>
  BY <1>2 DEF AddToHeap
<1>4. prio[m] \in Int /\ seq \in Nat /\ seq' \in Nat
  <2>1. prio \in [Messages -> Priorities] /\ seq \in Nat
    BY DEF Heaped
  <2>2. prio[m] \in Int
    BY <2>1, HeapConstantsOK
  <2> QED
    BY <1>3, <2>1, <2>2
<1>5. e \in Entry /\ e.key = -prio[m] /\ e.order = Order(seq) /\ e.id = m
  BY <1>2, <1>4 DEF Entry, Order
<1>6. heap' \subseteq Entry
  BY <1>3, <1>5 DEF Heaped
<1>7. EntriesOK'
  <2>1. ASSUME NEW f \in heap
        PROVE  f.key = -prio'[f.id] /\ \E k \in 0..(seq' - 1) : f.order = Order(k)'
    <3>1. f.key = -prio[f.id] /\ \E k \in 0..(seq - 1) : f.order = Order(k)
      BY DEF Heaped, EntriesOK
    <3>2. \A k \in 0..(seq - 1) : k \in 0..(seq' - 1) /\ Order(k)' = Order(k)
      BY <1>3, <1>4 DEF Order
    <3> QED
      BY <1>3, <3>1, <3>2
  <2>2. e.key = -prio'[e.id] /\ seq \in 0..(seq' - 1) /\ e.order = Order(seq)
    BY <1>3, <1>4, <1>5
  <2>3. \A k : type' = type => Order(k)' = Order(k)
    BY DEF Order
  <2> QED
    BY <1>3, <2>1, <2>2, <2>3 DEF EntriesOK
<1>8. /\ q \in Seq(heap) /\ Len(q) \in Nat
      /\ \A i \in 1..Len(q) : q[i] \in heap
      /\ \A f \in heap : \E i \in 1..Len(q) : q[i] = f
      /\ \A i, j \in 1..Len(q) : i < j => Less(q[i], q[j])
  <2>1. q \in Seq(heap) /\ Members(q) = heap
    BY <1>1 DEF Sorted
  <2>2. \A i, j \in 1..Len(q) : i < j => Less(q[i], q[j])
    BY <1>1 DEF Sorted
  <2>3. \A f \in Members(q) : \E i \in 1..Len(q) : q[i] = f
    BY DEF Members
  <2>4. Len(q) \in Nat /\ \A i \in 1..Len(q) : q[i] \in heap
    BY <2>1
  <2> QED
    BY <2>1, <2>2, <2>3, <2>4
<1>9. PICK s : s = Ids(q)
  OBVIOUS
<1>10. /\ s \in Seq(Messages) /\ Len(s) = Len(q) /\ Falling(s, prio)
       /\ \A i \in 1..Len(s) : s[i] = q[i].id /\ q[i] \in Entry /\ prio[s[i]] \in Int
  <2>1. /\ s \in Seq(Messages) /\ Len(s) = Len(q) /\ Falling(s, prio)
        /\ \A i \in 1..Len(s) : s[i] = q[i].id /\ q[i] \in Entry
    BY <1>1, <1>9, ReadyMessages
  <2>2. \A i \in 1..Len(s) : s[i] \in Messages
    BY <2>1
  <2> QED
    BY <2>1, <2>2, HeapConstantsOK DEF Heaped
<1>11. PICK n, u : u = AddMessage(s, m, prio, type) /\ Inserted(s, m, prio, type, n, u)
  BY <1>4, <1>10, AddMessageFalls
<1>12. /\ n \in 0..Len(q) /\ Len(u) = Len(q) + 1
       /\ \A i \in 1..Len(u) : u[i] = IF i <= n THEN s[i] ELSE IF i = n + 1 THEN m ELSE s[i - 1]
       /\ \A i \in 1..Len(q) :
            /\ i <= n => prio[s[i]] > prio[m] \/ (prio[s[i]] = prio[m] /\ type # "LIFO")
            /\ i > n => prio[s[i]] < prio[m] \/ (prio[s[i]] = prio[m] /\ type = "LIFO")
  BY <1>10, <1>11 DEF Inserted
<1>13. ASSUME NEW i \in 1..Len(q)
       PROVE  (i <= n => Less(q[i], e)) /\ (i > n => Less(e, q[i]))
  <2>1. q[i] \in heap /\ q[i] \in Entry /\ s[i] = q[i].id /\ prio[s[i]] \in Int
    BY <1>8, <1>10
  <2>2. q[i].key = -prio[s[i]] /\ \E k \in 0..(seq - 1) : q[i].order = Order(k)
    BY <2>1 DEF Heaped, EntriesOK
  <2>3. PICK k \in 0..(seq - 1) : q[i].order = Order(k)
    BY <2>2
  <2>4. (type = "LIFO" => e.order < q[i].order) /\ (type # "LIFO" => q[i].order < e.order)
    BY <1>4, <1>5, <2>3 DEF Order
  <2>5. /\ i <= n => q[i].key < e.key \/ (q[i].key = e.key /\ type # "LIFO")
        /\ i > n => e.key < q[i].key \/ (e.key = q[i].key /\ type = "LIFO")
    <3>1. prio[s[i]] \in Int /\ prio[m] \in Int /\ q[i].key = -prio[s[i]] /\ e.key = -prio[m]
      BY <1>4, <1>5, <2>1, <2>2
    <3>2. /\ i <= n => prio[s[i]] > prio[m] \/ (prio[s[i]] = prio[m] /\ type # "LIFO")
          /\ i > n => prio[s[i]] < prio[m] \/ (prio[s[i]] = prio[m] /\ type = "LIFO")
      BY <1>12
    <3> QED
      BY <3>1, <3>2
  <2> QED
    BY <2>4, <2>5 DEF Less
<1>14. PICK r : r = [i \in 1..(Len(q) + 1) |->
                       IF i <= n THEN q[i] ELSE IF i = n + 1 THEN e ELSE q[i - 1]]
  OBVIOUS
<1>15. /\ r \in Seq(heap') /\ Len(r) = Len(q) + 1
       /\ \A i \in 1..Len(r) : r[i] = IF i <= n THEN q[i] ELSE IF i = n + 1 THEN e ELSE q[i - 1]
  <2>1. ASSUME NEW i \in 1..(Len(q) + 1)
        PROVE  r[i] \in heap'
    <3>1. i <= n => i \in 1..Len(q)
      BY <1>8, <1>12
    <3>2. ~(i <= n) /\ i # n + 1 => i - 1 \in 1..Len(q)
      BY <1>8, <1>12
    <3> QED
      BY <1>3, <1>8, <1>14, <3>1, <3>2
  <2>2. Len(q) + 1 \in Nat
    BY <1>8
  <2> QED
    BY <1>14, <2>1, <2>2
<1>16. n \in Nat /\ Len(q) \in Nat /\ n <= Len(q) /\ Len(r) = Len(q) + 1
  BY <1>8, <1>12, <1>15
<1>17. ASSUME NEW i \in 1..Len(r), NEW j \in 1..Len(r), i < j
       PROVE  Less(r[i], r[j])
  <2>1. CASE j <= n
    <3>1. i \in 1..Len(q) /\ j \in 1..Len(q) /\ i <= n
      BY <1>16, <1>17, <2>1
    <3>2. r[i] = q[i] /\ r[j] = q[j]
      BY <1>15, <2>1, <3>1
    <3> QED
      BY <1>8, <1>17, <3>1, <3>2
  <2>2. CASE j = n + 1
    <3>1. i \in 1..Len(q) /\ i <= n /\ ~(j <= n)
      BY <1>16, <1>17, <2>2
    <3> QED
      BY <1>13, <1>15, <2>2, <3>1
  <2>3. CASE i = n + 1
    <3>1. j - 1 \in 1..Len(q) /\ j - 1 > n /\ ~(j <= n) /\ j # n + 1 /\ ~(i <= n)
      BY <1>16, <1>17, <2>3
    <3> QED
      BY <1>13, <1>15, <2>3, <3>1
  <2>4. CASE i > n + 1
    <3>1. /\ i - 1 \in 1..Len(q) /\ j - 1 \in 1..Len(q) /\ i - 1 < j - 1
          /\ ~(i <= n) /\ i # n + 1 /\ ~(j <= n) /\ j # n + 1
      BY <1>16, <1>17, <2>4
    <3>2. r[i] = q[i - 1] /\ r[j] = q[j - 1]
      BY <1>15, <3>1
    <3> QED
      BY <1>8, <3>1, <3>2
  <2>5. CASE i <= n /\ j > n + 1
    <3>1. i \in 1..Len(q) /\ j - 1 \in 1..Len(q) /\ i < j - 1 /\ ~(j <= n) /\ j # n + 1
      BY <1>16, <1>17, <2>5
    <3>2. r[i] = q[i] /\ r[j] = q[j - 1]
      BY <1>15, <2>5, <3>1
    <3> QED
      BY <1>8, <3>1, <3>2
  <2>6. j <= n \/ j = n + 1 \/ i = n + 1 \/ i > n + 1 \/ (i <= n /\ j > n + 1)
    BY <1>12
  <2> QED
    BY <2>1, <2>2, <2>3, <2>4, <2>5, <2>6
<1>18. Members(r) = heap'
  <2>1. n + 1 \in 1..Len(r) /\ ~(n + 1 <= n) /\ r[n + 1] = e
    BY <1>8, <1>12, <1>15
  <2>2. ASSUME NEW i \in 1..Len(q)
        PROVE  \E k \in 1..Len(r) : r[k] = q[i]
    <3>1. CASE i <= n
      <4>1. i \in 1..Len(r)
        BY <1>16
      <4> QED
        BY <1>15, <3>1, <4>1
    <3>2. CASE i > n
      <4>1. i + 1 \in 1..Len(r) /\ ~(i + 1 <= n) /\ i + 1 # n + 1 /\ (i + 1) - 1 = i
        BY <1>8, <1>12, <1>15, <3>2
      <4> QED
        BY <1>15, <4>1
    <3> QED
      BY <1>12, <3>1, <3>2
  <2>3. \A f \in heap' : \E k \in 1..Len(r) : r[k] = f
    BY <1>3, <1>8, <2>1, <2>2
  <2>4. \A k \in 1..Len(r) : r[k] \in heap'
    BY <1>15
  <2> QED
    BY <2>3, <2>4 DEF Members
<1>19. Sorted(r)'
  BY <1>15, <1>17, <1>18 DEF Sorted, Less
<1>20. Heaped'
  BY <1>3, <1>4, <1>6, <1>7, <1>15, <1>19 DEF Heaped
<1>21. PopOrder = s
  BY <1>1, <1>9, SortedPops DEF Heaped
<1>22. PopOrder' = Ids(r)
  <2>1. PopsAsSorted'
    BY PopsSorted, PTL
  <2> QED
    BY <1>6, <1>19, <2>1 DEF PopsAsSorted
<1>23. Ids(r) = u
  <2>1. \A i \in 1..Len(r) : r[i].id = u[i]
    <3>1. SUFFICES ASSUME NEW i \in 1..Len(r)
                   PROVE  r[i].id = u[i]
      OBVIOUS
    <3>2. i \in 1..Len(u) /\ (i <= n => i \in 1..Len(q))
          /\ (~(i <= n) /\ i # n + 1 => i - 1 \in 1..Len(q))
      BY <1>12, <1>16
    <3> QED
      BY <1>5, <1>10, <1>12, <1>15, <3>1, <3>2
  <2>2. Len(u) = Len(r) /\ u \in Seq(Messages)
    BY <1>10, <1>11, <1>12, <1>16, AddMessageType
  <2>3. u = [i \in 1..Len(u) |-> u[i]]
    BY <2>2
  <2> QED
    BY <2>1, <2>2, <2>3 DEF Ids
<1> QED
  BY <1>11, <1>20, <1>21, <1>22, <1>23

\* PopMessage: heapq returns the least entry, which is the first.
LEMMA PopRefines ==
  ASSUME Heaped, PopMessage
  PROVE  Heaped' /\ (Ready!Pop \/ Ready!PopNone)
<1>1. PICK q : Sorted(q)
  BY DEF Heaped
<1>2. PopOrder = Ids(q) /\ heap \subseteq Entry
  BY <1>1, SortedPops DEF Heaped
<1>3. q \in Seq(heap) /\ Len(q) \in Nat /\ Members(q) = heap
  BY <1>1 DEF Sorted
<1>4. /\ Ids(q) \in Seq(Messages) /\ Len(Ids(q)) = Len(q)
      /\ \A i \in 1..Len(q) : Ids(q)[i] = q[i].id /\ q[i] \in heap /\ q[i] \in Entry
  BY <1>1, ReadyMessages
<1>5. UNCHANGED <<type, prio, seq>>
  BY DEF PopMessage
<1>6. EntriesOK' \/ ~(heap' \subseteq heap)
  BY <1>5 DEF EntriesOK, Order, Heaped
<1>7. CASE heap = {}
  <2>1. heap' = heap /\ out' = NoMessage
    BY <1>7 DEF PopMessage
  <2>2. Heaped'
    BY <1>5, <1>6, <2>1 DEF Heaped, Sorted, Less
  <2>3. PopOrder' = PopOrder
    BY <2>1 DEF PopOrder, Before, Less
  <2>4. PopOrder = <<>>
    <3>1. Len(q) = 0
      BY <1>3, <1>4, <1>7
    <3> QED
      BY <1>2, <1>4, <3>1, EmptySeq
  <2> QED
    BY <2>1, <2>2, <2>3, <2>4 DEF Ready!PopNone
<1>8. CASE heap # {}
  <2>1. q # <<>> /\ Len(q) >= 1 /\ 1 \in 1..Len(q)
    <3>1. q # <<>>
      BY <1>3, <1>8 DEF Members
    <3> QED
      BY <1>3, <3>1, EmptySeq
  <2>2. /\ Tail(q) \in Seq(heap) /\ Len(Tail(q)) = Len(q) - 1
        /\ \A k \in 1..Len(Tail(q)) : k + 1 \in 1..Len(q) /\ Tail(q)[k] = q[k + 1]
    BY <1>3, <2>1, HeadTailProperties
  <2>3. PICK t : t = Tail(q)
    OBVIOUS
  <2>4. \A i, j \in 1..Len(q) : i < j => Less(q[i], q[j])
    BY <1>1 DEF Sorted
  <2>5. \A i \in 1..Len(q) : i # 1 => Less(q[1], q[i]) /\ q[i] # q[1] /\ ~Less(q[i], q[1])
    <3>1. SUFFICES ASSUME NEW i \in 1..Len(q), i # 1
                   PROVE  Less(q[1], q[i]) /\ q[i] # q[1] /\ ~Less(q[i], q[1])
      OBVIOUS
    <3>2. Less(q[1], q[i])
      BY <1>3, <2>1, <2>4, <3>1
    <3> QED
      BY <1>4, <2>1, <3>2, LessIsStrict
  <2>6. \A e \in heap : \E i \in 1..Len(q) : q[i] = e
    BY <1>3 DEF Members
  <2>7. Least = q[1]
    <3>1. q[1] \in heap /\ \A f \in heap \ {q[1]} : Less(q[1], f)
      BY <1>4, <2>1, <2>5, <2>6
    <3>2. ASSUME NEW e \in heap, \A f \in heap \ {e} : Less(e, f)
          PROVE  e = q[1]
      BY <2>1, <2>5, <2>6, <3>1, <3>2
    <3> QED
      BY <3>1, <3>2 DEF Least
  <2>8. out' = q[1].id /\ heap' = heap \ {q[1]}
    BY <1>8, <2>7 DEF PopMessage
  <2>9. \A k \in 1..Len(t) : k + 1 \in 1..Len(q) /\ t[k] = q[k + 1] /\ t[k] \in heap'
    <3>1. \A k \in 1..Len(t) : k + 1 \in 1..Len(q) /\ k + 1 # 1 /\ t[k] = q[k + 1]
      BY <1>3, <2>2, <2>3
    <3> QED
      BY <1>4, <2>5, <2>8, <3>1
  <2>10. t \in Seq(heap')
    <3>1. t \in Seq(heap)
      BY <2>2, <2>3
    <3>2. Len(t) \in Nat /\ t = [k \in 1..Len(t) |-> t[k]]
      BY <3>1
    <3> QED
      BY <2>9, <3>2
  <2>11. \A e \in heap' : \E k \in 1..Len(t) : t[k] = e
    <3>1. SUFFICES ASSUME NEW e \in heap'
                   PROVE  \E k \in 1..Len(t) : t[k] = e
      OBVIOUS
    <3>2. PICK i \in 1..Len(q) : q[i] = e /\ i # 1
      BY <2>6, <2>8
    <3>3. i - 1 \in 1..Len(t) /\ (i - 1) + 1 = i
      BY <1>3, <2>2, <2>3, <3>2
    <3> QED
      BY <2>9, <3>2, <3>3
  <2>12. Members(t) = heap'
    BY <2>9, <2>11 DEF Members
  <2>13. \A i, j \in 1..Len(t) : i < j => Less(t[i], t[j])
    <3>1. SUFFICES ASSUME NEW i \in 1..Len(t), NEW j \in 1..Len(t), i < j
                   PROVE  Less(t[i], t[j])
      OBVIOUS
    <3>2. i + 1 \in 1..Len(q) /\ j + 1 \in 1..Len(q) /\ t[i] = q[i + 1] /\ t[j] = q[j + 1]
      BY <2>9
    <3>3. i + 1 < j + 1
      BY <2>2, <2>3, <1>3, <3>1
    <3> QED
      BY <2>4, <3>2, <3>3
  <2>14. Sorted(t)'
    BY <2>10, <2>12, <2>13 DEF Sorted, Less
  <2>15. heap' \subseteq heap /\ heap' \subseteq Entry
    BY <1>2, <2>8
  <2>16. Heaped'
    BY <1>5, <1>6, <2>10, <2>14, <2>15 DEF Heaped
  <2>17. PopOrder' = Ids(t)
    <3>1. PopsAsSorted'
      BY PopsSorted, PTL
    <3> QED
      BY <2>14, <2>15, <3>1 DEF PopsAsSorted
  <2>18. Ids(q) # <<>> /\ Head(Ids(q)) = q[1].id /\ Tail(Ids(q)) = Ids(t)
    <3>1. PICK s : s = Ids(q)
      OBVIOUS
    <3>2. s \in Seq(Messages) /\ Len(s) = Len(q) /\ \A i \in 1..Len(q) : s[i] = q[i].id
      BY <1>4, <3>1
    <3>3. s # <<>>
      BY <2>1, <3>2, EmptySeq
    <3>4. /\ Head(s) = s[1] /\ Tail(s) \in Seq(Messages) /\ Len(Tail(s)) = Len(s) - 1
          /\ \A k \in 1..Len(Tail(s)) : Tail(s)[k] = s[k + 1]
      BY <3>2, <3>3, HeadTailProperties
    <3>5. Len(Tail(s)) = Len(t) /\ \A k \in 1..Len(t) : Tail(s)[k] = t[k].id
      BY <2>2, <2>3, <2>9, <3>2, <3>4
    <3>6. Tail(s) = [k \in 1..Len(Tail(s)) |-> Tail(s)[k]]
      <4>1. PICK u : u = Tail(s)
        OBVIOUS
      <4>2. u \in Seq(Messages)
        BY <3>4, <4>1
      <4>3. u = [k \in 1..Len(u) |-> u[k]]
        BY <4>2
      <4> QED
        BY <4>1, <4>3
    <3> QED
      BY <2>1, <3>1, <3>2, <3>3, <3>4, <3>5, <3>6 DEF Ids
  <2>19. Ready!Pop
    BY <1>2, <2>8, <2>17, <2>18 DEF Ready!Pop
  <2> QED
    BY <2>16, <2>19
<1> QED
  BY <1>7, <1>8

\* PurgeHeap: what is left is sorted as it was.
LEMMA PurgeRefines ==
  ASSUME Heaped, NEW dead, PurgeHeap(dead)
  PROVE  Heaped' /\ PopOrder' = Without(PopOrder, dead)
<1>1. PICK q : Sorted(q)
  BY DEF Heaped
<1>2. PopOrder = Ids(q) /\ heap \subseteq Entry
  BY <1>1, SortedPops DEF Heaped
<1>3. q \in Seq(heap) /\ Len(q) \in Nat /\ Members(q) = heap
  BY <1>1 DEF Sorted
<1>4. PICK D : D = {e \in heap : e.id \in dead}
  OBVIOUS
<1>5. heap' = heap \ D /\ UNCHANGED <<type, prio, seq, out>>
  BY <1>4 DEF PurgeHeap
<1>6. PICK t : t = Without(q, D)
  OBVIOUS
<1>7. t \in Seq(heap) /\ Members(t) = heap'
  BY <1>3, <1>5, <1>6, WithoutType, WithoutMembers
<1>8. t \in Seq(heap')
  <2>1. \A i \in 1..Len(t) : t[i] \in heap'
    BY <1>7 DEF Members
  <2>2. Len(t) \in Nat /\ t = [i \in 1..Len(t) |-> t[i]]
    BY <1>7
  <2> QED
    BY <2>1, <2>2
<1>9. ASSUME NEW i \in 1..Len(t), NEW j \in 1..Len(t), i < j
      PROVE  Less(t[i], t[j])
  <2>1. \A x, y \in 1..Len(t) :
          x < y => \E k, l \in 1..Len(q) : k < l /\ t[x] = q[k] /\ t[y] = q[l]
    <3>1. \A x, y \in 1..Len(Without(q, D)) :
            x < y => \E k, l \in 1..Len(q) :
                       k < l /\ Without(q, D)[x] = q[k] /\ Without(q, D)[y] = q[l]
      BY <1>3, WithoutOrder
    <3> QED
      BY <1>6, <3>1
  <2>2. PICK k, l \in 1..Len(q) : k < l /\ t[i] = q[k] /\ t[j] = q[l]
    BY <1>9, <2>1
  <2> QED
    BY <1>1, <2>2 DEF Sorted
<1>10. Sorted(t)'
  BY <1>7, <1>8, <1>9 DEF Sorted, Less
<1>11. Heaped'
  <2>1. EntriesOK'
    BY <1>5 DEF EntriesOK, Order, Heaped
  <2> QED
    BY <1>5, <1>8, <1>10, <2>1 DEF Heaped
<1>12. PopOrder' = Ids(t)
  <2>1. PopsAsSorted'
    BY PopsSorted, PTL
  <2> QED
    BY <1>2, <1>5, <1>10, <2>1 DEF PopsAsSorted
<1>13. Ids(t) = Without(Ids(q), dead)
  <2>1. PICK s : s = Ids(q)
    OBVIOUS
  <2>2. /\ Len(s) = Len(q)
        /\ \A i \in 1..Len(q) : s[i] = q[i].id /\ q[i] \in heap
    BY <1>1, <2>1, ReadyMessages
  <2>3. PICK J : J = {i \in 1..Len(q) : q[i] \notin D}
    OBVIOUS
  <2>4. J = {i \in 1..Len(s) : s[i] \notin dead}
    BY <1>4, <2>2, <2>3
  <2>5. (\A k \in J : k \in 1..Len(q)) /\ Cardinality(J) \in Nat
    BY <1>3, <2>3, Positions
  <2>6. \A i \in 1..Cardinality(J) : Nth(J, i) \in 1..Len(q)
    BY <1>3, <2>5, NthMember
  <2>7. t = [i \in 1..Cardinality(J) |-> q[Nth(J, i)]]
    BY <1>6, <2>3 DEF Without
  <2>8. Len(t) = Cardinality(J)
    BY <2>5, <2>7
  <2>9. Ids(t) = [i \in 1..Cardinality(J) |-> q[Nth(J, i)].id]
    BY <2>7, <2>8 DEF Ids
  <2>10. Without(s, dead) = [i \in 1..Cardinality(J) |-> s[Nth(J, i)]]
    BY <2>4 DEF Without
  <2> QED
    BY <2>1, <2>2, <2>6, <2>9, <2>10
<1> QED
  BY <1>2, <1>11, <1>12, <1>13

\* The heap is empty at first.
LEMMA InitRefines == Init => Heaped /\ Ready!Init
<1> SUFFICES ASSUME Init PROVE Heaped /\ Ready!Init
  OBVIOUS
<1>1. heap = {} /\ <<>> \in Seq(heap) /\ Len(<<>>) = 0
  BY EmptySeq DEF Init
<1>2. Members(<<>>) = {}
  BY <1>1 DEF Members
<1>3. Sorted(<<>>)
  BY <1>1, <1>2 DEF Sorted
<1>4. Heaped
  BY <1>1, <1>3 DEF Init, Heaped, EntriesOK
<1>5. PopOrder = <<>>
  <2>1. PopOrder = Ids(<<>>)
    BY <1>1, <1>3, SortedPops
  <2> QED
    BY <1>1, <2>1 DEF Ids
<1>6. prio \in [Messages -> Int]
  BY HeapConstantsOK DEF Init
<1> QED
  BY <1>4, <1>5, <1>6 DEF Init, Ready!Init

\* Every step is one of ReadyQueue, or changes nothing.
LEMMA NextRefines ==
  Heaped /\ [Next]_vars => Heaped' /\ [Ready!Next]_<<type, prio, PopOrder, out>>
<1> SUFFICES ASSUME Heaped, [Next]_vars
             PROVE  Heaped' /\ (Ready!Next \/ UNCHANGED <<type, prio, PopOrder, out>>)
  OBVIOUS
<1>1. CASE UNCHANGED vars
  <2>1. UNCHANGED <<type, prio, heap, seq, out>>
    BY <1>1 DEF vars
  <2>2. PopOrder' = PopOrder
    BY <2>1 DEF PopOrder, Before, Less
  <2>3. Heaped'
    BY <2>1 DEF Heaped, EntriesOK, Order, Sorted, Less
  <2> QED
    BY <2>1, <2>2, <2>3
<1>2. ASSUME NEW m \in Messages, AddToHeap(m)
      PROVE  Heaped' /\ Ready!Next
  <2>1. Heaped' /\ PopOrder' = AddMessage(PopOrder, m, prio, type)
    BY <1>2, AddRefines
  <2>2. Ready!Add(m)
    BY <1>2, <2>1, SameOperators DEF Ready!Add, AddToHeap
  <2> QED
    BY <1>2, <2>1, <2>2 DEF Ready!Next, AddToHeap
<1>3. ASSUME PopMessage
      PROVE  Heaped' /\ Ready!Next
  BY <1>3, PopRefines DEF Ready!Next, PopMessage
<1>4. ASSUME NEW dead \in SUBSET Messages, PurgeHeap(dead)
      PROVE  Heaped' /\ Ready!Next
  <2>1. Heaped' /\ PopOrder' = Without(PopOrder, dead)
    BY <1>4, PurgeRefines
  <2>2. Ready!Purge(dead)
    BY <1>4, <2>1, SameOperators DEF Ready!Purge, PurgeHeap
  <2> QED
    BY <1>4, <2>1, <2>2 DEF Ready!Next, PurgeHeap
<1> QED
  BY <1>1, <1>2, <1>3, <1>4 DEF Next

\* The entries of the heap are of the messages added, by the order they were given.
THEOREM Heaps == Spec => []Heaped
BY InitRefines, NextRefines, PTL DEF Spec

\* Whatever is pushed, popped and purged: heap and counter of queue.py return the
\* messages as the sequence `ready' of Broker does, by priority and then by age, or
\* the youngest first in a LIFO queue.
THEOREM HeapPops == Spec => PopsInSequence
BY InitRefines, NextRefines, PTL DEF Spec, PopsInSequence, Ready!Spec
-----------------------------------------------------------------------------
\* Induction over the numbers and over the sequences, as facts about sets.
LEMMA Counting ==
  ASSUME NEW T, 0 \in T, \A n \in Nat : n \in T => n + 1 \in T
  PROVE  \A n \in Nat : n \in T
<1>1. SUFFICES ASSUME NEW x \in Nat, x \notin T PROVE FALSE
  OBVIOUS
<1>2. PICK m \in {n \in Nat : n \notin T} : \A k \in {n \in Nat : n \notin T} : m <= k
  BY <1>1, LeastNatural
<1>3. m # 0 /\ m \in Nat
  OBVIOUS
<1>4. m - 1 \in Nat
  BY <1>3
<1>5. m - 1 \in T
  BY <1>2, <1>4
<1>6. (m - 1) + 1 \in T
  BY <1>4, <1>5
<1> QED
  BY <1>3, <1>6

\* Induction over sequences: a set that has the empty one, and with each also every
\* longer one, has all of them.
LEMMA Appending ==
  ASSUME NEW C, NEW T, <<>> \in T,
         \A s \in Seq(C) : \A x \in C : s \in T => Append(s, x) \in T
  PROVE  \A s \in Seq(C) : s \in T
<1> DEFINE N == {n \in Nat : \A s \in Seq(C) : Len(s) = n => s \in T}
<1>1. 0 \in N
  BY EmptySeq
<1>2. \A n \in Nat : n \in N => n + 1 \in N
  <2>1. SUFFICES ASSUME NEW n \in Nat, n \in N, NEW s \in Seq(C), Len(s) = n + 1
                 PROVE  s \in T
    OBVIOUS
  <2>2. PICK t \in Seq(C), x \in C : s = Append(t, x)
    BY <2>1, SequenceEmptyOrAppend, EmptySeq
  <2>3. Len(t) = n
    BY <2>1, <2>2, AppendProperties, LenProperties
  <2> QED
    BY <2>1, <2>2, <2>3
<1>3. \A n \in Nat : n \in N
  <2> HIDE DEF N
  <2> QED
    BY <1>1, <1>2, Counting
<1> QED
  BY <1>3, LenProperties
-----------------------------------------------------------------------------
\* Nothing flattened is nothing.
LEMMA FlattenEmpty == FlattenSeq(<<>>) = <<>>
BY DEF FlattenSeq

\* FlattenSeq as the recursive function it is defined by, for sequences of sequences.
LEMMA FlattenBy ==
  ASSUME NEW C, NEW s \in Seq(Seq(C)), s # <<>>
  PROVE  \E g : /\ g[1] = s[1] /\ \A i \in 2..Len(s) : g[i] = g[i - 1] \o s[i]
                /\ FlattenSeq(s) = g[Len(s)]
<1> DEFINE Sums(g, n) == \A i \in 1..n : g[i] = IF i = 1 THEN s[i] ELSE g[i - 1] \o s[i]
           Is(g, n) == g = [i \in 1..n |-> IF i = 1 THEN s[i] ELSE g[i - 1] \o s[i]]
           Has(n) == \E g \in [1..n -> Seq(C)] : Sums(g, n)
           N == {n \in Nat : n <= Len(s) => Has(n)}
<1>1. Has(0)
  <2>1. PICK g : g = [i \in 1..0 |-> s]
    OBVIOUS
  <2>2. \A i \in 1..0 : FALSE
    OBVIOUS
  <2>3. g \in [1..0 -> Seq(C)] /\ Sums(g, 0)
    BY <2>1, <2>2
  <2> QED
    BY <2>3
<1>2. ASSUME NEW n \in Nat, Has(n), n + 1 <= Len(s) PROVE Has(n + 1)
  <2>1. PICK g \in [1..n -> Seq(C)] : Sums(g, n)
    BY <1>2
  <2>2. PICK x : x = IF n = 0 THEN s[1] ELSE g[n] \o s[n + 1]
    OBVIOUS
  <2>3. x \in Seq(C)
    <3>1. s[n + 1] \in Seq(C)
      BY <1>2, LenProperties, ElementOfSeq
    <3> QED
      BY <2>1, <2>2, <3>1, ConcatProperties
  <2>4. PICK h : h = [i \in 1..n + 1 |-> IF i = n + 1 THEN x ELSE g[i]]
    OBVIOUS
  <2>5. h \in [1..n + 1 -> Seq(C)]
    BY <2>1, <2>3, <2>4
  <2>6. \A i \in 1..n : h[i] = g[i]
    BY <2>4
  <2>7. h[n + 1] = IF n + 1 = 1 THEN s[n + 1] ELSE h[(n + 1) - 1] \o s[n + 1]
    BY <2>2, <2>4
  <2>8. Sums(h, n + 1)
    <3>1. TAKE i \in 1..n + 1
    <3>2. CASE i = n + 1
      BY <2>7, <3>2
    <3>3. CASE i # n + 1
      <4>1. i \in 1..n /\ (i # 1 => i - 1 \in 1..n)
        BY <3>3
      <4> QED
        BY <2>1, <2>6, <4>1
    <3> QED
      BY <3>2, <3>3
  <2> QED
    BY <2>5, <2>8
<1>3. \A n \in Nat : n \in N
  <2>1. ASSUME NEW n \in Nat, n \in N PROVE n + 1 \in N
    <3> HIDE DEF Has
    <3> QED
      BY <1>2, <2>1, LenProperties
  <2>2. 0 \in N
    <3> HIDE DEF Has
    <3> QED
      BY <1>1
  <2> HIDE DEF N
  <2> QED
    BY <2>1, <2>2, Counting
<1>4. PICK n : n = Len(s)
  OBVIOUS
<1>5. n \in Nat \ {0}
  BY <1>4, EmptySeq
<1>6. \E g : Is(g, n)
  <2>a. Has(n)
    <3> HIDE DEF Has
    <3> QED
      BY <1>3, <1>4, <1>5
  <2>1. PICK g \in [1..n -> Seq(C)] : Sums(g, n)
    BY <2>a
  <2>2. Is(g, n)
    BY <2>1
  <2> QED
    BY <2>2
<1>7. PICK g : g = CHOOSE z : Is(z, n)
  OBVIOUS
<1>8. Is(g, n)
  BY <1>6, <1>7
<1>9. FlattenSeq(s) = g[n]
  BY <1>4, <1>5, <1>7 DEF FlattenSeq
<1>10. \A i \in 1..n : g[i] = IF i = 1 THEN s[i] ELSE g[i - 1] \o s[i]
  BY <1>8
<1>11. g[1] = s[1] /\ \A i \in 2..n : g[i] = g[i - 1] \o s[i]
  <2>1. 1 \in 1..n /\ \A i \in 2..n : i \in 1..n /\ i # 1
    BY <1>5
  <2> QED
    BY <1>10, <2>1
<1> QED
  BY <1>4, <1>9, <1>11

\* One sequence flattened is that sequence.
LEMMA FlattenOne == ASSUME NEW C, NEW x \in Seq(C) PROVE FlattenSeq(<<x>>) = x
<1>1. <<x>> \in Seq(Seq(C)) /\ <<x>> # <<>> /\ Len(<<x>>) = 1 /\ <<x>>[1] = x
  OBVIOUS
<1> QED
  BY <1>1, FlattenBy

\* The last sequence comes last.
LEMMA FlattenAppend ==
  ASSUME NEW C, NEW s \in Seq(Seq(C)), NEW x \in Seq(C)
  PROVE  FlattenSeq(Append(s, x)) = FlattenSeq(s) \o x
<1>1. CASE s = <<>>
  BY <1>1, FlattenEmpty, FlattenOne, ConcatEmptySeq
<1>2. CASE s # <<>>
  <2>1. PICK u : u = Append(s, x)
    OBVIOUS
  <2>2. /\ u \in Seq(Seq(C)) /\ u # <<>> /\ Len(u) = Len(s) + 1 /\ u[Len(s) + 1] = x
        /\ \A i \in 1..Len(s) : u[i] = s[i]
    BY <2>1, AppendProperties
  <2>3. PICK g : /\ g[1] = s[1] /\ \A i \in 2..Len(s) : g[i] = g[i - 1] \o s[i]
                 /\ FlattenSeq(s) = g[Len(s)]
    BY <1>2, FlattenBy
  <2>4. PICK h : /\ h[1] = u[1] /\ \A i \in 2..Len(u) : h[i] = h[i - 1] \o u[i]
                 /\ FlattenSeq(u) = h[Len(u)]
    BY <2>2, FlattenBy
  <2>5. PICK n : n = Len(s)
    OBVIOUS
  <2>6. n \in Nat \ {0}
    BY <1>2, <2>5, EmptySeq
  <2> DEFINE N == {i \in Nat : i \in 1..n => h[i] = g[i]}
  <2>7. 0 \in N
    OBVIOUS
  <2>8. \A i \in Nat : i \in N => i + 1 \in N
    <3>1. SUFFICES ASSUME NEW i \in Nat, i \in N, i + 1 \in 1..n PROVE h[i + 1] = g[i + 1]
      OBVIOUS
    <3>2. CASE i = 0
      BY <2>2, <2>3, <2>4, <2>5, <2>6, <3>2
    <3>3. CASE i # 0
      <4>1. /\ i + 1 \in 2..Len(s) /\ i + 1 \in 2..Len(u) /\ i + 1 \in 1..Len(s)
            /\ (i + 1) - 1 = i /\ i \in 1..n
        BY <2>2, <2>5, <2>6, <3>1, <3>3
      <4>2. h[i + 1] = h[i] \o u[i + 1] /\ g[i + 1] = g[i] \o s[i + 1] /\ u[i + 1] = s[i + 1]
        BY <2>2, <2>3, <2>4, <4>1
      <4> QED
        BY <3>1, <4>1, <4>2
    <3> QED
      BY <3>2, <3>3
  <2>9. \A i \in Nat : i \in N
    <3> HIDE DEF N
    <3> QED
      BY <2>7, <2>8, Counting
  <2>10. h[n] = g[n]
    BY <2>6, <2>9
  <2>11. h[n + 1] = h[n] \o x
    <3>1. n + 1 \in 2..Len(u) /\ (n + 1) - 1 = n
      BY <2>2, <2>5, <2>6
    <3> QED
      BY <2>2, <2>4, <2>5, <3>1
  <2> QED
    BY <2>1, <2>2, <2>3, <2>4, <2>5, <2>10, <2>11
<1> QED
  BY <1>1, <1>2

\* What sequences over C are flattened to is one.
LEMMA FlattenType ==
  ASSUME NEW C PROVE \A s \in Seq(Seq(C)) : FlattenSeq(s) \in Seq(C)
<1> DEFINE T == {s \in Seq(Seq(C)) : FlattenSeq(s) \in Seq(C)}
<1>1. <<>> \in T
  BY FlattenEmpty, EmptySeq
<1>2. \A s \in Seq(Seq(C)) : \A x \in Seq(C) : s \in T => Append(s, x) \in T
  BY FlattenAppend, AppendProperties, ConcatProperties
<1>3. \A s \in Seq(Seq(C)) : s \in T
  <2> HIDE DEF T
  <2> QED
    BY <1>1, <1>2, Appending
<1> QED
  BY <1>3
-----------------------------------------------------------------------------
Image(x, c, e) == IF x = c THEN <<"\\", e>> ELSE <<x>>
Escaped(x) ==
  IF x = "\\" THEN <<"\\", "\\">> ELSE IF x = "\n" THEN <<"\\", "n">>
  ELSE IF x = ":" THEN <<"\\", "c">> ELSE <<x>>

\* The characters that protocol.py names.
LEMMA Marks ==
  /\ "n" \in Characters /\ "c" \in Characters /\ "\\" \in Characters /\ "\n" \in Characters
  /\ "\r" \in Characters /\ ":" \in Characters /\ NUL \in Characters
  /\ "content-length" \in Characters
BY WireConstantsOK

\* Concatenation is associative.
LEMMA Regroup == \A a, b, c \in Seq(Characters) : (a \o b) \o c = a \o (b \o c)
BY ConcatAssociative

\* replace leaves an empty string as it is.
LEMMA ReplaceEmpty == \A c, e : Replace(<<>>, c, e) = <<>>
<1>1. TAKE c, e
<1>2. [i \in 1..Len(<<>>) |-> IF <<>>[i] = c THEN <<"\\", e>> ELSE <<<<>>[i]>>] = <<>>
  OBVIOUS
<1> QED
  BY <1>2, FlattenEmpty DEF Replace

\* replace goes from character to character.
LEMMA ReplaceAppend ==
  ASSUME NEW v \in Seq(Characters), NEW x \in Characters, NEW c \in Characters, NEW e \in Characters
  PROVE  /\ Replace(v, c, e) \in Seq(Characters)
         /\ Replace(Append(v, x), c, e) = Replace(v, c, e) \o Image(x, c, e)
<1>1. PICK n : n = Len(v)
  OBVIOUS
<1>2. PICK u : u = Append(v, x)
  OBVIOUS
<1>3. /\ n \in Nat /\ u \in Seq(Characters) /\ Len(u) = n + 1 /\ u[n + 1] = x
      /\ \A i \in 1..n : u[i] = v[i] /\ v[i] \in Characters
  BY <1>1, <1>2, AppendProperties, LenProperties
<1>4. PICK a : a = [i \in 1..n |-> IF v[i] = c THEN <<"\\", e>> ELSE <<v[i]>>]
  OBVIOUS
<1>5. PICK b : b = [i \in 1..n + 1 |-> IF u[i] = c THEN <<"\\", e>> ELSE <<u[i]>>]
  OBVIOUS
<1>6. \A i \in 1..n : a[i] \in Seq(Characters)
  BY <1>3, <1>4, Marks
<1>7. a \in Seq(Seq(Characters)) /\ Len(a) = n
  BY <1>3, <1>4, <1>6
<1>8. PICK y : y = Image(x, c, e)
  OBVIOUS
<1>9. y \in Seq(Characters)
  BY <1>8, Marks DEF Image
<1>10. PICK d : d = Append(a, y)
  OBVIOUS
<1>11. /\ d \in Seq(Seq(Characters)) /\ Len(d) = n + 1 /\ d[n + 1] = y
       /\ \A i \in 1..n : d[i] = a[i]
  BY <1>3, <1>7, <1>9, <1>10, AppendProperties
<1>12. b[n + 1] = y
  BY <1>3, <1>5, <1>8 DEF Image
<1>13. \A i \in 1..n : b[i] = a[i]
  BY <1>3, <1>4, <1>5
<1>14. DOMAIN d = 1..n + 1 /\ d = [i \in 1..n + 1 |-> d[i]]
  BY <1>3, <1>11, LenProperties
<1>15. b = d
  <2>1. \A i \in 1..n + 1 : b[i] = d[i]
    BY <1>3, <1>11, <1>12, <1>13
  <2> QED
    BY <1>5, <1>14, <2>1
<1>16. Replace(v, c, e) = FlattenSeq(a)
  BY <1>1, <1>4 DEF Replace
<1>17. Replace(u, c, e) = FlattenSeq(b)
  BY <1>3, <1>5 DEF Replace
<1>18. FlattenSeq(a) \in Seq(Characters) /\ FlattenSeq(d) = FlattenSeq(a) \o y
  BY <1>7, <1>9, <1>10, FlattenType, FlattenAppend
<1> QED
  BY <1>2, <1>8, <1>15, <1>16, <1>17, <1>18

\* replace leaves the characters that it does not look for.
LEMMA ReplaceKeeps ==
  ASSUME NEW v \in Seq(Characters), NEW c \in Characters, NEW e \in Characters
  PROVE  \A w \in Seq(Characters) :
           (\A i \in 1..Len(w) : w[i] # c) => Replace(v \o w, c, e) = Replace(v, c, e) \o w
<1> DEFINE T == {w \in Seq(Characters) :
                   (\A i \in 1..Len(w) : w[i] # c) => Replace(v \o w, c, e) = Replace(v, c, e) \o w}
<1>1. PICK r : r = Replace(v, c, e)
  OBVIOUS
<1>2. r \in Seq(Characters)
  BY <1>1, ReplaceAppend
<1>3. <<>> \in T
  <2>1. v \o <<>> = v /\ r \o <<>> = r
    BY <1>2, ConcatEmptySeq
  <2> QED
    BY <1>1, <2>1, EmptySeq
<1>4. ASSUME NEW w \in Seq(Characters), NEW x \in Characters, w \in T PROVE Append(w, x) \in T
  <2>1. PICK u : u = Append(w, x)
    OBVIOUS
  <2>2. /\ u \in Seq(Characters) /\ Len(u) = Len(w) + 1 /\ u[Len(w) + 1] = x
        /\ \A i \in 1..Len(w) : u[i] = w[i]
    BY <2>1, AppendProperties
  <2>3. SUFFICES ASSUME \A i \in 1..Len(u) : u[i] # c PROVE Replace(v \o u, c, e) = r \o u
    BY <1>1, <2>1, <2>2
  <2>4. x # c /\ \A i \in 1..Len(w) : w[i] # c
    BY <2>2, <2>3, LenProperties
  <2>5. PICK t : t = v \o w
    OBVIOUS
  <2>6. t \in Seq(Characters) /\ Replace(t, c, e) = r \o w
    BY <1>1, <1>4, <2>4, <2>5, ConcatProperties
  <2>7. Replace(Append(t, x), c, e) = Replace(t, c, e) \o <<x>>
    <3>1. t \in Seq(Characters)
      BY <2>6
    <3>2. Replace(Append(t, x), c, e) = Replace(t, c, e) \o Image(x, c, e)
      BY <3>1, ReplaceAppend
    <3>3. Image(x, c, e) = <<x>>
      BY <2>4 DEF Image
    <3> QED
      BY <3>2, <3>3
  <2>8. v \o u = Append(t, x)
    BY <2>1, <2>5
  <2>9. (r \o w) \o <<x>> = r \o u
    <3>1. r \o w \in Seq(Characters)
      BY <1>2, ConcatProperties
    <3>2. (r \o w) \o <<x>> = Append(r \o w, x)
      BY <3>1, AppendIsConcat
    <3>3. Append(r \o w, x) = r \o Append(w, x)
      BY <1>2, SMTT(40)
    <3> QED
      BY <2>1, <3>2, <3>3
  <2> QED
    BY <2>6, <2>7, <2>8, <2>9
<1>5. \A w \in Seq(Characters) : w \in T
  <2> HIDE DEF T
  <2> QED
    BY <1>3, <1>4, Appending
<1> QED
  BY <1>5

\* An empty string is escaped to itself.
LEMMA EscapeEmpty == Escape(<<>>) = <<>>
BY ReplaceEmpty DEF Escape

\* A character is escaped to one or two, none of them a colon or a line end.
LEMMA EscapedType ==
  ASSUME NEW x \in Characters
  PROVE  /\ Escaped(x) \in Seq(Characters) /\ Len(Escaped(x)) \in 1..2
         /\ \A i \in 1..Len(Escaped(x)) : Escaped(x)[i] \notin {":", "\n"}
BY Marks DEF Escaped

\* The three replacements of _escape, one after the other, are one of each character.
LEMMA EscapeAppend ==
  ASSUME NEW v \in Seq(Characters), NEW x \in Characters
  PROVE  Escape(v) \in Seq(Characters) /\ Escape(Append(v, x)) = Escape(v) \o Escaped(x)
<1>s. "\\" \in Characters
  BY Marks
<1>n. "\n" \in Characters /\ "n" \in Characters
  BY Marks
<1>c. ":" \in Characters /\ "c" \in Characters
  BY Marks
<1>1. PICK a : a = Replace(v, "\\", "\\")
  OBVIOUS
<1>2. PICK b : b = Replace(a, "\n", "n")
  OBVIOUS
<1>3. PICK d : d = Replace(b, ":", "c")
  OBVIOUS
<1>4. a \in Seq(Characters)
  BY <1>1, ReplaceAppend, Marks
<1>5. b \in Seq(Characters)
  BY <1>2, <1>4, ReplaceAppend, Marks
<1>6. d \in Seq(Characters)
  BY <1>3, <1>5, ReplaceAppend, Marks
<1>kn. \A w \in Seq(Characters) :
         (\A i \in 1..Len(w) : w[i] # "\n") => Replace(a \o w, "\n", "n") = Replace(a, "\n", "n") \o w
  BY <1>4, <1>n, ReplaceKeeps
<1>kc. \A w \in Seq(Characters) :
         (\A i \in 1..Len(w) : w[i] # ":") => Replace(b \o w, ":", "c") = Replace(b, ":", "c") \o w
  BY <1>5, <1>c, ReplaceKeeps
<1>7. Escape(v) = d
  BY <1>1, <1>2, <1>3 DEF Escape
<1>8. PICK y : y = Image(x, "\\", "\\")
  OBVIOUS
<1>a. Replace(Append(v, x), "\\", "\\") = Replace(v, "\\", "\\") \o Image(x, "\\", "\\")
  BY ReplaceAppend, <1>s
<1>9. Replace(Append(v, x), "\\", "\\") = a \o y
  BY <1>1, <1>8, <1>a
<1>10. Escape(Append(v, x)) = Replace(Replace(a \o y, "\n", "n"), ":", "c")
  BY <1>9 DEF Escape
<1>11. PICK z : z = Escaped(x)
  OBVIOUS
<1>12. CASE x = "\\"
  <2>1. y = z /\ z = <<"\\", "\\">>
    BY <1>8, <1>11, <1>12 DEF Image, Escaped
  <2>2. z \in Seq(Characters) /\ \A i \in 1..Len(z) : z[i] \notin {":", "\n"}
    BY <2>1, Marks
  <2>z. z \in Seq(Characters)
    BY <2>2
  <2>3. Replace(a \o z, "\n", "n") = b \o z
    <3>a. \A i \in 1..Len(z) : z[i] # "\n"
      BY <2>2
    <3>1. Replace(a \o z, "\n", "n") = Replace(a, "\n", "n") \o z
      BY <2>z, <3>a, <1>kn, Zenon
    <3> QED
      BY <1>2, <3>1
  <2>4. Replace(b \o z, ":", "c") = d \o z
    <3>a. \A i \in 1..Len(z) : z[i] # ":"
      BY <2>2
    <3>1. Replace(b \o z, ":", "c") = Replace(b, ":", "c") \o z
      BY <2>z, <3>a, <1>kc, Zenon
    <3> QED
      BY <1>3, <3>1
  <2> QED
    BY <1>6, <1>7, <1>10, <1>11, <2>1, <2>3, <2>4
<1>13. CASE x = "\n"
  <2>1. y = <<x>> /\ z = <<"\\", "n">> /\ z = Image(x, "\n", "n")
    BY <1>8, <1>11, <1>13 DEF Image, Escaped
  <2>2. z \in Seq(Characters) /\ \A i \in 1..Len(z) : z[i] \notin {":", "\n"}
    BY <2>1, Marks
  <2>z. z \in Seq(Characters)
    BY <2>2
  <2>3. Replace(a \o y, "\n", "n") = b \o z
    <3>a. a \o y = Append(a, x)
      BY <1>4, <2>1, AppendIsConcat
    <3>b. Replace(Append(a, x), "\n", "n") = Replace(a, "\n", "n") \o Image(x, "\n", "n")
      BY <1>4, <1>n, ReplaceAppend
    <3>1. Replace(a \o y, "\n", "n") = Replace(a, "\n", "n") \o Image(x, "\n", "n")
      BY <3>a, <3>b
    <3> QED
      BY <1>2, <2>1, <3>1
  <2>4. Replace(b \o z, ":", "c") = d \o z
    <3>a. \A i \in 1..Len(z) : z[i] # ":"
      BY <2>2
    <3>1. Replace(b \o z, ":", "c") = Replace(b, ":", "c") \o z
      BY <2>z, <3>a, <1>kc, Zenon
    <3> QED
      BY <1>3, <3>1
  <2> QED
    BY <1>6, <1>7, <1>10, <1>11, <2>3, <2>4
<1>14. CASE x \notin {"\\", "\n"}
  <2>1. y = <<x>> /\ y = Image(x, "\n", "n") /\ z = Image(x, ":", "c")
    BY <1>8, <1>11, <1>14 DEF Image, Escaped
  <2>2. Replace(a \o y, "\n", "n") = b \o y
    <3>a. a \o y = Append(a, x)
      BY <1>4, <2>1, AppendIsConcat
    <3>b. Replace(Append(a, x), "\n", "n") = Replace(a, "\n", "n") \o Image(x, "\n", "n")
      BY <1>4, <1>n, ReplaceAppend
    <3>1. Replace(a \o y, "\n", "n") = Replace(a, "\n", "n") \o Image(x, "\n", "n")
      BY <3>a, <3>b
    <3> QED
      BY <1>2, <2>1, <3>1
  <2>3. Replace(b \o y, ":", "c") = d \o z
    <3>a. b \o y = Append(b, x)
      BY <1>5, <2>1, AppendIsConcat
    <3>b. Replace(Append(b, x), ":", "c") = Replace(b, ":", "c") \o Image(x, ":", "c")
      BY <1>5, <1>c, ReplaceAppend
    <3>1. Replace(b \o y, ":", "c") = Replace(b, ":", "c") \o Image(x, ":", "c")
      BY <3>a, <3>b
    <3> QED
      BY <1>3, <2>1, <3>1
  <2> QED
    BY <1>6, <1>7, <1>10, <1>11, <2>2, <2>3
<1> QED
  BY <1>6, <1>7, <1>12, <1>13, <1>14

\* What is escaped has no colon and no line end.
LEMMA EscapeClean ==
  \A v \in Seq(Characters) : /\ Escape(v) \in Seq(Characters)
                         /\ \A i \in 1..Len(Escape(v)) : Escape(v)[i] \notin {":", "\n"}
<1> DEFINE T == {v \in Seq(Characters) : \A i \in 1..Len(Escape(v)) : Escape(v)[i] \notin {":", "\n"}}
<1>1. <<>> \in T
  BY EscapeEmpty
<1>2. ASSUME NEW v \in Seq(Characters), NEW x \in Characters, v \in T PROVE Append(v, x) \in T
  <2>1. PICK a, b : a = Escape(v) /\ b = Escaped(x)
    OBVIOUS
  <2>2. a \in Seq(Characters) /\ b \in Seq(Characters) /\ Escape(Append(v, x)) = a \o b
    BY <2>1, EscapeAppend, EscapedType
  <2>3. \A i \in 1..Len(b) : b[i] \notin {":", "\n"}
    BY <2>1, EscapedType
  <2>4. \A i \in 1..Len(a) : a[i] \notin {":", "\n"}
    BY <1>2, <2>1
  <2>5. \A i \in 1..Len(a \o b) : (a \o b)[i] \notin {":", "\n"}
    BY <2>2, <2>3, <2>4, ConcatProperties, LenProperties
  <2> QED
    BY <2>2, <2>5, AppendProperties
<1>3. \A v \in Seq(Characters) : v \in T
  <2> HIDE DEF T
  <2> QED
    BY <1>1, <1>2, Appending
<1>4. ASSUME NEW v \in Seq(Characters) PROVE Escape(v) \in Seq(Characters)
  BY EscapeAppend, Marks
<1> QED
  BY <1>3, <1>4

\* Two strings can be escaped one by one.
LEMMA EscapeConcat ==
  ASSUME NEW u \in Seq(Characters)
  PROVE  \A w \in Seq(Characters) : Escape(u \o w) = Escape(u) \o Escape(w)
<1> DEFINE T == {w \in Seq(Characters) : Escape(u \o w) = Escape(u) \o Escape(w)}
<1>1. <<>> \in T
  BY EscapeEmpty, EscapeClean, ConcatEmptySeq
<1>2. ASSUME NEW w \in Seq(Characters), NEW x \in Characters, w \in T PROVE Append(w, x) \in T
  <2>1. u \o Append(w, x) = Append(u \o w, x) /\ u \o w \in Seq(Characters)
    OBVIOUS
  <2>2. Escape(u \o Append(w, x)) = (Escape(u) \o Escape(w)) \o Escaped(x)
    BY <1>2, <2>1, EscapeAppend
  <2>a. PICK r, s, t : r = Escape(u) /\ s = Escape(w) /\ t = Escaped(x)
    OBVIOUS
  <2>b. r \in Seq(Characters) /\ s \in Seq(Characters) /\ t \in Seq(Characters)
    BY <2>a, EscapeClean, EscapedType
  <2>c. (r \o s) \o t = r \o (s \o t)
    BY <2>b, ConcatAssociative, SMTT(40)
  <2>3. (Escape(u) \o Escape(w)) \o Escaped(x) = Escape(u) \o (Escape(w) \o Escaped(x))
    BY <2>a, <2>c
  <2>4. Escape(Append(w, x)) = Escape(w) \o Escaped(x)
    BY EscapeAppend
  <2> QED
    BY <2>2, <2>3, <2>4, AppendProperties
<1>3. \A w \in Seq(Characters) : w \in T
  <2> HIDE DEF T
  <2> QED
    BY <1>1, <1>2, Appending
<1> QED
  BY <1>3
-----------------------------------------------------------------------------
\* What Unescape makes of v from position i on, when h is that from i + 1 on.
IsEscape(v, i) == v[i] = "\\" /\ i < Len(v) /\ v[i + 1] \in DOMAIN Escapes

\* Unescape as the recursive function it is defined by.
LEMMA UnescapeBy ==
  ASSUME NEW v \in Seq(Characters)
  PROVE  \E g : /\ Unescape(v) = g[1] /\ g[Len(v) + 1] = <<>>
                /\ \A i \in 1..Len(v) :
                     g[i] = IF IsEscape(v, i) THEN <<Escapes[v[i + 1]]>> \o g[i + 2]
                            ELSE <<v[i]>> \o g[i + 1]
<1>1. PICK n : n = Len(v)
  OBVIOUS
<1>2. n \in Nat
  BY <1>1
<1> DEFINE From(g, i) == IF i > n THEN <<>>
                         ELSE IF v[i] = "\\" /\ i < n /\ v[i + 1] \in DOMAIN Escapes
                         THEN <<Escapes[v[i + 1]]>> \o g[i + 2]
                         ELSE <<v[i]>> \o g[i + 1]
           Is(g) == g = [i \in 1..n + 1 |-> From(g, i)]
           Has(k) == \E g : \A i \in n + 1 - k..n + 1 : g[i] = From(g, i)
           N == {k \in Nat : k <= n => Has(k)}
<1>3. Has(0)
  <2>1. PICK g : g = [i \in n + 1..n + 1 |-> <<>>]
    OBVIOUS
  <2>2. \A i \in n + 1 - 0..n + 1 : i = n + 1
    BY <1>2
  <2>3. g[n + 1] = From(g, n + 1)
    BY <1>2, <2>1
  <2>4. \A i \in n + 1 - 0..n + 1 : g[i] = From(g, i)
    BY <2>2, <2>3
  <2> QED
    BY <2>4
<1>4. ASSUME NEW k \in Nat, Has(k), k + 1 <= n PROVE Has(k + 1)
  <2>1. PICK g : \A i \in n + 1 - k..n + 1 : g[i] = From(g, i)
    BY <1>4
  <2>2. PICK p : p = n - k
    OBVIOUS
  <2>3. p \in 1..n /\ p + 1 = n + 1 - k /\ p = n + 1 - (k + 1)
    BY <1>2, <1>4, <2>2
  <2>4. PICK x : x = From(g, p)
    OBVIOUS
  <2>5. PICK h : h = [i \in p..n + 1 |-> IF i = p THEN x ELSE g[i]]
    OBVIOUS
  <2>6. \A i \in p + 1..n + 1 : h[i] = g[i] /\ i # p
    BY <2>3, <2>5
  <2>7. h[p] = x
    BY <1>2, <2>3, <2>5
  <2>8. \A i \in p..n + 1 : From(h, i) = From(g, i)
    <3>1. TAKE i \in p..n + 1
    <3>2. i > n \/ i + 1 \in p + 1..n + 1
      BY <1>2, <2>3
    <3>3. i < n => i + 2 \in p + 1..n + 1
      BY <1>2, <2>3
    <3>4. i <= n => h[i + 1] = g[i + 1]
      BY <1>2, <2>3, <2>6, <3>2
    <3>5. i < n => h[i + 2] = g[i + 2]
      BY <2>6, <3>3
    <3> QED
      BY <1>2, <2>3, <3>4, <3>5
  <2>9. \A i \in p..n + 1 : h[i] = From(h, i)
    <3>1. TAKE i \in p..n + 1
    <3>2. CASE i = p
      BY <2>4, <2>7, <2>8, <3>2
    <3>3. CASE i # p
      <4>1. i \in p + 1..n + 1
        BY <1>2, <2>3, <3>3
      <4>2. h[i] = g[i] /\ g[i] = From(g, i)
        <5> HIDE DEF From
        <5> QED
          BY <2>1, <2>3, <2>6, <4>1
      <4> QED
        BY <2>8, <4>2
    <3> QED
      BY <3>2, <3>3
  <2> QED
    <3> HIDE DEF From
    <3> QED
      BY <2>3, <2>9
<1>5. \A k \in Nat : k \in N
  <2>1. ASSUME NEW k \in Nat, k \in N PROVE k + 1 \in N
    <3> HIDE DEF Has
    <3> QED
      BY <1>2, <1>4, <2>1
  <2>2. 0 \in N
    <3> HIDE DEF Has
    <3> QED
      BY <1>3
  <2> HIDE DEF N
  <2> QED
    BY <2>1, <2>2, Counting
<1>6. \E g : Is(g)
  <2>1. \E g : \A i \in 1..n + 1 : g[i] = From(g, i)
    <3>1. CASE n = 0
      <4>1. PICK g : g = [i \in 1..1 |-> <<>>]
        OBVIOUS
      <4>2. \A i \in 1..n + 1 : g[i] = From(g, i)
        BY <3>1, <4>1
      <4> QED
        BY <4>2
    <3>2. CASE n # 0
      <4>1. Has(n)
        <5> HIDE DEF Has
        <5> QED
          BY <1>2, <1>5
      <4>2. n + 1 - n = 1
        BY <1>2
      <4> QED
        <5> HIDE DEF From
        <5> QED
          BY <4>1, <4>2
    <3> QED
      BY <3>1, <3>2
  <2>2. PICK g : \A i \in 1..n + 1 : g[i] = From(g, i)
    BY <2>1
  <2>3. PICK h : h = [i \in 1..n + 1 |-> g[i]]
    OBVIOUS
  <2>4. \A i \in 1..n + 1 : From(h, i) = From(g, i)
    <3>1. TAKE i \in 1..n + 1
    <3>2. i <= n => h[i + 1] = g[i + 1]
      BY <1>2, <2>3
    <3>3. i < n => h[i + 2] = g[i + 2]
      BY <1>2, <2>3
    <3> QED
      BY <1>2, <3>2, <3>3
  <2>5. Is(h)
    <3> HIDE DEF From
    <3> QED
      BY <2>2, <2>3, <2>4
  <2> QED
    BY <2>5
<1>7. PICK g : g = CHOOSE z : Is(z)
  OBVIOUS
<1>8. Is(g)
  <2> HIDE DEF Is
  <2> QED
    BY <1>6, <1>7
<1>9. Unescape(v) = g[1]
  BY <1>1, <1>7 DEF Unescape
<1>10. \A i \in 1..n + 1 : g[i] = From(g, i)
  <2> HIDE DEF From
  <2> QED
    BY <1>8
<1>11. g[n + 1] = <<>>
  <2>1. n + 1 \in 1..n + 1 /\ From(g, n + 1) = <<>>
    BY <1>2
  <2> QED
    <3> HIDE DEF From
    <3> QED
      BY <1>10, <2>1
<1>12. \A i \in 1..n : g[i] = IF IsEscape(v, i) THEN <<Escapes[v[i + 1]]>> \o g[i + 2]
                              ELSE <<v[i]>> \o g[i + 1]
  BY <1>1, <1>2, <1>10 DEF IsEscape
<1> QED
  BY <1>1, <1>9, <1>11, <1>12

\* A sequence is its first part and the rest.
LEMMA Halves ==
  ASSUME NEW C, NEW v \in Seq(C), NEW j \in 0..Len(v)
  PROVE  /\ SubSeq(v, 1, j) \in Seq(C) /\ SubSeq(v, j + 1, Len(v)) \in Seq(C)
         /\ Len(SubSeq(v, 1, j)) = j /\ Len(SubSeq(v, j + 1, Len(v))) = Len(v) - j
         /\ v = SubSeq(v, 1, j) \o SubSeq(v, j + 1, Len(v))
         /\ j < Len(v) => SubSeq(v, 1, j + 1) = Append(SubSeq(v, 1, j), v[j + 1])
<1>1. PICK n : n = Len(v)
  OBVIOUS
<1>2. n \in Nat /\ j \in 0..n /\ \A i \in 1..n : v[i] \in C
  BY <1>1, LenProperties, ElementOfSeq
<1>3. PICK a, b : a = SubSeq(v, 1, j) /\ b = SubSeq(v, j + 1, n)
  OBVIOUS
<1>4. a \in Seq(C) /\ Len(a) = j /\ \A i \in 1..j : a[i] = v[i]
  BY <1>2, <1>3, SubSeqProperties
<1>5. b \in Seq(C) /\ Len(b) = n - j /\ \A i \in 1..n - j : b[i] = v[j + i]
  BY <1>2, <1>3, SubSeqProperties
<1>6. v = a \o b
  <2>1. PICK d : d = a \o b
    OBVIOUS
  <2>2. d \in Seq(C) /\ Len(d) = n /\ \A i \in 1..n : d[i] = IF i <= j THEN a[i] ELSE b[i - j]
    <3>1. /\ d \in Seq(C) /\ Len(d) = Len(a) + Len(b)
          /\ \A i \in 1..Len(a) + Len(b) : d[i] = IF i <= Len(a) THEN a[i] ELSE b[i - Len(a)]
      BY <1>4, <1>5, <2>1, ConcatProperties
    <3>2. Len(a) + Len(b) = n /\ Len(a) = j
      BY <1>2, <1>4, <1>5
    <3> QED
      BY <3>1, <3>2
  <2>3. \A i \in 1..n : d[i] = v[i]
    <3>1. TAKE i \in 1..n
    <3>2. CASE i <= j
      BY <1>2, <1>4, <2>2, <3>2
    <3>3. CASE i > j
      <4>1. i - j \in 1..n - j /\ j + (i - j) = i /\ ~(i <= j)
        BY <1>2, <3>3
      <4>2. PICK k : k = i - j
        OBVIOUS
      <4>3. b[k] = v[i]
        BY <1>5, <4>1, <4>2
      <4>4. d[i] = b[k]
        BY <2>2, <4>1, <4>2
      <4> QED
        BY <4>3, <4>4
    <3> QED
      BY <1>2, <3>2, <3>3
  <2> QED
    BY <1>1, <2>1, <2>2, <2>3, SeqEqual
<1>7. ASSUME j < n PROVE SubSeq(v, 1, j + 1) = Append(a, v[j + 1])
  <2>1. PICK d : d = SubSeq(v, 1, j + 1)
    OBVIOUS
  <2>2. j + 1 \in 1..n /\ v[j + 1] \in C
    BY <1>2, <1>7
  <2>3. d \in Seq(C) /\ Len(d) = j + 1 /\ \A i \in 1..j + 1 : d[i] = v[i]
    BY <1>2, <2>1, <2>2, SubSeqProperties
  <2>4. PICK c : c = Append(a, v[j + 1])
    OBVIOUS
  <2>5. c \in Seq(C) /\ Len(c) = j + 1 /\ c[j + 1] = v[j + 1] /\ \A i \in 1..j : c[i] = v[i]
    BY <1>4, <2>2, <2>4, AppendProperties
  <2>6. \A i \in 1..j + 1 : c[i] = d[i]
    <3>1. TAKE i \in 1..j + 1
    <3>2. d[i] = v[i]
      BY <2>3
    <3>3. i = j + 1 \/ i \in 1..j
      BY <1>2
    <3> QED
      BY <2>5, <3>2, <3>3
  <2> QED
    BY <2>1, <2>3, <2>4, <2>5, <2>6, SeqEqual
<1> QED
  BY <1>1, <1>2, <1>3, <1>4, <1>5, <1>6, <1>7

\* Where the escape of the character j + 1 of v is found in that of v.
LEMMA EscapeAt ==
  ASSUME NEW v \in Seq(Characters), NEW j \in 0..Len(v) - 1
  PROVE  \E p, q \in Nat :
           /\ p = Len(Escape(SubSeq(v, 1, j))) /\ q = Len(Escape(SubSeq(v, 1, j + 1)))
           /\ q = p + Len(Escaped(v[j + 1])) /\ q <= Len(Escape(v))
           /\ \A i \in 1..Len(Escaped(v[j + 1])) : Escape(v)[p + i] = Escaped(v[j + 1])[i]
<1>1. PICK n : n = Len(v)
  OBVIOUS
<1>2. n \in Nat /\ j \in 0..n /\ j + 1 \in 1..n /\ j + 1 \in 0..n /\ j < n
  BY <1>1, LenProperties
<1>3. PICK x : x = v[j + 1]
  OBVIOUS
<1>4. x \in Characters
  BY <1>1, <1>2, <1>3, ElementOfSeq
<1>5. PICK a, b : a = SubSeq(v, 1, j) /\ b = SubSeq(v, (j + 1) + 1, n)
  OBVIOUS
<1>6. a \in Seq(Characters) /\ SubSeq(v, 1, j + 1) = Append(a, x)
  BY <1>1, <1>2, <1>3, <1>5, Halves
<1>7. b \in Seq(Characters) /\ v = Append(a, x) \o b /\ Append(a, x) \in Seq(Characters)
  <2>1. v = SubSeq(v, 1, j + 1) \o b /\ b \in Seq(Characters)
    BY <1>1, <1>2, <1>5, Halves
  <2> QED
    BY <1>4, <1>6, <2>1, AppendProperties
<1>8. PICK r, s, t : r = Escape(a) /\ s = Escaped(x) /\ t = Escape(b)
  OBVIOUS
<1>9. r \in Seq(Characters) /\ s \in Seq(Characters) /\ t \in Seq(Characters)
  BY <1>4, <1>6, <1>7, <1>8, EscapeClean, EscapedType
<1>10. Escape(Append(a, x)) = r \o s
  BY <1>4, <1>6, <1>8, EscapeAppend
<1>11. Escape(Append(a, x) \o b) = Escape(Append(a, x)) \o Escape(b)
  BY <1>7, EscapeConcat
<1>12. Escape(v) = (r \o s) \o t
  BY <1>7, <1>8, <1>10, <1>11
<1>13. PICK d : d = r \o s
  OBVIOUS
<1>14. /\ d \in Seq(Characters) /\ Len(d) = Len(r) + Len(s)
       /\ \A i \in 1..Len(r) + Len(s) : d[i] = IF i <= Len(r) THEN r[i] ELSE s[i - Len(r)]
  BY <1>9, <1>13, ConcatProperties
<1>a. d \in Seq(Characters)
  BY <1>14
<1>15. /\ Len(d \o t) = Len(d) + Len(t)
       /\ \A i \in 1..Len(d) + Len(t) : (d \o t)[i] = IF i <= Len(d) THEN d[i] ELSE t[i - Len(d)]
  BY <1>9, <1>a, ConcatProperties
<1>16. Len(r) \in Nat /\ Len(s) \in Nat /\ Len(t) \in Nat /\ Len(d) \in Nat
  BY <1>9, <1>14
<1>17. \A i \in 1..Len(s) : (d \o t)[Len(r) + i] = s[i]
  <2>1. TAKE i \in 1..Len(s)
  <2>2. Len(r) + i \in 1..Len(d) + Len(t) /\ Len(r) + i <= Len(d) /\ Len(r) + i \in 1..Len(r) + Len(s)
    BY <1>14, <1>16
  <2>3. (d \o t)[Len(r) + i] = d[Len(r) + i]
    BY <1>15, <2>2
  <2>4. d[Len(r) + i] = s[i]
    BY <1>14, <1>16, <2>2
  <2> QED
    BY <2>3, <2>4
<1>18. Len(d) <= Len(d \o t)
  BY <1>15, <1>16
<1>19. Escape(v) = d \o t /\ Len(r) = Len(Escape(SubSeq(v, 1, j)))
       /\ Len(d) = Len(Escape(SubSeq(v, 1, j + 1)))
  BY <1>5, <1>6, <1>8, <1>10, <1>12, <1>13
<1> QED
  <2>1. PICK e : e = d \o t
    OBVIOUS
  <2>2. Escape(v) = e /\ Len(d) <= Len(e) /\ \A i \in 1..Len(s) : e[Len(r) + i] = s[i]
    BY <1>17, <1>18, <1>19, <2>1
  <2>3. s = Escaped(v[j + 1])
    BY <1>3, <1>8
  <2>4. PICK p, q : p = Len(r) /\ q = Len(d)
    OBVIOUS
  <2>5. /\ p \in Nat /\ q \in Nat /\ q = p + Len(Escaped(v[j + 1])) /\ q <= Len(Escape(v))
        /\ \A i \in 1..Len(Escaped(v[j + 1])) : Escape(v)[p + i] = Escaped(v[j + 1])[i]
    BY <1>14, <1>16, <2>2, <2>3, <2>4
  <2>6. p = Len(Escape(SubSeq(v, 1, j))) /\ q = Len(Escape(SubSeq(v, 1, j + 1)))
    BY <1>19, <2>4
  <2> QED
    BY <2>5, <2>6

\* What is escaped is unescaped to what it was: for every string, whatever
\* backslashes, colons and line ends it has.
THEOREM UnescapeEscape == \A v \in Seq(Characters) : Unescape(Escape(v)) = v
<1>1. TAKE v \in Seq(Characters)
<1>2. PICK n, e : n = Len(v) /\ e = Escape(v)
  OBVIOUS
<1>3. n \in Nat /\ e \in Seq(Characters) /\ Len(e) \in Nat
  BY <1>2, EscapeClean, LenProperties
<1>4. PICK g : /\ Unescape(e) = g[1] /\ g[Len(e) + 1] = <<>>
               /\ \A i \in 1..Len(e) :
                    g[i] = IF IsEscape(e, i) THEN <<Escapes[e[i + 1]]>> \o g[i + 2]
                           ELSE <<e[i]>> \o g[i + 1]
  BY <1>3, UnescapeBy
<1> DEFINE At(j) == g[Len(Escape(SubSeq(v, 1, j))) + 1] = SubSeq(v, j + 1, n)
           N == {k \in Nat : k <= n => At(n - k)}
<1>5. At(n)
  <2>1. SubSeq(v, 1, n) = v /\ SubSeq(v, n + 1, n) = <<>>
    BY <1>2, <1>3, SubSeqFull, SubSeqEmpty
  <2> QED
    BY <1>2, <1>4, <2>1
<1>6. ASSUME NEW j \in 0..n - 1, At(j + 1) PROVE At(j)
  <2>1. PICK x : x = v[j + 1]
    OBVIOUS
  <2>2. x \in Characters /\ j \in 0..Len(v) - 1
    <3>1. j + 1 \in 1..Len(v)
      BY <1>2, <1>3
    <3> QED
      BY <1>2, <2>1, <3>1, ElementOfSeq
  <2>3. PICK p, q \in Nat :
          /\ p = Len(Escape(SubSeq(v, 1, j))) /\ q = Len(Escape(SubSeq(v, 1, j + 1)))
          /\ q = p + Len(Escaped(x)) /\ q <= Len(e)
          /\ \A i \in 1..Len(Escaped(x)) : e[p + i] = Escaped(x)[i]
    BY <1>2, <2>1, <2>2, EscapeAt
  <2>4. g[q + 1] = SubSeq(v, (j + 1) + 1, n)
    BY <1>6, <2>3
  <2>5. g[p + 1] = <<x>> \o g[q + 1]
    <3>1. CASE x = "\\"
      <4>1. Escaped(x) = <<"\\", "\\">> /\ Len(Escaped(x)) = 2
        BY <3>1 DEF Escaped
      <4>2. e[p + 1] = "\\" /\ e[p + 2] = "\\" /\ q = p + 2
        BY <2>3, <4>1
      <4>3. p + 1 \in 1..Len(e) /\ p + 1 < Len(e) /\ (p + 1) + 1 = p + 2 /\ (p + 1) + 2 = q + 1
        BY <1>3, <2>3, <4>2
      <4>4. IsEscape(e, p + 1) /\ Escapes[e[(p + 1) + 1]] = x
        BY <3>1, <4>2, <4>3 DEF IsEscape, Escapes
      <4> QED
        BY <1>4, <4>3, <4>4
    <3>2. CASE x = "\n"
      <4>1. Escaped(x) = <<"\\", "n">> /\ Len(Escaped(x)) = 2
        BY <3>2 DEF Escaped
      <4>2. e[p + 1] = "\\" /\ e[p + 2] = "n" /\ q = p + 2
        BY <2>3, <4>1
      <4>3. p + 1 \in 1..Len(e) /\ p + 1 < Len(e) /\ (p + 1) + 1 = p + 2 /\ (p + 1) + 2 = q + 1
        BY <1>3, <2>3, <4>2
      <4>4. IsEscape(e, p + 1) /\ Escapes[e[(p + 1) + 1]] = x
        BY <3>2, <4>2, <4>3 DEF IsEscape, Escapes
      <4> QED
        BY <1>4, <4>3, <4>4
    <3>3. CASE x = ":"
      <4>1. Escaped(x) = <<"\\", "c">> /\ Len(Escaped(x)) = 2
        BY <3>3 DEF Escaped
      <4>2. e[p + 1] = "\\" /\ e[p + 2] = "c" /\ q = p + 2
        BY <2>3, <4>1
      <4>3. p + 1 \in 1..Len(e) /\ p + 1 < Len(e) /\ (p + 1) + 1 = p + 2 /\ (p + 1) + 2 = q + 1
        BY <1>3, <2>3, <4>2
      <4>4. IsEscape(e, p + 1) /\ Escapes[e[(p + 1) + 1]] = x
        BY <3>3, <4>2, <4>3 DEF IsEscape, Escapes
      <4> QED
        BY <1>4, <4>3, <4>4
    <3>4. CASE x \notin {"\\", "\n", ":"}
      <4>1. Escaped(x) = <<x>> /\ Len(Escaped(x)) = 1
        BY <3>4 DEF Escaped
      <4>2. e[p + 1] = x /\ q = p + 1
        BY <2>3, <4>1
      <4>3. p + 1 \in 1..Len(e) /\ (p + 1) + 1 = q + 1
        BY <1>3, <2>3, <4>2
      <4>4. ~IsEscape(e, p + 1)
        BY <3>4, <4>2 DEF IsEscape
      <4> QED
        BY <1>4, <4>2, <4>3, <4>4
    <3> QED
      BY <3>1, <3>2, <3>3, <3>4
  <2>6. SubSeq(v, j + 1, n) = <<x>> \o SubSeq(v, (j + 1) + 1, n)
    <3>1. j + 1 \in 1..Len(v) /\ n \in (j + 1)..Len(v)
      BY <1>2, <1>3
    <3> QED
      BY <2>1, <3>1, SubSeqRecursiveFirst
  <2> QED
    BY <2>3, <2>4, <2>5, <2>6
<1>7. \A k \in Nat : k \in N
  <2>1. ASSUME NEW k \in Nat, k \in N PROVE k + 1 \in N
    <3>1. SUFFICES ASSUME k + 1 <= n PROVE At(n - (k + 1))
      OBVIOUS
    <3>2. At(n - k)
      BY <1>3, <2>1, <3>1
    <3>3. n - (k + 1) \in 0..n - 1 /\ (n - (k + 1)) + 1 = n - k
      BY <1>3, <3>1
    <3> HIDE DEF At
    <3> QED
      BY <1>6, <3>2, <3>3
  <2>2. 0 \in N
    <3>1. n - 0 = n
      BY <1>3
    <3> QED
      BY <1>5, <3>1
  <2> HIDE DEF N
  <2> QED
    BY <2>1, <2>2, Counting
<1>8. At(0)
  <2>1. n - n = 0
    BY <1>3
  <2> HIDE DEF At
  <2> QED
    BY <1>3, <1>7, <2>1
<1>9. SubSeq(v, 1, 0) = <<>> /\ SubSeq(v, 0 + 1, n) = v
  BY <1>2, SubSeqEmpty, SubSeqFull
<1>10. Len(Escape(<<>>)) + 1 = 1
  BY EscapeEmpty
<1> QED
  BY <1>2, <1>4, <1>8, <1>9, <1>10
-----------------------------------------------------------------------------
\* The least member of a set, when it is known.
LEMMA MinIs ==
  ASSUME NEW S \in SUBSET Nat, NEW x \in S, \A y \in S : x <= y PROVE Min(S) = x
<1>1. PICK m : m = CHOOSE z \in S : \A y \in S : z <= y
  OBVIOUS
<1>2. m \in S /\ \A y \in S : m <= y
  BY <1>1
<1>3. Min(S) = m
  BY <1>1 DEF Min
<1> QED
  BY <1>2, <1>3

\* The greatest member of a set, when it is known.
LEMMA MaxIs ==
  ASSUME NEW S \in SUBSET Nat, NEW x \in S, \A y \in S : y <= x PROVE Max(S) = x
<1>1. PICK m : m = CHOOSE z \in S : \A y \in S : z >= y
  OBVIOUS
<1>2. m \in S /\ \A y \in S : m >= y
  BY <1>1
<1>3. Max(S) = m
  BY <1>1 DEF Max
<1> QED
  BY <1>2, <1>3

\* rstrip, when it is known where it stops.
LEMMA StripEndAt ==
  ASSUME NEW C, NEW v \in Seq(C), NEW chars, NEW m \in 0..Len(v),
         m = 0 \/ v[m] \notin chars, \A i \in m + 1..Len(v) : v[i] \in chars
  PROVE  StripEnd(v, chars) = SubSeq(v, 1, m)
<1>1. PICK S : S = {i \in 1..Len(v) : v[i] \notin chars} \cup {0}
  OBVIOUS
<1>2. Len(v) \in Nat
  OBVIOUS
<1>3. S \in SUBSET Nat /\ m \in S
  BY <1>1, <1>2
<1>4. \A y \in S : y <= m
  BY <1>1, <1>2
<1>5. Max(S) = m
  BY <1>3, <1>4, MaxIs
<1> QED
  BY <1>1, <1>5 DEF StripEnd

\* Where rstrip stops: at the end of the last character that is kept.
LEMMA StripEndIs ==
  ASSUME NEW C, NEW v \in Seq(C), NEW chars
  PROVE  \E m \in 0..Len(v) : /\ StripEnd(v, chars) = SubSeq(v, 1, m)
                              /\ m = 0 \/ v[m] \notin chars
                              /\ \A i \in m + 1..Len(v) : v[i] \in chars
<1>1. PICK n : n = Len(v)
  OBVIOUS
<1>2. n \in Nat
  BY <1>1
<1>3. PICK T : T = {m \in Nat : \A i \in m + 1..n : v[i] \in chars}
  OBVIOUS
<1>4. n \in T /\ T \in SUBSET Nat
  BY <1>2, <1>3
<1>5. PICK m \in T : \A k \in T : m <= k
  BY <1>4, LeastNatural
<1>6. m \in 0..n /\ \A i \in m + 1..n : v[i] \in chars
  BY <1>2, <1>3, <1>4, <1>5
<1>7. m = 0 \/ v[m] \notin chars
  <2>1. SUFFICES ASSUME m # 0, v[m] \in chars PROVE FALSE
    OBVIOUS
  <2>2. m - 1 \in Nat
    BY <1>2, <1>6, <2>1
  <2>3. \A i \in (m - 1) + 1..n : v[i] \in chars
    <3>1. TAKE i \in (m - 1) + 1..n
    <3>2. i = m \/ i \in m + 1..n
      BY <1>2, <1>6
    <3> QED
      BY <1>6, <2>1, <3>2
  <2>4. m - 1 \in T
    BY <1>3, <2>2, <2>3
  <2>5. m <= m - 1
    BY <1>5, <2>4
  <2> QED
    BY <1>6, <2>5
<1> QED
  BY <1>1, <1>6, <1>7, StripEndAt

\* rstrip returns a string of the same characters.
LEMMA StripEndType ==
  ASSUME NEW C, NEW v \in Seq(C), NEW chars PROVE StripEnd(v, chars) \in Seq(C)
<1>1. PICK m \in 0..Len(v) : StripEnd(v, chars) = SubSeq(v, 1, m)
  BY StripEndIs
<1> QED
  BY <1>1, Halves

\* rstrip does nothing to a string that ends in another character.
LEMMA StripEndKept ==
  ASSUME NEW C, NEW v \in Seq(C), NEW chars, v # <<>>, v[Len(v)] \notin chars
  PROVE  StripEnd(v, chars) = v
<1>1. Len(v) \in Nat \ {0}
  BY EmptySeq
<1>2. StripEnd(v, chars) = SubSeq(v, 1, Len(v))
  BY <1>1, StripEndAt
<1> QED
  BY <1>2, SubSeqFull

\* rstrip takes a character off the end.
LEMMA StripEndDrops ==
  ASSUME NEW C, NEW v \in Seq(C), NEW x \in C, NEW chars, x \in chars
  PROVE  StripEnd(Append(v, x), chars) = StripEnd(v, chars)
<1>1. PICK m \in 0..Len(v) : /\ StripEnd(v, chars) = SubSeq(v, 1, m)
                             /\ m = 0 \/ v[m] \notin chars
                             /\ \A i \in m + 1..Len(v) : v[i] \in chars
  BY StripEndIs
<1>2. PICK u : u = Append(v, x)
  OBVIOUS
<1>3. /\ u \in Seq(C) /\ Len(u) = Len(v) + 1 /\ u[Len(v) + 1] = x /\ Len(v) \in Nat
      /\ \A i \in 1..Len(v) : u[i] = v[i]
  BY <1>2, AppendProperties, LenProperties
<1>4. m \in 0..Len(u) /\ (m = 0 \/ u[m] \notin chars)
  BY <1>1, <1>3
<1>5. \A i \in m + 1..Len(u) : u[i] \in chars
  <2>1. TAKE i \in m + 1..Len(u)
  <2>2. i = Len(v) + 1 \/ (i \in m + 1..Len(v) /\ i \in 1..Len(v))
    BY <1>1, <1>3
  <2> QED
    BY <1>1, <1>3, <2>2
<1>6. StripEnd(u, chars) = SubSeq(u, 1, m)
  BY <1>3, <1>4, <1>5, StripEndAt
<1>7. SubSeq(u, 1, m) = SubSeq(v, 1, m)
  <2>1. PICK a, b : a = SubSeq(u, 1, m) /\ b = SubSeq(v, 1, m)
    OBVIOUS
  <2>2. a \in Seq(C) /\ Len(a) = m /\ \A i \in 1..m : a[i] = u[i]
    <3>1. \A i \in 1..m : u[i] \in C
      BY <1>3, LenProperties
    <3> QED
      BY <2>1, <3>1, SubSeqProperties
  <2>3. b \in Seq(C) /\ Len(b) = m /\ \A i \in 1..m : b[i] = v[i]
    <3>1. \A i \in 1..m : v[i] \in C
      BY <1>3, LenProperties
    <3> QED
      BY <2>1, <3>1, SubSeqProperties
  <2>4. \A i \in 1..m : a[i] = b[i]
    BY <1>3, <2>2, <2>3
  <2> QED
    BY <2>1, <2>2, <2>3, <2>4, SeqEqual
<1> QED
  BY <1>1, <1>2, <1>6, <1>7

\* rstrip does not reach beyond a character that is kept.
LEMMA StripEndAfter ==
  ASSUME NEW C, NEW p \in Seq(C), NEW w \in Seq(C), NEW chars,
         p # <<>>, p[Len(p)] \notin chars
  PROVE  StripEnd(p \o w, chars) = p \o StripEnd(w, chars)
<1> DEFINE T == {s \in Seq(C) : StripEnd(p \o s, chars) = p \o StripEnd(s, chars)}
<1>1. <<>> \in T
  <2>1. p \o <<>> = p /\ StripEnd(<<>>, chars) = <<>>
    <3>1. PICK e \in Seq(C) : e = <<>>
      BY EmptySeq
    <3>2. PICK m \in 0..Len(e) : StripEnd(e, chars) = SubSeq(e, 1, m)
      BY <3>1, StripEndIs
    <3>3. m = 0
      BY <3>1, <3>2, EmptySeq
    <3>4. SubSeq(e, 1, 0) = <<>>
      BY SubSeqEmpty
    <3> QED
      BY <3>1, <3>2, <3>3, <3>4, ConcatEmptySeq
  <2>2. StripEnd(p, chars) = p
    BY StripEndKept
  <2> QED
    BY <2>1, <2>2, EmptySeq
<1>2. ASSUME NEW s \in Seq(C), NEW x \in C, s \in T PROVE Append(s, x) \in T
  <2>1. PICK u, d : u = Append(s, x) /\ d = p \o s
    OBVIOUS
  <2>2. u \in Seq(C) /\ d \in Seq(C) /\ p \o u = Append(d, x)
    BY <2>1
  <2>3. CASE x \in chars
    <3>1. StripEnd(Append(d, x), chars) = StripEnd(d, chars)
      BY <2>2, <2>3, StripEndDrops
    <3>2. StripEnd(Append(s, x), chars) = StripEnd(s, chars)
      BY <2>3, StripEndDrops
    <3> QED
      BY <1>2, <2>1, <2>2, <3>1, <3>2
  <2>4. CASE x \notin chars
    <3>1. Append(d, x) \in Seq(C) /\ Append(d, x) # <<>> /\ Append(d, x)[Len(Append(d, x))] = x
      BY <2>2, AppendProperties
    <3>2. StripEnd(Append(d, x), chars) = Append(d, x)
      BY <2>4, <3>1, StripEndKept
    <3>3. Append(s, x) \in Seq(C) /\ Append(s, x) # <<>> /\ Append(s, x)[Len(Append(s, x))] = x
      BY AppendProperties
    <3>4. StripEnd(Append(s, x), chars) = Append(s, x)
      BY <2>4, <3>3, StripEndKept
    <3> QED
      BY <2>1, <2>2, <3>2, <3>4
  <2> QED
    BY <2>3, <2>4
<1>3. \A s \in Seq(C) : s \in T
  <2> HIDE DEF T
  <2> QED
    BY <1>1, <1>2, Appending
<1> QED
  BY <1>3

\* Without line ends in it, a string is stripped the same with and without them.
LEMMA StripEndSame ==
  ASSUME NEW C, NEW v \in Seq(C), \A i \in 1..Len(v) : v[i] # "\n"
  PROVE  StripEnd(v, {"\r", "\n"}) = StripEnd(v, {"\r"})
<1>1. {i \in 1..Len(v) : v[i] \notin {"\r", "\n"}} = {i \in 1..Len(v) : v[i] \notin {"\r"}}
  OBVIOUS
<1> QED
  BY <1>1 DEF StripEnd

\* The carriage returns at the end of a value are stripped after it is escaped as
\* they would have been before.
LEMMA StripEscape ==
  \A v \in Seq(Characters) : StripEnd(Escape(v), {"\r"}) = Escape(StripEnd(v, {"\r"}))
<1> DEFINE T == {v \in Seq(Characters) : StripEnd(Escape(v), {"\r"}) = Escape(StripEnd(v, {"\r"}))}
<1>1. <<>> \in T
  <2>1. PICK e \in Seq(Characters) : e = <<>>
    BY EmptySeq
  <2>2. PICK m \in 0..Len(e) : StripEnd(e, {"\r"}) = SubSeq(e, 1, m)
    BY StripEndIs
  <2>3. m = 0
    BY <2>1, <2>2, EmptySeq
  <2>4. SubSeq(e, 1, 0) = <<>>
    BY SubSeqEmpty
  <2>5. StripEnd(<<>>, {"\r"}) = <<>>
    BY <2>1, <2>2, <2>3, <2>4
  <2> QED
    BY <2>5, EscapeEmpty, EmptySeq
<1>2. ASSUME NEW v \in Seq(Characters), NEW x \in Characters, v \in T PROVE Append(v, x) \in T
  <2>1. PICK e, s : e = Escape(v) /\ s = Escaped(x)
    OBVIOUS
  <2>2. e \in Seq(Characters) /\ s \in Seq(Characters) /\ Len(s) \in 1..2
    BY <2>1, EscapeClean, EscapedType
  <2>3. Escape(Append(v, x)) = e \o s
    BY <2>1, EscapeAppend
  <2>4. CASE x = "\r"
    <3>1. e \o s = Append(e, x)
      <4>1. s = <<x>>
        BY <2>1, <2>4 DEF Escaped
      <4> QED
        BY <2>2, <4>1, AppendIsConcat
    <3>2. x \in {"\r"}
      BY <2>4
    <3>3. StripEnd(Append(e, x), {"\r"}) = StripEnd(e, {"\r"})
      BY <2>2, <3>2, StripEndDrops
    <3>4. StripEnd(Append(v, x), {"\r"}) = StripEnd(v, {"\r"})
      BY <3>2, StripEndDrops
    <3> QED
      BY <1>2, <2>1, <2>3, <3>1, <3>3, <3>4, AppendProperties
  <2>5. CASE x # "\r"
    <3>1. s[Len(s)] \notin {"\r"}
      BY <2>1, <2>5 DEF Escaped
    <3>2. PICK d : d = e \o s
      OBVIOUS
    <3>3. d \in Seq(Characters) /\ d # <<>> /\ d[Len(d)] = s[Len(s)]
      <4>1. /\ d \in Seq(Characters) /\ Len(d) = Len(e) + Len(s)
            /\ \A i \in 1..Len(e) + Len(s) : d[i] = IF i <= Len(e) THEN e[i] ELSE s[i - Len(e)]
        BY <2>2, <3>2, ConcatProperties
      <4>2. Len(e) \in Nat /\ Len(e) + Len(s) \in 1..Len(e) + Len(s) /\ ~(Len(e) + Len(s) <= Len(e))
            /\ (Len(e) + Len(s)) - Len(e) = Len(s) /\ Len(d) # 0
        <5>1. Len(e) \in Nat
          BY <2>2, LenProperties
        <5>a. PICK q : q = Len(s)
          OBVIOUS
        <5>b. q \in 1..2
          BY <2>2, <5>a
        <5>2. Len(s) \in Nat /\ Len(s) >= 1
          BY <5>a, <5>b
        <5>3. Len(d) = Len(e) + Len(s)
          BY <4>1
        <5> QED
          BY <5>1, <5>2, <5>3
      <4> QED
        BY <4>1, <4>2, EmptySeq
    <3>4. StripEnd(d, {"\r"}) = d
      BY <3>1, <3>3, StripEndKept
    <3>5. PICK u : u = Append(v, x)
      OBVIOUS
    <3>6. u \in Seq(Characters) /\ u # <<>> /\ u[Len(u)] \notin {"\r"}
      BY <2>5, <3>5, AppendProperties
    <3>7. StripEnd(u, {"\r"}) = u
      BY <3>6, StripEndKept
    <3> QED
      BY <2>3, <3>2, <3>4, <3>5, <3>6, <3>7
  <2> QED
    BY <2>4, <2>5
<1>3. \A v \in Seq(Characters) : v \in T
  <2> HIDE DEF T
  <2> QED
    BY <1>1, <1>2, Appending
<1> QED
  BY <1>3
-----------------------------------------------------------------------------
\* What follows a part that is the same is the same.
LEMMA CancelLeft ==
  ASSUME NEW C, NEW s \in Seq(C), NEW t \in Seq(C), NEW v \in Seq(C), s \o t = s \o v
  PROVE  t = v
<1>1. PICK k, m, n : k = Len(s) /\ m = Len(t) /\ n = Len(v)
  OBVIOUS
<1>2. k \in Nat /\ m \in Nat /\ n \in Nat
  BY <1>1, LenProperties
<1>3. PICK d : d = s \o t
  OBVIOUS
<1>4. Len(d) = k + m /\ \A i \in 1..k + m : d[i] = IF i <= k THEN s[i] ELSE t[i - k]
  BY <1>1, <1>3, ConcatProperties
<1>5. d = s \o v
  BY <1>3
<1>6. Len(d) = k + n /\ \A i \in 1..k + n : d[i] = IF i <= k THEN s[i] ELSE v[i - k]
  BY <1>1, <1>5, ConcatProperties
<1>7. m = n
  BY <1>2, <1>4, <1>6
<1>8. \A i \in 1..m : t[i] = v[i]
  <2>1. TAKE i \in 1..m
  <2>2. k + i \in 1..k + m /\ ~(k + i <= k) /\ (k + i) - k = i
    BY <1>2
  <2>3. d[k + i] = t[i] /\ d[k + i] = v[i]
    BY <1>4, <1>6, <1>7, <2>2
  <2> QED
    BY <2>3
<1> QED
  BY <1>1, <1>7, <1>8, SeqEqual

\* Two ways to part a sequence: s covers all of a, or is a beginning of it.
Covers(s, t, a, b) == \E u \in Seq(Characters) : s = a \o u /\ u \o t = b
Begins(s, a) == Len(s) < Len(a) /\ \A i \in 1..Len(s) : s[i] = a[i]

\* One of two sequences that begin the same covers the other, or begins it.
LEMMA FrontOf ==
  ASSUME NEW s \in Seq(Characters), NEW t \in Seq(Characters),
         NEW a \in Seq(Characters), NEW b \in Seq(Characters), s \o t = a \o b
  PROVE  Covers(s, t, a, b) \/ Begins(s, a)
<1>1. PICK k, n : k = Len(s) /\ n = Len(a)
  OBVIOUS
<1>2. k \in Nat /\ n \in Nat
  BY <1>1, LenProperties
<1>3. PICK d : d = s \o t
  OBVIOUS
<1>4. \A i \in 1..k : d[i] = s[i] /\ i \in 1..Len(s)
  <2>1. \A i \in 1..Len(s) + Len(t) : d[i] = IF i <= Len(s) THEN s[i] ELSE t[i - Len(s)]
    BY <1>3, ConcatProperties
  <2>2. \A i \in 1..k : i \in 1..Len(s) + Len(t) /\ i <= Len(s)
    BY <1>1, <1>2, LenProperties
  <2> QED
    BY <1>1, <2>1, <2>2
<1>5. \A i \in 1..n : d[i] = a[i] /\ i \in 1..Len(a)
  <2>1. d = a \o b
    BY <1>3
  <2>2. \A i \in 1..Len(a) + Len(b) : d[i] = IF i <= Len(a) THEN a[i] ELSE b[i - Len(a)]
    BY <2>1, ConcatProperties
  <2>3. \A i \in 1..n : i \in 1..Len(a) + Len(b) /\ i <= Len(a)
    BY <1>1, <1>2, LenProperties
  <2> QED
    BY <1>1, <2>2, <2>3
<1>6. CASE k < n
  BY <1>1, <1>2, <1>4, <1>5, <1>6 DEF Begins
<1>7. CASE n <= k
  <2>1. PICK h, u : h = SubSeq(s, 1, n) /\ u = SubSeq(s, n + 1, k)
    OBVIOUS
  <2>2. n \in 0..Len(s)
    BY <1>1, <1>2, <1>7
  <2>3. h \in Seq(Characters) /\ u \in Seq(Characters) /\ Len(h) = n /\ s = h \o u
    <3>1. /\ SubSeq(s, 1, n) \in Seq(Characters) /\ SubSeq(s, n + 1, Len(s)) \in Seq(Characters)
          /\ Len(SubSeq(s, 1, n)) = n /\ s = SubSeq(s, 1, n) \o SubSeq(s, n + 1, Len(s))
      BY <2>2, Halves
    <3> QED
      BY <1>1, <2>1, <3>1
  <2>4. \A i \in 1..n : h[i] = s[i]
    <3>1. \A i \in 1..n : s[i] \in Characters
      BY <2>2, LenProperties, ElementOfSeq
    <3> QED
      BY <1>2, <2>1, <3>1, SubSeqProperties
  <2>5. h = a
    <3>1. \A i \in 1..n : h[i] = a[i]
      BY <1>2, <1>4, <1>5, <1>7, <2>4
    <3> QED
      BY <1>1, <2>3, <3>1, SeqEqual
  <2>u. u \in Seq(Characters) /\ s = a \o u
    BY <2>3, <2>5
  <2>6. (a \o u) \o t = a \o (u \o t)
    <3>1. u \in Seq(Characters)
      BY <2>u
    <3> QED
      BY <3>1, Regroup, Zenon
  <2>7. a \o (u \o t) = a \o b
    BY <2>u, <2>6
  <2>8. u \o t \in Seq(Characters)
    BY <2>3, ConcatProperties
  <2>9. u \o t = b
    BY <2>7, <2>8, CancelLeft
  <2> QED
    BY <2>3, <2>5, <2>9 DEF Covers
<1>8. k < n \/ n <= k
  BY <1>2
<1> QED
  BY <1>6, <1>7, <1>8

\* The line that ends at the first line end, without carriage returns at its end.
LEMMA LineOf ==
  ASSUME NEW w \in Seq(Characters), NEW rest \in Seq(Characters),
         \A i \in 1..Len(w) : w[i] # "\n"
  PROVE  /\ Line(Append(w, "\n") \o rest).raw = StripEnd(w, {"\r"})
         /\ Line(Append(w, "\n") \o rest).rest = rest
         /\ Line(Append(w, "\n") \o rest).size = Len(w)
<1>1. PICK u, s, n : u = Append(w, "\n") /\ s = u \o rest /\ n = Len(w)
  OBVIOUS
<1>2. "\n" \in Characters
  BY Marks
<1>3. /\ u \in Seq(Characters) /\ Len(u) = n + 1 /\ u[n + 1] = "\n" /\ n \in Nat
      /\ \A i \in 1..n : u[i] = w[i]
  BY <1>1, <1>2, AppendProperties, LenProperties
<1>4. /\ s \in Seq(Characters) /\ Len(s) = Len(u) + Len(rest)
      /\ \A i \in 1..Len(u) + Len(rest) : s[i] = IF i <= Len(u) THEN u[i] ELSE rest[i - Len(u)]
  BY <1>1, <1>3, ConcatProperties
<1>5. PICK S : S = {i \in 1..Len(s) : s[i] = "\n"} \cup {Len(s)}
  OBVIOUS
<1>6. Len(rest) \in Nat /\ Len(s) \in Nat
  BY <1>3, <1>4, LenProperties
<1>7. S \in SUBSET Nat /\ n + 1 \in S
  <2>1. n + 1 \in 1..Len(s) /\ s[n + 1] = "\n"
    BY <1>3, <1>4, <1>6
  <2> QED
    BY <1>5, <1>6, <2>1
<1>8. \A y \in S : n + 1 <= y
  <2>1. SUFFICES ASSUME NEW y \in S, y < n + 1 PROVE FALSE
    BY <1>3, <1>7
  <2>2. y \in 1..n /\ s[y] = "\n"
    BY <1>3, <1>4, <1>5, <1>6, <1>7, <2>1
  <2>3. s[y] = w[y]
    BY <1>3, <1>4, <1>6, <2>2
  <2> QED
    BY <1>1, <2>2, <2>3
<1>9. Min(S) = n + 1
  BY <1>7, <1>8, MinIs
<1>10. SubSeq(s, 1, n + 1) = u /\ SubSeq(s, n + 2, Len(s)) = rest
  <2>1. n + 1 \in 0..Len(s) /\ (n + 1) + 1 = n + 2
    BY <1>3, <1>4, <1>6
  <2>2. PICK a, b : a = SubSeq(s, 1, n + 1) /\ b = SubSeq(s, n + 2, Len(s))
    OBVIOUS
  <2>3. a \in Seq(Characters) /\ b \in Seq(Characters) /\ Len(a) = n + 1 /\ s = a \o b
    <3>1. PICK m : m = n + 1
      OBVIOUS
    <3>2. /\ SubSeq(s, 1, m) \in Seq(Characters) /\ SubSeq(s, m + 1, Len(s)) \in Seq(Characters)
          /\ Len(SubSeq(s, 1, m)) = m /\ s = SubSeq(s, 1, m) \o SubSeq(s, m + 1, Len(s))
      BY <1>4, <2>1, <3>1, Halves
    <3> QED
      BY <2>1, <2>2, <3>1, <3>2
  <2>4. \A i \in 1..n + 1 : a[i] = s[i]
    <3>1. \A i \in 1..n + 1 : s[i] \in Characters
      BY <1>4, <2>1, LenProperties, ElementOfSeq
    <3> QED
      BY <1>3, <2>2, <3>1, SubSeqProperties
  <2>5. \A i \in 1..n + 1 : a[i] = u[i]
    BY <1>3, <1>4, <1>6, <2>4
  <2>6. a = u
    BY <1>3, <2>3, <2>5, SeqEqual
  <2>7. u \o b = u \o rest
    BY <1>1, <2>3, <2>6
  <2>8. b = rest
    BY <1>3, <2>3, <2>7, CancelLeft
  <2> QED
    BY <2>2, <2>6, <2>8
<1>11. StripEnd(u, {"\r", "\n"}) = StripEnd(w, {"\r"})
  <2>1. StripEnd(u, {"\r", "\n"}) = StripEnd(w, {"\r", "\n"})
    <3>1. "\n" \in {"\r", "\n"}
      OBVIOUS
    <3> QED
      BY <1>1, <1>2, <3>1, StripEndDrops
  <2>2. StripEnd(w, {"\r", "\n"}) = StripEnd(w, {"\r"})
    BY StripEndSame
  <2> QED
    BY <2>1, <2>2
<1>12. PICK end : end = Min({i \in 1..Len(s) : s[i] = "\n"} \cup {Len(s)})
  OBVIOUS
<1>13. end = n + 1
  BY <1>5, <1>9, <1>12
<1>14. /\ Line(s).raw = StripEnd(SubSeq(s, 1, end), {"\r", "\n"})
       /\ Line(s).rest = SubSeq(s, end + 1, Len(s))
       /\ Line(s).size = IF s[end] = "\n" THEN end - 1 ELSE end
  BY <1>12 DEF Line
<1>15. end + 1 = n + 2 /\ end - 1 = n
  BY <1>3, <1>13
<1>16. s[n + 1] = "\n"
  BY <1>3, <1>4, <1>6
<1> QED
  BY <1>1, <1>10, <1>11, <1>13, <1>14, <1>15, <1>16

\* A line that is cut short is the last: nothing is left to be read after it.
LEMMA LineCut ==
  ASSUME NEW s \in Seq(Characters), s # <<>>, \A i \in 1..Len(s) - 1 : s[i] # "\n"
  PROVE  Line(s).rest = <<>>
<1>1. PICK n : n = Len(s)
  OBVIOUS
<1>2. n \in Nat /\ n >= 1
  BY <1>1, EmptySeq
<1>3. PICK S : S = {i \in 1..n : s[i] = "\n"} \cup {n}
  OBVIOUS
<1>4. S \in SUBSET Nat /\ n \in S
  BY <1>2, <1>3
<1>5. \A y \in S : n <= y
  BY <1>1, <1>2, <1>3
<1>6. Min(S) = n
  BY <1>4, <1>5, MinIs
<1>7. SubSeq(s, n + 1, n) = <<>>
  BY <1>2, SubSeqEmpty
<1>8. PICK end : end = Min({i \in 1..Len(s) : s[i] = "\n"} \cup {Len(s)})
  OBVIOUS
<1>9. end = n
  BY <1>1, <1>3, <1>6, <1>8
<1>10. Line(s).rest = SubSeq(s, end + 1, Len(s))
  BY <1>8 DEF Line
<1> QED
  BY <1>1, <1>7, <1>9, <1>10

\* A line is split at its first colon, and both its parts are unescaped.
LEMMA PutHeaderOf ==
  ASSUME NEW a \in Seq(Characters), NEW w \in Seq(Characters), NEW headers,
         \A i \in 1..Len(a) : a[i] # ":"
  PROVE  PutHeader(headers, Append(a, ":") \o w) = Put(headers, Unescape(a), Unescape(w))
<1>1. PICK u, s, n : u = Append(a, ":") /\ s = u \o w /\ n = Len(a)
  OBVIOUS
<1>2. ":" \in Characters
  BY Marks
<1>3. /\ u \in Seq(Characters) /\ Len(u) = n + 1 /\ u[n + 1] = ":" /\ n \in Nat
      /\ \A i \in 1..n : u[i] = a[i]
  BY <1>1, <1>2, AppendProperties, LenProperties
<1>4. /\ s \in Seq(Characters) /\ Len(s) = Len(u) + Len(w)
      /\ \A i \in 1..Len(u) + Len(w) : s[i] = IF i <= Len(u) THEN u[i] ELSE w[i - Len(u)]
  BY <1>1, <1>3, ConcatProperties
<1>5. PICK S : S = {i \in 1..Len(s) : s[i] = ":"} \cup {Len(s) + 1}
  OBVIOUS
<1>6. Len(w) \in Nat /\ Len(s) \in Nat
  BY <1>3, <1>4, LenProperties
<1>7. S \in SUBSET Nat /\ n + 1 \in S
  <2>1. n + 1 \in 1..Len(s) /\ s[n + 1] = ":"
    BY <1>3, <1>4, <1>6
  <2> QED
    BY <1>5, <1>6, <2>1
<1>8. \A y \in S : n + 1 <= y
  <2>1. SUFFICES ASSUME NEW y \in S, y < n + 1 PROVE FALSE
    BY <1>3, <1>7
  <2>2. y \in 1..n /\ s[y] = ":"
    BY <1>3, <1>4, <1>5, <1>6, <1>7, <2>1
  <2>3. s[y] = a[y]
    BY <1>3, <1>4, <1>6, <2>2
  <2> QED
    BY <1>1, <2>2, <2>3
<1>9. Min(S) = n + 1
  BY <1>7, <1>8, MinIs
<1>10. SubSeq(s, 1, n) = a /\ SubSeq(s, n + 2, Len(s)) = w
  <2>1. n \in 0..Len(s) /\ n + 1 \in 0..Len(s) /\ (n + 1) + 1 = n + 2
    BY <1>3, <1>4, <1>6
  <2>2. PICK b, d, e : b = SubSeq(s, 1, n) /\ d = SubSeq(s, 1, n + 1) /\ e = SubSeq(s, n + 2, Len(s))
    OBVIOUS
  <2>3. d \in Seq(Characters) /\ e \in Seq(Characters) /\ Len(d) = n + 1 /\ s = d \o e
    <3>1. PICK m : m = n + 1
      OBVIOUS
    <3>2. /\ SubSeq(s, 1, m) \in Seq(Characters) /\ SubSeq(s, m + 1, Len(s)) \in Seq(Characters)
          /\ Len(SubSeq(s, 1, m)) = m /\ s = SubSeq(s, 1, m) \o SubSeq(s, m + 1, Len(s))
      BY <1>4, <2>1, <3>1, Halves
    <3> QED
      BY <2>1, <2>2, <3>1, <3>2
  <2>4. b \in Seq(Characters) /\ Len(b) = n
    BY <1>4, <2>1, <2>2, Halves
  <2>5. \A i \in 1..n + 1 : s[i] \in Characters /\ s[i] = u[i]
    BY <1>3, <1>4, <1>6, <2>1, LenProperties, ElementOfSeq
  <2>6. \A i \in 1..n + 1 : d[i] = s[i]
    BY <1>3, <2>2, <2>5, SubSeqProperties
  <2>7. \A i \in 1..n : b[i] = s[i]
    <3>1. \A i \in 1..n : s[i] \in Characters
      BY <1>3, <2>5
    <3> QED
      BY <1>3, <2>2, <3>1, SubSeqProperties
  <2>8. d = u
    BY <1>3, <2>3, <2>5, <2>6, SeqEqual
  <2>9. b = a
    <3>1. \A i \in 1..n : b[i] = a[i]
      BY <1>3, <2>5, <2>7
    <3> QED
      BY <1>1, <2>4, <3>1, SeqEqual
  <2>10. u \o e = u \o w
    BY <1>1, <2>3, <2>8
  <2>11. e = w
    BY <1>3, <2>3, <2>10, CancelLeft
  <2> QED
    BY <2>2, <2>9, <2>11
<1>11. PICK colon : colon = Min({i \in 1..Len(s) : s[i] = ":"} \cup {Len(s) + 1})
  OBVIOUS
<1>12. colon = n + 1 /\ colon - 1 = n /\ colon + 1 = n + 2
  BY <1>3, <1>5, <1>9, <1>11
<1>13. PutHeader(headers, s) = Put(headers, Unescape(SubSeq(s, 1, colon - 1)),
                                   Unescape(SubSeq(s, colon + 1, Len(s))))
  BY <1>11 DEF PutHeader
<1> QED
  BY <1>1, <1>10, <1>12, <1>13
-----------------------------------------------------------------------------
\* Two sequences of sequences can be flattened one by one.
LEMMA FlattenConcat ==
  ASSUME NEW C, NEW s \in Seq(Seq(C))
  PROVE  \A t \in Seq(Seq(C)) : FlattenSeq(s \o t) = FlattenSeq(s) \o FlattenSeq(t)
<1> DEFINE T == {t \in Seq(Seq(C)) : FlattenSeq(s \o t) = FlattenSeq(s) \o FlattenSeq(t)}
<1>1. <<>> \in T
  <2>1. FlattenSeq(s) \in Seq(C)
    BY FlattenType
  <2>2. s \o <<>> = s /\ FlattenSeq(s) \o <<>> = FlattenSeq(s)
    BY <2>1, ConcatEmptySeq
  <2> QED
    BY <2>2, FlattenEmpty, EmptySeq
<1>2. ASSUME NEW t \in Seq(Seq(C)), NEW x \in Seq(C), t \in T PROVE Append(t, x) \in T
  <2>1. PICK d, a, b : d = s \o t /\ a = FlattenSeq(s) /\ b = FlattenSeq(t)
    OBVIOUS
  <2>2. a \in Seq(C) /\ b \in Seq(C)
    BY <2>1, FlattenType
  <2>d. d \in Seq(Seq(C))
    BY <2>1, ConcatProperties
  <2>3. s \o Append(t, x) = Append(d, x)
    BY <2>1
  <2>4. FlattenSeq(Append(d, x)) = FlattenSeq(d) \o x
    BY <2>d, FlattenAppend
  <2>5. FlattenSeq(Append(t, x)) = FlattenSeq(t) \o x
    BY FlattenAppend
  <2>6. (a \o b) \o x = a \o (b \o x)
    BY <2>2, ConcatAssociative, SMTT(40)
  <2>7. FlattenSeq(d) = a \o b
    BY <1>2, <2>1
  <2>8. FlattenSeq(s \o Append(t, x)) = a \o (b \o x)
    BY <2>3, <2>4, <2>6, <2>7
  <2>9. FlattenSeq(Append(t, x)) = b \o x
    BY <2>1, <2>5
  <2> QED
    BY <2>1, <2>8, <2>9, AppendProperties
<1>3. \A t \in Seq(Seq(C)) : t \in T
  <2> HIDE DEF T
  <2> QED
    BY <1>1, <1>2, Appending
<1> QED
  BY <1>3

\* What is flattened is what its first j parts are flattened to, and the rest.
LEMMA FlattenParts ==
  ASSUME NEW C, NEW s \in Seq(Seq(C)), NEW j \in 0..Len(s)
  PROVE  /\ FlattenSeq(SubSeq(s, 1, j)) \in Seq(C)
         /\ FlattenSeq(SubSeq(s, j + 1, Len(s))) \in Seq(C)
         /\ FlattenSeq(s) = FlattenSeq(SubSeq(s, 1, j)) \o FlattenSeq(SubSeq(s, j + 1, Len(s)))
<1>1. PICK a, b : a = SubSeq(s, 1, j) /\ b = SubSeq(s, j + 1, Len(s))
  OBVIOUS
<1>2. /\ SubSeq(s, 1, j) \in Seq(Seq(C)) /\ SubSeq(s, j + 1, Len(s)) \in Seq(Seq(C))
      /\ s = SubSeq(s, 1, j) \o SubSeq(s, j + 1, Len(s))
  BY Halves
<1>3. a \in Seq(Seq(C)) /\ b \in Seq(Seq(C)) /\ s = a \o b
  BY <1>1, <1>2
<1>4. FlattenSeq(a \o b) = FlattenSeq(a) \o FlattenSeq(b)
  BY <1>3, FlattenConcat
<1>5. FlattenSeq(a) \in Seq(C) /\ FlattenSeq(b) \in Seq(C)
  BY <1>3, FlattenType
<1> QED
  BY <1>1, <1>3, <1>4, <1>5

\* The first j + 1 parts flattened end with the part j + 1.
LEMMA FlattenUpTo ==
  ASSUME NEW C, NEW s \in Seq(Seq(C)), NEW j \in 0..Len(s), j < Len(s)
  PROVE  FlattenSeq(SubSeq(s, 1, j + 1)) = FlattenSeq(SubSeq(s, 1, j)) \o s[j + 1]
<1>1. SubSeq(s, 1, j + 1) = Append(SubSeq(s, 1, j), s[j + 1]) /\ SubSeq(s, 1, j) \in Seq(Seq(C))
  BY Halves
<1>2. s[j + 1] \in Seq(C)
  <2>1. j + 1 \in 1..Len(s)
    BY LenProperties
  <2> QED
    BY <2>1, ElementOfSeq
<1>3. PICK a, x : a = SubSeq(s, 1, j) /\ x = s[j + 1]
  OBVIOUS
<1>4. FlattenSeq(Append(a, x)) = FlattenSeq(a) \o x
  BY <1>1, <1>2, <1>3, FlattenAppend
<1> QED
  BY <1>1, <1>3, <1>4

\* The parts after j flattened begin with the part j + 1.
LEMMA FlattenFrom ==
  ASSUME NEW C, NEW s \in Seq(Seq(C)), NEW j \in 0..Len(s), j < Len(s)
  PROVE  FlattenSeq(SubSeq(s, j + 1, Len(s))) = s[j + 1] \o FlattenSeq(SubSeq(s, j + 2, Len(s)))
<1>1. PICK n, x, b : n = Len(s) /\ x = s[j + 1] /\ b = SubSeq(s, (j + 1) + 1, n)
  OBVIOUS
<1>2. j + 1 \in 1..Len(s) /\ n \in (j + 1)..Len(s) /\ j + 1 \in 0..Len(s) /\ (j + 1) + 1 = j + 2
  BY <1>1, LenProperties
<1>3. x \in Seq(C)
  BY <1>1, <1>2, ElementOfSeq
<1>4. b \in Seq(Seq(C))
  <2>1. SubSeq(s, (j + 1) + 1, Len(s)) \in Seq(Seq(C))
    BY <1>2, Halves
  <2> QED
    BY <1>1, <2>1
<1>5. SubSeq(s, j + 1, n) = <<s[j + 1]>> \o SubSeq(s, (j + 1) + 1, n)
  BY <1>2, SubSeqRecursiveFirst
<1>6. PICK a : a = <<x>>
  OBVIOUS
<1>7. a \in Seq(Seq(C)) /\ FlattenSeq(a) = x
  BY <1>3, <1>6, FlattenOne
<1>8. FlattenSeq(a \o b) = FlattenSeq(a) \o FlattenSeq(b)
  BY <1>4, <1>7, FlattenConcat
<1>9. SubSeq(s, j + 1, n) = a \o b
  BY <1>1, <1>5, <1>6
<1>10. FlattenSeq(SubSeq(s, j + 1, n)) = x \o FlattenSeq(b)
  BY <1>7, <1>8, <1>9
<1> QED
  BY <1>1, <1>2, <1>10
-----------------------------------------------------------------------------
\* The line of a header has one line end, and it is at its end.
LEMMA HeaderLineIs ==
  ASSUME NEW h, h[1] \in Seq(Characters), h[2] \in Seq(Characters)
  PROVE  /\ HeaderLine(h) = Append(Append(Escape(h[1]), ":") \o Escape(h[2]), "\n")
         /\ HeaderLine(h) \in Seq(Characters)
         /\ Append(Escape(h[1]), ":") \o Escape(h[2]) \in Seq(Characters)
         /\ \A i \in 1..Len(Append(Escape(h[1]), ":") \o Escape(h[2])) :
              (Append(Escape(h[1]), ":") \o Escape(h[2]))[i] # "\n"
<1>1. PICK a, b : a = Escape(h[1]) /\ b = Escape(h[2])
  OBVIOUS
<1>2. /\ a \in Seq(Characters) /\ \A i \in 1..Len(a) : a[i] \notin {":", "\n"}
      /\ b \in Seq(Characters) /\ \A i \in 1..Len(b) : b[i] \notin {":", "\n"}
  BY <1>1, EscapeClean
<1>3. ":" \in Characters /\ "\n" \in Characters
  BY Marks
<1>4. PICK p : p = Append(a, ":")
  OBVIOUS
<1>5. p \in Seq(Characters) /\ p = a \o <<":">> /\ Len(p) = Len(a) + 1 /\ p[Len(a) + 1] = ":"
      /\ \A i \in 1..Len(a) : p[i] = a[i]
  BY <1>2, <1>3, <1>4, AppendProperties, AppendIsConcat
<1>6. PICK q : q = p \o b
  OBVIOUS
<1>7. /\ q \in Seq(Characters)
      /\ Len(q) = Len(p) + Len(b)
      /\ \A i \in 1..Len(p) + Len(b) : q[i] = IF i <= Len(p) THEN p[i] ELSE b[i - Len(p)]
  BY <1>2, <1>5, <1>6, ConcatProperties
<1>8. \A i \in 1..Len(q) : q[i] # "\n"
  <2>1. TAKE i \in 1..Len(q)
  <2>2. Len(p) \in Nat /\ Len(b) \in Nat /\ Len(a) \in Nat
    BY <1>2, <1>5, LenProperties
  <2>3. CASE i <= Len(p)
    <3>1. i \in 1..Len(a) \/ i = Len(a) + 1
      BY <1>5, <1>7, <2>2, <2>3
    <3> QED
      BY <1>2, <1>5, <1>7, <2>2, <2>3, <3>1
  <2>4. CASE ~(i <= Len(p))
    <3>1. i - Len(p) \in 1..Len(b)
      BY <1>7, <2>2, <2>4
    <3> QED
      BY <1>2, <1>7, <2>2, <2>4, <3>1
  <2> QED
    BY <2>3, <2>4
<1>9. Append(q, "\n") = q \o <<"\n">> /\ Append(q, "\n") \in Seq(Characters)
  BY <1>3, <1>7, AppendProperties, AppendIsConcat
<1>10. HeaderLine(h) = ((a \o <<":">>) \o b) \o <<"\n">>
  BY <1>1 DEF HeaderLine
<1>11. HeaderLine(h) = Append(q, "\n")
  BY <1>5, <1>6, <1>9, <1>10
<1> QED
  BY <1>1, <1>4, <1>6, <1>7, <1>8, <1>9, <1>11

\* A header line is read as the name and the value that were written, but for
\* the carriage returns at the end of the value.
HeaderIn(s, g) ==
  /\ Line(s).raw # <<>> /\ Len(Line(s).raw) \in Nat /\ Len(HeaderLine(g)) = Len(Line(s).raw) + 1
  /\ \A headers : PutHeader(headers, Line(s).raw) = Put(headers, g[1], g[2])

\* The line of a header, read back: the name and the stripped value it was made of.
LEMMA HeaderRead ==
  ASSUME NEW h, h[1] \in Seq(Characters), h[2] \in Seq(Characters),
         NEW g, g[1] = h[1], g[2] = StripEnd(h[2], {"\r"}),
         NEW rest \in Seq(Characters), NEW s, s = HeaderLine(h) \o rest
  PROVE  HeaderIn(s, g)
<1>1. PICK k, v, w : k = h[1] /\ v = h[2] /\ w = StripEnd(v, {"\r"})
  OBVIOUS
<1>2. k \in Seq(Characters) /\ v \in Seq(Characters) /\ w \in Seq(Characters) /\ g[1] = k /\ g[2] = w
  BY <1>1, StripEndType
<1>3. PICK a, b : a = Escape(k) /\ b = Escape(v)
  OBVIOUS
<1>4. /\ a \in Seq(Characters) /\ b \in Seq(Characters) /\ \A i \in 1..Len(a) : a[i] # ":"
      /\ Escape(w) \in Seq(Characters)
  BY <1>2, <1>3, EscapeClean
<1>5. PICK p, q : p = Append(a, ":") /\ q = p \o b
  OBVIOUS
<1>6. /\ HeaderLine(h) = Append(q, "\n") /\ q \in Seq(Characters)
      /\ \A i \in 1..Len(q) : q[i] # "\n"
  BY <1>1, <1>2, <1>3, <1>5, HeaderLineIs
<1>7. Line(Append(q, "\n") \o rest).raw = StripEnd(q, {"\r"}) /\ Line(Append(q, "\n") \o rest).rest = rest
  BY <1>6, LineOf
<1>8. p \in Seq(Characters) /\ p # <<>> /\ p[Len(p)] = ":"
  <2>1. ":" \in Characters
    BY Marks
  <2> QED
    BY <1>4, <1>5, <2>1, AppendProperties
<1>9. p[Len(p)] \notin {"\r"}
  BY <1>8
<1>10. StripEnd(p \o b, {"\r"}) = p \o StripEnd(b, {"\r"})
  <2>1. PICK chars : chars = {"\r"}
    OBVIOUS
  <2>2. p[Len(p)] \notin chars
    BY <1>9, <2>1
  <2>3. StripEnd(p \o b, chars) = p \o StripEnd(b, chars)
    BY <1>4, <1>8, <2>2, StripEndAfter, SMTT(40)
  <2> QED
    BY <2>1, <2>3
<1>11. StripEnd(b, {"\r"}) = Escape(w)
  BY <1>1, <1>2, <1>3, StripEscape
<1>12. PICK r : r = p \o Escape(w)
  OBVIOUS
<1>13. Line(s).raw = r /\ Line(s).rest = rest
  BY <1>5, <1>6, <1>7, <1>10, <1>11, <1>12
<1>14. r \in Seq(Characters) /\ r # <<>>
  <2>1. r \in Seq(Characters) /\ Len(r) = Len(p) + Len(Escape(w))
    BY <1>4, <1>8, <1>12, ConcatProperties
  <2>2. Len(p) \in Nat \ {0} /\ Len(Escape(w)) \in Nat
    BY <1>4, <1>8, EmptySeq, LenProperties
  <2> QED
    BY <2>1, <2>2, EmptySeq
<1>15. HeaderLine(g) = Append(r, "\n")
  <2>1. HeaderLine(g) = Append(Append(Escape(g[1]), ":") \o Escape(g[2]), "\n")
    BY <1>2, HeaderLineIs
  <2> QED
    BY <1>2, <1>3, <1>5, <1>12, <2>1
<1>16. Len(r) \in Nat /\ Len(Append(r, "\n")) = Len(r) + 1
  BY <1>14, Marks, AppendProperties, LenProperties
<1>17. \A headers : PutHeader(headers, r) = Put(headers, k, w)
  <2>1. TAKE headers
  <2>2. PICK e : e = Escape(w)
    OBVIOUS
  <2>3. PutHeader(headers, Append(a, ":") \o e) = Put(headers, Unescape(a), Unescape(e))
    BY <1>4, <2>2, PutHeaderOf
  <2>4. Unescape(a) = k /\ Unescape(e) = w
    BY <1>2, <1>3, <2>2, UnescapeEscape
  <2> QED
    BY <1>5, <1>12, <2>2, <2>3, <2>4
<1> QED
  BY <1>2, <1>13, <1>14, <1>15, <1>16, <1>17 DEF HeaderIn
-----------------------------------------------------------------------------
Pairs == Seq(Characters) \X Seq(Characters)

\* Names and values are strings.
LEMMA PairsOf ==
  ASSUME NEW hs \in Seq(Pairs)
  PROVE  /\ Len(hs) \in Nat /\ DOMAIN hs = 1..Len(hs)
         /\ \A i \in 1..Len(hs) : hs[i][1] \in Seq(Characters) /\ hs[i][2] \in Seq(Characters)
<1>1. \A i \in 1..Len(hs) : hs[i] \in Pairs
  BY ElementOfSeq
<1>2. \A p \in Pairs : p[1] \in Seq(Characters) /\ p[2] \in Seq(Characters)
  BY DEF Pairs
<1> QED
  BY <1>1, <1>2, LenProperties

\* There is a line for each header.
LEMMA LinesOf ==
  ASSUME NEW hs \in Seq(Pairs)
  PROVE  /\ HeaderLines(hs) \in Seq(Seq(Characters)) /\ Len(HeaderLines(hs)) = Len(hs)
         /\ \A i \in 1..Len(hs) : HeaderLines(hs)[i] = HeaderLine(hs[i])
<1>1. PICK n, ls : n = Len(hs) /\ ls = HeaderLines(hs)
  OBVIOUS
<1>2. n \in Nat /\ \A i \in 1..n : hs[i][1] \in Seq(Characters) /\ hs[i][2] \in Seq(Characters)
  BY <1>1, PairsOf
<1>3. ls = [i \in 1..n |-> HeaderLine(hs[i])]
  BY <1>1 DEF HeaderLines
<1>4. \A i \in 1..n : HeaderLine(hs[i]) \in Seq(Characters)
  BY <1>2, HeaderLineIs
<1> QED
  BY <1>1, <1>2, <1>3, <1>4

\* The headers as they are read: in the same order, with stripped values.
LEMMA Stripped ==
  ASSUME NEW hs \in Seq(Pairs)
  PROVE  /\ StripValues(hs) \in Seq(Pairs) /\ Len(StripValues(hs)) = Len(hs)
         /\ \A i \in 1..Len(hs) : /\ StripValues(hs)[i][1] = hs[i][1]
                                  /\ StripValues(hs)[i][2] = StripEnd(hs[i][2], {"\r"})
<1>1. PICK n, vs : n = Len(hs) /\ vs = StripValues(hs)
  OBVIOUS
<1>2. n \in Nat /\ \A i \in 1..n : hs[i][1] \in Seq(Characters) /\ hs[i][2] \in Seq(Characters)
  BY <1>1, PairsOf
<1>3. vs = [i \in 1..n |-> <<hs[i][1], StripEnd(hs[i][2], {"\r"})>>]
  BY <1>1 DEF StripValues
<1>4. \A i \in 1..n : StripEnd(hs[i][2], {"\r"}) \in Seq(Characters)
  BY <1>2, StripEndType
<1>5. \A i \in 1..n : <<hs[i][1], StripEnd(hs[i][2], {"\r"})>> \in Pairs
  BY <1>2, <1>4 DEF Pairs
<1>6. vs \in Seq(Pairs) /\ Len(vs) = n
  BY <1>2, <1>3, <1>5
<1>7. \A i \in 1..n : vs[i] = <<hs[i][1], StripEnd(hs[i][2], {"\r"})>>
  BY <1>3
<1>8. \A i \in 1..n : vs[i][1] = hs[i][1] /\ vs[i][2] = StripEnd(hs[i][2], {"\r"})
  BY <1>7
<1> QED
  BY <1>1, <1>6, <1>8

\* What is assumed of frames, with the domains of their sequences.
LEMMA FrameType ==
  ASSUME NEW f \in Frames
  PROVE  /\ f = [command |-> f.command, headers |-> f.headers, body |-> f.body]
         /\ f.command \in Seq(Characters) /\ f.command # <<>>
         /\ \A i \in 1..Len(f.command) : f.command[i] \notin {"\n", "\r"}
         /\ f.headers \in Seq(Pairs)
         /\ \A i, j \in 1..Len(f.headers) : f.headers[i][1] = f.headers[j][1] => i = j
         /\ f.body \in Seq(Characters) /\ Len(f.body) \in DOMAIN Decimal
         /\ Decimal[Len(f.body)] \in Characters /\ Decimal[Len(f.body)] # "\r"
<1>1. /\ f = [command |-> f.command, headers |-> f.headers, body |-> f.body]
      /\ f.command \in Seq(Characters \ {"\n", "\r"}) /\ f.command # <<>>
      /\ f.headers \in Seq(Seq(Characters) \X Seq(Characters))
      /\ \A i, j \in DOMAIN f.headers : f.headers[i][1] = f.headers[j][1] => i = j
      /\ f.body \in Seq(Characters) /\ Len(f.body) \in DOMAIN Decimal
  BY WireConstantsOK
<1>2. PICK hs : hs = f.headers
  OBVIOUS
<1>3. hs \in Seq(Pairs)
  BY <1>1, <1>2 DEF Pairs
<1>4. DOMAIN hs = 1..Len(hs)
  BY <1>3, PairsOf
<1>5. \A n \in DOMAIN Decimal : Decimal[n] \in Characters /\ Decimal[n] # "\r"
  BY WireConstantsOK
<1>6. \A i, j \in 1..Len(hs) : hs[i][1] = hs[j][1] => i = j
  BY <1>1, <1>2, <1>4
<1>7. PICK c, C : c = f.command /\ C = Characters \ {"\n", "\r"}
  OBVIOUS
<1>8. c \in Seq(C) /\ \A i \in 1..Len(c) : c[i] \in C
  BY <1>1, <1>7, ElementOfSeq
<1>9. c \in Seq(Characters) /\ \A i \in 1..Len(c) : c[i] \notin {"\n", "\r"}
  BY <1>7, <1>8
<1> QED
  BY <1>1, <1>2, <1>3, <1>5, <1>6, <1>7, <1>9

\* The names of the headers of a frame are distinct; its length is one of them
\* when it has a body, and is the right one when its caller has named no other.
LEMMA FrameHeaders ==
  ASSUME NEW f \in Frames
  PROVE  /\ HeadersOf(f) \in Seq(Pairs)
         /\ \A i, j \in 1..Len(HeadersOf(f)) : HeadersOf(f)[i][1] = HeadersOf(f)[j][1] => i = j
         /\ f.body # <<>> => \E i \in 1..Len(HeadersOf(f)) : HeadersOf(f)[i][1] = ContentLength
         /\ Stated(f) => \A i \in 1..Len(HeadersOf(f)) :
              HeadersOf(f)[i][1] = ContentLength => HeadersOf(f)[i][2] = <<Decimal[Len(f.body)]>>
<1>1. PICK hs, us, n, x, p :
        /\ hs = f.headers /\ us = HeadersOf(f) /\ n = Len(hs)
        /\ x = <<Decimal[Len(f.body)]>> /\ p = Length(Len(f.body))
  OBVIOUS
<1>2. /\ hs \in Seq(Pairs) /\ n \in Nat /\ DOMAIN hs = 1..n
      /\ \A i, j \in 1..n : hs[i][1] = hs[j][1] => i = j
  BY <1>1, FrameType, PairsOf
<1>3. p \in Pairs /\ p[1] = ContentLength /\ p[2] = x
  <2>1. x \in Seq(Characters) /\ ContentLength \in Seq(Characters)
    <3>1. Decimal[Len(f.body)] \in Characters /\ "content-length" \in Characters
      BY FrameType, Marks
    <3> QED
      BY <1>1, <3>1 DEF ContentLength
  <2>2. p = <<ContentLength, x>>
    BY <1>1 DEF Length
  <2> QED
    BY <2>1, <2>2 DEF Pairs
<1>4. PICK N : N = Named(hs)
  OBVIOUS
<1>5. \A i : i \in N <=> i \in 1..n /\ hs[i][1] = ContentLength
  BY <1>2, <1>4 DEF Named
<1>6. CASE f.body = <<>>
  <2>1. us = hs
    BY <1>1, <1>6 DEF HeadersOf
  <2>2. ASSUME Stated(f), NEW i \in 1..n, hs[i][1] = ContentLength PROVE hs[i][2] = x
    <3>1. hs[i] = Length(0)
      BY <1>1, <1>4, <1>5, <1>6, <2>2 DEF Stated
    <3>2. Len(f.body) = 0
      BY <1>6, EmptySeq
    <3>3. hs[i] = p
      BY <1>1, <3>1, <3>2
    <3> QED
      BY <1>3, <3>3
  <2> QED
    BY <1>1, <1>2, <1>6, <2>1, <2>2
<1>7. CASE f.body # <<>> /\ N = {}
  <2>1. us = Append(hs, p)
    BY <1>1, <1>4, <1>7 DEF HeadersOf
  <2>2. /\ us \in Seq(Pairs) /\ Len(us) = n + 1 /\ us[n + 1] = p
        /\ \A i \in 1..n : us[i] = hs[i]
    BY <1>1, <1>2, <1>3, <2>1, AppendProperties
  <2>3. \A i \in 1..Len(us) : (i \in 1..n /\ us[i] = hs[i] /\ us[i][1] # ContentLength)
                             \/ (i = n + 1 /\ us[i] = p /\ us[i][1] = ContentLength)
    <3>1. TAKE i \in 1..Len(us)
    <3>2. i \in 1..n \/ i = n + 1
      BY <1>2, <2>2
    <3>3. CASE i \in 1..n
      BY <1>5, <1>7, <2>2, <3>3
    <3>4. CASE i = n + 1
      BY <1>3, <2>2, <3>4
    <3> QED
      BY <3>2, <3>3, <3>4
  <2>4. \A i, j \in 1..Len(us) : us[i][1] = us[j][1] => i = j
    BY <1>2, <2>3
  <2>5. n + 1 \in 1..Len(us) /\ us[n + 1][1] = ContentLength
    BY <1>2, <1>3, <2>2
  <2>6. \A i \in 1..Len(us) : us[i][1] = ContentLength => us[i][2] = x
    BY <1>3, <2>3
  <2> QED
    BY <1>1, <2>2, <2>4, <2>5, <2>6
<1>8. CASE f.body # <<>> /\ N # {}
  <2>1. us = [i \in 1..n |-> IF i \in N THEN p ELSE hs[i]]
    BY <1>1, <1>2, <1>4, <1>8 DEF HeadersOf
  <2>2. \A i \in 1..n : hs[i] \in Pairs
    BY <1>1, <1>2, ElementOfSeq
  <2>3. \A i \in 1..n : (IF i \in N THEN p ELSE hs[i]) \in Pairs
    BY <1>3, <2>2
  <2>4. us \in Seq(Pairs) /\ Len(us) = n
    BY <1>2, <2>1, <2>3
  <2>5. \A i \in 1..n : us[i] = IF i \in N THEN p ELSE hs[i]
    BY <2>1
  <2>6. \A i \in 1..n : us[i][1] = hs[i][1] /\ (us[i][1] = ContentLength => us[i][2] = x)
    BY <1>3, <1>5, <2>5
  <2>7. \A i, j \in 1..n : us[i][1] = us[j][1] => i = j
    BY <1>2, <2>6
  <2>8. \E i \in 1..n : us[i][1] = ContentLength
    BY <1>5, <1>8, <2>6
  <2> QED
    BY <1>1, <2>4, <2>6, <2>7, <2>8
<1> QED
  BY <1>6, <1>7, <1>8
-----------------------------------------------------------------------------
\* The headers read_frame has after j lines.
Dict(vs, j) ==
  [k \in {vs[i][1] : i \in 1..j} |-> vs[CHOOSE i \in 1..j : vs[i][1] = k][2]]

\* The dict of headers has the value of each name read so far, as names are distinct.
LEMMA DictAt ==
  ASSUME NEW vs, NEW n \in Nat, \A i, j \in 1..n : vs[i][1] = vs[j][1] => i = j,
         NEW j \in 0..n, NEW i \in 1..j
  PROVE  vs[i][1] \in DOMAIN Dict(vs, j) /\ Dict(vs, j)[vs[i][1]] = vs[i][2]
<1>1. PICK k : k = vs[i][1]
  OBVIOUS
<1>2. k \in {vs[l][1] : l \in 1..j}
  BY <1>1
<1>3. PICK m : m = CHOOSE l \in 1..j : vs[l][1] = k
  OBVIOUS
<1>4. m \in 1..j /\ vs[m][1] = k
  BY <1>1, <1>3
<1>5. m = i
  <2>1. m \in 1..n /\ i \in 1..n
    BY <1>4
  <2> QED
    BY <1>1, <1>4, <2>1
<1>6. Dict(vs, j)[k] = vs[m][2]
  BY <1>2, <1>3 DEF Dict
<1>7. DOMAIN Dict(vs, j) = {vs[l][1] : l \in 1..j}
  BY DEF Dict
<1> QED
  BY <1>1, <1>2, <1>5, <1>6, <1>7

\* Each header that is read goes into the dict.
LEMMA DictPut ==
  ASSUME NEW vs, NEW n \in Nat, \A i, j \in 1..n : vs[i][1] = vs[j][1] => i = j,
         NEW j \in 0..n, j < n
  PROVE  Put(Dict(vs, j), vs[j + 1][1], vs[j + 1][2]) = Dict(vs, j + 1)
<1>1. PICK key, value, d, e :
        key = vs[j + 1][1] /\ value = vs[j + 1][2] /\ d = Dict(vs, j) /\ e = Dict(vs, j + 1)
  OBVIOUS
<1>2. j + 1 \in 0..n /\ j \in Nat /\ j + 1 \in 1..n
  OBVIOUS
<1>3. DOMAIN d = {vs[i][1] : i \in 1..j} /\ DOMAIN e = {vs[i][1] : i \in 1..j + 1}
  BY <1>1 DEF Dict
<1>4. e = [k \in DOMAIN e |-> e[k]]
  BY <1>1 DEF Dict
<1>5. DOMAIN e = DOMAIN d \cup {key}
  <2>1. \A x : x \in DOMAIN e <=> \E i \in 1..j + 1 : x = vs[i][1]
    BY <1>3
  <2>2. \A x : x \in DOMAIN d <=> \E i \in 1..j : x = vs[i][1]
    BY <1>3
  <2>3. \A i : i \in 1..j + 1 <=> i \in 1..j \/ i = j + 1
    BY <1>2
  <2> QED
    BY <1>1, <2>1, <2>2, <2>3
<1>6. \A k \in DOMAIN e : e[k] = IF k = key THEN value ELSE d[k]
  <2>1. TAKE k \in DOMAIN e
  <2>2. PICK i \in 1..j + 1 : k = vs[i][1]
    BY <1>3
  <2>3. e[k] = vs[i][2] /\ i \in 1..n
    <3>1. PICK m : m = j + 1
      OBVIOUS
    <3>2. m \in 0..n /\ i \in 1..m
      BY <1>2, <3>1
    <3>3. Dict(vs, m)[vs[i][1]] = vs[i][2]
      BY <3>2, DictAt
    <3>4. i \in 1..n
      BY <1>2
    <3> QED
      BY <1>1, <2>2, <3>1, <3>3, <3>4
  <2>4. CASE i = j + 1
    BY <1>1, <2>2, <2>3, <2>4
  <2>5. CASE i # j + 1
    <3>1. i \in 1..j
      BY <1>2, <2>5
    <3>2. d[k] = vs[i][2]
      <4>1. Dict(vs, j)[vs[i][1]] = vs[i][2]
        BY <3>1, DictAt
      <4> QED
        BY <1>1, <2>2, <4>1
    <3>3. k # key
      BY <1>1, <1>2, <2>2, <2>3, <2>5
    <3> QED
      BY <2>3, <3>2, <3>3
  <2> QED
    BY <2>4, <2>5
<1>7. Put(d, key, value) = [k \in DOMAIN d \cup {key} |-> IF k = key THEN value ELSE d[k]]
  BY DEF Put
<1>8. Put(d, key, value) = e
  BY <1>4, <1>5, <1>6, <1>7
<1> QED
  BY <1>1, <1>8

\* The dict is empty before the first.
LEMMA DictEmpty == \A vs : Dict(vs, 0) = <<>>
<1>1. TAKE vs
<1>2. {vs[i][1] : i \in 1..0} = {}
  OBVIOUS
<1> QED
  BY <1>2 DEF Dict
-----------------------------------------------------------------------------
Lines(f) == HeaderLines(HeadersOf(f))
Values(f) == StripValues(HeadersOf(f))

\* What is left of a frame after its command and j headers, and after those.
BodyLeft(f) == Append(f.body, NUL)
HeadersLeft(f, j) ==
  FlattenSeq(SubSeq(Lines(f), j + 1, Len(Lines(f)))) \o (Append(<<>>, "\n") \o BodyLeft(f))

\* The frames after the first k, as they are written.
Texts(fs) == [i \in 1..Len(fs) |-> BuildFrame(fs[i])]
Stream(fs, k) == FlattenSeq(SubSeq(Texts(fs), k + 1, Len(Texts(fs))))

\* A blank line.
LEMMA LineEnd == Append(<<>>, "\n") \in Seq(Characters) /\ Append(<<>>, "\n") = <<"\n">>
<1>1. "\n" \in Characters
  BY Marks
<1> QED
  BY <1>1

\* The body and its NUL are a string.
LEMMA BodyLeftType ==
  ASSUME NEW f \in Frames PROVE BodyLeft(f) \in Seq(Characters)
<1>1. f.body \in Seq(Characters) /\ NUL \in Characters
  BY FrameType, Marks
<1> QED
  BY <1>1, AppendProperties DEF BodyLeft

\* After j header lines comes the line j + 1, or the blank one and the body.
LEMMA HeadersLeftFirst ==
  ASSUME NEW f \in Frames, NEW j \in 0..Len(HeadersOf(f))
  PROVE  /\ HeadersLeft(f, j) \in Seq(Characters)
         /\ j < Len(HeadersOf(f)) =>
              HeadersLeft(f, j) = HeaderLine(HeadersOf(f)[j + 1]) \o HeadersLeft(f, j + 1)
         /\ j = Len(HeadersOf(f)) => HeadersLeft(f, j) = Append(<<>>, "\n") \o BodyLeft(f)
<1>1. PICK hs, ls, n : hs = HeadersOf(f) /\ ls = Lines(f) /\ n = Len(hs)
  OBVIOUS
<1>2. hs \in Seq(Pairs)
  BY <1>1, FrameHeaders
<1>3. ls \in Seq(Seq(Characters)) /\ Len(ls) = n /\ \A i \in 1..n : ls[i] = HeaderLine(hs[i])
  BY <1>1, <1>2, LinesOf DEF Lines
<1>4. PICK e, b : e = Append(<<>>, "\n") /\ b = e \o BodyLeft(f)
  OBVIOUS
<1>5. b \in Seq(Characters)
  BY <1>4, LineEnd, BodyLeftType, ConcatProperties
<1>6. \A i : HeadersLeft(f, i) = FlattenSeq(SubSeq(ls, i + 1, Len(ls))) \o b
  BY <1>1, <1>4 DEF HeadersLeft
<1>7. j \in 0..Len(ls) /\ n \in Nat
  BY <1>1, <1>2, <1>3, LenProperties
<1>8. FlattenSeq(SubSeq(ls, j + 1, Len(ls))) \in Seq(Characters)
  BY <1>3, <1>7, FlattenParts
<1>9. HeadersLeft(f, j) \in Seq(Characters)
  BY <1>5, <1>6, <1>8, ConcatProperties
<1>10. ASSUME j < n PROVE HeadersLeft(f, j) = HeaderLine(hs[j + 1]) \o HeadersLeft(f, j + 1)
  <2>1. FlattenSeq(SubSeq(ls, j + 1, Len(ls))) = ls[j + 1] \o FlattenSeq(SubSeq(ls, j + 2, Len(ls)))
    BY <1>3, <1>7, <1>10, FlattenFrom
  <2>2. PICK m : m = j + 1
    OBVIOUS
  <2>3. m \in 0..Len(ls) /\ m \in 1..n /\ m + 1 = j + 2
    BY <1>3, <1>7, <1>10, <2>2
  <2>4. PICK x, y : x = ls[m] /\ y = FlattenSeq(SubSeq(ls, m + 1, Len(ls)))
    OBVIOUS
  <2>5. x \in Seq(Characters) /\ y \in Seq(Characters)
    <3>1. m \in 1..Len(ls)
      BY <1>3, <2>3
    <3>2. x \in Seq(Characters)
      BY <1>3, <2>4, <3>1, ElementOfSeq
    <3>3. y \in Seq(Characters)
      BY <1>3, <2>3, <2>4, FlattenParts
    <3> QED
      BY <3>2, <3>3
  <2>6. (x \o y) \o b = x \o (y \o b)
    BY <1>5, <2>5, ConcatAssociative, SMTT(40)
  <2>7. HeadersLeft(f, j) = (x \o y) \o b
    BY <1>6, <2>1, <2>2, <2>3, <2>4
  <2>8. HeadersLeft(f, m) = y \o b
    BY <1>6, <2>4
  <2>9. x = HeaderLine(hs[m])
    BY <1>3, <2>3, <2>4
  <2> QED
    BY <2>2, <2>6, <2>7, <2>8, <2>9
<1>11. ASSUME j = n PROVE HeadersLeft(f, j) = b
  <2>1. SubSeq(ls, n + 1, Len(ls)) = <<>>
    BY <1>3, <1>7, SubSeqEmpty
  <2>2. <<>> \o b = b
    BY <1>5, ConcatEmptySeq
  <2> QED
    BY <1>6, <1>11, <2>1, <2>2, FlattenEmpty
<1> QED
  BY <1>1, <1>4, <1>9, <1>10, <1>11

\* A frame is its command line and what comes after it.
LEMMA BuildIs ==
  ASSUME NEW f \in Frames
  PROVE  /\ Append(f.command, "\n") \in Seq(Characters)
         /\ BuildFrame(f) \in Seq(Characters)
         /\ BuildFrame(f) = Append(f.command, "\n") \o HeadersLeft(f, 0)
<1>1. f.command \in Seq(Characters) /\ f.body \in Seq(Characters)
  BY FrameType
<1>2. "\n" \in Characters /\ NUL \in Characters
  BY Marks
<1>3. PICK c, e, z : c = f.command \o <<"\n">> /\ e = <<"\n">> /\ z = <<NUL>>
  OBVIOUS
<1>4. c \in Seq(Characters) /\ c = Append(f.command, "\n")
  BY <1>1, <1>2, <1>3, AppendProperties, AppendIsConcat
<1>5. e \in Seq(Characters) /\ e = Append(<<>>, "\n")
  BY <1>2, <1>3
<1>6. z \in Seq(Characters)
  BY <1>2, <1>3
<1>7. PICK hs, ls, n : hs = HeadersOf(f) /\ ls = Lines(f) /\ n = Len(ls)
  OBVIOUS
<1>8. hs \in Seq(Pairs)
  BY <1>7, FrameHeaders
<1>9. ls \in Seq(Seq(Characters)) /\ n \in Nat
  BY <1>7, <1>8, LinesOf, LenProperties DEF Lines
<1>10. PICK x, b : x = FlattenSeq(ls) /\ b = f.body
  OBVIOUS
<1>11. x \in Seq(Characters) /\ b \in Seq(Characters)
  BY <1>1, <1>9, <1>10, FlattenType
<1>12. BuildFrame(f) = (((c \o x) \o e) \o b) \o z
  BY <1>3, <1>7, <1>10 DEF BuildFrame, Lines
<1>13. BodyLeft(f) = b \o z /\ b \o z \in Seq(Characters)
  BY <1>1, <1>2, <1>3, <1>10, AppendIsConcat, ConcatProperties, <1>6, <1>11 DEF BodyLeft
<1>14. HeadersLeft(f, 0) = x \o (e \o (b \o z))
  <2>1. SubSeq(ls, 0 + 1, Len(ls)) = ls
    BY <1>9, SubSeqFull
  <2> QED
    BY <1>5, <1>7, <1>10, <1>13, <2>1 DEF HeadersLeft
<1>15. PICK d : d = b \o z
  OBVIOUS
<1>16. d \in Seq(Characters) /\ c \o x \in Seq(Characters) /\ (c \o x) \o e \in Seq(Characters)
       /\ e \o d \in Seq(Characters)
  BY <1>4, <1>5, <1>11, <1>13, <1>15, ConcatProperties
<1>17. (((c \o x) \o e) \o b) \o z = ((c \o x) \o e) \o d
  <2>1. PICK y : y = (c \o x) \o e
    OBVIOUS
  <2>y. y \in Seq(Characters)
    BY <1>16, <2>1
  <2>2. (y \o b) \o z = y \o (b \o z)
    BY <1>6, <1>11, <2>y, Regroup, Zenon
  <2> QED
    BY <1>15, <2>1, <2>2
<1>18. ((c \o x) \o e) \o d = (c \o x) \o (e \o d)
  <2>1. PICK y : y = c \o x
    OBVIOUS
  <2>2. y \in Seq(Characters) /\ d \in Seq(Characters) /\ e \in Seq(Characters)
    BY <1>5, <1>16, <2>1
  <2>3. (y \o e) \o d = y \o (e \o d)
    BY <2>2, Regroup, Zenon
  <2> QED
    BY <2>1, <2>3
<1>19. (c \o x) \o (e \o d) = c \o (x \o (e \o d))
  <2>1. PICK y : y = e \o d
    OBVIOUS
  <2>2. y \in Seq(Characters) /\ c \in Seq(Characters) /\ x \in Seq(Characters)
    BY <1>4, <1>11, <1>16, <2>1
  <2>3. (c \o x) \o y = c \o (x \o y)
    BY <2>2, Regroup, Zenon
  <2> QED
    BY <2>1, <2>3
<1>20. BuildFrame(f) = c \o (x \o (e \o d))
  BY <1>12, <1>17, <1>18, <1>19
<1>21. c \o (x \o (e \o d)) \in Seq(Characters)
  BY <1>4, <1>11, <1>16, ConcatProperties
<1> QED
  BY <1>4, <1>14, <1>15, <1>20, <1>21

\* There is a text for each frame.
LEMMA TextsOf ==
  ASSUME NEW fs \in Seq(Frames)
  PROVE  /\ Texts(fs) \in Seq(Seq(Characters)) /\ Len(Texts(fs)) = Len(fs)
         /\ \A i \in 1..Len(fs) : Texts(fs)[i] = BuildFrame(fs[i])
<1>1. PICK n, ts : n = Len(fs) /\ ts = Texts(fs)
  OBVIOUS
<1>2. n \in Nat /\ \A i \in 1..n : fs[i] \in Frames
  BY <1>1, LenProperties, ElementOfSeq
<1>3. ts = [i \in 1..n |-> BuildFrame(fs[i])]
  BY <1>1 DEF Texts
<1>4. \A i \in 1..n : BuildFrame(fs[i]) \in Seq(Characters)
  BY <1>2, BuildIs
<1> QED
  BY <1>1, <1>2, <1>3, <1>4

\* After k frames comes the frame k + 1, if it is sent.
LEMMA StreamFirst ==
  ASSUME NEW fs \in Seq(Frames), NEW k \in 0..Len(fs)
  PROVE  /\ Stream(fs, k) \in Seq(Characters)
         /\ k = Len(fs) => Stream(fs, k) = <<>>
         /\ k < Len(fs) => Stream(fs, k) = BuildFrame(fs[k + 1]) \o Stream(fs, k + 1)
<1>1. PICK n, ts : n = Len(fs) /\ ts = Texts(fs)
  OBVIOUS
<1>2. /\ ts \in Seq(Seq(Characters)) /\ Len(ts) = n /\ n \in Nat
      /\ \A i \in 1..n : ts[i] = BuildFrame(fs[i])
  BY <1>1, TextsOf, LenProperties
<1>3. \A i : Stream(fs, i) = FlattenSeq(SubSeq(ts, i + 1, Len(ts)))
  BY <1>1 DEF Stream
<1>4. k \in 0..Len(ts)
  BY <1>1, <1>2
<1>5. Stream(fs, k) \in Seq(Characters)
  BY <1>2, <1>3, <1>4, FlattenParts
<1>6. ASSUME k = n PROVE Stream(fs, k) = <<>>
  <2>1. SubSeq(ts, k + 1, Len(ts)) = <<>>
    BY <1>2, <1>6, SubSeqEmpty
  <2> QED
    BY <1>3, <2>1, FlattenEmpty
<1>7. ASSUME k < n PROVE Stream(fs, k) = BuildFrame(fs[k + 1]) \o Stream(fs, k + 1)
  <2>1. FlattenSeq(SubSeq(ts, k + 1, Len(ts))) = ts[k + 1] \o FlattenSeq(SubSeq(ts, k + 2, Len(ts)))
    BY <1>2, <1>4, <1>7, FlattenFrom
  <2>2. (k + 1) + 1 = k + 2 /\ k + 1 \in 1..n
    BY <1>2, <1>4, <1>7
  <2> QED
    BY <1>2, <1>3, <2>1, <2>2
<1> QED
  BY <1>1, <1>5, <1>6, <1>7

\* A frame that is sent comes last.
LEMMA StreamGrows ==
  ASSUME NEW fs \in Seq(Frames), NEW k \in 0..Len(fs), NEW f \in Frames
  PROVE  Stream(Append(fs, f), k) = Stream(fs, k) \o BuildFrame(f)
<1>1. PICK n, ts, us, x : /\ n = Len(fs) /\ ts = Texts(fs) /\ us = Texts(Append(fs, f))
                          /\ x = BuildFrame(f)
  OBVIOUS
<1>2. /\ ts \in Seq(Seq(Characters)) /\ Len(ts) = n /\ n \in Nat
      /\ \A i \in 1..n : ts[i] = BuildFrame(fs[i])
  BY <1>1, TextsOf, LenProperties
<1>3. PICK gs : gs = Append(fs, f)
  OBVIOUS
<1>4. /\ gs \in Seq(Frames) /\ Len(gs) = n + 1 /\ gs[n + 1] = f
      /\ \A i \in 1..n : gs[i] = fs[i]
  BY <1>1, <1>3, AppendProperties
<1>5. /\ us \in Seq(Seq(Characters)) /\ Len(us) = n + 1
      /\ \A i \in 1..n + 1 : us[i] = BuildFrame(gs[i])
  BY <1>1, <1>3, <1>4, TextsOf
<1>6. x \in Seq(Characters)
  BY <1>1, BuildIs
<1>7. PICK vs : vs = Append(ts, x)
  OBVIOUS
<1>8. /\ vs \in Seq(Seq(Characters)) /\ Len(vs) = n + 1 /\ vs[n + 1] = x
      /\ \A i \in 1..n : vs[i] = ts[i]
  BY <1>2, <1>6, <1>7, AppendProperties
<1>9. us = vs
  <2>1. \A i \in 1..n + 1 : us[i] = vs[i]
    <3>1. TAKE i \in 1..n + 1
    <3>2. i \in 1..n \/ i = n + 1
      BY <1>2
    <3>3. us[i] = BuildFrame(gs[i])
      BY <1>5
    <3>4. CASE i \in 1..n
      BY <1>2, <1>4, <1>8, <3>3, <3>4
    <3>5. CASE i = n + 1
      BY <1>1, <1>4, <1>8, <3>3, <3>5
    <3> QED
      BY <3>2, <3>4, <3>5
  <2> QED
    BY <1>5, <1>8, <2>1, SeqEqual
<1>10. PICK a, b : a = SubSeq(ts, k + 1, n) /\ b = SubSeq(vs, k + 1, n + 1)
  OBVIOUS
<1>11. a \in Seq(Seq(Characters)) /\ Len(a) = n - k /\ \A i \in 1..n - k : a[i] = ts[k + i]
  <2>1. \A i \in k + 1..n : ts[i] \in Seq(Characters)
    BY <1>2, ElementOfSeq
  <2>2. PICK p : p = k + 1
    OBVIOUS
  <2>3. p \in Int /\ n \in Int /\ \A i \in p..n : ts[i] \in Seq(Characters)
    BY <1>2, <2>1, <2>2
  <2>4. /\ SubSeq(ts, p, n) \in Seq(Seq(Characters))
        /\ Len(SubSeq(ts, p, n)) = IF p <= n THEN n - p + 1 ELSE 0
        /\ \A i \in 1..n - p + 1 : SubSeq(ts, p, n)[i] = ts[p + i - 1]
    BY <2>3, SubSeqProperties
  <2>5. /\ k \in 0..n /\ n - p + 1 = n - k /\ (p <= n \/ n - k = 0)
        /\ \A i \in 1..n - k : p + i - 1 = k + i
    BY <1>1, <1>2, <2>2
  <2> QED
    BY <1>10, <2>2, <2>4, <2>5
<1>12. b \in Seq(Seq(Characters)) /\ Len(b) = n + 1 - k /\ \A i \in 1..n + 1 - k : b[i] = vs[k + i]
  <2>1. \A i \in k + 1..n + 1 : vs[i] \in Seq(Characters)
    BY <1>2, <1>8, ElementOfSeq
  <2>2. PICK p, q : p = k + 1 /\ q = n + 1
    OBVIOUS
  <2>3. p \in Int /\ q \in Int /\ \A i \in p..q : vs[i] \in Seq(Characters)
    BY <1>2, <2>1, <2>2
  <2>4. /\ SubSeq(vs, p, q) \in Seq(Seq(Characters))
        /\ Len(SubSeq(vs, p, q)) = IF p <= q THEN q - p + 1 ELSE 0
        /\ \A i \in 1..q - p + 1 : SubSeq(vs, p, q)[i] = vs[p + i - 1]
    BY <2>3, SubSeqProperties
  <2>5. p <= q /\ q - p + 1 = n + 1 - k /\ \A i \in 1..n + 1 - k : p + i - 1 = k + i
    BY <1>1, <1>2, <2>2
  <2> QED
    BY <1>10, <2>2, <2>4, <2>5
<1>13. PICK d : d = Append(a, x)
  OBVIOUS
<1>14. k \in 0..n
  BY <1>1
<1>15. b = d
  <2>1. d \in Seq(Seq(Characters)) /\ Len(d) = n + 1 - k /\ d[n - k + 1] = x
        /\ \A i \in 1..n - k : d[i] = a[i]
    <3>1. d \in Seq(Seq(Characters)) /\ Len(d) = Len(a) + 1 /\ d[Len(a) + 1] = x
          /\ \A i \in 1..Len(a) : d[i] = a[i]
      BY <1>6, <1>11, <1>13, AppendProperties
    <3>2. n + 1 - k = (n - k) + 1
      BY <1>2, <1>14
    <3> QED
      BY <1>11, <3>1, <3>2
  <2>2. \A i \in 1..n + 1 - k : b[i] = d[i]
    <3>1. TAKE i \in 1..n + 1 - k
    <3>2. i \in 1..n - k \/ (i = n - k + 1 /\ k + i = n + 1)
      BY <1>2, <1>14
    <3>3. b[i] = vs[k + i]
      BY <1>12
    <3>4. ASSUME i \in 1..n - k PROVE k + i \in 1..n
      BY <1>2, <1>14, <3>4
    <3> QED
      BY <1>8, <1>11, <2>1, <3>2, <3>3, <3>4
  <2> QED
    BY <1>12, <2>1, <2>2, SeqEqual
<1>16. FlattenSeq(Append(a, x)) = FlattenSeq(a) \o x
  BY <1>6, <1>11, FlattenAppend
<1>17. Stream(fs, k) = FlattenSeq(a)
  BY <1>1, <1>2, <1>10 DEF Stream
<1>18. Stream(gs, k) = FlattenSeq(b)
  BY <1>1, <1>3, <1>5, <1>9, <1>10 DEF Stream
<1> QED
  BY <1>1, <1>3, <1>13, <1>15, <1>16, <1>17, <1>18
-----------------------------------------------------------------------------
\* What is on its way either has the line that comes next, or has only a part
\* of it and ends there.
LEMMA NextLine ==
  ASSUME NEW s \in Seq(Characters), s # <<>>, NEW t \in Seq(Characters),
         NEW w \in Seq(Characters), \A i \in 1..Len(w) : w[i] # "\n",
         NEW a, a = Append(w, "\n"), NEW b \in Seq(Characters), s \o t = a \o b
  PROVE  Covers(s, t, a, b) \/ (t # <<>> /\ Line(s).rest = <<>>)
<1>1. a = Append(w, "\n")
  OBVIOUS
<1>2. /\ a \in Seq(Characters) /\ Len(a) = Len(w) + 1 /\ Len(w) \in Nat
      /\ \A i \in 1..Len(w) : a[i] = w[i]
  <2>1. "\n" \in Characters
    BY Marks
  <2> QED
    BY <1>1, <2>1, AppendProperties, LenProperties
<1>3. b \in Seq(Characters)
  OBVIOUS
<1>a. a \in Seq(Characters)
  BY <1>2
<1>5. s \o t = a \o b
  OBVIOUS
<1>6. Covers(s, t, a, b) \/ Begins(s, a)
  BY <1>a, <1>3, <1>5, FrontOf
<1>7. CASE Covers(s, t, a, b)
  BY <1>7
<1>8. CASE Begins(s, a)
  <2>b. Len(s) < Len(a) /\ \A i \in 1..Len(s) : s[i] = a[i]
    BY <1>8 DEF Begins
  <2>1. Len(s) \in Nat
    BY LenProperties
  <2>2. \A i \in 1..Len(s) - 1 : s[i] # "\n"
    <3>1. TAKE i \in 1..Len(s) - 1
    <3>2. i \in 1..Len(s) /\ i \in 1..Len(w)
      BY <1>2, <2>b, <2>1
    <3> QED
      BY <1>2, <2>b, <3>2
  <2>3. Line(s).rest = <<>>
    BY <2>2, LineCut
  <2>4. t # <<>>
    <3>1. SUFFICES ASSUME t = <<>> PROVE FALSE
      OBVIOUS
    <3>2. s = a \o b
      BY <1>5, <3>1, ConcatEmptySeq
    <3>3. Len(s) = Len(a) + Len(b)
      BY <1>2, <1>3, <3>2, ConcatProperties
    <3>4. Len(b) \in Nat /\ Len(a) \in Nat
      BY <1>2, <1>3, LenProperties
    <3> QED
      BY <2>b, <3>3, <3>4
  <2> QED
    BY <2>3, <2>4
<1> QED
  BY <1>6, <1>7, <1>8

ReadLines(f) == HeaderLines(Values(f))

\* What read_frame counts of a frame: the lines of its stripped headers; what
\* readline limits: the lines of its headers.
LEMMA ReadLinesOf ==
  ASSUME NEW f \in Frames
  PROVE  /\ ReadLines(f) \in Seq(Seq(Characters))
         /\ Len(ReadLines(f)) = Len(HeadersOf(f)) /\ Len(HeadersOf(f)) \in Nat
         /\ Values(f) \in Seq(Pairs) /\ Len(Values(f)) = Len(HeadersOf(f))
         /\ Lines(f) \in Seq(Seq(Characters)) /\ Len(Lines(f)) = Len(HeadersOf(f))
         /\ \A i \in 1..Len(HeadersOf(f)) :
              /\ ReadLines(f)[i] = HeaderLine(Values(f)[i])
              /\ Lines(f)[i] = HeaderLine(HeadersOf(f)[i])
              /\ HeadersOf(f)[i][1] \in Seq(Characters) /\ HeadersOf(f)[i][2] \in Seq(Characters)
              /\ Values(f)[i][1] = HeadersOf(f)[i][1]
              /\ Values(f)[i][2] = StripEnd(HeadersOf(f)[i][2], {"\r"})
<1>1. PICK hs, vs : hs = HeadersOf(f) /\ vs = Values(f)
  OBVIOUS
<1>2. hs \in Seq(Pairs)
  BY <1>1, FrameHeaders
<1>3. /\ vs \in Seq(Pairs) /\ Len(vs) = Len(hs)
      /\ \A i \in 1..Len(hs) : vs[i][1] = hs[i][1] /\ vs[i][2] = StripEnd(hs[i][2], {"\r"})
  BY <1>1, <1>2, Stripped DEF Values
<1>4. /\ HeaderLines(vs) \in Seq(Seq(Characters)) /\ Len(HeaderLines(vs)) = Len(vs)
      /\ \A i \in 1..Len(vs) : HeaderLines(vs)[i] = HeaderLine(vs[i])
  BY <1>3, LinesOf
<1>5. /\ Len(hs) \in Nat
      /\ \A i \in 1..Len(hs) : hs[i][1] \in Seq(Characters) /\ hs[i][2] \in Seq(Characters)
  BY <1>2, PairsOf
<1>6. /\ Lines(f) \in Seq(Seq(Characters)) /\ Len(Lines(f)) = Len(hs)
      /\ \A i \in 1..Len(hs) : Lines(f)[i] = HeaderLine(hs[i])
  BY <1>1, <1>2, LinesOf DEF Lines
<1> QED
  BY <1>1, <1>3, <1>4, <1>5, <1>6 DEF ReadLines

\* The command and the first j header lines are not too long for readline.
Short(f, j) ==
  /\ Len(f.command) <= LineLimit
  /\ \A i \in 1..j : Len(Lines(f)[i]) - 1 <= LineLimit

\* Fits, in terms of those lines.
LEMMA FitsIff ==
  ASSUME NEW f \in Frames
  PROVE  Fits(f) <=> /\ Short(f, Len(HeadersOf(f)))
                     /\ Len(f.command) + 1 + Len(FlattenSeq(ReadLines(f))) <= MaxFrameSize
                     /\ Len(f.body) <= MaxFrameSize
<1>1. PICK ls, n : ls = Lines(f) /\ n = Len(HeadersOf(f))
  OBVIOUS
<1>2. DOMAIN ls = 1..n
  BY <1>1, ReadLinesOf, LenProperties
<1>3. Fits(f) <=> /\ Len(f.command) <= LineLimit
                  /\ \A i \in DOMAIN ls : Len(ls[i]) - 1 <= LineLimit
                  /\ Len(f.command) + 1 + Len(FlattenSeq(ReadLines(f))) <= MaxFrameSize
                  /\ Len(f.body) <= MaxFrameSize
  BY <1>1 DEF Fits, Lines, ReadLines, Values
<1> QED
  BY <1>1, <1>2, <1>3 DEF Short

\* A frame is refused as soon as a part of it shows that it does not fit.
LEMMA FitsUpTo ==
  ASSUME NEW f \in Frames, NEW j \in 0..Len(ReadLines(f)), Fits(f)
  PROVE  /\ Len(FlattenSeq(SubSeq(ReadLines(f), 1, j))) \in Nat
         /\ Len(f.command) \in Nat
         /\ Len(f.command) + 1 + Len(FlattenSeq(SubSeq(ReadLines(f), 1, j))) <= MaxFrameSize
         /\ Short(f, Len(HeadersOf(f)))
<1>1. PICK ls : ls = ReadLines(f)
  OBVIOUS
<1>2. ls \in Seq(Seq(Characters)) /\ j \in 0..Len(ls)
  BY <1>1, ReadLinesOf
<1>3. PICK a, b : a = FlattenSeq(SubSeq(ls, 1, j)) /\ b = FlattenSeq(SubSeq(ls, j + 1, Len(ls)))
  OBVIOUS
<1>4. a \in Seq(Characters) /\ b \in Seq(Characters) /\ FlattenSeq(ls) = a \o b
  <2>1. /\ FlattenSeq(SubSeq(ls, 1, j)) \in Seq(Characters)
        /\ FlattenSeq(SubSeq(ls, j + 1, Len(ls))) \in Seq(Characters)
        /\ FlattenSeq(ls) = FlattenSeq(SubSeq(ls, 1, j)) \o FlattenSeq(SubSeq(ls, j + 1, Len(ls)))
    BY <1>2, FlattenParts
  <2> QED
    BY <1>3, <2>1
<1>5. Len(FlattenSeq(ls)) = Len(a) + Len(b) /\ Len(a) \in Nat /\ Len(b) \in Nat
  BY <1>4, ConcatProperties, LenProperties
<1>6. PICK c : c = Len(f.command)
  OBVIOUS
<1>8. c + 1 + Len(FlattenSeq(ls)) <= MaxFrameSize /\ Short(f, Len(HeadersOf(f)))
  BY <1>1, <1>6, FitsIff
<1>7. MaxFrameSize \in Nat /\ c \in Nat
  BY <1>6, FrameType, LenProperties, WireConstantsOK
<1>9. c + 1 + Len(a) <= MaxFrameSize
  BY <1>5, <1>7, <1>8
<1> QED
  BY <1>1, <1>3, <1>5, <1>6, <1>7, <1>8, <1>9

\* A frame as it is read has the dict of all its headers.
LEMMA AsReadIs ==
  ASSUME NEW f \in Frames
  PROVE  AsRead(f) = [command |-> f.command, body |-> f.body,
                      headers |-> Dict(Values(f), Len(HeadersOf(f)))]
<1>1. PICK vs : vs = Values(f)
  OBVIOUS
<1>2. DOMAIN vs = 1..Len(HeadersOf(f))
  BY <1>1, ReadLinesOf, LenProperties
<1>3. PICK d : d = [k \in {vs[i][1] : i \in DOMAIN vs} |->
                      vs[CHOOSE i \in DOMAIN vs : vs[i][1] = k][2]]
  OBVIOUS
<1>4. d = Dict(vs, Len(HeadersOf(f)))
  BY <1>2, <1>3 DEF Dict
<1>5. AsRead(f) = [f EXCEPT !.headers = d]
  BY <1>1, <1>3 DEF AsRead, Values
<1>6. f = [command |-> f.command, headers |-> f.headers, body |-> f.body]
  BY FrameType
<1> QED
  BY <1>1, <1>4, <1>5, <1>6

\* read_frame finds where the body of a frame ends, once all of it is there.
BodyFound(f, later, s, t, d) ==
  /\ BodyEnds(s, d) # {} /\ Min(BodyEnds(s, d)) = Len(f.body) + 1
  /\ Len(f.body) <= MaxFrameSize
  /\ SubSeq(s, 1, Len(f.body)) = f.body
  /\ SubSeq(s, Len(f.body) + 2, Len(s)) \in Seq(Characters)
  /\ SubSeq(s, Len(f.body) + 2, Len(s)) \o t = later
BodyMissing(f, s, t, d) ==
  BodyEnds(s, d) = {} /\ ((Len(f.body) > MaxFrameSize /\ ~MayEnd(s, d)) \/ t # <<>>)

\* By its length or, if it is empty, by the first NUL.
LEMMA BodyEndsOf ==
  ASSUME NEW f \in Frames, Stated(f), NEW later \in Seq(Characters),
         NEW s \in Seq(Characters), NEW t \in Seq(Characters),
         s \o t = BodyLeft(f) \o later, NEW d, d = Dict(Values(f), Len(HeadersOf(f)))
  PROVE  BodyFound(f, later, s, t, d) \/ BodyMissing(f, s, t, d)
<1>1. PICK b, n, a : b = f.body /\ n = Len(b) /\ a = BodyLeft(f)
  OBVIOUS
<1>2. /\ b \in Seq(Characters) /\ n \in DOMAIN Decimal /\ n \in Nat /\ MaxFrameSize \in Nat
      /\ NUL \in Characters
  BY <1>1, FrameType, Marks, WireConstantsOK, LenProperties
<1>3. /\ a \in Seq(Characters) /\ Len(a) = n + 1 /\ a[n + 1] = NUL
      /\ \A i \in 1..n : a[i] = b[i]
  BY <1>1, <1>2, AppendProperties DEF BodyLeft
<1>4. PICK hs, vs, m : hs = HeadersOf(f) /\ vs = Values(f) /\ m = Len(hs)
  OBVIOUS
<1>5. /\ m \in Nat /\ \A i \in 1..m : vs[i][1] = hs[i][1] /\ vs[i][2] = StripEnd(hs[i][2], {"\r"})
  BY <1>4, ReadLinesOf
<1>6. \A i, j \in 1..m : vs[i][1] = vs[j][1] => i = j
  <2>1. \A i, j \in 1..m : hs[i][1] = hs[j][1] => i = j
    BY <1>4, FrameHeaders
  <2> QED
    BY <1>5, <2>1
<1>7. DOMAIN d = {vs[i][1] : i \in 1..m}
  BY <1>4 DEF Dict
<1>8. PICK E : E = BodyEnds(s, d)
  OBVIOUS
<1>9. Len(s) \in Nat
  BY LenProperties
<1>10. \A i : i \in E <=>
         /\ i \in 1..Len(s)
         /\ IF ContentLength \in DOMAIN d
            THEN /\ i - 1 \in DOMAIN Decimal /\ d[ContentLength] = <<Decimal[i - 1]>>
                 /\ i - 1 <= MaxFrameSize
            ELSE s[i] = NUL /\ NUL \notin Range(SubSeq(s, 1, i - 1)) /\ i - 1 <= LineLimit
  BY <1>8 DEF BodyEnds, Readable
<1>11. Covers(s, t, a, later) \/ Begins(s, a)
  <2>1. s \o t = a \o later /\ a \in Seq(Characters)
    BY <1>1, <1>3
  <2> QED
    BY <2>1, FrontOf
\* Where it ends if it has a length.
<1>12. ASSUME ContentLength \in DOMAIN d
       PROVE  /\ \A i : i \in E <=> i = n + 1 /\ n + 1 <= Len(s) /\ n <= MaxFrameSize
              /\ n > MaxFrameSize => ~MayEnd(s, d)
  <2>1. PICK i \in 1..m : vs[i][1] = ContentLength
    BY <1>7, <1>12
  <2>2. hs[i][1] = ContentLength /\ hs[i][2] = <<Decimal[n]>>
    BY <1>1, <1>4, <1>5, <2>1, FrameHeaders
  <2>3. StripEnd(hs[i][2], {"\r"}) = <<Decimal[n]>>
    <3>1. PICK x : x = <<Decimal[n]>>
      OBVIOUS
    <3>2. Decimal[n] \in Characters /\ Decimal[n] # "\r"
      BY <1>1, FrameType
    <3>3. x \in Seq(Characters) /\ x # <<>> /\ x[Len(x)] \notin {"\r"}
      BY <3>1, <3>2
    <3>4. StripEnd(x, {"\r"}) = x
      BY <3>3, StripEndKept
    <3> QED
      BY <2>2, <3>1, <3>4
  <2>4. m \in 0..m /\ i \in 1..m
    BY <1>5
  <2>5. d[ContentLength] = <<Decimal[n]>>
    <3>1. Dict(vs, m)[vs[i][1]] = vs[i][2]
      BY <1>5, <1>6, <2>4, DictAt
    <3> QED
      BY <1>4, <1>5, <2>1, <2>3, <3>1
  <2>6. \A k \in DOMAIN Decimal : <<Decimal[n]>> = <<Decimal[k]>> => k = n
    BY <1>2, WireConstantsOK
  <2>7. \A k : k \in E <=> /\ k \in 1..Len(s) /\ k - 1 \in DOMAIN Decimal
                           /\ <<Decimal[n]>> = <<Decimal[k - 1]>> /\ k - 1 <= MaxFrameSize
    BY <1>10, <1>12, <2>5
  <2>8. \A k : k \in E => k = n + 1 /\ n + 1 <= Len(s) /\ n <= MaxFrameSize
    <3>1. SUFFICES ASSUME NEW k \in E PROVE k = n + 1 /\ n + 1 <= Len(s) /\ n <= MaxFrameSize
      OBVIOUS
    <3>2. k \in 1..Len(s) /\ k - 1 = n /\ k - 1 <= MaxFrameSize
      BY <2>6, <2>7
    <3> QED
      BY <1>2, <1>9, <3>2
  <2>9. n + 1 <= Len(s) /\ n <= MaxFrameSize => n + 1 \in E
    <3>1. SUFFICES ASSUME n + 1 <= Len(s), n <= MaxFrameSize PROVE n + 1 \in E
      OBVIOUS
    <3>2. n + 1 \in 1..Len(s) /\ (n + 1) - 1 = n
      BY <1>2, <1>9, <3>1
    <3> QED
      BY <1>2, <2>7, <3>1, <3>2
  <2>10. ASSUME n > MaxFrameSize, MayEnd(s, d) PROVE FALSE
    <3>1. PICK k \in DOMAIN Decimal : <<Decimal[n]>> = <<Decimal[k]>> /\ k <= MaxFrameSize
      BY <1>12, <2>5, <2>10 DEF MayEnd, Readable
    <3>2. k = n
      BY <2>6, <3>1
    <3> QED
      BY <1>2, <2>10, <3>1, <3>2
  <2> QED
    BY <2>8, <2>9, <2>10
\* Only an empty body has none.
<1>13. ASSUME ContentLength \notin DOMAIN d PROVE b = <<>> /\ n = 0
  <2>1. \A i \in 1..m : hs[i][1] # ContentLength
    BY <1>5, <1>7, <1>13
  <2>2. b = <<>>
    BY <1>1, <1>4, <2>1, FrameHeaders
  <2> QED
    BY <1>1, <2>2, EmptySeq
<1>14. CASE Covers(s, t, a, later)
  <2>1. PICK u \in Seq(Characters) : s = a \o u /\ u \o t = later
    BY <1>14 DEF Covers
  <2>2. /\ Len(s) = Len(a) + Len(u)
        /\ \A i \in 1..Len(a) + Len(u) : s[i] = IF i <= Len(a) THEN a[i] ELSE u[i - Len(a)]
    <3>1. a \in Seq(Characters)
      BY <1>3
    <3> QED
      BY <2>1, <3>1, ConcatProperties
  <2>3. Len(u) \in Nat /\ n + 1 \in 1..Len(s)
    BY <1>2, <1>3, <2>2, LenProperties
  <2>4. \A i \in 1..n + 1 : s[i] = a[i]
    BY <1>2, <1>3, <2>2, <2>3
  <2>5. SubSeq(s, 1, n) = b
    <3>1. PICK c : c = SubSeq(s, 1, n)
      OBVIOUS
    <3>2. \A i \in 1..n : s[i] \in Characters
      BY <1>2, <1>9, <2>3, ElementOfSeq
    <3>3. c \in Seq(Characters) /\ Len(c) = n /\ \A i \in 1..n : c[i] = s[i]
      BY <1>2, <3>1, <3>2, SubSeqProperties
    <3>4. \A i \in 1..n : c[i] = b[i]
      <4>1. TAKE i \in 1..n
      <4>2. i \in 1..n + 1
        BY <1>2
      <4>3. s[i] = a[i]
        BY <2>4, <4>2
      <4> QED
        BY <1>3, <3>3, <4>3
    <3> QED
      BY <1>1, <1>2, <3>1, <3>3, <3>4, SeqEqual
  <2>6. SubSeq(s, n + 2, Len(s)) = u
    <3>1. PICK k, c, e : k = n + 1 /\ c = SubSeq(s, 1, k) /\ e = SubSeq(s, k + 1, Len(s))
      OBVIOUS
    <3>2. k \in 0..Len(s) /\ k + 1 = n + 2
      BY <1>2, <1>9, <2>3, <3>1, SMTT(40)
    <3>3. /\ SubSeq(s, 1, k) \in Seq(Characters) /\ SubSeq(s, k + 1, Len(s)) \in Seq(Characters)
          /\ Len(SubSeq(s, 1, k)) = k /\ s = SubSeq(s, 1, k) \o SubSeq(s, k + 1, Len(s))
      BY <3>2, Halves
    <3>4. \A i \in 1..k : s[i] \in Characters
      BY <1>9, <3>2, ElementOfSeq
    <3>5. \A i \in 1..k : c[i] = s[i]
      BY <3>1, <3>2, <3>4, SubSeqProperties
    <3>6. c \in Seq(Characters) /\ Len(c) = k /\ \A i \in 1..k : c[i] = a[i]
      BY <2>4, <3>1, <3>3, <3>5
    <3>7. c = a
      BY <1>3, <3>1, <3>6, SeqEqual
    <3>8. a \o e = a \o u
      BY <2>1, <3>1, <3>3, <3>7
    <3>9. e \in Seq(Characters)
      BY <3>1, <3>3
    <3>10. a \in Seq(Characters)
      BY <1>3
    <3>11. e = u
      BY <3>8, <3>9, <3>10, CancelLeft
    <3> QED
      BY <3>1, <3>2, <3>11
  <2>7. CASE ContentLength \in DOMAIN d
    <3>1. CASE n <= MaxFrameSize
      <4>1. \A i : i \in E <=> i = n + 1
        BY <1>12, <2>3, <2>7, <3>1
      <4>2. E \in SUBSET Nat /\ n + 1 \in E /\ \A y \in E : n + 1 <= y
        BY <1>2, <4>1
      <4>3. Min(E) = n + 1
        BY <4>2, MinIs
      <4> QED
        BY <1>1, <1>8, <2>1, <2>5, <2>6, <3>1, <4>2, <4>3 DEF BodyFound
    <3>2. CASE n > MaxFrameSize
      <4>1. \A i : i \notin E
        BY <1>2, <1>12, <2>7, <3>2
      <4>2. ~MayEnd(s, d)
        BY <1>12, <2>7, <3>2
      <4> QED
        BY <1>1, <1>8, <3>2, <4>1, <4>2 DEF BodyMissing
    <3>3. n <= MaxFrameSize \/ n > MaxFrameSize
      BY <1>2
    <3> QED
      BY <3>1, <3>2, <3>3
  <2>8. CASE ContentLength \notin DOMAIN d
    <3>1. n = 0
      BY <1>13, <2>8
    <3>2. s[1] = NUL /\ 1 \in 1..Len(s)
      BY <1>3, <2>3, <2>4, <3>1
    <3>3. NUL \notin Range(SubSeq(s, 1, 1 - 1))
      <4>1. SubSeq(s, 1, 1 - 1) = <<>>
        BY SubSeqEmpty
      <4> QED
        BY <4>1 DEF Range
    <3>4. 1 \in E
      <4>1. 1 - 1 <= LineLimit
        BY WireConstantsOK
      <4> QED
        BY <1>10, <2>8, <3>2, <3>3, <4>1
    <3>5. E \in SUBSET Nat /\ \A y \in E : 1 <= y
      BY <1>9, <1>10
    <3>6. Min(E) = 1
      BY <3>4, <3>5, MinIs
    <3>7. n + 1 = 1 /\ n <= MaxFrameSize
      BY <1>2, <3>1
    <3> QED
      BY <1>1, <1>8, <2>1, <2>5, <2>6, <3>4, <3>6, <3>7 DEF BodyFound
  <2> QED
    BY <2>7, <2>8
<1>15. CASE Begins(s, a)
  <2>b. Len(s) < Len(a)
    BY <1>15 DEF Begins
  <2>1. t # <<>>
    <3>1. SUFFICES ASSUME t = <<>> PROVE FALSE
      OBVIOUS
    <3>2. s = a \o later
      BY <1>1, <3>1, ConcatEmptySeq
    <3>3. Len(s) = Len(a) + Len(later)
      BY <1>3, <3>2, ConcatProperties
    <3>4. Len(later) \in Nat /\ Len(a) \in Nat
      BY <1>3, LenProperties
    <3> QED
      BY <2>b, <3>3, <3>4
  <2>2. Len(s) <= n
    BY <1>2, <1>3, <1>9, <2>b
  <2>3. \A i : i \notin E
    <3>1. CASE ContentLength \in DOMAIN d
      BY <1>2, <1>9, <1>12, <2>2, <3>1
    <3>2. CASE ContentLength \notin DOMAIN d
      <4>1. Len(s) = 0
        BY <1>9, <1>13, <2>2, <3>2
      <4> QED
        BY <1>10, <4>1
    <3> QED
      BY <3>1, <3>2
  <2>4. E = {}
    BY <2>3
  <2> QED
    BY <1>8, <2>1, <2>4 DEF BodyMissing
<1> QED
  BY <1>11, <1>14, <1>15

\* No body ends where nothing is on the wire.
LEMMA NoBodyEnds == \A d : BodyEnds(<<>>, d) = {}
<1>1. \A i : i \notin 1..Len(<<>>)
  OBVIOUS
<1> QED
  BY <1>1 DEF BodyEnds
-----------------------------------------------------------------------------
\* What read_frame has counted after j header lines.
Total(f, j) == Len(f.command) + Len(FlattenSeq(SubSeq(ReadLines(f), 1, j)))

\* read_frame is between the header lines j and j + 1 of f, and text is what
\* comes on the wire from there: the rest of f, and what was sent after it.
InHeaders(r, f, j, later, text) ==
  /\ r = [at |-> "headers", total |-> Total(f, j),
          frame |-> [command |-> f.command, headers |-> Dict(Values(f), j), body |-> <<>>]]
  /\ Short(f, j)
  /\ text = HeadersLeft(f, j) \o later

\* read_frame has read the blank line that ends the headers of f.
InBody(r, f, later, text) ==
  /\ r.at = "body"
  /\ r.frame = [command |-> f.command, headers |-> Dict(Values(f), Len(HeadersOf(f))), body |-> <<>>]
  /\ Len(f.command) + 1 + Len(FlattenSeq(ReadLines(f))) <= MaxFrameSize
  /\ Short(f, Len(HeadersOf(f)))
  /\ text = BodyLeft(f) \o later

\* read_frame has returned k of the frames fs, and text is what comes next.
Place(r, fs, k, text) ==
  \/ r = Start /\ text = Stream(fs, k)
  \/ /\ k < Len(fs)
     /\ \E j \in 0..Len(HeadersOf(fs[k + 1])) :
          InHeaders(r, fs[k + 1], j, Stream(fs, k + 1), text)
  \/ k < Len(fs) /\ InBody(r, fs[k + 1], Stream(fs, k + 1), text)

\* The line of a command is too long and so is the frame, or it is read.
CommandRead(fs, k, size, command, rest, t, r) ==
  /\ k < Len(fs) /\ command # <<>> /\ rest \in Seq(Characters)
  /\ \/ size > LineLimit /\ ~Fits(fs[k + 1])
     \/ ~(size > LineLimit) /\ InHeaders(r, fs[k + 1], 0, Stream(fs, k + 1), rest \o t)

\* A sequence up to its length is the sequence.
LEMMA SubSeqAll == ASSUME NEW C, NEW s \in Seq(C) PROVE SubSeq(s, 1, Len(s)) = s
<1>1. PICK n, u : n = Len(s) /\ u = SubSeq(s, 1, n)
  OBVIOUS
<1>2. n \in Nat /\ \A i \in 1..n : s[i] \in C
  BY <1>1, LenProperties, ElementOfSeq
<1>3. u \in Seq(C) /\ Len(u) = n /\ \A i \in 1..n : u[i] = s[i]
  BY <1>1, <1>2, SubSeqProperties
<1> QED
  BY <1>1, <1>3, SeqEqual

\* strip does nothing to the front of a string that begins with another character.
LEMMA StripStartKept ==
  ASSUME NEW C, NEW v \in Seq(C), NEW chars, v # <<>>, v[1] \notin chars
  PROVE  StripStart(v, chars) = v
<1>1. Len(v) \in Nat \ {0}
  BY EmptySeq
<1>2. PICK S : S = {i \in 1..Len(v) : v[i] \notin chars} \cup {Len(v) + 1}
  OBVIOUS
<1>3. S \in SUBSET Nat /\ 1 \in S /\ \A y \in S : 1 <= y
  BY <1>1, <1>2
<1>4. Min(S) = 1
  BY <1>3, MinIs
<1>5. StripStart(v, chars) = SubSeq(v, 1, Len(v))
  BY <1>2, <1>4 DEF StripStart
<1> QED
  BY <1>5, SubSeqAll

\* The line of a command is read whole, or the connection ends within it.
LEMMA ReadsCommand ==
  ASSUME NEW fs \in Seq(Frames), NEW k \in 0..Len(fs), NEW s \in Seq(Characters),
         NEW t \in Seq(Characters), s # <<>>, s \o t = Stream(fs, k),
         NEW command, command = StripStart(Line(s).raw, {"\r", "\n"}),
         NEW rest, rest = Line(s).rest, NEW size, size = Line(s).size,
         NEW r, r = [at |-> "headers", total |-> Len(command),
                     frame |-> [Start.frame EXCEPT !.command = command]]
  PROVE  (t # <<>> /\ rest = <<>>) \/ CommandRead(fs, k, size, command, rest, t, r)
<1>0. Len(fs) \in Nat /\ Len(s) \in Nat /\ Len(t) \in Nat
  BY LenProperties
<1>1. k < Len(fs)
  <2>1. SUFFICES ASSUME k = Len(fs) PROVE FALSE
    BY <1>0
  <2>2. s \o t = <<>>
    BY <2>1, StreamFirst
  <2>3. Len(s) + Len(t) = 0
    <3>1. Len(s \o t) = Len(s) + Len(t)
      BY ConcatProperties
    <3> QED
      BY <2>2, <3>1, EmptySeq
  <2>4. Len(s) = 0
    BY <1>0, <2>3
  <2> QED
    BY <2>4, EmptySeq
<1>2. PICK m : m = k + 1
  OBVIOUS
<1>3. m \in 1..Len(fs) /\ m \in 0..Len(fs)
  BY <1>0, <1>1, <1>2
<1>4. PICK f, later : f = fs[m] /\ later = Stream(fs, m)
  OBVIOUS
<1>5. f \in Frames
  BY <1>3, <1>4, ElementOfSeq
<1>6. later \in Seq(Characters)
  BY <1>3, <1>4, StreamFirst
<1>7. PICK w, x : w = f.command /\ x = HeadersLeft(f, 0)
  OBVIOUS
<1>b. PICK a, b : a = Append(w, "\n") /\ b = x \o later
  OBVIOUS
<1>8. /\ w \in Seq(Characters) /\ w # <<>> /\ Len(w) \in Nat \ {0}
      /\ \A i \in 1..Len(w) : w[i] \notin {"\n", "\r"}
  BY <1>5, <1>7, FrameType, EmptySeq
<1>9. w \in Seq(Characters) /\ w # <<>> /\ \A i \in 1..Len(w) : w[i] # "\n"
  BY <1>8
<1>10. x \in Seq(Characters)
  <2>1. Len(HeadersOf(f)) \in Nat
    BY <1>5, ReadLinesOf
  <2>2. 0 \in 0..Len(HeadersOf(f))
    BY <2>1
  <2> QED
    BY <1>5, <1>7, <2>2, HeadersLeftFirst
<1>c. /\ a \in Seq(Characters) /\ b \in Seq(Characters)
      /\ (a \o x) \o later = a \o b
  <2>1. a \in Seq(Characters)
    <3>1. "\n" \in Characters
      BY Marks
    <3> QED
      BY <1>9, <1>b, <3>1, AppendProperties
  <2>2. b \in Seq(Characters)
    BY <1>6, <1>10, <1>b, ConcatProperties
  <2>3. PICK e : e = a \o x
    OBVIOUS
  <2>5. b = x \o later
    BY <1>b
  <2>6. (a \o x) \o later = a \o (x \o later)
    BY <1>6, <1>10, <2>1, Regroup, Zenon
  <2>4. e \o later = a \o b
    BY <2>3, <2>5, <2>6
  <2> QED
    BY <2>1, <2>2, <2>3, <2>4
<1>d. s \o t = (a \o x) \o later
  <2>1. Stream(fs, k) = BuildFrame(fs[k + 1]) \o Stream(fs, k + 1)
    BY <1>1, StreamFirst
  <2>2. BuildFrame(f) = Append(f.command, "\n") \o HeadersLeft(f, 0)
    BY <1>5, BuildIs
  <2> QED
    BY <1>2, <1>4, <1>7, <1>b, <2>1, <2>2
<1>11. b \in Seq(Characters) /\ s \o t = a \o b
  BY <1>c, <1>d
<1>a. w \in Seq(Characters) /\ \A i \in 1..Len(w) : w[i] # "\n"
  BY <1>9
<1>12. Covers(s, t, a, b) \/ (t # <<>> /\ Line(s).rest = <<>>)
  BY <1>a, <1>b, <1>11, NextLine
<1>13. CASE t # <<>> /\ Line(s).rest = <<>>
  BY <1>13
<1>14. CASE Covers(s, t, a, b)
  <2>1. PICK u \in Seq(Characters) : s = Append(w, "\n") \o u /\ u \o t = x \o later
    BY <1>14, <1>b DEF Covers
  <2>2. /\ Line(Append(w, "\n") \o u).raw = StripEnd(w, {"\r"})
        /\ Line(Append(w, "\n") \o u).rest = u
        /\ Line(Append(w, "\n") \o u).size = Len(w)
    BY <1>a, LineOf
  <2>3. w[Len(w)] \notin {"\r"} /\ w[1] \notin {"\r", "\n"}
    <3>1. 1 \in 1..Len(w) /\ Len(w) \in 1..Len(w)
      BY <1>8
    <3>2. w[1] \notin {"\n", "\r"} /\ w[Len(w)] \notin {"\n", "\r"}
      BY <1>8, <3>1
    <3> QED
      BY <3>2
  <2>4. StripEnd(w, {"\r"}) = w /\ StripStart(w, {"\r", "\n"}) = w
    BY <1>9, <2>3, StripEndKept, StripStartKept
  <2>5. command = w /\ rest = u /\ size = Len(w)
    BY <2>1, <2>2, <2>4
  <2>6. CASE size > LineLimit
    <3>1. ~(Len(f.command) <= LineLimit)
      BY <1>7, <1>8, <2>5, <2>6, WireConstantsOK
    <3>2. ~Fits(f)
      BY <1>5, <3>1, FitsIff DEF Short
    <3> QED
      BY <1>1, <1>2, <1>4, <1>9, <2>5, <2>6, <3>2 DEF CommandRead
  <2>7. CASE ~(size > LineLimit)
    <3>1. SubSeq(ReadLines(f), 1, 0) = <<>>
      BY SubSeqEmpty
    <3>2. Len(FlattenSeq(SubSeq(ReadLines(f), 1, 0))) = 0
      BY <3>1, FlattenEmpty, EmptySeq
    <3>3. Dict(Values(f), 0) = <<>>
      BY DictEmpty
    <3>4. r = [at |-> "headers", total |-> Len(w),
               frame |-> [command |-> f.command, headers |-> <<>>, body |-> <<>>]]
      BY <1>7, <2>5 DEF Start
    <3>5. Short(f, 0)
      <4>1. Len(f.command) <= LineLimit
        BY <1>7, <1>8, <2>5, <2>7, WireConstantsOK
      <4> QED
        BY <4>1 DEF Short
    <3>6. Total(f, 0) = Len(w)
      <4>1. Total(f, 0) = Len(w) + 0
        BY <1>7, <3>2 DEF Total
      <4> QED
        BY <1>8, <4>1
    <3>7. InHeaders(r, f, 0, later, u \o t)
      BY <1>7, <2>1, <3>3, <3>4, <3>5, <3>6 DEF InHeaders
    <3> QED
      BY <1>1, <1>2, <1>4, <1>9, <2>5, <2>7, <3>7 DEF CommandRead
  <2> QED
    BY <2>6, <2>7
<1> QED
  BY <1>12, <1>13, <1>14

\* The next line on the wire is read whole, or the connection ends within it.
Whole(s, t, w, a, b) ==
  /\ s = a \o Line(s).rest /\ Line(s).rest \in Seq(Characters)
  /\ Line(s).raw = StripEnd(w, {"\r"}) /\ Line(s).size = Len(w) /\ Line(s).rest \o t = b
Cut(s, t) == t # <<>> /\ Line(s).rest = <<>>

\* The next line is one of these two.
LEMMA LineOnWay ==
  ASSUME NEW s \in Seq(Characters), s # <<>>, NEW t \in Seq(Characters),
         NEW w \in Seq(Characters), \A i \in 1..Len(w) : w[i] # "\n",
         NEW a, a = Append(w, "\n"), NEW x \in Seq(Characters), NEW later \in Seq(Characters),
         s \o t = (a \o x) \o later, NEW b, b = x \o later
  PROVE  Cut(s, t) \/ Whole(s, t, w, a, b)
<1>1. b = x \o later
  OBVIOUS
<1>2. a \in Seq(Characters)
  <2>1. "\n" \in Characters
    BY Marks
  <2> QED
    BY <2>1, AppendProperties
<1>3. b \in Seq(Characters)
  BY <1>1, ConcatProperties
<1>4. s \o t = a \o b
  <2>1. (a \o x) \o later = a \o (x \o later)
    BY <1>2, Regroup, ZenonT(60)
  <2> QED
    BY <1>1, <2>1
<1>5. Covers(s, t, a, b) \/ (t # <<>> /\ Line(s).rest = <<>>)
  BY <1>3, <1>4, NextLine
<1>6. CASE Covers(s, t, a, b)
  <2>1. PICK u \in Seq(Characters) : s = a \o u /\ u \o t = b
    BY <1>6 DEF Covers
  <2>2. /\ Line(Append(w, "\n") \o u).raw = StripEnd(w, {"\r"})
        /\ Line(Append(w, "\n") \o u).rest = u
        /\ Line(Append(w, "\n") \o u).size = Len(w)
    BY LineOf
  <2>3. Line(s).raw = StripEnd(w, {"\r"}) /\ Line(s).rest = u /\ Line(s).size = Len(w)
    BY <2>1, <2>2
  <2> QED
    BY <1>1, <2>1, <2>3 DEF Whole
<1> QED
  BY <1>5, <1>6 DEF Cut

\* Nothing stripped is nothing.
LEMMA StripNothing == \A chars : StripEnd(<<>>, chars) = <<>>
<1>1. SUFFICES ASSUME NEW chars PROVE StripEnd(<<>>, chars) = <<>>
  OBVIOUS
<1>2. {i \in 1..Len(<<>>) : <<>>[i] \notin chars} \cup {0} = {0}
  OBVIOUS
<1>3. PICK S : S = {0}
  OBVIOUS
<1>4. Max(S) = 0
  <2>1. S \in SUBSET Nat /\ 0 \in S /\ \A y \in S : y <= 0
    BY <1>3
  <2> QED
    BY <2>1, MaxIs
<1>5. StripEnd(<<>>, chars) = SubSeq(<<>>, 1, 0)
  BY <1>2, <1>3, <1>4 DEF StripEnd
<1> QED
  BY <1>5, SubSeqEmpty

\* The blank line after the last header.
BlankRead(f, later, s, t) ==
  /\ Line(s).raw = <<>> /\ Line(s).size = 0 /\ Line(s).rest \in Seq(Characters)
  /\ Line(s).rest \o t = BodyLeft(f) \o later

\* It is read as an empty line, or the connection ends before it.
LEMMA ReadsBlank ==
  ASSUME NEW f \in Frames, NEW later \in Seq(Characters), NEW s \in Seq(Characters),
         NEW t \in Seq(Characters), s # <<>>, NEW n, n = Len(HeadersOf(f)),
         s \o t = HeadersLeft(f, n) \o later
  PROVE  Cut(s, t) \/ BlankRead(f, later, s, t)
<1>1. PICK a, w, x : w = <<>> /\ a = Append(w, "\n") /\ x = BodyLeft(f)
  OBVIOUS
<1>2. w \in Seq(Characters) /\ \A i \in 1..Len(w) : w[i] # "\n"
  BY <1>1
<1>3. x \in Seq(Characters)
  BY <1>1, BodyLeftType
<1>4. HeadersLeft(f, n) = a \o x
  <2>1. n \in 0..Len(HeadersOf(f))
    BY ReadLinesOf
  <2>2. HeadersLeft(f, n) = Append(<<>>, "\n") \o BodyLeft(f)
    BY <2>1, HeadersLeftFirst
  <2> QED
    BY <1>1, <2>2
<1>5. s \o t = (a \o x) \o later /\ a = Append(w, "\n")
  BY <1>1, <1>4
<1>b. PICK b : b = x \o later
  OBVIOUS
<1>6. Cut(s, t) \/ Whole(s, t, w, a, b)
  BY <1>2, <1>3, <1>5, <1>b, LineOnWay
<1>7. StripEnd(w, {"\r"}) = <<>> /\ Len(w) = 0
  BY <1>1, StripNothing, EmptySeq
<1> QED
  BY <1>1, <1>b, <1>6, <1>7 DEF Whole, BlankRead

\* The line of a header: what read_frame puts in its dict, and what it counts.
LineRead(f, j, later, s, t) ==
  /\ Line(s).raw # <<>> /\ Line(s).rest \in Seq(Characters)
  /\ Line(s).rest \o t = HeadersLeft(f, j + 1) \o later
  /\ Len(Line(s).raw) \in Nat /\ Len(ReadLines(f)[j + 1]) = Len(Line(s).raw) + 1
  /\ Line(s).size \in Nat /\ Len(Lines(f)[j + 1]) = Line(s).size + 1
  /\ \A d : PutHeader(d, Line(s).raw) = Put(d, Values(f)[j + 1][1], Values(f)[j + 1][2])

\* It is put in the dict, or the connection ends within it.
LEMMA ReadsHeader ==
  ASSUME NEW f \in Frames, NEW later \in Seq(Characters), NEW s \in Seq(Characters),
         NEW t \in Seq(Characters), s # <<>>, NEW j \in 0..Len(HeadersOf(f)),
         j < Len(HeadersOf(f)), s \o t = HeadersLeft(f, j) \o later
  PROVE  Cut(s, t) \/ LineRead(f, j, later, s, t)
<1>1. PICK m : m = j + 1
  OBVIOUS
<1>2. m \in 1..Len(HeadersOf(f)) /\ m \in 0..Len(HeadersOf(f))
  BY <1>1, ReadLinesOf
<1>3. PICK h, g, x : h = HeadersOf(f)[m] /\ g = Values(f)[m] /\ x = HeadersLeft(f, m)
  OBVIOUS
<1>4. /\ h[1] \in Seq(Characters) /\ h[2] \in Seq(Characters)
      /\ g[1] = h[1] /\ g[2] = StripEnd(h[2], {"\r"}) /\ ReadLines(f)[m] = HeaderLine(g)
      /\ Lines(f)[m] = HeaderLine(h)
  BY <1>2, <1>3, ReadLinesOf
<1>5. x \in Seq(Characters)
  BY <1>2, <1>3, HeadersLeftFirst
<1>6. HeadersLeft(f, j) = HeaderLine(h) \o x
  <2>1. HeadersLeft(f, j) = HeaderLine(HeadersOf(f)[j + 1]) \o HeadersLeft(f, j + 1)
    BY HeadersLeftFirst
  <2> QED
    BY <1>1, <1>3, <2>1
<1>7. PICK w, a : w = Append(Escape(h[1]), ":") \o Escape(h[2]) /\ a = HeaderLine(h)
  OBVIOUS
<1>8. a = Append(w, "\n") /\ w \in Seq(Characters) /\ \A i \in 1..Len(w) : w[i] # "\n"
  BY <1>4, <1>7, HeaderLineIs
<1>9. s \o t = (a \o x) \o later
  BY <1>6, <1>7
<1>b. PICK b : b = x \o later
  OBVIOUS
<1>10. Cut(s, t) \/ Whole(s, t, w, a, b)
  BY <1>5, <1>8, <1>9, <1>b, LineOnWay
<1>11. CASE Whole(s, t, w, a, b)
  <2>a. s = a \o Line(s).rest /\ Line(s).rest \in Seq(Characters) /\ Line(s).rest \o t = x \o later
    BY <1>b, <1>11 DEF Whole
  <2>1. PICK rest \in Seq(Characters) : rest = Line(s).rest
    BY <2>a
  <2>2. s = HeaderLine(h) \o rest
    BY <1>7, <2>a, <2>1
  <2>b. /\ h[1] \in Seq(Characters) /\ h[2] \in Seq(Characters)
        /\ g[1] = h[1] /\ g[2] = StripEnd(h[2], {"\r"})
    BY <1>4
  <2>3. HeaderIn(s, g)
    BY <2>b, <2>2, HeaderRead
  <2>4. Line(s).size = Len(w) /\ Len(w) \in Nat /\ Len(a) = Len(w) + 1
    <3>1. "\n" \in Characters
      BY Marks
    <3> QED
      BY <1>8, <1>11, <3>1, AppendProperties, LenProperties DEF Whole
  <2> QED
    BY <1>1, <1>3, <1>4, <1>7, <2>a, <2>3, <2>4 DEF HeaderIn, LineRead
<1> QED
  BY <1>10, <1>11

\* One turn of the loop of read_frame over the headers: the connection ends
\* within the line, or the frame is refused and does not fit, or read_frame
\* goes on to the next line or, at the blank one, to the body.
Refused(f, size, total) == (size > LineLimit \/ total > MaxFrameSize) /\ ~Fits(f)
Goes(f, j, later, text, r, raw, size, total) ==
  /\ ~(size > LineLimit \/ total > MaxFrameSize)
  /\ \/ raw = <<>> /\ InBody([r EXCEPT !.at = "body"], f, later, text)
     \/ /\ raw # <<>> /\ j < Len(HeadersOf(f))
        /\ InHeaders([r EXCEPT !.total = total, !.frame.headers = PutHeader(@, raw)],
                     f, j + 1, later, text)

\* At the blank line all of the headers are counted.
LEMMA BlankStep ==
  ASSUME NEW f \in Frames, NEW later \in Seq(Characters), NEW s \in Seq(Characters),
         NEW t \in Seq(Characters), s # <<>>, NEW j, j = Len(HeadersOf(f)),
         NEW r, InHeaders(r, f, j, later, s \o t),
         NEW raw, raw = Line(s).raw, NEW rest, rest = Line(s).rest,
         NEW size, size = Line(s).size, NEW total, total = r.total + Len(raw) + 1
  PROVE  \/ Cut(s, t)
         \/ /\ rest \in Seq(Characters)
            /\ Refused(f, size, total) \/ Goes(f, j, later, rest \o t, r, raw, size, total)
<1>1. PICK ls : ls = ReadLines(f)
  OBVIOUS
<1>2. /\ r.total = Total(f, j)
      /\ r.frame = [command |-> f.command, headers |-> Dict(Values(f), j), body |-> <<>>]
      /\ Short(f, j)
      /\ s \o t = HeadersLeft(f, j) \o later
      /\ [r EXCEPT !.at = "body"] = [at |-> "body", total |-> r.total, frame |-> r.frame]
  BY <1>1 DEF InHeaders
<1>3. ls \in Seq(Seq(Characters)) /\ Len(ls) = j /\ j \in Nat
  BY <1>1, ReadLinesOf
<1>4. SubSeq(ls, 1, j) = ls
  BY <1>3, SubSeqAll
<1>5. PICK c, x : c = Len(f.command) /\ x = Len(FlattenSeq(ls))
  OBVIOUS
<1>6. c \in Nat /\ x \in Nat
  BY <1>3, <1>5, FrameType, FlattenType, LenProperties
<1>7. Cut(s, t) \/ BlankRead(f, later, s, t)
  <2>1. s \o t = HeadersLeft(f, j) \o later
    BY <1>2
  <2> QED
    BY <2>1, ReadsBlank
<1>8. CASE Cut(s, t)
  BY <1>8
<1>9. CASE BlankRead(f, later, s, t)
  <2>1. /\ raw = <<>> /\ size = 0 /\ rest \in Seq(Characters) /\ rest \o t = BodyLeft(f) \o later
    BY <1>9 DEF BlankRead
  <2>2. Len(raw) = 0
    BY <2>1, EmptySeq
  <2>3. total = c + 1 + x
    <3>1. r.total = c + x
      BY <1>1, <1>2, <1>4, <1>5 DEF Total
    <3> QED
      BY <1>6, <2>2, <3>1
  <2>4. MaxFrameSize \in Nat /\ LineLimit \in Nat
    BY WireConstantsOK
  <2>5. ~(size > LineLimit)
    BY <2>1, <2>4
  <2>6. CASE total > MaxFrameSize
    <3>1. ~(Len(f.command) + 1 + Len(FlattenSeq(ReadLines(f))) <= MaxFrameSize)
      BY <1>1, <1>5, <1>6, <2>3, <2>4, <2>6
    <3>2. ~Fits(f)
      BY <3>1, FitsIff
    <3> QED
      BY <2>1, <2>6, <3>2 DEF Refused
  <2>7. CASE ~(total > MaxFrameSize)
    <3>1. Len(f.command) + 1 + Len(FlattenSeq(ReadLines(f))) <= MaxFrameSize
      BY <1>1, <1>5, <1>6, <2>3, <2>4, <2>7
    <3>2. PICK q : q = [r EXCEPT !.at = "body"]
      OBVIOUS
    <3>3. q.at = "body" /\ q.frame = r.frame
      BY <1>2, <3>2
    <3>4. Short(f, Len(HeadersOf(f)))
      BY <1>2
    <3>5. InBody(q, f, later, rest \o t)
      BY <1>2, <2>1, <3>1, <3>3, <3>4 DEF InBody
    <3> QED
      BY <2>1, <2>5, <2>7, <3>2, <3>5 DEF Goes
  <2> QED
    BY <2>6, <2>7
<1> QED
  BY <1>7, <1>8, <1>9

\* What ReadHeader adds to the total for a line of z characters.
LEMMA LineAdded == \A c, x, z \in Nat : (c + x) + z + 1 = c + (x + (z + 1))
OBVIOUS

\* At a header line, the lines up to it are counted.
LEMMA HeaderStep ==
  ASSUME NEW f \in Frames, NEW later \in Seq(Characters), NEW s \in Seq(Characters),
         NEW t \in Seq(Characters), s # <<>>, NEW j \in 0..Len(HeadersOf(f)), j < Len(HeadersOf(f)),
         NEW r, InHeaders(r, f, j, later, s \o t),
         NEW raw, raw = Line(s).raw, NEW rest, rest = Line(s).rest,
         NEW size, size = Line(s).size, NEW total, total = r.total + Len(raw) + 1
  PROVE  \/ Cut(s, t)
         \/ /\ rest \in Seq(Characters)
            /\ Refused(f, size, total) \/ Goes(f, j, later, rest \o t, r, raw, size, total)
<1>1. PICK ls, vs, n, d : ls = ReadLines(f) /\ vs = Values(f) /\ n = Len(HeadersOf(f)) /\ d = Dict(vs, j)
  OBVIOUS
<1>2. /\ r = [at |-> "headers", total |-> Total(f, j),
              frame |-> [command |-> f.command, headers |-> d, body |-> <<>>]]
      /\ Short(f, j)
      /\ s \o t = HeadersLeft(f, j) \o later
  BY <1>1 DEF InHeaders
<1>3. /\ ls \in Seq(Seq(Characters)) /\ Len(ls) = n /\ n \in Nat /\ j \in 0..n /\ j < n
      /\ \A i \in 1..n : vs[i][1] = HeadersOf(f)[i][1]
  BY <1>1, ReadLinesOf
<1>4. PICK m : m = j + 1
  OBVIOUS
<1>5. m \in 1..n /\ m \in 0..n /\ m - 1 = j
  BY <1>3, <1>4
<1>6. PICK key, value : key = vs[m][1] /\ value = vs[m][2]
  OBVIOUS
<1>7. Cut(s, t) \/ LineRead(f, j, later, s, t)
  <2>1. s \o t = HeadersLeft(f, j) \o later
    BY <1>2
  <2> QED
    BY <2>1, ReadsHeader
<1>8. CASE Cut(s, t)
  BY <1>8
<1>9. CASE LineRead(f, j, later, s, t)
  <2>1. /\ raw # <<>> /\ rest \in Seq(Characters) /\ rest \o t = HeadersLeft(f, m) \o later
        /\ Len(raw) \in Nat /\ Len(ls[m]) = Len(raw) + 1
        /\ size \in Nat /\ Len(Lines(f)[m]) = size + 1
        /\ \A e : PutHeader(e, raw) = Put(e, key, value)
    BY <1>1, <1>4, <1>6, <1>9 DEF LineRead
  <2>a. /\ Len(raw) \in Nat /\ Len(ls[m]) = Len(raw) + 1
        /\ size \in Nat /\ Len(Lines(f)[m]) = size + 1
    BY <2>1
  <2>2. /\ Len(FlattenSeq(SubSeq(ls, 1, m))) = Len(FlattenSeq(SubSeq(ls, 1, j))) + Len(ls[m])
        /\ Len(FlattenSeq(SubSeq(ls, 1, j))) \in Nat
    <3>1. PICK x : x = FlattenSeq(SubSeq(ls, 1, j))
      OBVIOUS
    <3>2. x \in Seq(Characters) /\ ls[m] \in Seq(Characters)
      <4>1. j \in 0..Len(ls) /\ m \in 1..Len(ls)
        BY <1>3, <1>5
      <4>2. FlattenSeq(SubSeq(ls, 1, j)) \in Seq(Characters)
        BY <1>3, <4>1, FlattenParts
      <4> QED
        BY <1>3, <3>1, <4>1, <4>2, ElementOfSeq
    <3>3. FlattenSeq(SubSeq(ls, 1, m)) = x \o ls[m]
      <4>1. j \in 0..Len(ls) /\ j < Len(ls)
        BY <1>3
      <4>2. FlattenSeq(SubSeq(ls, 1, j + 1)) = FlattenSeq(SubSeq(ls, 1, j)) \o ls[j + 1]
        BY <1>3, <4>1, FlattenUpTo
      <4> QED
        BY <1>4, <3>1, <4>2
    <3> QED
      <4>1. PICK y, z : y = ls[m] /\ z = FlattenSeq(SubSeq(ls, 1, m))
        OBVIOUS
      <4>2. y \in Seq(Characters) /\ x \in Seq(Characters) /\ z = x \o y
        BY <3>2, <3>3, <4>1
      <4>3. Len(z) = Len(x) + Len(y) /\ Len(x) \in Nat
        BY <4>2, ConcatProperties, LenProperties
      <4> QED
        BY <3>1, <4>1, <4>3
  <2>3. total = Total(f, m)
    <3>1. PICK c, x, y, z : /\ c = Len(f.command) /\ x = Len(FlattenSeq(SubSeq(ls, 1, j))) /\ z = Len(raw)
                         /\ y = Len(FlattenSeq(SubSeq(ls, 1, m)))
      OBVIOUS
    <3>2. c \in Nat /\ x \in Nat /\ z \in Nat /\ y = x + (z + 1)
      BY <2>a, <2>2, <3>1, FrameType, LenProperties
    <3>3. total = (c + x) + z + 1
      <4>1. r.total = Total(f, j)
        BY <1>2
      <4>2. Total(f, j) = c + x
        BY <1>1, <3>1 DEF Total
      <4> QED
        BY <3>1, <4>1, <4>2
    <3>4. total = c + y
      BY <3>2, <3>3, LineAdded, Zenon
    <3> QED
      BY <1>1, <3>1, <3>4 DEF Total
  <2>4. MaxFrameSize \in Nat /\ LineLimit \in Nat
    BY WireConstantsOK
  <2>5. CASE size > LineLimit \/ total > MaxFrameSize
    <3>1. SUFFICES ASSUME Fits(f) PROVE FALSE
      BY <2>1, <2>5 DEF Refused
    <3>2. /\ Len(FlattenSeq(SubSeq(ls, 1, m))) \in Nat
          /\ Len(f.command) + 1 + Len(FlattenSeq(SubSeq(ls, 1, m))) <= MaxFrameSize
          /\ Len(Lines(f)[m]) - 1 <= LineLimit
      BY <1>1, <1>3, <1>5, <3>1, FitsUpTo DEF Short
    <3>3. PICK c, x : c = Len(f.command) /\ x = Len(FlattenSeq(SubSeq(ls, 1, m)))
      OBVIOUS
    <3>4. c \in Nat /\ x \in Nat /\ c + 1 + x <= MaxFrameSize
      BY <3>2, <3>3, FrameType, LenProperties
    <3>5. total = c + x
      BY <1>1, <2>3, <3>3 DEF Total
    <3>6. ~(total > MaxFrameSize)
      BY <2>4, <3>4, <3>5
    <3>7. ~(size > LineLimit)
      BY <2>a, <2>4, <3>2
    <3> QED
      BY <2>5, <3>6, <3>7
  <2>6. CASE ~(size > LineLimit \/ total > MaxFrameSize)
    <3>1. Put(d, key, value) = Dict(vs, m)
      <4>1. \A i, k \in 1..n : vs[i][1] = vs[k][1] => i = k
        <5>1. \A i, k \in 1..n : HeadersOf(f)[i][1] = HeadersOf(f)[k][1] => i = k
          BY <1>1, FrameHeaders
        <5> QED
          BY <1>3, <5>1
      <4>2. Put(Dict(vs, j), vs[j + 1][1], vs[j + 1][2]) = Dict(vs, j + 1)
        BY <1>3, <4>1, DictPut
      <4> QED
        BY <1>1, <1>4, <1>6, <4>2
    <3>2. PICK q : q = [r EXCEPT !.total = total, !.frame.headers = PutHeader(@, raw)]
      OBVIOUS
    <3>3. q = [at |-> "headers", total |-> total,
               frame |-> [command |-> f.command, headers |-> Dict(vs, m), body |-> <<>>]]
      <4>1. PutHeader(d, raw) = Dict(vs, m)
        BY <2>1, <3>1
      <4> QED
        BY <1>2, <3>2, <4>1
    <3>4. Short(f, m)
      <4>1. SUFFICES ASSUME NEW i \in 1..m PROVE Len(Lines(f)[i]) - 1 <= LineLimit
        BY <1>2 DEF Short
      <4>2. i \in 1..j \/ i = m
        BY <1>3, <1>4
      <4>3. Len(Lines(f)[m]) - 1 <= LineLimit
        BY <2>a, <2>4, <2>6
      <4> QED
        BY <1>2, <4>2, <4>3 DEF Short
    <3>5. InHeaders(q, f, m, later, rest \o t)
      BY <1>1, <2>1, <2>3, <3>3, <3>4 DEF InHeaders
    <3> QED
      BY <1>1, <1>3, <1>4, <2>1, <2>6, <3>2, <3>5 DEF Goes
  <2> QED
    BY <2>5, <2>6
<1> QED
  BY <1>7, <1>8, <1>9

\* The end of read_frame: it returns the frame as it should be read, or gives
\* up on one that does not fit, or that the connection breaks in.
Returns(f, later, s, t, frame, ends) ==
  /\ ends # {} /\ Fits(f)
  /\ [frame EXCEPT !.body = SubSeq(s, 1, Min(ends) - 1)] = AsRead(f)
  /\ SubSeq(s, Min(ends) + 1, Len(s)) \in Seq(Characters)
  /\ SubSeq(s, Min(ends) + 1, Len(s)) \o t = later

\* It returns the frame, unless its body is too large or not all there.
LEMMA BodyStep ==
  ASSUME NEW f \in Frames, Stated(f), NEW later \in Seq(Characters), NEW s \in Seq(Characters),
         NEW t \in Seq(Characters), NEW r, InBody(r, f, later, s \o t),
         NEW ends, ends = BodyEnds(s, r.frame.headers)
  PROVE  \/ ends = {} /\ ((~Fits(f) /\ ~MayEnd(s, r.frame.headers)) \/ t # <<>>)
         \/ Returns(f, later, s, t, r.frame, ends)
<1>1. PICK d : d = Dict(Values(f), Len(HeadersOf(f)))
  OBVIOUS
<1>2. r.frame = [command |-> f.command, headers |-> d, body |-> <<>>]
  BY <1>1 DEF InBody
<1>3. s \o t = BodyLeft(f) \o later
  BY DEF InBody
<1>4. /\ Len(f.command) + 1 + Len(FlattenSeq(ReadLines(f))) <= MaxFrameSize
      /\ Short(f, Len(HeadersOf(f)))
  BY DEF InBody
<1>5. ends = BodyEnds(s, d) /\ r.frame.headers = d
  BY <1>2
<1>6. BodyFound(f, later, s, t, d) \/ BodyMissing(f, s, t, d)
  BY <1>1, <1>3, BodyEndsOf
<1>7. Len(f.body) \in Nat /\ MaxFrameSize \in Nat
  BY FrameType, LenProperties, WireConstantsOK
<1>8. CASE BodyMissing(f, s, t, d)
  <2>1. CASE t # <<>>
    BY <1>5, <1>8, <2>1 DEF BodyMissing
  <2>2. CASE Len(f.body) > MaxFrameSize /\ ~MayEnd(s, d)
    <3>1. ~(Len(f.body) <= MaxFrameSize)
      BY <1>7, <2>2
    <3>2. ~Fits(f)
      BY <3>1, FitsIff
    <3> QED
      BY <1>5, <1>8, <2>2, <3>2 DEF BodyMissing
  <2> QED
    BY <1>8, <2>1, <2>2 DEF BodyMissing
<1>9. CASE BodyFound(f, later, s, t, d)
  <2>1. PICK n : n = Len(f.body)
    OBVIOUS
  <2>2. /\ ends # {} /\ Min(ends) = n + 1 /\ n <= MaxFrameSize /\ SubSeq(s, 1, n) = f.body
        /\ SubSeq(s, n + 2, Len(s)) \in Seq(Characters)
        /\ SubSeq(s, n + 2, Len(s)) \o t = later
    BY <1>5, <1>9, <2>1 DEF BodyFound
  <2>3. n \in Nat
    BY <1>7, <2>1
  <2>4. Min(ends) - 1 = n /\ Min(ends) + 1 = n + 2
    BY <2>2, <2>3
  <2>5. Fits(f)
    BY <1>4, <2>1, <2>2, FitsIff
  <2>6. [r.frame EXCEPT !.body = f.body] = AsRead(f)
    <3>1. AsRead(f) = [command |-> f.command, body |-> f.body, headers |-> d]
      BY <1>1, AsReadIs
    <3> QED
      BY <1>2, <3>1
  <2> QED
    BY <2>2, <2>4, <2>5, <2>6 DEF Returns
<1> QED
  BY <1>6, <1>8, <1>9

\* A frame that is sent comes after all that is on the wire.
LEMMA Sends ==
  ASSUME NEW fs \in Seq(Frames), NEW k \in 0..Len(fs), NEW f \in Frames,
         NEW text \in Seq(Characters), NEW r, Place(r, fs, k, text)
  PROVE  Place(r, Append(fs, f), k, text \o BuildFrame(f))
<1>1. PICK gs, x, n : gs = Append(fs, f) /\ x = BuildFrame(f) /\ n = Len(fs)
  OBVIOUS
<1>2. /\ n \in Nat /\ k \in 0..n /\ x \in Seq(Characters)
      /\ gs \in Seq(Frames) /\ Len(gs) = n + 1 /\ \A i \in 1..n : gs[i] = fs[i]
  <2>1. x \in Seq(Characters)
    BY <1>1, BuildIs
  <2>2. n \in Nat /\ k \in 0..n
    BY <1>1, LenProperties
  <2> QED
    BY <1>1, <2>1, <2>2, AppendProperties
<1>3. CASE r = Start /\ text = Stream(fs, k)
  <2>1. Stream(gs, k) = Stream(fs, k) \o x
    BY <1>1, StreamGrows
  <2> QED
    BY <1>1, <1>3, <2>1 DEF Place
<1>4. ASSUME k < n
      PROVE  /\ gs[k + 1] = fs[k + 1] /\ fs[k + 1] \in Frames /\ k < Len(gs)
             /\ Stream(fs, k + 1) \in Seq(Characters)
             /\ Stream(gs, k + 1) = Stream(fs, k + 1) \o x
  <2>1. PICK m : m = k + 1
    OBVIOUS
  <2>2. m \in 1..n /\ m \in 0..Len(fs)
    BY <1>1, <1>2, <1>4, <2>1
  <2>3. Stream(gs, m) = Stream(fs, m) \o x
    BY <1>1, <2>2, StreamGrows
  <2>4. Stream(fs, m) \in Seq(Characters)
    BY <2>2, StreamFirst
  <2>5. fs[m] \in Frames
    BY <1>1, <2>2, ElementOfSeq
  <2>6. gs[m] = fs[m]
    BY <1>2, <2>2
  <2>7. k < Len(gs)
    BY <1>2, <1>4
  <2> QED
    BY <2>1, <2>3, <2>4, <2>5, <2>6, <2>7
<1>5. CASE k < Len(fs) /\ InBody(r, fs[k + 1], Stream(fs, k + 1), text)
  <2>1. PICK g, later : g = fs[k + 1] /\ later = Stream(fs, k + 1)
    OBVIOUS
  <2>2. later \in Seq(Characters) /\ BodyLeft(g) \in Seq(Characters)
    BY <1>1, <1>4, <1>5, <2>1, BodyLeftType
  <2>3. text = BodyLeft(g) \o later
    BY <1>5, <2>1 DEF InBody
  <2>4. (BodyLeft(g) \o later) \o x = BodyLeft(g) \o (later \o x)
    BY <1>2, <2>2, Regroup, Zenon
  <2>5. InBody(r, g, later \o x, text \o x)
    BY <1>5, <2>1, <2>3, <2>4 DEF InBody
  <2>6. gs[k + 1] = g /\ k < Len(gs) /\ Stream(gs, k + 1) = later \o x
    BY <1>1, <1>4, <1>5, <2>1
  <2> QED
    BY <1>1, <2>5, <2>6 DEF Place
<1>6. CASE /\ k < Len(fs)
           /\ \E j \in 0..Len(HeadersOf(fs[k + 1])) :
                InHeaders(r, fs[k + 1], j, Stream(fs, k + 1), text)
  <2>1. PICK g, later : g = fs[k + 1] /\ later = Stream(fs, k + 1)
    OBVIOUS
  <2>2. PICK j \in 0..Len(HeadersOf(g)) : InHeaders(r, g, j, later, text)
    BY <1>6, <2>1
  <2>3. later \in Seq(Characters) /\ HeadersLeft(g, j) \in Seq(Characters)
    <3>1. later \in Seq(Characters) /\ g \in Frames
      BY <1>1, <1>4, <1>6, <2>1
    <3> QED
      BY <3>1, HeadersLeftFirst
  <2>4. text = HeadersLeft(g, j) \o later
    BY <2>2 DEF InHeaders
  <2>5. (HeadersLeft(g, j) \o later) \o x = HeadersLeft(g, j) \o (later \o x)
    BY <1>2, <2>3, Regroup, Zenon
  <2>6. InHeaders(r, g, j, later \o x, text \o x)
    BY <2>2, <2>4, <2>5 DEF InHeaders
  <2>7. gs[k + 1] = g /\ k < Len(gs) /\ Stream(gs, k + 1) = later \o x
    BY <1>1, <1>4, <1>6, <2>1
  <2> QED
    BY <1>1, <2>6, <2>7 DEF Place
<1> QED
  BY <1>3, <1>5, <1>6 DEF Place

\* A text that begins with a line has a line end.
LEMMA LineAhead ==
  ASSUME NEW w \in Seq(Characters), NEW x \in Seq(Characters), NEW later \in Seq(Characters),
         NEW text, text = (Append(w, "\n") \o x) \o later
  PROVE  text # <<>> /\ "\n" \in Range(text)
<1>1. PICK a, b, n : a = Append(w, "\n") /\ b = a \o x /\ n = Len(w) + 1
  OBVIOUS
<1>2. a \in Seq(Characters) /\ Len(a) = n /\ a[n] = "\n" /\ n \in Nat \ {0}
  BY <1>1, Marks, AppendProperties, LenProperties
<1>3. /\ b \in Seq(Characters) /\ Len(b) = n + Len(x) /\ Len(x) \in Nat /\ Len(later) \in Nat
      /\ \A i \in 1..n + Len(x) : b[i] = IF i <= n THEN a[i] ELSE x[i - n]
  BY <1>1, <1>2, ConcatProperties, LenProperties
<1>4. /\ text \in Seq(Characters) /\ Len(text) = Len(b) + Len(later)
      /\ \A i \in 1..Len(b) + Len(later) : text[i] = IF i <= Len(b) THEN b[i] ELSE later[i - Len(b)]
  BY <1>1, <1>3, ConcatProperties
<1>5. n \in 1..Len(text) /\ text[n] = "\n"
  BY <1>2, <1>3, <1>4
<1>6. DOMAIN text = 1..Len(text)
  BY <1>4, LenProperties
<1>7. "\n" \in Range(text)
  BY <1>5, <1>6 DEF Range
<1>8. text # <<>>
  <2>1. Len(text) # 0
    BY <1>5
  <2> QED
    BY <1>4, <2>1, EmptySeq
<1> QED
  BY <1>7, <1>8

Waits == IF reading.at = "body" THEN ~HasBody ELSE ~HasLine

\* Where read_frame waits on an open connection, all that was sent is read.
LEMMA AllRead ==
  ASSUME sent \in Seq(Frames), \A i \in 1..Len(sent) : Stated(sent[i]), wire \in Seq(Characters),
         NEW k \in 0..Len(sent), Place(reading, sent, k, wire), Waits
  PROVE  k = Len(sent)
<1>1. SUFFICES ASSUME k # Len(sent) PROVE FALSE
  OBVIOUS
<1>2. PICK m, n : m = k + 1 /\ n = Len(sent)
  OBVIOUS
<1>3. n \in Nat /\ k < n /\ m \in 1..n /\ m \in 0..Len(sent)
  BY <1>1, <1>2, LenProperties
<1>4. PICK g, later : g = sent[m] /\ later = Stream(sent, m)
  OBVIOUS
<1>5. g \in Frames /\ later \in Seq(Characters) /\ Stated(g)
  BY <1>2, <1>3, <1>4, ElementOfSeq, StreamFirst
<1>6. ASSUME NEW w \in Seq(Characters), NEW x \in Seq(Characters), reading.at # "body",
             wire = (Append(w, "\n") \o x) \o later
      PROVE  FALSE
  <2>1. wire # <<>> /\ "\n" \in Range(wire)
    BY <1>5, <1>6, LineAhead
  <2> QED
    BY <1>6, <2>1 DEF Waits, HasLine
<1>7. CASE reading = Start /\ wire = Stream(sent, k)
  <2>1. wire = BuildFrame(g) \o later
    BY <1>2, <1>3, <1>4, <1>7, StreamFirst
  <2>2. BuildFrame(g) = Append(g.command, "\n") \o HeadersLeft(g, 0)
    BY <1>5, BuildIs
  <2>3. g.command \in Seq(Characters) /\ HeadersLeft(g, 0) \in Seq(Characters)
    <3>1. 0 \in 0..Len(HeadersOf(g))
      BY <1>5, ReadLinesOf
    <3> QED
      BY <1>5, <3>1, FrameType, HeadersLeftFirst
  <2>4. reading.at # "body"
    BY <1>7 DEF Start
  <2> QED
    BY <1>6, <2>1, <2>2, <2>3, <2>4
<1>8. CASE \E j \in 0..Len(HeadersOf(g)) : InHeaders(reading, g, j, later, wire)
  <2>1. PICK j \in 0..Len(HeadersOf(g)) : InHeaders(reading, g, j, later, wire)
    BY <1>8
  <2>2. reading.at # "body" /\ wire = HeadersLeft(g, j) \o later
    BY <2>1 DEF InHeaders
  <2>3. CASE j = Len(HeadersOf(g))
    <3>1. HeadersLeft(g, j) = Append(<<>>, "\n") \o BodyLeft(g)
      BY <1>5, <2>3, HeadersLeftFirst
    <3>2. <<>> \in Seq(Characters) /\ BodyLeft(g) \in Seq(Characters)
      BY <1>5, BodyLeftType, EmptySeq
    <3> QED
      BY <1>6, <2>2, <3>1, <3>2
  <2>4. CASE j < Len(HeadersOf(g))
    <3>1. PICK i : i = j + 1
      OBVIOUS
    <3>2. i \in 1..Len(HeadersOf(g)) /\ i \in 0..Len(HeadersOf(g))
      BY <1>5, <2>4, <3>1, ReadLinesOf
    <3>3. HeadersLeft(g, j) = HeaderLine(HeadersOf(g)[i]) \o HeadersLeft(g, i)
      BY <1>5, <2>4, <3>1, HeadersLeftFirst
    <3>4. HeadersLeft(g, i) \in Seq(Characters)
      BY <1>5, <3>2, HeadersLeftFirst
    <3>5. PICK h : h = HeadersOf(g)[i]
      OBVIOUS
    <3>6. h[1] \in Seq(Characters) /\ h[2] \in Seq(Characters)
      BY <1>5, <3>2, <3>5, ReadLinesOf
    <3>7. PICK w : w = Append(Escape(h[1]), ":") \o Escape(h[2])
      OBVIOUS
    <3>8. HeaderLine(h) = Append(w, "\n") /\ w \in Seq(Characters)
      BY <3>6, <3>7, HeaderLineIs
    <3> QED
      BY <1>6, <2>2, <3>3, <3>4, <3>5, <3>8
  <2>5. j = Len(HeadersOf(g)) \/ j < Len(HeadersOf(g))
    BY <1>5, ReadLinesOf
  <2> QED
    BY <2>3, <2>4, <2>5
<1>9. CASE InBody(reading, g, later, wire)
  <2>1. PICK t \in Seq(Characters) : t = <<>>
    BY EmptySeq
  <2>2. wire \o t = wire
    BY <2>1, ConcatEmptySeq
  <2>3. InBody(reading, g, later, wire \o t)
    BY <1>9, <2>2
  <2>4. PICK ends : ends = BodyEnds(wire, reading.frame.headers)
    OBVIOUS
  <2>5. \/ ends = {} /\ ((~Fits(g) /\ ~MayEnd(wire, reading.frame.headers)) \/ t # <<>>)
        \/ Returns(g, later, wire, t, reading.frame, ends)
    BY <1>5, <2>3, <2>4, BodyStep
  <2>6. HasBody
    BY <2>1, <2>4, <2>5 DEF HasBody, Returns
  <2>7. reading.at = "body"
    BY <1>9 DEF InBody
  <2> QED
    BY <2>6, <2>7 DEF Waits
<1> QED
  BY <1>2, <1>3, <1>4, <1>7, <1>8, <1>9 DEF Place
-----------------------------------------------------------------------------
\* While the connection lives, what is on the wire begins what comes next: it
\* is all of it when the connection is open, and t is lost when it is broken.
Moving(c, s, r, fs, k) ==
  \/ c = "broken" /\ s = <<>>
  \/ \E t \in Seq(Characters) : (c = "open" => t = <<>>) /\ Place(r, fs, k, s \o t)

AsReads == {AsRead(f) : f \in Frames}

\* While every length that a caller names is right.
Carried ==
  /\ sent \in Seq(Frames) /\ got \in Seq(AsReads) /\ wire \in Seq(Characters)
  /\ conn \in {"open", "broken", "refused", "ended"}
  /\ Len(got) <= Len(sent)
  /\ \A i \in 1..Len(got) : got[i] = AsRead(sent[i]) /\ Fits(sent[i])
  /\ conn = "refused" => Len(got) < Len(sent) /\ ~Fits(sent[Len(got) + 1])
  /\ conn \in {"open", "broken"} => Moving(conn, wire, reading, sent, Len(got))

\* Nothing is sent or read, and read_frame waits for a command.
LEMMA WireStarts == WireInit => Carried
<1>1. SUFFICES ASSUME WireInit PROVE Carried
  OBVIOUS
<1>2. PICK e : e = <<>>
  OBVIOUS
<1>3. /\ wire = e /\ sent = e /\ got = e /\ conn = "open" /\ reading = Start
      /\ e \in Seq(Characters) /\ e \in Seq(Frames) /\ e \in Seq(AsReads) /\ Len(e) = 0
  BY <1>1, <1>2, EmptySeq DEF WireInit
<1>4. e \o e = Stream(e, 0)
  <2>1. 0 \in 0..Len(e) /\ 0 = Len(e) /\ e \in Seq(Frames)
    BY <1>3
  <2>2. Stream(e, 0) = <<>>
    BY <2>1, StreamFirst
  <2> QED
    BY <1>2, <2>2, ConcatEmptySeq
<1>5. Moving(conn, wire, reading, sent, Len(got))
  BY <1>2, <1>3, <1>4 DEF Moving, Place
<1> QED
  BY <1>3, <1>5 DEF Carried

\* read_frame goes on.
LEMMA MovesOn ==
  ASSUME Carried, conn \in {"open", "broken"}, UNCHANGED <<conn, sent, got>>,
         wire' \in Seq(Characters), Moving(conn, wire', reading', sent, Len(got))
  PROVE  Carried'
BY DEF Carried

\* read_frame gives up, on an open connection because of the frame.
LEMMA GivesUp ==
  ASSUME Carried, conn \in {"open", "broken"}, GiveUp,
         conn = "open" => Len(got) < Len(sent) /\ ~Fits(sent[Len(got) + 1])
  PROVE  Carried'
BY DEF Carried, GiveUp

\* The types of the sequences, and no more frames are read than were sent.
LEMMA Counts ==
  ASSUME Carried
  PROVE  /\ sent \in Seq(Frames) /\ wire \in Seq(Characters)
         /\ Len(got) \in 0..Len(sent) /\ Len(sent) \in Nat /\ Len(got) \in Nat
<1>1. sent \in Seq(Frames) /\ got \in Seq(AsReads) /\ wire \in Seq(Characters) /\ Len(got) <= Len(sent)
  BY DEF Carried
<1>2. Len(got) \in Nat /\ Len(sent) \in Nat
  BY <1>1, LenProperties
<1> QED
  BY <1>1, <1>2

\* The frame that is being read, and what comes after it.
LEMMA Next1 ==
  ASSUME Carried, Len(got) < Len(sent)
  PROVE  /\ sent[Len(got) + 1] \in Frames
         /\ Stream(sent, Len(got) + 1) \in Seq(Characters)
<1>1. PICK m : m = Len(got) + 1
  OBVIOUS
<1>2. sent \in Seq(Frames) /\ m \in 1..Len(sent) /\ m \in 0..Len(sent)
  BY <1>1, Counts
<1> QED
  BY <1>1, <1>2, ElementOfSeq, StreamFirst

\* build_frame puts a frame behind what is on the wire.
LEMMA KeptBySend == ASSUME Carried, NEW f \in Frames, Send(f) PROVE Carried'
<1>1. PICK k, x : k = Len(got) /\ x = BuildFrame(f)
  OBVIOUS
<1>2. /\ sent \in Seq(Frames) /\ wire \in Seq(Characters) /\ k \in 0..Len(sent)
      /\ Len(sent) \in Nat /\ k \in Nat
  BY <1>1, Counts
<1>3. /\ conn = "open" /\ conn' = conn /\ wire' = wire \o x /\ sent' = Append(sent, f)
      /\ got' = got /\ reading' = reading
  BY <1>1 DEF Send
<1>4. x \in Seq(Characters)
  BY <1>1, BuildIs
<1>5. /\ sent' \in Seq(Frames) /\ Len(sent') = Len(sent) + 1
      /\ \A i \in 1..Len(sent) : sent'[i] = sent[i]
  BY <1>2, <1>3, AppendProperties
<1>6. wire' \in Seq(Characters)
  BY <1>2, <1>3, <1>4, ConcatProperties
<1>7. Place(reading, sent, k, wire)
  <2>1. PICK t \in Seq(Characters) : t = <<>> /\ Place(reading, sent, k, wire \o t)
    BY <1>1, <1>3 DEF Carried, Moving
  <2>2. wire \o t = wire
    BY <1>2, <2>1, ConcatEmptySeq
  <2> QED
    BY <2>1, <2>2
<1>8. Place(reading, Append(sent, f), k, wire \o BuildFrame(f))
  BY <1>2, <1>7, Sends
<1>9. Place(reading', sent', k, wire' \o <<>>)
  <2>1. wire' \o <<>> = wire'
    BY <1>6, ConcatEmptySeq
  <2> QED
    BY <1>1, <1>3, <1>8, <2>1
<1>10. Moving(conn', wire', reading', sent', Len(got'))
  <2>1. <<>> \in Seq(Characters)
    BY EmptySeq
  <2> QED
    BY <1>1, <1>3, <1>9, <2>1 DEF Moving
<1>11. \A i \in 1..Len(got) : got[i] = AsRead(sent'[i]) /\ Fits(sent'[i])
  <2>1. TAKE i \in 1..Len(got)
  <2>2. got[i] = AsRead(sent[i]) /\ Fits(sent[i])
    BY DEF Carried
  <2>3. i \in 1..Len(sent)
    BY <1>1, <1>2
  <2> QED
    BY <1>5, <2>2, <2>3
<1>12. Len(got') <= Len(sent')
  BY <1>1, <1>2, <1>3, <1>5
<1>13. got' \in Seq(AsReads) /\ conn' = "open"
  BY <1>3 DEF Carried
<1> QED
  BY <1>3, <1>5, <1>6, <1>10, <1>11, <1>12, <1>13 DEF Carried

\* A break leaves a beginning of what was on the wire.
LEMMA KeptByBreak == ASSUME Carried, Break PROVE Carried'
<1>1. PICK k : k = Len(got)
  OBVIOUS
<1>2. sent \in Seq(Frames) /\ wire \in Seq(Characters)
  BY Counts
<1>3. PICK n \in 0..Len(wire) : wire' = SubSeq(wire, 1, n)
  BY DEF Break
<1>4. conn = "open" /\ conn' = "broken" /\ UNCHANGED <<sent, got, reading>>
  BY DEF Break
<1>5. PICK lost : lost = SubSeq(wire, n + 1, Len(wire))
  OBVIOUS
<1>6. wire' \in Seq(Characters) /\ lost \in Seq(Characters) /\ wire = wire' \o lost
  BY <1>2, <1>3, <1>5, Halves
<1>7. Place(reading, sent, k, wire)
  <2>1. PICK t \in Seq(Characters) : t = <<>> /\ Place(reading, sent, k, wire \o t)
    BY <1>1, <1>4 DEF Carried, Moving
  <2>2. wire \o t = wire
    BY <1>2, <2>1, ConcatEmptySeq
  <2> QED
    BY <2>1, <2>2
<1>8. Place(reading, sent, k, wire' \o lost)
  BY <1>6, <1>7
<1>9. Moving(conn', wire', reading', sent', Len(got'))
  BY <1>1, <1>4, <1>6, <1>8 DEF Moving
<1> QED
  BY <1>4, <1>6, <1>9 DEF Carried

\* Between frames only the line of a command comes next.
LEMMA KeptByCommand == ASSUME Carried, ReadCommand PROVE Carried'
<1>1. PICK k, size, command, rest :
        /\ k = Len(got) /\ size = Line(wire).size /\ rest = Line(wire).rest
        /\ command = StripStart(Line(wire).raw, {"\r", "\n"})
  OBVIOUS
<1>2. /\ sent \in Seq(Frames) /\ wire \in Seq(Characters) /\ k \in 0..Len(sent)
  BY <1>1, Counts
<1>3. /\ conn \in {"open", "broken"} /\ reading.at = "command" /\ wire # <<>>
      /\ IF size > LineLimit THEN GiveUp
         ELSE /\ wire' = rest /\ UNCHANGED <<conn, sent, got>>
              /\ reading' = IF command = <<>> THEN reading
                            ELSE [at |-> "headers", total |-> Len(command),
                                  frame |-> [Start.frame EXCEPT !.command = command]]
  BY <1>1 DEF ReadCommand, Reading, HasLine
<1>4. PICK t \in Seq(Characters) : (conn = "open" => t = <<>>) /\ Place(reading, sent, k, wire \o t)
  BY <1>1, <1>3 DEF Carried, Moving
<1>5. wire \o t = Stream(sent, k)
  BY <1>3, <1>4 DEF Place, InHeaders, InBody
<1>6. PICK r : r = [at |-> "headers", total |-> Len(command),
                    frame |-> [Start.frame EXCEPT !.command = command]]
  OBVIOUS
<1>7. (t # <<>> /\ rest = <<>>) \/ CommandRead(sent, k, size, command, rest, t, r)
  BY <1>1, <1>2, <1>3, <1>5, <1>6, ReadsCommand
<1>8. CASE size > LineLimit
  <2>1. conn = "open" => k < Len(sent) /\ ~Fits(sent[k + 1])
    BY <1>4, <1>7, <1>8 DEF CommandRead
  <2> QED
    BY <1>1, <1>3, <1>8, <2>1, GivesUp
<1>9. CASE ~(size > LineLimit)
  <2>1. /\ wire' = rest /\ UNCHANGED <<conn, sent, got>>
        /\ reading' = IF command = <<>> THEN reading ELSE r
    BY <1>3, <1>6, <1>9
  <2>2. CASE t # <<>> /\ rest = <<>>
    <3>1. rest \in Seq(Characters) /\ Moving(conn, rest, reading', sent, k)
      BY <1>3, <1>4, <2>2, EmptySeq DEF Moving
    <3> QED
      BY <1>1, <1>3, <2>1, <3>1, MovesOn
  <2>3. CASE CommandRead(sent, k, size, command, rest, t, r)
    <3>1. /\ k < Len(sent) /\ command # <<>> /\ rest \in Seq(Characters)
          /\ InHeaders(r, sent[k + 1], 0, Stream(sent, k + 1), rest \o t)
      BY <1>9, <2>3 DEF CommandRead
    <3>2. 0 \in 0..Len(HeadersOf(sent[k + 1]))
      <4>1. sent[k + 1] \in Frames
        BY <1>1, <3>1, Next1
      <4> QED
        BY <4>1, ReadLinesOf
    <3>3. Place(r, sent, k, rest \o t)
      BY <3>1, <3>2 DEF Place
    <3>4. Moving(conn, rest, reading', sent, k)
      BY <1>4, <2>1, <3>1, <3>3 DEF Moving
    <3> QED
      BY <1>1, <1>3, <2>1, <3>1, <3>4, MovesOn
  <2> QED
    BY <1>7, <2>2, <2>3
<1> QED
  BY <1>8, <1>9

\* What a turn of the loop over the headers does to the invariant.
LEMMA KeptByHeader == ASSUME Carried, ReadHeader PROVE Carried'
<1>1. PICK k, raw, rest, size, total :
        /\ k = Len(got) /\ raw = Line(wire).raw /\ rest = Line(wire).rest /\ size = Line(wire).size
        /\ total = reading.total + Len(raw) + 1
  OBVIOUS
<1>2. /\ sent \in Seq(Frames) /\ wire \in Seq(Characters) /\ k \in 0..Len(sent)
  BY <1>1, Counts
<1>3. /\ conn \in {"open", "broken"} /\ reading.at = "headers" /\ wire # <<>>
  BY DEF ReadHeader, Reading, HasLine
<1>5. IF size > LineLimit \/ total > MaxFrameSize THEN GiveUp
      ELSE /\ wire' = rest /\ UNCHANGED <<conn, sent, got>>
           /\ reading' = IF raw = <<>> THEN [reading EXCEPT !.at = "body"]
                         ELSE [reading EXCEPT !.total = total, !.frame.headers = PutHeader(@, raw)]
  BY <1>1 DEF ReadHeader
<1>6. PICK t \in Seq(Characters) : (conn = "open" => t = <<>>) /\ Place(reading, sent, k, wire \o t)
  BY <1>1, <1>3 DEF Carried, Moving
<1>7. PICK f, later : f = sent[k + 1] /\ later = Stream(sent, k + 1)
  OBVIOUS
<1>8. k < Len(sent) /\ \E j \in 0..Len(HeadersOf(f)) : InHeaders(reading, f, j, later, wire \o t)
  BY <1>3, <1>6, <1>7 DEF Place, InBody, Start
<1>9. PICK j \in 0..Len(HeadersOf(f)) : InHeaders(reading, f, j, later, wire \o t)
  BY <1>8
<1>10. f \in Frames /\ later \in Seq(Characters)
  BY <1>1, <1>7, <1>8, Next1
<1>11. \/ Cut(wire, t)
       \/ /\ rest \in Seq(Characters)
          /\ Refused(f, size, total) \/ Goes(f, j, later, rest \o t, reading, raw, size, total)
  <2>1. CASE j = Len(HeadersOf(f))
    BY <1>1, <1>2, <1>3, <1>9, <1>10, <2>1, BlankStep
  <2>2. CASE j < Len(HeadersOf(f))
    BY <1>1, <1>2, <1>3, <1>9, <1>10, <2>2, HeaderStep
  <2>3. j = Len(HeadersOf(f)) \/ j < Len(HeadersOf(f))
    BY <1>10, ReadLinesOf
  <2> QED
    BY <2>1, <2>2, <2>3
<1>12. CASE size > LineLimit \/ total > MaxFrameSize
  <2>1. GiveUp
    BY <1>5, <1>12
  <2>2. conn = "open" => Refused(f, size, total)
    BY <1>6, <1>11, <1>12 DEF Cut, Goes
  <2>3. conn = "open" => Len(got) < Len(sent) /\ ~Fits(sent[Len(got) + 1])
    BY <1>1, <1>7, <1>8, <2>2 DEF Refused
  <2> QED
    BY <1>3, <2>1, <2>3, GivesUp
<1>13. CASE ~(size > LineLimit \/ total > MaxFrameSize)
  <2>1. /\ wire' = rest /\ UNCHANGED <<conn, sent, got>>
        /\ reading' = IF raw = <<>> THEN [reading EXCEPT !.at = "body"]
                      ELSE [reading EXCEPT !.total = total, !.frame.headers = PutHeader(@, raw)]
    BY <1>5, <1>13
  <2>2. rest \in Seq(Characters) /\ Moving(conn, rest, reading', sent, k)
    <3>1. CASE Cut(wire, t)
      BY <1>1, <1>3, <1>6, <3>1, EmptySeq DEF Moving, Cut
    <3>2. CASE rest \in Seq(Characters) /\ Goes(f, j, later, rest \o t, reading, raw, size, total)
      <4>1. Place(reading', sent, k, rest \o t)
        <5>1. CASE raw = <<>> /\ InBody([reading EXCEPT !.at = "body"], f, later, rest \o t)
          BY <1>7, <1>8, <2>1, <5>1 DEF Place
        <5>2. CASE /\ raw # <<>> /\ j < Len(HeadersOf(f))
                   /\ InHeaders([reading EXCEPT !.total = total, !.frame.headers = PutHeader(@, raw)],
                                f, j + 1, later, rest \o t)
          <6>1. j + 1 \in 0..Len(HeadersOf(f))
            BY <1>10, <5>2, ReadLinesOf
          <6> QED
            BY <1>7, <1>8, <2>1, <5>2, <6>1 DEF Place
        <5> QED
          BY <3>2, <5>1, <5>2 DEF Goes
      <4> QED
        BY <1>6, <3>2, <4>1 DEF Moving
    <3> QED
      BY <1>11, <1>13, <3>1, <3>2 DEF Refused
  <2> QED
    BY <1>1, <1>3, <2>1, <2>2, MovesOn
<1> QED
  BY <1>12, <1>13

\* A frame is returned only as a whole, and as it should be read.
LEMMA KeptByBody ==
  ASSUME Carried, \A i \in 1..Len(sent) : Stated(sent[i]), ReadBody PROVE Carried'
<1>1. PICK k, ends : k = Len(got) /\ ends = BodyEnds(wire, reading.frame.headers)
  OBVIOUS
<1>2. /\ sent \in Seq(Frames) /\ wire \in Seq(Characters) /\ k \in 0..Len(sent)
      /\ k \in Nat /\ Len(sent) \in Nat
  BY <1>1, Counts
<1>3. /\ conn \in {"open", "broken"} /\ reading.at = "body"
  BY DEF ReadBody, Reading
<1>4. IF ends = {} THEN GiveUp
      ELSE /\ got' = Append(got, [reading.frame EXCEPT !.body = SubSeq(wire, 1, Min(ends) - 1)])
           /\ wire' = SubSeq(wire, Min(ends) + 1, Len(wire))
           /\ reading' = Start /\ UNCHANGED <<conn, sent>>
  BY <1>1 DEF ReadBody
<1>5. CASE conn = "broken" /\ wire = <<>>
  <2>1. ends = {}
    BY <1>1, <1>5, NoBodyEnds
  <2> QED
    BY <1>3, <1>4, <1>5, <2>1, GivesUp
<1>6. CASE ~(conn = "broken" /\ wire = <<>>)
  <2>1. PICK t \in Seq(Characters) : (conn = "open" => t = <<>>) /\ Place(reading, sent, k, wire \o t)
    BY <1>1, <1>3, <1>6 DEF Carried, Moving
  <2>2. PICK f, later : f = sent[k + 1] /\ later = Stream(sent, k + 1)
    OBVIOUS
  <2>3. k < Len(sent) /\ InBody(reading, f, later, wire \o t)
    BY <1>3, <2>1, <2>2 DEF Place, InHeaders, Start
  <2>4. f \in Frames /\ later \in Seq(Characters) /\ Stated(f)
    BY <1>1, <1>2, <2>2, <2>3, Next1
  <2>5. \/ ends = {} /\ ((~Fits(f) /\ ~MayEnd(wire, reading.frame.headers)) \/ t # <<>>)
        \/ Returns(f, later, wire, t, reading.frame, ends)
    BY <1>1, <1>2, <2>3, <2>4, BodyStep
  <2>6. CASE ends = {} /\ (~Fits(f) \/ t # <<>>)
    <3>1. conn = "open" => Len(got) < Len(sent) /\ ~Fits(sent[Len(got) + 1])
      BY <1>1, <2>1, <2>2, <2>3, <2>6
    <3> QED
      BY <1>3, <1>4, <2>6, <3>1, GivesUp
  <2>7. CASE Returns(f, later, wire, t, reading.frame, ends)
    <3>1. /\ got' = Append(got, AsRead(f)) /\ Fits(f)
          /\ wire' \in Seq(Characters) /\ wire' \o t = later
          /\ reading' = Start /\ UNCHANGED <<conn, sent>>
      BY <1>4, <2>7 DEF Returns
    <3>2. /\ got' \in Seq(AsReads) /\ Len(got') = k + 1 /\ got'[k + 1] = AsRead(f)
          /\ \A i \in 1..k : got'[i] = got[i]
      <4>1. got \in Seq(AsReads)
        BY DEF Carried
      <4>2. AsRead(f) \in AsReads
        BY <2>4 DEF AsReads
      <4> QED
        BY <1>1, <3>1, <4>1, <4>2, AppendProperties
    <3>3. \A i \in 1..k + 1 : got'[i] = AsRead(sent[i]) /\ Fits(sent[i])
      <4>1. TAKE i \in 1..k + 1
      <4>2. CASE i = k + 1
        BY <2>2, <3>1, <3>2, <4>2
      <4>3. CASE i \in 1..k
        BY <1>1, <3>2, <4>3 DEF Carried
      <4>4. i = k + 1 \/ i \in 1..k
        BY <1>2
      <4> QED
        BY <4>2, <4>3, <4>4
    <3>4. Place(reading', sent, k + 1, wire' \o t)
      BY <2>2, <3>1 DEF Place
    <3>5. Moving(conn', wire', reading', sent', Len(got'))
      BY <2>1, <3>1, <3>2, <3>4 DEF Moving
    <3>6. Len(got') <= Len(sent')
      BY <1>2, <2>3, <3>1, <3>2
    <3>7. sent' \in Seq(Frames) /\ conn' \in {"open", "broken"}
      BY <1>2, <1>3, <3>1
    <3>8. \A i \in 1..Len(got') : got'[i] = AsRead(sent'[i]) /\ Fits(sent'[i])
      BY <3>1, <3>2, <3>3
    <3> QED
      BY <3>1, <3>2, <3>5, <3>6, <3>7, <3>8 DEF Carried
  <2> QED
    BY <2>5, <2>6, <2>7
<1> QED
  BY <1>5, <1>6

\* At the end of a broken connection nothing is refused.
LEMMA KeptAtEnd == ASSUME Carried, EndOfStream PROVE Carried'
BY GivesUp DEF EndOfStream

AllStated == \A i \in 1..Len(sent) : Stated(sent[i])
WireOK == sent \in Seq(Frames) /\ (AllStated => Carried)

\* Each action keeps the invariant.
LEMMA WireKept == ASSUME WireOK, [WireNext]_wireVars PROVE WireOK'
<1>1. PICK n : n = Len(sent)
  OBVIOUS
<1>2. sent \in Seq(Frames) /\ n \in Nat
  BY <1>1, LenProperties DEF WireOK
<1>3. CASE \E f \in Frames : Send(f)
  <2>1. PICK f \in Frames : Send(f)
    BY <1>3
  <2>2. sent' = Append(sent, f)
    BY <2>1 DEF Send
  <2>3. sent' \in Seq(Frames) /\ Len(sent') = n + 1 /\ \A i \in 1..n : sent'[i] = sent[i]
    BY <1>1, <1>2, <2>2, AppendProperties
  <2>4. AllStated' => AllStated
    <3>1. \A i \in 1..n : i \in 1..n + 1
      BY <1>2
    <3> QED
      BY <1>1, <2>3, <3>1 DEF AllStated
  <2> QED
    BY <2>1, <2>3, <2>4, KeptBySend DEF WireOK
<1>4. CASE ~\E f \in Frames : Send(f)
  <2>1. UNCHANGED sent
    BY <1>4 DEF WireNext, wireVars, Break, ReadCommand, ReadHeader, ReadBody, EndOfStream, GiveUp
  <2>2. AllStated' <=> AllStated
    BY <2>1 DEF AllStated
  <2>3. SUFFICES ASSUME AllStated, Carried PROVE Carried'
    BY <1>2, <2>1, <2>2 DEF WireOK
  <2>4. CASE Break
    BY <2>3, <2>4, KeptByBreak
  <2>5. CASE ReadCommand
    BY <2>3, <2>5, KeptByCommand
  <2>6. CASE ReadHeader
    BY <2>3, <2>6, KeptByHeader
  <2>7. CASE ReadBody
    BY <2>3, <2>7, KeptByBody DEF AllStated
  <2>8. CASE EndOfStream
    BY <2>3, <2>8, KeptAtEnd
  <2>9. CASE UNCHANGED wireVars
    BY <2>3, <2>9 DEF Carried, wireVars
  <2> QED
    BY <1>4, <2>4, <2>5, <2>6, <2>7, <2>8, <2>9 DEF WireNext
<1> QED
  BY <1>3, <1>4

\* The frames on a connection keep their order and contents at any time.
THEOREM Transported == WireSpec => []WireOK
<1>1. WireInit => WireOK
  BY WireStarts DEF WireOK, Carried
<1>2. WireOK /\ [WireNext]_wireVars => WireOK'
  BY WireKept
<1> QED
  BY <1>1, <1>2, PTL DEF WireSpec

\* The invariant is at least what is asked for.
LEMMA WireSurvives == WireOK => FramesSurvive
<1>0. SUFFICES ASSUME WireOK, \A i \in DOMAIN sent : Stated(sent[i]) PROVE FramesSurvive
  BY DEF FramesSurvive
<1>1. Carried /\ AllStated
  <2>1. DOMAIN sent = 1..Len(sent)
    BY <1>0, LenProperties DEF WireOK
  <2> QED
    BY <1>0, <2>1 DEF WireOK, AllStated
<1>2. /\ sent \in Seq(Frames) /\ Len(got) \in 0..Len(sent) /\ Len(sent) \in Nat /\ Len(got) \in Nat
      /\ got \in Seq(AsReads) /\ DOMAIN sent = 1..Len(sent) /\ DOMAIN got = 1..Len(got)
  BY <1>1, Counts, LenProperties DEF Carried
<1>3. PICK n, all : n = Len(sent) /\ all = [i \in DOMAIN sent |-> AsRead(sent[i])]
  OBVIOUS
<1>4. all \in Seq(AsReads) /\ Len(all) = n /\ \A i \in 1..n : all[i] = AsRead(sent[i])
  <2>1. \A i \in 1..n : AsRead(sent[i]) \in AsReads
    <3>1. \A i \in 1..n : sent[i] \in Frames
      BY <1>2, <1>3, ElementOfSeq
    <3> QED
      BY <3>1 DEF AsReads
  <2>2. all \in [1..n -> AsReads]
    BY <1>2, <1>3, <2>1
  <2> QED
    BY <1>2, <1>3, <2>2
<1>5. IsPrefix(got, all)
  <2>1. \A i \in 1..Len(got) : got[i] = all[i]
    <3>1. TAKE i \in 1..Len(got)
    <3>2. got[i] = AsRead(sent[i])
      BY <1>1 DEF Carried
    <3>3. i \in 1..n
      BY <1>2, <1>3
    <3> QED
      BY <1>4, <3>2, <3>3
  <2> QED
    <3>1. PICK front : front = SubSeq(all, 1, Len(got))
      OBVIOUS
    <3>2. Len(got) \in 0..Len(all) /\ all \in Seq(AsReads)
      BY <1>2, <1>3, <1>4
    <3>3. \A i \in 1..Len(got) : all[i] \in AsReads
      BY <3>2, ElementOfSeq
    <3>4. front \in Seq(AsReads) /\ Len(front) = Len(got) /\ \A i \in 1..Len(got) : front[i] = all[i]
      BY <3>1, <3>2, <3>3, SubSeqProperties
    <3>5. front = got
      BY <1>2, <2>1, <3>4, SeqEqual
    <3> QED
      <4>1. SubSeq(got, 1, Len(got)) = got
        BY <1>2, SubSeqAll
      <4>2. Len(got) <= Len(all)
        BY <1>2, <1>3, <1>4
      <4> QED
        BY <3>1, <3>5, <4>1, <4>2 DEF IsPrefix
<1>6. \A i \in DOMAIN got : Fits(sent[i])
  BY <1>1, <1>2 DEF Carried
<1>7. conn = "open" /\ Waits => Len(got) = Len(sent)
  <2>1. SUFFICES ASSUME conn = "open", Waits PROVE Len(got) = Len(sent)
    OBVIOUS
  <2>2. PICK t \in Seq(Characters) : t = <<>> /\ Place(reading, sent, Len(got), wire \o t)
    BY <1>1, <2>1 DEF Carried, Moving
  <2>3. wire \in Seq(Characters) /\ wire \o t = wire
    BY <1>1, <2>2, ConcatEmptySeq DEF Carried
  <2>4. Place(reading, sent, Len(got), wire)
    BY <2>2, <2>3
  <2> QED
    BY <1>1, <1>2, <2>1, <2>3, <2>4, AllRead DEF AllStated
<1>8. conn = "refused" => Len(got) < Len(sent) /\ ~Fits(sent[Len(got) + 1])
  BY <1>1 DEF Carried
<1> QED
  BY <1>3, <1>5, <1>6, <1>7, <1>8 DEF FramesSurvive, Waits

\* Frames are read in the order they were written in, and as they were written
\* but for carriage returns at the end of a value; only a frame that is too large
\* ends a connection, and none is read of it: as long as no caller misstates the
\* length of a frame without a body.
THEOREM FramesSurviving == WireSpec => []FramesSurvive
BY Transported, WireSurvives, PTL
=============================================================================
