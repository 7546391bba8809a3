---------------------------- MODULE CacheTheorems ----------------------------
(***************************************************************************)
(* TypeOK and Coherent of Cache, for any number of products, requests,     *)
(* flushes, writes and failures.  Coherent is not inductive: it lets any   *)
(* flush that has the product settle it, even one that read an older       *)
(* entry.  Fresh says which copies can still bring row and entry together. *)
(***************************************************************************)
EXTENDS Cache, TLAPS

\* No value is newer than the last write; flushes update rows that exist.
Bounded ==
  /\ \A p \in Products : Exists(p) => db[p] <= writes
  /\ \A p \in Products : cache[p] # Nothing => cache[p].v <= writes
  /\ \A t \in Requests : doing[t].do \in {"Fill", "Store"} => doing[t].v <= writes
  /\ \A f \in Flushers : copy[f] # Nothing => copy[f].v <= writes
  /\ \A f \in Flushers : \A p \in Products :
       rows[f][p] # Nothing => rows[f][p] <= writes /\ Exists(p)

\* Only write-back has dirty keys and flushes, and its PUTs only mark.
Apart ==
  /\ strategy # "write-back" =>
       /\ dirty = {} /\ \A f \in Flushers : ~Flushing(f)
       /\ \A t \in Requests : doing[t].do # "Mark"
  /\ strategy = "write-back" => \A t \in Requests : doing[t].do \notin {"Delete", "Store"}

\* Flush f has, or has updated the row of p with, value x.
Holds(f, p, x) ==
  x # Nothing /\ (x = rows[f][p] \/ (copy[f] # Nothing /\ copy[f].p = p /\ copy[f].v = x))

\* Somebody will bring the entry of p, as it is now, and the row together.
Pending(p) ==
  \/ p \in dirty
  \/ \E t \in Requests : doing[t].do \in {"Delete", "Store", "Mark"} /\ doing[t].p = p
  \/ \E f \in Flushers : p \in keys[f] /\ (copy[f] # Nothing => copy[f].p # p)
  \/ \E f \in Flushers : Holds(f, p, cache[p].v)

\* What requests are about to write is the row; what flushes are about to write
\* lies between the row and the entry.
Fresh(p) ==
  /\ \A t \in Requests :
       doing[t].do \in {"Fill", "Store"} /\ doing[t].p = p => doing[t].v = db[p]
  /\ cache[p] # Nothing => cache[p].v = db[p] \/ Pending(p)
  /\ \A f \in Flushers : \A x \in Value :
       Holds(f, p, x) => db[p] <= x /\ (cache[p] # Nothing => x <= cache[p].v)
  /\ strategy = "write-back" /\ cache[p] # Nothing => db[p] <= cache[p].v

AllFresh == \A p \in Products \ spoiled : Exists(p) => Fresh(p)

Sound == TypeOK /\ Bounded /\ Apart /\ AllFresh
-----------------------------------------------------------------------------
\* The copies of a flush, without the set.
LEMMA FlushCopy ==
  ASSUME NEW f, NEW p, NEW x
  PROVE  x \in FlushCopies(f, p) <=> Holds(f, p, x)
BY DEF FlushCopies, Holds

\* What the types say of a request, a copy and an entry.
LEMMA Parts ==
  ASSUME TypeOK
  PROVE  /\ \A t \in Requests :
              \/ doing[t] = Rest
              \/ doing[t].do \in {"Select", "Delete", "Mark"} /\ doing[t].p \in Products
              \/ doing[t].do \in {"Fill", "Store"} /\ doing[t].p \in Products /\ doing[t].v \in Value
         /\ \A f \in Flushers : copy[f] # Nothing => copy[f].p \in Products /\ copy[f].v \in Value
         /\ \A p \in Products : cache[p] # Nothing => cache[p].v \in Value
BY DEF TypeOK

\* Nothing is cached, dirty or under way at first.
LEMMA Beginning == Init => Sound
<1>1. SUFFICES ASSUME Init PROVE Sound
  OBVIOUS
<1>2. TypeOK
  BY <1>1, CacheConstantsOK DEF Init, TypeOK, Value, Rest
<1>3. Bounded /\ Apart
  BY <1>1, CacheConstantsOK DEF Init, Bounded, Apart, Rest, Exists, Flushing, Given, Updated
<1>4. AllFresh
  BY <1>1, CacheConstantsOK DEF Init, AllFresh, Fresh, Rest, Exists, Holds
<1> QED
  BY <1>2, <1>3, <1>4 DEF Sound
-----------------------------------------------------------------------------
(* Requests. *)

USE DEF flushing, faults, counters

\* GET misses: the request has a row to read and no copy yet.
LEMMA MissStep ==
  ASSUME Sound, NEW t \in Requests, NEW p \in Products, Miss(t, p)
  PROVE  Sound'
<1>1. TypeOK'
  BY DEF Sound, TypeOK, Miss
<1>2. /\ doing'[t] = [do |-> "Select", p |-> p] /\ doing[t] = Rest
      /\ \A u \in Requests \ {t} : doing'[u] = doing[u]
      /\ UNCHANGED <<strategy, db, cache, dirty, keys, copy, rows, writes, spoiled>>
  BY DEF Sound, TypeOK, Miss
<1>3. Bounded' /\ Apart'
  BY <1>2 DEF Sound, Bounded, Apart, Exists, Flushing, Given, Updated
<1>4. AllFresh'
  <2>1. SUFFICES ASSUME NEW q \in Products \ spoiled, Exists(q)
                 PROVE  Fresh(q)'
    BY <1>2 DEF AllFresh, Exists
  <2>2. Fresh(q)
    BY <2>1 DEF Sound, AllFresh
  <2>3. Pending(q) => Pending(q)'
    BY <1>2 DEF Pending, Holds, Rest
  <2> QED
    BY <1>2, <2>2, <2>3 DEF Fresh, Holds
<1> QED
  BY <1>1, <1>3, <1>4 DEF Sound

\* GET reads the row: the copy it keeps is the row, until a PUT commits.
LEMMA SelectStep ==
  ASSUME Sound, NEW t \in Requests, Select(t)
  PROVE  Sound'
<1>1. PICK p \in Products : p = doing[t].p /\ doing[t] # Rest /\ doing[t].do = "Select"
  BY Parts DEF Sound, Select, Does, Rest
<1>2. /\ doing'[t] = IF Exists(p) THEN [do |-> "Fill", p |-> p, v |-> db[p]] ELSE Rest
      /\ \A u \in Requests \ {t} : doing'[u] = doing[u]
      /\ UNCHANGED <<strategy, db, cache, dirty, keys, copy, rows, writes, spoiled>>
  BY <1>1 DEF Sound, TypeOK, Select
<1>3. TypeOK'
  <2>1. doing'[t] \in {Rest} \cup [do : {"Fill", "Store"}, p : Products, v : Value]
    BY <1>1, <1>2 DEF Sound, TypeOK, Exists
  <2> QED
    BY <2>1, <1>2 DEF Sound, TypeOK, Select
<1>4. Bounded' /\ Apart'
  BY <1>1, <1>2 DEF Sound, Bounded, Apart, Exists, Flushing, Given, Updated, Rest
<1>5. AllFresh'
  <2>1. SUFFICES ASSUME NEW q \in Products \ spoiled, Exists(q)
                 PROVE  Fresh(q)'
    BY <1>2 DEF AllFresh, Exists
  <2>2. Fresh(q)
    BY <2>1 DEF Sound, AllFresh
  <2>3. Pending(q) => Pending(q)'
    BY <1>1, <1>2 DEF Pending, Holds
  <2> QED
    BY <1>2, <2>2, <2>3 DEF Fresh, Holds, Rest
<1> QED
  BY <1>3, <1>4, <1>5 DEF Sound

\* GET stores its copy: an entry older than the row is spoiled already, or somebody settles it.
LEMMA FillStep ==
  ASSUME Sound, NEW t \in Requests, Fill(t)
  PROVE  Sound'
<1>1. PICK p \in Products, v \in Value :
         p = doing[t].p /\ v = doing[t].v /\ doing[t] # Rest /\ doing[t].do = "Fill"
  BY Parts DEF Sound, Fill, Does, Rest
<1>2. /\ doing'[t] = Rest /\ cache'[p] = [v |-> v, ttl |-> 120]
      /\ \A u \in Requests \ {t} : doing'[u] = doing[u]
      /\ \A q \in Products \ {p} : cache'[q] = cache[q]
      /\ UNCHANGED <<strategy, db, dirty, keys, copy, rows, writes>>
      /\ spoiled' = IF NewerFlush(p, v) THEN spoiled \cup {p} ELSE spoiled
  BY SMTT(30), <1>1 DEF Sound, TypeOK, Fill, Entry, SpoiledIf
<1>3. TypeOK'
  <2>1. cache' = [cache EXCEPT ![p] = [v |-> v, ttl |-> 120]] /\ 120 \in 0..300
    BY <1>1 DEF Fill, Entry
  <2>2. cache' \in [Products -> [v : Value, ttl : 0..300] \cup {Nothing}]
    BY <1>1, <2>1 DEF Sound, TypeOK
  <2>3. doing' = [doing EXCEPT ![t] = Rest]
    BY DEF Fill
  <2> QED
    BY <1>1, <1>2, <2>2, <2>3 DEF Sound, TypeOK, Fill
<1>4. Bounded' /\ Apart'
  BY <1>1, <1>2 DEF Sound, Bounded, Apart, Exists, Flushing, Given, Updated, Rest
<1>5. AllFresh'
  <2>1. SUFFICES ASSUME NEW q \in Products \ spoiled', Exists(q)
                 PROVE  Fresh(q)'
    BY <1>2 DEF AllFresh, Exists
  <2>2. Fresh(q) /\ q \notin spoiled
    BY <2>1, <1>2 DEF Sound, AllFresh
  <2>3. CASE q = p
    <3>1. v = db[p] /\ db'[p] = db[p]
      BY <1>1, <1>2, <2>2, <2>3 DEF Fresh
    <3>2. \A f \in Flushers : \A x \in Value : Holds(f, p, x) => ~(x > v)
      BY <2>1, <2>3, <1>2, FlushCopy DEF NewerFlush
    <3>3. \A f \in Flushers : \A x \in Value : Holds(f, p, x)' <=> Holds(f, p, x)
      BY <1>2 DEF Holds
    <3>4. cache'[p] # Nothing => cache'[p].v = v
      BY <1>2
    <3>5. \A f \in Flushers : \A x \in Value : Holds(f, p, x) => db[p] <= x /\ x <= v
      BY <3>2, <1>1, <2>2, <2>3 DEF Fresh, Value
    <3>6. v <= v
      BY <1>1 DEF Value
    <3> QED
      BY <1>2, <2>2, <2>3, <3>1, <3>3, <3>4, <3>5, <3>6 DEF Fresh, Rest
  <2>4. CASE q # p
    <3>1. Pending(q) => Pending(q)'
      BY <1>1, <1>2, <2>1, <2>4 DEF Pending, Holds
    <3> QED
      BY <1>2, <2>1, <2>2, <2>4, <3>1 DEF Fresh, Holds, Rest
  <2> QED
    BY <2>3, <2>4
<1> QED
  BY <1>3, <1>4, <1>5 DEF Sound

\* lazy PUT: no entry is left that could differ from the row.
LEMMA DeleteStep ==
  ASSUME Sound, NEW t \in Requests, Delete(t)
  PROVE  Sound'
<1>1. PICK p \in Products : p = doing[t].p /\ doing[t] # Rest /\ doing[t].do = "Delete"
  BY Parts DEF Sound, Delete, Does, Rest
<1>2. /\ doing'[t] = Rest /\ cache'[p] = Nothing
      /\ \A u \in Requests \ {t} : doing'[u] = doing[u]
      /\ \A q \in Products \ {p} : cache'[q] = cache[q]
      /\ UNCHANGED <<strategy, db, dirty, keys, copy, rows, writes, spoiled>>
  BY <1>1 DEF Sound, TypeOK, Delete
<1>3. TypeOK'
  BY <1>1, <1>2 DEF Sound, TypeOK, Delete
<1>4. Bounded' /\ Apart'
  BY <1>1, <1>2 DEF Sound, Bounded, Apart, Exists, Flushing, Given, Updated, Rest
<1>5. AllFresh'
  <2>1. SUFFICES ASSUME NEW q \in Products \ spoiled, Exists(q)
                 PROVE  Fresh(q)'
    BY <1>2 DEF AllFresh, Exists
  <2>2. Fresh(q)
    BY <2>1 DEF Sound, AllFresh
  <2>3. q # p /\ Pending(q) => Pending(q)'
    BY <1>1, <1>2, <2>1 DEF Pending, Holds
  <2> QED
    BY <1>2, <2>1, <2>2, <2>3 DEF Fresh, Holds, Rest
<1> QED
  BY <1>3, <1>4, <1>5 DEF Sound

\* Outside write-back flushes have nothing.
LEMMA NoFlush ==
  ASSUME Sound, strategy # "write-back"
  PROVE  /\ dirty = {} /\ \A f \in Flushers : keys[f] = {} /\ copy[f] = Nothing
         /\ \A f \in Flushers : \A p \in Products : rows[f][p] = Nothing
         /\ \A f \in Flushers : \A p \in Products : \A x : ~Holds(f, p, x)
<1>1. dirty = {} /\ \A f \in Flushers : keys[f] = {} /\ \A p \in Products : rows[f][p] = Nothing
  BY DEF Sound, Apart, Flushing, Given, Updated
<1>2. \A f \in Flushers : copy[f] = Nothing
  BY <1>1 DEF Sound, TypeOK
<1> QED
  BY <1>1, <1>2 DEF Holds

\* write-through PUT: the entry is the row, unless a later PUT is about to store its own.
LEMMA StoreStep ==
  ASSUME Sound, NEW t \in Requests, Store(t)
  PROVE  Sound'
<1>1. PICK p \in Products, v \in Value :
         p = doing[t].p /\ v = doing[t].v /\ doing[t] # Rest /\ doing[t].do = "Store"
  BY Parts DEF Sound, Store, Does, Rest
<1>2. /\ doing'[t] = Rest /\ cache'[p] = [v |-> v, ttl |-> 120]
      /\ \A u \in Requests \ {t} : doing'[u] = doing[u]
      /\ \A q \in Products \ {p} : cache'[q] = cache[q]
      /\ UNCHANGED <<strategy, db, dirty, keys, copy, rows, writes, spoiled>>
  BY SMTT(30), <1>1 DEF Sound, TypeOK, Store, Entry
<1>3. TypeOK'
  <2>1. cache' = [cache EXCEPT ![p] = [v |-> v, ttl |-> 120]] /\ 120 \in 0..300
    BY <1>1 DEF Store, Entry
  <2>2. cache' \in [Products -> [v : Value, ttl : 0..300] \cup {Nothing}]
    BY <1>1, <2>1 DEF Sound, TypeOK
  <2>3. doing' = [doing EXCEPT ![t] = Rest]
    BY DEF Store
  <2> QED
    BY <1>1, <1>2, <2>2, <2>3 DEF Sound, TypeOK, Store
<1>4. Bounded' /\ Apart'
  BY <1>1, <1>2 DEF Sound, Bounded, Apart, Exists, Flushing, Given, Updated, Rest
<1>5. strategy # "write-back" /\ strategy' # "write-back"
  BY <1>1, <1>2 DEF Sound, Apart
<1>6. AllFresh'
  <2>1. SUFFICES ASSUME NEW q \in Products \ spoiled, Exists(q)
                 PROVE  Fresh(q)'
    BY <1>2 DEF AllFresh, Exists
  <2>2. Fresh(q)
    BY <2>1 DEF Sound, AllFresh
  <2>3. \A f \in Flushers : \A x \in Value : ~Holds(f, q, x)'
    BY <1>2, <1>5, <2>1, NoFlush DEF Holds
  <2>4. CASE q = p
    BY <1>1, <1>2, <1>5, <2>2, <2>3, <2>4 DEF Fresh, Rest
  <2>5. CASE q # p
    <3>1. Pending(q) => Pending(q)'
      BY <1>1, <1>2, <2>1, <2>5 DEF Pending, Holds
    <3> QED
      BY <1>2, <1>5, <2>1, <2>2, <2>3, <2>5, <3>1 DEF Fresh, Rest
  <2> QED
    BY <2>4, <2>5
<1> QED
  BY <1>3, <1>4, <1>6 DEF Sound

\* A PUT has a value newer than all others.
LEMMA NewValue ==
  ASSUME Sound, writes < MaxWrites
  PROVE  /\ writes \in Nat /\ writes + 1 \in Value /\ \A x \in Value : x <= writes => x < writes + 1
         /\ \A p \in Products : OldCopy(p, writes + 1) <=>
              \E t \in Requests : doing[t].do \in {"Fill", "Store"} /\ doing[t].p = p
<1>1. writes \in Nat /\ writes + 1 \in Value /\ \A x \in Value : x <= writes => x < writes + 1
  BY CacheConstantsOK DEF Sound, TypeOK, Value
<1>2. \A t \in Requests : doing[t].do \in {"Fill", "Store"} => doing[t].v < writes + 1
  <2>1. SUFFICES ASSUME NEW t \in Requests, doing[t].do \in {"Fill", "Store"}
                 PROVE  doing[t].v < writes + 1
    OBVIOUS
  <2>2. doing[t].v \in Value /\ doing[t].v <= writes
    BY <2>1, Parts DEF Sound, Bounded, Rest
  <2> QED
    BY <1>1, <2>2
<1> QED
  BY <1>1, <1>2 DEF OldCopy

\* PUT commits a row: it settles the entry itself, and an older copy somebody holds
\* spoils the product.
LEMMA UpdateStep ==
  ASSUME Sound, NEW t \in Requests, NEW p \in Products, Update(t, p)
  PROVE  Sound'
<1> DEFINE lazy == [do |-> "Delete", p |-> p]
           through == [do |-> "Store", p |-> p, v |-> writes + 1]
<1>1. /\ strategy # "write-back" /\ doing[t] = Rest /\ writes < MaxWrites /\ writes' = writes + 1
      /\ doing' = [doing EXCEPT ![t] = IF strategy = "lazy" THEN lazy ELSE through]
      /\ db' = IF Exists(p) THEN [db EXCEPT ![p] = writes + 1] ELSE db
      /\ UNCHANGED <<strategy, cache, dirty, keys, copy, rows, locked, looping, failures>>
      /\ spoiled' = IF OldCopy(p, writes + 1) THEN spoiled \cup {p} ELSE spoiled
  BY DEF Update, Put, SpoiledIf
<1>2. /\ doing'[t] \in {lazy, through}
      /\ \A u \in Requests \ {t} : doing'[u] = doing[u]
      /\ \A q \in Products \ {p} : db'[q] = db[q]
      /\ Exists(p) => db'[p] = writes + 1
      /\ ~Exists(p) => db'[p] = db[p]
  BY <1>1 DEF Sound, TypeOK
<1>3. writes \in Nat /\ writes + 1 \in Value /\ writes + 1 # Nothing
      /\ \A x \in Value : x <= writes => x <= writes + 1
  BY <1>1, NewValue, CacheConstantsOK DEF Value
<1>4. TypeOK'
  <2>1. db' \in [Products -> Value \cup {Nothing}]
    BY <1>1, <1>3 DEF Sound, TypeOK
  <2>2. lazy \in [do : {"Select", "Delete", "Mark"}, p : Products]
        /\ through \in [do : {"Fill", "Store"}, p : Products, v : Value]
    BY <1>3
  <2>3. doing' \in [Requests -> {Rest} \cup [do : {"Select", "Delete", "Mark"}, p : Products]
                                  \cup [do : {"Fill", "Store"}, p : Products, v : Value]]
    BY <1>1, <2>2 DEF Sound, TypeOK
  <2> QED
    BY <1>1, <1>3, <2>1, <2>3 DEF Sound, TypeOK
<1>5. Bounded'
  <2>1. (\A q \in Products : Exists(q) => db[q] <= writes)'
    <3>1. SUFFICES ASSUME NEW q \in Products, db'[q] # Nothing
                   PROVE  db'[q] <= writes + 1
      BY <1>1 DEF Exists
    <3>2. db'[q] = db[q] => db[q] \in Value /\ db[q] <= writes
      BY <3>1 DEF Sound, Bounded, Exists, TypeOK
    <3>3. db'[q] = db[q] \/ db'[q] = writes + 1
      BY <1>2
    <3> QED
      BY <1>3, <3>2, <3>3
  <2>2. (\A q \in Products : cache[q] # Nothing => cache[q].v <= writes)'
    BY <1>1, <1>3, Parts DEF Sound, Bounded
  <2>3. (\A u \in Requests : doing[u].do \in {"Fill", "Store"} => doing[u].v <= writes)'
    <3>1. doing'[t].do \in {"Fill", "Store"} => doing'[t].v = writes + 1
      BY <1>2
    <3>2. ASSUME NEW u \in Requests \ {t}, doing[u].do \in {"Fill", "Store"}
          PROVE  doing[u].v <= writes + 1
      BY <3>2, <1>3, Parts DEF Sound, Bounded, Rest
    <3> QED
      BY <1>1, <1>2, <1>3, <3>1, <3>2
  <2> QED
    BY <1>1, <2>1, <2>2, <2>3, NoFlush DEF Bounded
<1>6. Apart'
  BY <1>1, <1>2 DEF Sound, Apart, Flushing, Given, Updated
<1>7. AllFresh'
  <2>1. SUFFICES ASSUME NEW q \in Products \ spoiled', Exists(q)'
                 PROVE  Fresh(q)'
    BY DEF AllFresh
  <2>2. Exists(q) /\ q \notin spoiled
    BY <1>1, <1>2, <2>1 DEF Exists
  <2>3. Fresh(q)
    BY <2>2 DEF Sound, AllFresh
  <2>4. \A f \in Flushers : \A x \in Value : ~Holds(f, q, x)'
    BY <1>1, NoFlush DEF Holds
  <2>5. CASE q = p
    <3>1. \A u \in Requests : ~(doing[u].do \in {"Fill", "Store"} /\ doing[u].p = p)
      BY <1>1, <2>1, <2>5, NewValue
    <3>2. Pending(p)'
      BY <1>2 DEF Pending
    <3>3. \A u \in Requests :
            doing'[u].do \in {"Fill", "Store"} /\ doing'[u].p = p => doing'[u].v = db'[p]
      BY <1>2, <2>2, <2>5, <3>1
    <3> QED
      BY <1>1, <2>4, <2>5, <3>2, <3>3 DEF Fresh
  <2>6. CASE q # p
    <3>1. Pending(q) => Pending(q)'
      BY <1>1, <1>2, <2>6 DEF Pending, Holds, Rest
    <3>2. doing'[t].p = p
      BY <1>2
    <3> QED
      BY <1>1, <1>2, <2>3, <2>4, <2>6, <3>1, <3>2 DEF Fresh
  <2> QED
    BY <2>5, <2>6
<1> QED
  BY <1>4, <1>5, <1>6, <1>7 DEF Sound

\* write-back PUT: the entry runs ahead of the row, and the request is about to mark it.
LEMMA WriteBackStep ==
  ASSUME Sound, NEW t \in Requests, NEW p \in Products, WriteBack(t, p)
  PROVE  Sound'
<1>1. /\ strategy = "write-back" /\ doing[t] = Rest /\ writes < MaxWrites /\ writes' = writes + 1
      /\ doing' = [doing EXCEPT ![t] = [do |-> "Mark", p |-> p]]
      /\ cache' = [cache EXCEPT ![p] = [v |-> writes + 1, ttl |-> 300]]
      /\ UNCHANGED <<strategy, db, dirty, keys, copy, rows, locked, looping, failures>>
      /\ spoiled' = IF OldCopy(p, writes + 1) THEN spoiled \cup {p} ELSE spoiled
  BY DEF WriteBack, Put, SpoiledIf, Entry
<1>2. /\ doing'[t] = [do |-> "Mark", p |-> p]
      /\ \A u \in Requests \ {t} : doing'[u] = doing[u]
      /\ \A q \in Products \ {p} : cache'[q] = cache[q]
      /\ cache'[p] = [v |-> writes + 1, ttl |-> 300]
  BY <1>1 DEF Sound, TypeOK
<1>3. /\ writes \in Nat /\ writes + 1 \in Value /\ writes + 1 # Nothing
      /\ \A x \in Value : x <= writes => x <= writes + 1
  BY <1>1, NewValue, CacheConstantsOK DEF Value
<1>4. TypeOK'
  <2>1. cache' \in [Products -> [v : Value, ttl : 0..300] \cup {Nothing}]
    BY <1>1, <1>3 DEF Sound, TypeOK
  <2>2. doing' \in [Requests -> {Rest} \cup [do : {"Select", "Delete", "Mark"}, p : Products]
                                  \cup [do : {"Fill", "Store"}, p : Products, v : Value]]
    BY <1>1 DEF Sound, TypeOK
  <2> QED
    BY <1>1, <1>3, <2>1, <2>2 DEF Sound, TypeOK
<1>5. Bounded'
  <2>1. (\A q \in Products : Exists(q) => db[q] <= writes)'
    BY <1>1, <1>3 DEF Sound, Bounded, Exists, TypeOK
  <2>2. (\A q \in Products : cache[q] # Nothing => cache[q].v <= writes)'
    BY <1>1, <1>2, <1>3, Parts DEF Sound, Bounded
  <2>3. (\A u \in Requests : doing[u].do \in {"Fill", "Store"} => doing[u].v <= writes)'
    <3>1. ASSUME NEW u \in Requests \ {t}, doing[u].do \in {"Fill", "Store"}
          PROVE  doing[u].v <= writes + 1
      BY <3>1, <1>3, Parts DEF Sound, Bounded, Rest
    <3> QED
      BY <1>1, <1>2, <3>1
  <2>4. (\A f \in Flushers : copy[f] # Nothing => copy[f].v <= writes)'
    BY <1>1, <1>3, Parts DEF Sound, Bounded
  <2>5. (\A f \in Flushers : \A q \in Products :
           rows[f][q] # Nothing => rows[f][q] <= writes /\ Exists(q))'
    <3>1. ASSUME NEW f \in Flushers, NEW q \in Products, rows[f][q] # Nothing
          PROVE  rows[f][q] \in Value /\ rows[f][q] <= writes /\ Exists(q)
      BY <3>1 DEF Sound, Bounded, TypeOK
    <3> QED
      BY <1>1, <1>3, <3>1 DEF Exists
  <2> QED
    BY <2>1, <2>2, <2>3, <2>4, <2>5 DEF Bounded
<1>6. Apart'
  BY <1>1, <1>2 DEF Sound, Apart, Flushing, Given, Updated
<1>7. AllFresh'
  <2>1. SUFFICES ASSUME NEW q \in Products \ spoiled', Exists(q)
                 PROVE  Fresh(q)'
    BY <1>1 DEF AllFresh, Exists
  <2>2. Fresh(q)
    BY <1>1, <2>1 DEF Sound, AllFresh
  <2>3. CASE q = p
    <3>1. \A u \in Requests : ~(doing[u].do \in {"Fill", "Store"} /\ doing[u].p = p)
      BY <1>1, <2>1, <2>3, NewValue
    <3>2. Pending(p)'
      BY <1>2 DEF Pending
    <3>3. \A f \in Flushers : \A x \in Value : Holds(f, p, x) => x <= writes
      BY DEF Sound, Bounded, Holds
    <3>4. db[p] <= writes + 1
      BY <1>3, <2>1, <2>3 DEF Sound, Bounded, TypeOK, Exists
    <3> QED
      BY <1>1, <1>2, <1>3, <2>2, <2>3, <3>1, <3>2, <3>3, <3>4 DEF Fresh, Holds
  <2>4. CASE q # p
    <3>1. Pending(q) => Pending(q)'
      BY <1>1, <1>2, <2>1, <2>4 DEF Pending, Holds, Rest
    <3> QED
      BY <1>1, <1>2, <2>1, <2>2, <2>4, <3>1 DEF Fresh, Holds
  <2> QED
    BY <2>3, <2>4
<1> QED
  BY <1>4, <1>5, <1>6, <1>7 DEF Sound

\* write-back PUT: the key takes over from the request that marked it.
LEMMA MarkStep ==
  ASSUME Sound, NEW t \in Requests, Mark(t)
  PROVE  Sound'
<1>1. PICK p \in Products : p = doing[t].p /\ doing[t] # Rest /\ doing[t].do = "Mark"
  BY Parts DEF Sound, Mark, Does, Rest
<1>2. /\ doing'[t] = Rest /\ dirty' = dirty \cup {p}
      /\ \A u \in Requests \ {t} : doing'[u] = doing[u]
      /\ UNCHANGED <<strategy, db, cache, keys, copy, rows, writes, spoiled>>
  BY <1>1 DEF Sound, TypeOK, Mark
<1>3. TypeOK'
  BY <1>1, <1>2 DEF Sound, TypeOK, Mark
<1>4. Bounded' /\ Apart'
  BY <1>1, <1>2 DEF Sound, Bounded, Apart, Exists, Flushing, Given, Updated, Rest
<1>5. AllFresh'
  <2>1. SUFFICES ASSUME NEW q \in Products \ spoiled, Exists(q)
                 PROVE  Fresh(q)'
    BY <1>2 DEF AllFresh, Exists
  <2>2. Fresh(q)
    BY <2>1 DEF Sound, AllFresh
  <2>3. Pending(q) => Pending(q)'
    BY <1>1, <1>2 DEF Pending, Holds
  <2> QED
    BY <1>2, <2>2, <2>3 DEF Fresh, Holds, Rest
<1> QED
  BY <1>3, <1>4, <1>5 DEF Sound

\* A request that fails leaves its product spoiled.
LEMMA RequestFailsStep ==
  ASSUME Sound, NEW t \in Requests, RequestFails(t)
  PROVE  Sound'
<1>1. PICK p \in Products : p = doing[t].p /\ doing[t] # Rest
  BY Parts DEF Sound, RequestFails
<1>2. /\ doing'[t] = Rest /\ spoiled' = spoiled \cup {p}
      /\ \A u \in Requests \ {t} : doing'[u] = doing[u]
      /\ UNCHANGED <<strategy, db, cache, dirty, keys, copy, rows, writes>>
  BY <1>1 DEF Sound, TypeOK, RequestFails
<1>3. TypeOK'
  BY <1>1, <1>2, CacheConstantsOK DEF Sound, TypeOK, RequestFails
<1>4. Bounded' /\ Apart'
  BY <1>1, <1>2 DEF Sound, Bounded, Apart, Exists, Flushing, Given, Updated, Rest
<1>5. AllFresh'
  <2>1. SUFFICES ASSUME NEW q \in Products \ spoiled', Exists(q)
                 PROVE  Fresh(q)'
    BY <1>2 DEF AllFresh, Exists
  <2>2. Fresh(q) /\ q # p
    BY <1>2, <2>1 DEF Sound, AllFresh
  <2>3. Pending(q) => Pending(q)'
    BY <1>1, <1>2, <2>2 DEF Pending, Holds
  <2> QED
    BY <1>2, <2>2, <2>3 DEF Fresh, Holds, Rest
<1> QED
  BY <1>3, <1>4, <1>5 DEF Sound
-----------------------------------------------------------------------------
(* Flushes. *)

\* A flush takes the dirty keys: it settles now what they settled.
LEMMA TakeStep ==
  ASSUME Sound, NEW f \in Flushers, Take(f)
  PROVE  Sound'
<1>1. /\ keys[f] = {} /\ copy[f] = Nothing /\ \A p \in Products : rows[f][p] = Nothing
      /\ strategy = "write-back"
  BY DEF Sound, TypeOK, Take, Flushing, Given, Updated
<1>2. /\ keys'[f] = dirty /\ dirty' = {}
      /\ \A g \in Flushers \ {f} : keys'[g] = keys[g]
      /\ UNCHANGED <<strategy, db, cache, doing, copy, rows, writes, spoiled>>
  BY DEF Sound, TypeOK, Take
<1>3. TypeOK'
  BY <1>1, <1>2 DEF Sound, TypeOK, Take
<1>4. Bounded' /\ Apart'
  BY <1>1, <1>2 DEF Sound, Bounded, Apart, Exists
<1>5. AllFresh'
  <2>1. SUFFICES ASSUME NEW q \in Products \ spoiled, Exists(q)
                 PROVE  Fresh(q)'
    BY <1>2 DEF AllFresh, Exists
  <2>2. Fresh(q)
    BY <2>1 DEF Sound, AllFresh
  <2>3. Pending(q) => Pending(q)'
    BY <1>1, <1>2 DEF Pending, Holds
  <2> QED
    BY <1>2, <2>2, <2>3 DEF Fresh, Holds
<1> QED
  BY <1>3, <1>4, <1>5 DEF Sound

\* A key without an entry is passed over: there is nothing to settle.
LEMMA FetchNothingStep ==
  ASSUME Sound, NEW f \in Flushers, NEW p \in Products, Fetch(f, p), cache[p] = Nothing
  PROVE  Sound'
<1>1. /\ p \in keys[f] /\ copy[f] = Nothing /\ keys'[f] = keys[f] \ {p}
      /\ \A g \in Flushers \ {f} : keys'[g] = keys[g]
      /\ UNCHANGED <<strategy, db, cache, doing, dirty, copy, rows, writes, spoiled>>
  BY DEF Sound, TypeOK, Fetch
<1>2. TypeOK'
  <2>1. keys' = [keys EXCEPT ![f] = keys[f] \ {p}] /\ UNCHANGED <<faults, failures>>
    BY DEF Fetch
  <2> QED
    BY <1>1, <2>1 DEF Sound, TypeOK
<1>3. Bounded' /\ Apart'
  BY <1>1 DEF Sound, Bounded, Apart, Exists, Flushing, Given, Updated
<1>4. AllFresh'
  <2>1. SUFFICES ASSUME NEW q \in Products \ spoiled, Exists(q)
                 PROVE  Fresh(q)'
    BY <1>1 DEF AllFresh, Exists
  <2>2. Fresh(q)
    BY <2>1 DEF Sound, AllFresh
  <2>3. q # p /\ Pending(q) => Pending(q)'
    BY <1>1 DEF Pending, Holds
  <2> QED
    BY <1>1, <2>2, <2>3 DEF Fresh, Holds
<1> QED
  BY <1>2, <1>3, <1>4 DEF Sound

\* The copy is the entry: it lies between the row and the entry, and who holds
\* it will settle the product.
LEMMA FetchEntryStep ==
  ASSUME Sound, NEW f \in Flushers, NEW p \in Products, Fetch(f, p), cache[p] # Nothing
  PROVE  Sound'
<1> DEFINE entry == [p |-> p, v |-> cache[p].v]
<1>1. /\ p \in keys[f] /\ copy[f] = Nothing /\ copy' = [copy EXCEPT ![f] = entry]
      /\ UNCHANGED <<strategy, db, cache, doing, dirty, keys, rows, writes, spoiled>>
  BY DEF Fetch
<1>2. /\ cache[p].v \in Value /\ cache[p].v # Nothing /\ cache[p].v <= writes
      /\ strategy = "write-back" /\ copy'[f] # Nothing
      /\ copy'[f].p = p /\ copy'[f].v = cache[p].v
      /\ \A g \in Flushers \ {f} : copy'[g] = copy[g]
  <2>1. cache[p].v \in Value /\ cache[p].v # Nothing /\ cache[p].v <= writes
    BY Parts, CacheConstantsOK DEF Sound, Bounded, Value
  <2>2. strategy = "write-back"
    BY <1>1, NoFlush
  <2>3. entry # Nothing
    BY <2>1, CacheConstantsOK DEF Value
  <2> QED
    BY <1>1, <2>1, <2>2, <2>3 DEF Sound, TypeOK
<1>3. TypeOK'
  <2>1. copy' \in [Flushers -> [p : Products, v : Value] \cup {Nothing}]
    BY <1>1, <1>2 DEF Sound, TypeOK
  <2> QED
    BY <1>1, <1>2, <2>1 DEF Sound, TypeOK, Fetch
<1>4. Bounded' /\ Apart'
  BY <1>1, <1>2 DEF Sound, Bounded, Apart, Exists, Flushing, Given, Updated
<1>5. AllFresh'
  <2>1. SUFFICES ASSUME NEW q \in Products \ spoiled, Exists(q)
                 PROVE  Fresh(q)'
    BY <1>1 DEF AllFresh, Exists
  <2>2. Fresh(q)
    BY <2>1 DEF Sound, AllFresh
  <2>3. Pending(q) => Pending(q)'
    <3>1. CASE q = p
      <4>1. Holds(f, p, cache[p].v)'
        BY <1>1, <1>2 DEF Holds
      <4> QED
        BY <3>1, <4>1 DEF Pending
    <3>2. CASE q # p
      BY <1>1, <1>2, <3>2 DEF Pending, Holds
    <3> QED
      BY <3>1, <3>2
  <2>4. ASSUME NEW g \in Flushers, NEW x \in Value, Holds(g, q, x)'
        PROVE  Holds(g, q, x) \/ (q = p /\ x = cache[p].v)
    BY <1>1, <1>2, <2>4 DEF Holds
  <2>5. q = p => db[p] <= cache[p].v /\ cache[p].v <= cache[p].v
    BY <1>2, <2>2 DEF Fresh, Value
  <2> QED
    BY <1>1, <2>2, <2>3, <2>4, <2>5 DEF Fresh
<1> QED
  BY <1>3, <1>4, <1>5 DEF Sound

\* A flush updates a row: what it will commit is in its transaction from now on.
LEMMA UpdateRowStep ==
  ASSUME Sound, NEW f \in Flushers, UpdateRow(f)
  PROVE  Sound'
<1>1. PICK p \in Products, v \in Value : p = copy[f].p /\ v = copy[f].v
  BY Parts DEF Sound, UpdateRow, CanUpdate
<1>2. copy[f] # Nothing /\ p \in keys[f] /\ rows[f][p] = Nothing /\ v # Nothing /\ v <= writes
  BY <1>1, CacheConstantsOK DEF Sound, TypeOK, Bounded, UpdateRow, CanUpdate, Value
<1>3. /\ copy'[f] = Nothing /\ keys'[f] = keys[f] \ {p}
      /\ \A g \in Flushers \ {f} :
           copy'[g] = copy[g] /\ keys'[g] = keys[g] /\ rows'[g] = rows[g]
      /\ \A q \in Products \ {p} : rows'[f][q] = rows[f][q]
      /\ rows'[f][p] = IF Exists(p) THEN v ELSE Nothing
      /\ UNCHANGED <<strategy, db, cache, doing, dirty, writes, spoiled>>
  BY <1>1, <1>2 DEF Sound, TypeOK, UpdateRow
<1>4. TypeOK'
  <2>1. rows' \in [Flushers -> [Products -> Value \cup {Nothing}]]
    BY <1>1 DEF Sound, TypeOK, UpdateRow
  <2>2. copy' = [copy EXCEPT ![f] = Nothing] /\ keys' = [keys EXCEPT ![f] = keys[f] \ {p}]
    BY <1>1 DEF UpdateRow
  <2>3. copy' \in [Flushers -> [p : Products, v : Value] \cup {Nothing}]
        /\ keys' \in [Flushers -> SUBSET Products]
    BY <2>2 DEF Sound, TypeOK
  <2>4. \A g \in Flushers : copy'[g] # Nothing => copy'[g].p \in keys'[g]
    BY <1>3 DEF Sound, TypeOK
  <2>5. \A g \in Flushers : \A q \in keys'[g] : rows'[g][q] = Nothing
    BY <1>3 DEF Sound, TypeOK
  <2> QED
    BY <1>3, <2>1, <2>3, <2>4, <2>5 DEF Sound, TypeOK, UpdateRow
<1>5. strategy = "write-back"
  BY <1>2, NoFlush
<1>6. Bounded' /\ Apart'
  BY <1>1, <1>2, <1>3, <1>5 DEF Sound, Bounded, Apart, Exists
<1>7. AllFresh'
  <2>1. SUFFICES ASSUME NEW q \in Products \ spoiled, Exists(q)
                 PROVE  Fresh(q)'
    BY <1>3 DEF AllFresh, Exists
  <2>2. Fresh(q)
    BY <2>1 DEF Sound, AllFresh
  <2>3. \A g \in Flushers : \A x : Holds(g, q, x)' <=> Holds(g, q, x)
    BY <1>1, <1>2, <1>3, <2>1 DEF Holds
  <2>4. Pending(q) => Pending(q)'
    BY <1>1, <1>2, <1>3, <2>3 DEF Pending
  <2> QED
    BY <1>3, <2>2, <2>3, <2>4 DEF Fresh
<1> QED
  BY <1>4, <1>6, <1>7 DEF Sound

\* A commit writes the newest value that anybody has of the row; whoever has an
\* older one spoils the product.
LEMMA CommitStep ==
  ASSUME Sound, NEW f \in Flushers, Commit(f)
  PROVE  Sound'
<1>1. /\ keys[f] = {} /\ copy[f] = Nothing /\ Updated(f) # {}
      /\ \A p \in Products : rows'[f][p] = Nothing
      /\ \A g \in Flushers \ {f} : rows'[g] = rows[g]
      /\ \A p \in Products : db'[p] = IF rows[f][p] # Nothing THEN rows[f][p] ELSE db[p]
      /\ UNCHANGED <<strategy, cache, doing, dirty, keys, copy, writes>>
  BY DEF Sound, TypeOK, Commit, Flushing, Given, Updated
<1>2. strategy = "write-back"
  BY <1>1, NoFlush DEF Updated
<1>3. \A p \in Products : rows[f][p] # Nothing =>
        rows[f][p] \in Value /\ rows[f][p] <= writes /\ Exists(p) /\ Holds(f, p, rows[f][p])
  BY DEF Sound, TypeOK, Bounded, Holds
<1>4. \A p \in Products : (Exists(p) <=> Exists(p)') /\ (rows[f][p] # Nothing => db'[p] = rows[f][p])
  BY <1>1, <1>3 DEF Exists
<1>5. TypeOK'
  <2>1. db' \in [Products -> Value \cup {Nothing}]
    BY <1>3 DEF Sound, TypeOK, Commit
  <2>2. rows' \in [Flushers -> [Products -> Value \cup {Nothing}]]
    BY DEF Sound, TypeOK, Commit
  <2>3. \A g \in Flushers : \A p \in keys'[g] : rows'[g][p] = Nothing
    BY <1>1 DEF Sound, TypeOK
  <2>4. spoiled' \subseteq Products
    BY DEF Sound, TypeOK, Commit, Updated
  <2> QED
    BY <1>1, <2>1, <2>2, <2>3, <2>4 DEF Sound, TypeOK, Commit
<1>6. Bounded'
  <2>1. (\A p \in Products : Exists(p) => db[p] <= writes)'
    BY <1>1, <1>3 DEF Sound, Bounded, Exists
  <2>2. (\A g \in Flushers : \A p \in Products :
           rows[g][p] # Nothing => rows[g][p] <= writes /\ Exists(p))'
    BY <1>1, <1>4 DEF Sound, Bounded
  <2> QED
    BY <1>1, <2>1, <2>2 DEF Sound, Bounded
<1>7. Apart'
  BY <1>1, <1>2 DEF Sound, Apart
<1>8. AllFresh'
  <2>1. SUFFICES ASSUME NEW q \in Products \ spoiled', Exists(q)'
                 PROVE  Fresh(q)'
    BY DEF AllFresh
  <2>2. Exists(q) /\ q \notin spoiled
    BY <1>4, <2>1 DEF Commit
  <2>3. Fresh(q)
    BY <2>2 DEF Sound, AllFresh
  <2>4. \A g \in Flushers : \A x : Holds(g, q, x)' <=> g # f /\ Holds(g, q, x)
    BY <1>1, <2>1 DEF Holds
  <2>5. CASE rows[f][q] = Nothing
    <3>1. \A x : ~Holds(f, q, x)
      BY <1>1, <2>5 DEF Holds
    <3>2. Pending(q) => Pending(q)'
      BY <1>1, <2>4, <3>1 DEF Pending
    <3> QED
      BY <1>1, <2>1, <2>3, <2>4, <2>5, <3>2 DEF Fresh
  <2>6. CASE rows[f][q] # Nothing
    <3>1. PICK x \in Value : x = rows[f][q]
      BY <1>3, <2>6
    <3>2. /\ db'[q] = x /\ Holds(f, q, x) /\ db[q] <= x
          /\ cache[q] # Nothing => x <= cache[q].v
      BY <1>3, <1>4, <2>3, <2>6, <3>1 DEF Fresh
    <3>3. db[q] \in Value
      BY <2>2 DEF Sound, TypeOK, Exists
    <3>4. ~OldCopy(q, x) /\ \A g \in Flushers \ {f} : \A y \in FlushCopies(g, q) : ~(y < x)
      BY <2>1, <2>6, <3>1 DEF Commit, Updated
    <3>5. \A g \in Flushers : \A y \in Value : Holds(g, q, y)' =>
            x <= y /\ (cache[q] # Nothing => y <= cache[q].v)
      <4>1. SUFFICES ASSUME NEW g \in Flushers, NEW y \in Value, Holds(g, q, y)'
                     PROVE  x <= y /\ (cache[q] # Nothing => y <= cache[q].v)
        OBVIOUS
      <4>2. g # f /\ Holds(g, q, y)
        BY <2>4, <4>1
      <4>3. ~(y < x)
        BY <3>4, <4>2, FlushCopy
      <4> QED
        BY <2>3, <4>2, <4>3 DEF Fresh, Value
    <3>6. ASSUME NEW t \in Requests, doing[t].do \in {"Fill", "Store"}, doing[t].p = q
          PROVE  doing[t].v = x
      <4>1. doing[t].v = db[q]
        BY <2>3, <3>6 DEF Fresh
      <4>2. ~(doing[t].v < x)
        BY <3>4, <3>6 DEF OldCopy
      <4> QED
        BY <3>2, <3>3, <4>1, <4>2 DEF Value
    <3>7. ASSUME cache[q] # Nothing
          PROVE  cache[q].v = x \/ Pending(q)'
      <4>1. cache[q].v \in Value
        BY <3>7, Parts DEF Sound
      <4>2. CASE cache[q].v = db[q]
        BY <3>2, <3>3, <3>7, <4>1, <4>2 DEF Value
      <4>3. CASE Pending(q)
        <5>1. \A y : Holds(f, q, y) => y = x
          BY <1>1, <3>1 DEF Holds
        <5> QED
          BY <1>1, <2>4, <4>3, <5>1 DEF Pending
      <4> QED
        BY <2>3, <3>7, <4>2, <4>3 DEF Fresh
    <3> QED
      BY <1>1, <3>2, <3>5, <3>6, <3>7 DEF Fresh
  <2> QED
    BY <2>5, <2>6
<1> QED
  BY <1>5, <1>6, <1>7, <1>8 DEF Sound

\* A flush that ends in an exception spoils all it had.
LEMMA AbortStep ==
  ASSUME Sound, NEW f \in Flushers, Abort(f), failures' \in 0..MaxFailures, locked' \subseteq Products
  PROVE  Sound'
<1>1. /\ keys'[f] = {} /\ copy'[f] = Nothing /\ \A p \in Products : rows'[f][p] = Nothing
      /\ \A g \in Flushers \ {f} : keys'[g] = keys[g] /\ copy'[g] = copy[g] /\ rows'[g] = rows[g]
      /\ UNCHANGED <<strategy, db, cache, doing, dirty, writes>>
      /\ spoiled' = spoiled \cup Given(f)
  BY DEF Sound, TypeOK, Abort
<1>2. TypeOK'
  <2>1. /\ keys' \in [Flushers -> SUBSET Products] /\ looping' \in BOOLEAN
        /\ copy' \in [Flushers -> [p : Products, v : Value] \cup {Nothing}]
        /\ rows' \in [Flushers -> [Products -> Value \cup {Nothing}]]
    BY DEF Sound, TypeOK, Abort
  <2>2. Given(f) \subseteq Products
    BY DEF Sound, TypeOK, Given, Updated
  <2>3. \A g \in Flushers : /\ copy'[g] # Nothing => copy'[g].p \in keys'[g]
                            /\ \A p \in keys'[g] : rows'[g][p] = Nothing
    BY <1>1 DEF Sound, TypeOK
  <2> QED
    BY <1>1, <2>1, <2>2, <2>3 DEF Sound, TypeOK
<1>3. Bounded' /\ Apart'
  BY <1>1 DEF Sound, Bounded, Apart, Exists, Flushing, Given, Updated
<1>4. AllFresh'
  <2>1. SUFFICES ASSUME NEW q \in Products \ spoiled', Exists(q)
                 PROVE  Fresh(q)'
    BY <1>1 DEF AllFresh, Exists
  <2>2. Fresh(q) /\ q \notin Given(f)
    BY <1>1, <2>1 DEF Sound, AllFresh
  <2>3. q \notin keys[f] /\ \A x : ~Holds(f, q, x)
    BY <2>2 DEF Sound, TypeOK, Given, Updated, Holds
  <2>4. \A g \in Flushers : \A x : Holds(g, q, x)' <=> Holds(g, q, x)
    BY <1>1, <2>3 DEF Holds
  <2>5. Pending(q) => Pending(q)'
    BY <1>1, <2>3, <2>4 DEF Pending
  <2> QED
    BY <1>1, <2>2, <2>4, <2>5 DEF Fresh
<1> QED
  BY <1>2, <1>3, <1>4 DEF Sound

\* A flush that PostgreSQL ends leaves the products it was given spoiled.
LEMMA FlushFailsStep ==
  ASSUME Sound, NEW f \in Flushers, FlushFails(f)
  PROVE  Sound'
<1>1. failures' \in 0..MaxFailures
  BY CacheConstantsOK DEF Sound, TypeOK, FlushFails
<1> QED
  BY <1>1, AbortStep DEF Sound, TypeOK, FlushFails

\* So does one that Redis ends, which keeps its locks.
LEMMA FetchFailsStep ==
  ASSUME Sound, NEW f \in Flushers, FetchFails(f)
  PROVE  Sound'
<1>1. failures' \in 0..MaxFailures
  BY CacheConstantsOK DEF Sound, TypeOK, FetchFails
<1> QED
  BY <1>1, AbortStep DEF Sound, TypeOK, FetchFails, Updated
-----------------------------------------------------------------------------
(* Entries that go away, and crashes. *)

\* Without its entry a product has nothing to settle.
LEMMA Dropped ==
  ASSUME Sound, NEW gone \in SUBSET Products,
         cache' = [p \in Products |-> IF p \in gone THEN Nothing ELSE cache[p]],
         UNCHANGED <<strategy, db, doing, dirty, flushing, counters, spoiled>>
  PROVE  Sound'
<1>1. TypeOK'
  BY DEF Sound, TypeOK
<1>2. Bounded' /\ Apart'
  BY DEF Sound, Bounded, Apart, Exists, Flushing, Given, Updated
<1>3. AllFresh'
  <2>1. SUFFICES ASSUME NEW q \in Products \ spoiled, Exists(q)
                 PROVE  Fresh(q)'
    BY DEF AllFresh, Exists
  <2>2. Fresh(q)
    BY <2>1 DEF Sound, AllFresh
  <2>3. cache'[q] = Nothing \/ cache'[q] = cache[q]
    OBVIOUS
  <2>4. cache'[q] = cache[q] /\ Pending(q) => Pending(q)'
    BY DEF Pending, Holds
  <2> QED
    BY <2>2, <2>3, <2>4 DEF Fresh, Holds
<1> QED
  BY <1>1, <1>2, <1>3 DEF Sound

\* The time of an entry is over.
LEMMA ExpireStep ==
  ASSUME Sound, NEW p \in Products, Expire(p)
  PROVE  Sound'
<1>1. cache' = [q \in Products |-> IF q \in {p} THEN Nothing ELSE cache[q]]
  BY DEF Sound, TypeOK, Expire
<1> QED
  BY <1>1, Dropped DEF Expire

\* /reset empties the cache.
LEMMA ResetStep ==
  ASSUME Sound, Reset
  PROVE  Sound'
<1>1. cache' = [q \in Products |-> IF q \in Products THEN Nothing ELSE cache[q]]
  BY DEF Reset
<1> QED
  BY <1>1, Dropped DEF Reset

\* A crash spoils every product somebody had something left to do for.
LEMMA CrashStep ==
  ASSUME Sound, Crash
  PROVE  Sound'
<1> DEFINE flushed == UNION {Given(f) : f \in Flushers}
           asked == {doing[t].p : t \in {u \in Requests : doing[u] # Rest}}
<1>1. /\ dirty' = {} /\ \A t \in Requests : doing'[t] = Rest
      /\ \A f \in Flushers : keys'[f] = {} /\ copy'[f] = Nothing
      /\ \A f \in Flushers : \A p \in Products : rows'[f][p] = Nothing
      /\ UNCHANGED <<strategy, db, cache, writes>>
  BY DEF Crash
<1>2. spoiled' = spoiled \cup dirty \cup flushed \cup asked
  BY DEF Crash
<1>3. TypeOK'
  <2>1. asked \subseteq Products
    <3>1. \A t \in Requests : doing[t] # Rest => doing[t].p \in Products
      BY Parts DEF Sound
    <3> QED
      BY <3>1
  <2>2. spoiled' \subseteq Products
    <3>1. flushed \subseteq Products
      BY DEF Sound, TypeOK, Given, Updated
    <3> HIDE DEF flushed, asked
    <3> QED
      BY <1>2, <2>1, <3>1 DEF Sound, TypeOK
  <2>3. failures' \in 0..MaxFailures
    BY CacheConstantsOK DEF Sound, TypeOK, Crash
  <2> QED
    BY <1>1, <2>2, <2>3 DEF Sound, TypeOK, Crash
<1>4. Bounded' /\ Apart'
  BY <1>1 DEF Sound, Bounded, Apart, Exists, Flushing, Given, Updated, Rest
<1>5. AllFresh'
  <2>1. SUFFICES ASSUME NEW q \in Products \ spoiled', Exists(q)
                 PROVE  Fresh(q)'
    BY <1>1 DEF AllFresh, Exists
  <2>2. /\ q \notin dirty /\ \A f \in Flushers : q \notin Given(f)
        /\ \A t \in Requests : doing[t] # Rest => doing[t].p # q
    <3>1. q \notin dirty /\ q \notin flushed /\ q \notin asked
      <4> HIDE DEF flushed, asked
      <4> QED
        BY <1>2, <2>1
    <3> QED
      BY <3>1
  <2>3. Fresh(q)
    BY <2>1 DEF Sound, AllFresh, Crash
  <2>4. ~Pending(q)
    BY <2>2 DEF Sound, TypeOK, Pending, Holds, Given, Updated, Rest
  <2> QED
    BY <1>1, <2>3, <2>4 DEF Fresh, Holds, Rest
<1> QED
  BY <1>3, <1>4, <1>5 DEF Sound
-----------------------------------------------------------------------------
\* What is sound stays sound, whatever the next step is.
LEMMA Inductive == Sound /\ [Next]_vars => Sound'
<1>1. SUFFICES ASSUME Sound, [Next]_vars PROVE Sound'
  OBVIOUS
<1>2. CASE \E t \in Requests : Proceed(t)
  BY <1>1, <1>2, SelectStep, FillStep, DeleteStep, StoreStep, MarkStep DEF Proceed
<1>3. CASE \E t \in Requests : RequestFails(t)
  BY <1>1, <1>3, RequestFailsStep
<1>4. CASE \E t \in Requests : \E p \in Products : Miss(t, p) \/ Update(t, p) \/ WriteBack(t, p)
  BY <1>1, <1>4, MissStep, UpdateStep, WriteBackStep
<1>5. CASE \E f \in Flushers : Take(f) \/ FlushFails(f) \/ FetchFails(f)
  BY <1>1, <1>5, TakeStep, FlushFailsStep, FetchFailsStep
<1>6. CASE \E f \in Flushers : Flush(f)
  BY <1>1, <1>6, FetchNothingStep, FetchEntryStep, UpdateRowStep, CommitStep DEF Flush
<1>7. CASE (\E p \in Products : Expire(p)) \/ Reset \/ Crash
  BY <1>1, <1>7, ExpireStep, ResetStep, CrashStep
<1>8. CASE UNCHANGED vars
  BY <1>1, <1>8 DEF Sound, TypeOK, Bounded, Apart, AllFresh, Fresh, Pending, Holds, Exists,
       Flushing, Given, Updated, vars
<1> QED
  BY <1>1, <1>2, <1>3, <1>4, <1>5, <1>6, <1>7, <1>8 DEF Next

\* The inductive invariant holds in every state.
THEOREM Soundness == Spec => []Sound
BY Beginning, Inductive, PTL DEF Spec

\* Every variable has its type; a flush has only the keys it took, and what it
\* has read is one of those it still has to write.
THEOREM Types == Spec => []TypeOK
<1>1. Sound => TypeOK
  BY DEF Sound
<1> QED
  BY <1>1, Soundness, PTL

\* No PUT leaves an entry that differs from its row unless somebody is about to
\* settle it, except where a thread wrote a copy that a PUT or a flush had
\* overtaken, and where a step failed.
THEOREM Coherence == Spec => []Coherent
<1>1. Sound => Coherent
  <2>1. SUFFICES ASSUME Sound, NEW p \in Products \ spoiled, Exists(p), ~Agrees(p)
                 PROVE  Settling(p)
    BY DEF Coherent
  <2>2. Pending(p)
    BY <2>1 DEF Sound, AllFresh, Fresh, Agrees
  <2>3. ASSUME NEW f \in Flushers, NEW x, Holds(f, p, x)
        PROVE  p \in Given(f)
    BY <2>1, <2>3 DEF Sound, TypeOK, Holds, Given, Updated
  <2> QED
    BY <2>2, <2>3 DEF Pending, Settling, Given
<1> QED
  BY <1>1, Soundness, PTL
=============================================================================
