------------------------------- MODULE Cache --------------------------------
(***************************************************************************)
(* practice_cache_comprasion/app/main.py: GET and PUT of a product under   *)
(* the strategies lazy, write-through and write-back, with Redis, the      *)
(* table products, the flushes of dirty keys and their thread.             *)
(*                                                                         *)
(* Handlers run in threads: every access of Redis, of the database or of   *)
(* dirty_keys is an action.  An UPDATE and its commit are one, except in a *)
(* flush, where other keys are read in between.  A GET that hits the cache *)
(* changes nothing.                                                        *)
(*                                                                         *)
(* An operator name_mistake, put in the place of `name', must make one of  *)
(* the properties below fail; the model uses none.                         *)
(***************************************************************************)
EXTENDS Integers

CONSTANTS
  Strategies,     \* values of CACHE_STRATEGY
  Products, Requests,
  Tables,         \* the sets of products that may have rows
  Flushers,       \* threads that run flush_dirty: Loop and requests of /flush
  Loop,
  Nothing,        \* no entry, no row, no work
  MaxWrites,      \* PUTs
  MaxFailures     \* accesses that raise, and crashes

ASSUME CacheConstantsOK ==
  /\ Strategies \subseteq {"lazy", "write-through", "write-back"}
  /\ Loop \in Flushers /\ {MaxWrites, MaxFailures} \subseteq Nat
  /\ Tables \subseteq SUBSET Products /\ Nothing \notin Int
  /\ Nothing \notin [v : Int, ttl : Int] /\ Nothing \notin [p : Products, v : Int]

VARIABLES
  strategy,
  db,             \* the rows that are committed; every PUT has its own value
  cache,          \* Redis: [v, ttl]
  doing,          \* what is left of a request: [do, p, v]
  dirty,          \* dirty_keys
  keys,           \* for every flush, the keys left
  copy,           \* ... the entry it has read: [p, v]
  rows,           \* ... its UPDATEs, not committed
  looping,        \* writeback_loop has not died of an exception
  locked,         \* rows locked by connections that were never put back
  writes, failures,
  spoiled         \* products with a race or a failure, see Coherent

faults == <<looping, locked>>
flushing == <<keys, copy, rows, faults>>
counters == <<writes, failures>>
vars == <<strategy, db, cache, doing, dirty, flushing, counters, spoiled>>

Value == 0..MaxWrites
Rest == [do |-> "rest"]
Does(t, do) == doing[t].do = do
Exists(p) == db[p] # Nothing
Agrees(p) == cache[p] # Nothing => cache[p].v = db[p]

\* Redis SET with ex.
Entry(v, ttl) == [v |-> v, ttl |-> ttl]
-----------------------------------------------------------------------------
(* Copies of a product that threads hold to write them somewhere later.    *)

\* Older than v, by a GET that missed or a PUT under write-through.
OldCopy(p, v) ==
  \E t \in Requests :
    doing[t].do \in {"Fill", "Store"} /\ doing[t].p = p /\ doing[t].v < v

\* What flushes are about to write: read from Redis, or updated already.
FlushCopies(f, p) ==
  {x \in {rows[f][p], IF copy[f] # Nothing /\ copy[f].p = p THEN copy[f].v ELSE Nothing} :
     x # Nothing}

NewerFlush(p, v) == \E f \in Flushers : \E x \in FlushCopies(f, p) : x > v

SpoiledIf(race, p) == spoiled' = IF race THEN spoiled \cup {p} ELSE spoiled
-----------------------------------------------------------------------------
(* GET /products/{id}. *)

Miss(t, p) ==
  /\ doing[t] = Rest /\ cache[p] = Nothing
  /\ doing' = [doing EXCEPT ![t] = [do |-> "Select", p |-> p]]
  /\ UNCHANGED <<strategy, db, cache, dirty, flushing, counters, spoiled>>

\* A row that does not exist is answered with 404.
Select(t) ==
  LET p == doing[t].p IN
  /\ Does(t, "Select")
  /\ doing' = [doing EXCEPT ![t] =
       IF Exists(p) THEN [do |-> "Fill", p |-> p, v |-> db[p]] ELSE Rest]
  /\ UNCHANGED <<strategy, db, cache, dirty, flushing, counters, spoiled>>

Fill_forever(t) ==
  /\ Does(t, "Fill")
  /\ cache' = [cache EXCEPT ![doing[t].p] = Entry(doing[t].v, 0)]
  /\ doing' = [doing EXCEPT ![t] = Rest]
  /\ SpoiledIf(NewerFlush(doing[t].p, doing[t].v), doing[t].p)
  /\ UNCHANGED <<strategy, db, dirty, flushing, counters>>
Fill(t) ==
  /\ Does(t, "Fill")
  /\ cache' = [cache EXCEPT ![doing[t].p] = Entry(doing[t].v, 120)]
  /\ doing' = [doing EXCEPT ![t] = Rest]
  /\ SpoiledIf(NewerFlush(doing[t].p, doing[t].v), doing[t].p)
  /\ UNCHANGED <<strategy, db, dirty, flushing, counters>>
-----------------------------------------------------------------------------
(* PUT /products/{id}. *)

Put(t, p, next) ==
  /\ doing[t] = Rest /\ writes < MaxWrites
  /\ writes' = writes + 1
  /\ doing' = [doing EXCEPT ![t] = next]

\* lazy and write-through: UPDATE and commit.
Update(t, p) ==
  /\ strategy # "write-back"
  /\ Put(t, p, IF strategy = "lazy" THEN [do |-> "Delete", p |-> p]
               ELSE [do |-> "Store", p |-> p, v |-> writes + 1])
  /\ db' = IF Exists(p) THEN [db EXCEPT ![p] = writes + 1] ELSE db
  /\ SpoiledIf(OldCopy(p, writes + 1), p)
  /\ UNCHANGED <<strategy, cache, dirty, flushing, failures>>

\* lazy: the entry is deleted.
Delete_never(t) ==
  /\ Does(t, "Delete")
  /\ doing' = [doing EXCEPT ![t] = Rest]
  /\ UNCHANGED <<strategy, db, cache, dirty, flushing, counters, spoiled>>
Delete(t) ==
  /\ Does(t, "Delete")
  /\ cache' = [cache EXCEPT ![doing[t].p] = Nothing]
  /\ doing' = [doing EXCEPT ![t] = Rest]
  /\ UNCHANGED <<strategy, db, dirty, flushing, counters, spoiled>>

\* write-through: the entry is replaced.
Store(t) ==
  /\ Does(t, "Store")
  /\ cache' = [cache EXCEPT ![doing[t].p] = Entry(doing[t].v, 120)]
  /\ doing' = [doing EXCEPT ![t] = Rest]
  /\ UNCHANGED <<strategy, db, dirty, flushing, counters, spoiled>>

\* write-back: the entry is replaced, then the key marked.
WriteBack(t, p) ==
  /\ strategy = "write-back"
  /\ Put(t, p, [do |-> "Mark", p |-> p])
  /\ cache' = [cache EXCEPT ![p] = Entry(writes + 1, 300)]
  /\ SpoiledIf(OldCopy(p, writes + 1), p)
  /\ UNCHANGED <<strategy, db, dirty, flushing, failures>>

Mark(t) ==
  /\ Does(t, "Mark")
  /\ dirty' = dirty \cup {doing[t].p}
  /\ doing' = [doing EXCEPT ![t] = Rest]
  /\ UNCHANGED <<strategy, db, cache, flushing, counters, spoiled>>
-----------------------------------------------------------------------------
(* flush_dirty. *)

Updated(f) == {p \in Products : rows[f][p] # Nothing}
Given(f) == keys[f] \cup Updated(f)
Flushing(f) == Given(f) # {}

\* The dirty keys are taken all at once.
Take(f) ==
  /\ strategy = "write-back" /\ dirty # {} /\ ~Flushing(f)
  /\ f = Loop => looping
  /\ keys' = [keys EXCEPT ![f] = dirty]
  /\ dirty' = {}
  /\ UNCHANGED <<strategy, db, cache, doing, copy, rows, faults, counters, spoiled>>

\* The entry of the next key is read; there may be none any more.
Fetch(f, p) ==
  /\ p \in keys[f] /\ copy[f] = Nothing
  /\ IF cache[p] = Nothing
     THEN keys' = [keys EXCEPT ![f] = @ \ {p}] /\ UNCHANGED copy
     ELSE copy' = [copy EXCEPT ![f] = [p |-> p, v |-> cache[p].v]] /\ UNCHANGED keys
  /\ UNCHANGED <<strategy, db, cache, doing, dirty, rows, faults, counters, spoiled>>

\* UPDATE waits for the locks of rows that other flushes have updated.
WaitsFor(f, g) == g # f /\ copy[f] # Nothing /\ rows[g][copy[f].p] # Nothing
CanUpdate(f) ==
  copy[f] # Nothing /\ copy[f].p \notin locked /\ \A g \in Flushers : ~WaitsFor(f, g)

UpdateRow_again(f) ==
  LET p == copy[f].p IN
  /\ CanUpdate(f)
  /\ rows' = IF Exists(p) THEN [rows EXCEPT ![f][p] = copy[f].v] ELSE rows
  /\ copy' = [copy EXCEPT ![f] = Nothing]
  /\ UNCHANGED <<strategy, db, cache, doing, dirty, keys, faults, counters, spoiled>>
UpdateRow(f) ==
  LET p == copy[f].p IN
  /\ CanUpdate(f)
  /\ rows' = IF Exists(p) THEN [rows EXCEPT ![f][p] = copy[f].v] ELSE rows
  /\ keys' = [keys EXCEPT ![f] = @ \ {p}]
  /\ copy' = [copy EXCEPT ![f] = Nothing]
  /\ UNCHANGED <<strategy, db, cache, doing, dirty, faults, counters, spoiled>>

Commit(f) ==
  LET OldFlush(p) == \E g \in Flushers \ {f} : \E x \in FlushCopies(g, p) : x < rows[f][p]
  IN
  /\ Flushing(f) /\ keys[f] = {}
  /\ db' = [p \in Products |-> IF p \in Updated(f) THEN rows[f][p] ELSE db[p]]
  /\ rows' = [rows EXCEPT ![f] = [p \in Products |-> Nothing]]
  /\ spoiled' = spoiled \cup {p \in Updated(f) : OldCopy(p, rows[f][p]) \/ OldFlush(p)}
  /\ UNCHANGED <<strategy, cache, doing, dirty, keys, copy, faults, counters>>

\* An exception ends the flush, and writeback_loop with it.  The connection is
\* not put back.
Abort(f) ==
  /\ keys' = [keys EXCEPT ![f] = {}]
  /\ copy' = [copy EXCEPT ![f] = Nothing]
  /\ rows' = [rows EXCEPT ![f] = [p \in Products |-> Nothing]]
  /\ looping' = (looping /\ f # Loop)
  /\ spoiled' = spoiled \cup Given(f)
  /\ UNCHANGED <<strategy, db, cache, doing, dirty, writes>>

\* Flushes that wait for each other; keys come in any order.
Deadlocked(f) ==
  \E S \in SUBSET Flushers : f \in S /\ \A g \in S : \E h \in S : WaitsFor(g, h)

\* PostgreSQL raises, of itself or in a flush that is deadlocked: the transaction
\* is aborted and its locks are released.
FlushFails(f) ==
  /\ Flushing(f) /\ (Deadlocked(f) \/ failures < MaxFailures)
  /\ failures' = IF Deadlocked(f) THEN failures ELSE failures + 1
  /\ Abort(f) /\ UNCHANGED locked

\* Redis raises: the transaction stays open.
FetchFails(f) ==
  /\ failures < MaxFailures /\ keys[f] # {} /\ copy[f] = Nothing
  /\ failures' = failures + 1
  /\ locked' = locked \cup Updated(f)
  /\ Abort(f)
-----------------------------------------------------------------------------
(* Redis, /reset, failures and crashes. *)

\* The time of an entry is over, however long other things take.
Expire(p) ==
  /\ cache[p] # Nothing /\ cache[p].ttl > 0
  /\ cache' = [cache EXCEPT ![p] = Nothing]
  /\ UNCHANGED <<strategy, db, doing, dirty, flushing, counters, spoiled>>

\* /reset: FLUSHDB.
Reset ==
  /\ cache' = [p \in Products |-> Nothing]
  /\ UNCHANGED <<strategy, db, doing, dirty, flushing, counters, spoiled>>

RequestFails(t) ==
  /\ doing[t] # Rest /\ failures < MaxFailures
  /\ failures' = failures + 1
  /\ doing' = [doing EXCEPT ![t] = Rest]
  /\ spoiled' = spoiled \cup {doing[t].p}
  /\ UNCHANGED <<strategy, db, cache, dirty, flushing, writes>>

\* The process dies and is started again; Redis and the database stay up.
Crash ==
  /\ failures < MaxFailures /\ failures' = failures + 1
  /\ doing' = [t \in Requests |-> Rest] /\ dirty' = {}
  /\ keys' = [f \in Flushers |-> {}] /\ copy' = [f \in Flushers |-> Nothing]
  /\ rows' = [f \in Flushers |-> [p \in Products |-> Nothing]]
  /\ looping' = TRUE /\ locked' = {}
  /\ spoiled' = spoiled \cup dirty \cup (UNION {Given(f) : f \in Flushers})
       \cup {doing[t].p : t \in {u \in Requests : doing[u] # Rest}}
  /\ UNCHANGED <<strategy, db, cache, writes>>
-----------------------------------------------------------------------------
Init ==
  /\ strategy \in Strategies
  /\ \E table \in Tables : db = [p \in Products |-> IF p \in table THEN 0 ELSE Nothing]
  /\ cache = [p \in Products |-> Nothing]
  /\ doing = [t \in Requests |-> Rest]
  /\ dirty = {}
  /\ keys = [f \in Flushers |-> {}] /\ copy = [f \in Flushers |-> Nothing]
  /\ rows = [f \in Flushers |-> [p \in Products |-> Nothing]]
  /\ looping = TRUE /\ locked = {}
  /\ writes = 0 /\ failures = 0 /\ spoiled = {}

Proceed(t) == Select(t) \/ Fill(t) \/ Delete(t) \/ Store(t) \/ Mark(t)
Flush(f) == (\E p \in Products : Fetch(f, p)) \/ UpdateRow(f) \/ Commit(f)

Next ==
  \/ \E t \in Requests : \/ Proceed(t) \/ RequestFails(t)
                         \/ \E p \in Products : Miss(t, p) \/ Update(t, p) \/ WriteBack(t, p)
  \/ \E f \in Flushers : Take(f) \/ Flush(f) \/ FlushFails(f) \/ FetchFails(f)
  \/ \E p \in Products : Expire(p)
  \/ Reset \/ Crash

Spec == Init /\ [][Next]_vars

\* Threads go on, the loop sleeps for a while only, and entries expire.
FairSpec ==
  /\ Spec
  /\ \A t \in Requests : WF_vars(Proceed(t))
  /\ \A f \in Flushers : WF_vars(Flush(f)) /\ WF_vars(Deadlocked(f) /\ FlushFails(f))
  /\ WF_vars(Take(Loop))
  /\ \A p \in Products : WF_vars(Expire(p))
-----------------------------------------------------------------------------
\* Every variable has its type; a flush has only the keys it took, and what it
\* has read is one of those it still has to write.
TypeOK ==
  /\ strategy \in Strategies
  /\ db \in [Products -> Value \cup {Nothing}]
  /\ cache \in [Products -> [v : Value, ttl : 0..300] \cup {Nothing}]
  /\ doing \in [Requests -> {Rest} \cup [do : {"Select", "Delete", "Mark"}, p : Products]
                              \cup [do : {"Fill", "Store"}, p : Products, v : Value]]
  /\ dirty \subseteq Products /\ spoiled \subseteq Products
  /\ keys \in [Flushers -> SUBSET Products] /\ looping \in BOOLEAN
  /\ locked \subseteq Products
  /\ copy \in [Flushers -> [p : Products, v : Value] \cup {Nothing}]
  /\ \A f \in Flushers : copy[f] # Nothing => copy[f].p \in keys[f]
  /\ rows \in [Flushers -> [Products -> Value \cup {Nothing}]]
  /\ \A f \in Flushers : \A p \in keys[f] : rows[f][p] = Nothing
  /\ writes \in Value /\ failures \in 0..MaxFailures

\* Somebody is still going to bring the entry and the row of p together.
Settling(p) ==
  \/ p \in dirty
  \/ \E t \in Requests : doing[t].do \in {"Delete", "Store", "Mark"} /\ doing[t].p = p
  \/ \E f \in Flushers : p \in Given(f)

\* No PUT leaves an entry that differs from its row unless somebody is about to
\* settle it.  Exempt are products where a thread wrote a copy that a PUT or a
\* flush had overtaken, and where a step failed: these are the ways, and the only
\* ways, in which the strategies go wrong.
Coherent ==
  \A p \in Products \ spoiled : Exists(p) => Agrees(p) \/ Settling(p)

\* However requests, flushes, failures and crashes interleaved, once there are no
\* more PUTs the cache agrees with the database in the end: every wrong entry has
\* a time to live and is refilled from the row.
Converges == <>[](\A p \in Products : Agrees(p))
=============================================================================
