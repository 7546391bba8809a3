# PyBroker in TLA+

A verification development of PyBroker, the STOMP message broker of this
repository (`pybroker/`), and of the two exercises beside it: the cache
strategies (`practice_cache_comprasion/`) and the orders service (`practice1/`).

## 1. The system

| component | state | operations | what must be right |
|---|---|---|---|
| **Broker** `server/broker.py` | the queues, the connections | a handler per frame, `_deliver_from_queue`, `_handle_failed_delivery`, `_move_to_dlq`, `check_timeouts`, `purge_expired`, `restore`, `unregister` | no message that was not acknowledged is lost, each goes to one consumer at a time, a ready message meets a free consumer |
| **Queues** `server/queue.py`, `common/models.py` | heap, `in_flight`, consumers, `_consumer_index` per queue | `add_message`, `pop_message`, `mark_in_flight`, `ack`, `take_in_flight`, `check_timeouts`, `purge_expired` | order by priority and FIFO/LIFO, round robin over a list that changes |
| **Storage** `server/storage.py` | tables `queues`, `messages` | one statement and one commit per method | what is confirmed is stored, what is stored can be found |
| **Server loops and sessions** `server/server.py`, `server/connection.py` | a task per connection, the timeout and the expiry loop | read a frame and handle it, scan every second, drain | every scan ends; nothing waits for ever |
| **Topics** `server/topic.py` | exact and wildcard subscriptions | subscribe, unsubscribe, `get_subscribers`, fan-out | every subscriber that stays gets every message once |
| **Client SDK** `client/client.py` | handlers, listener task | publish, subscribe, ack, nack, close | frames are dispatched in order; only a client that has tied itself to the server waits for ever |
| **Protocol** `server/protocol.py` | the characters on a connection | `read_frame`, `build_frame` | reading undoes writing; no part of a frame passes for a frame |
| **Metrics, web UI** | counters | read-only views | not part of any promise |
| **Cache strategies** `practice_cache_comprasion/app/main.py` | Redis, PostgreSQL, dirty keys | GET, PUT under lazy, write-through, write-back; the flush loop | the cache agrees with the database in the end, and at once but for overtaken copies and failures |
| **Orders** `practice1/app/` | the tables of PostgreSQL | `place_order`, `update_email`, `create`, `add_product`, each a transaction | a call takes effect as a whole or is refused for a good reason; callers do not wait for each other for ever |

How they interact: a frame read by the task of a connection runs a handler of
the broker; the handler changes queues in memory, awaits calls of the storage
(one worker thread of `aiosqlite`, first come first served) and writes to the
sockets of *other* connections, whose `drain` it awaits. The two loops of the
server do the same from the side of time. All tasks share one event loop: they
interleave at awaits only, and what is hard about this code is everything that
another task does in between.

## 2. Modules

| module | what it is |
|---|---|
| `Lists` | what a list comprehension returns, without recursion |
| `MessageQueue` | operators of one queue: the pop order, consumers, round robin |
| `Storage` | operators of the two tables |
| `Broker` | the state machine: tasks, handlers, loops, the database thread, crashes and `restore()` |
| `BrokerProperties` | the type invariant and the promises |
| `MCBroker` + `*.cfg` | instances for TLC |
| `ReadyQueue` | abstract specification of the ready messages of a queue |
| `HeapQueue` | the heap of `queue.py`, shown to implement `ReadyQueue` |
| `Wire` | `read_frame` and `build_frame` over a connection that may break |
| `MCParts` + `parts.cfg` | the instance for `HeapQueue` and `Wire`, which do not interact |
| `QueueTheorems` | lemmas on sequences, list comprehensions and the order of a heap |
| `PartsTheorems` | the proofs that `HeapQueue` implements `ReadyQueue` and that `Wire` carries frames in order, each as `AsRead` says |
| `BrokerDurability`, `BrokerDelivery`, `BrokerMessages` | the inductive invariants of `Broker`, theorems and proofs, each module upon the one before |
| `FanOut` | abstract specification of publishing to subscriptions |
| `Topics`, `MCTopics` + `topics.cfg` | `TopicManager`, the topic branches of the handlers and the client SDK, shown to implement `FanOut` |
| `TopicsTheorems` | the inductive invariant of `Topics`, theorems and proofs |
| `Cache`, `MCCache` + `cache.cfg` | the strategies lazy, write-through and write-back over Redis and a table |
| `CacheTheorems` | the inductive invariant of `Cache`, theorems and proofs |
| `Shop` | abstract specification of the services of `practice1/` |
| `Orders`, `MCOrders` + `orders.cfg` | those services, statement by statement, over the locks of PostgreSQL, shown to implement `Shop` |
| `OrdersTheorems` | the inductive invariant of `Orders`, theorems, and the proof of the refinement |

### How `Broker` corresponds to the code

*Tasks.* `todo[t]` is the sequence of steps task `t` still has to do. A frame
gives the task of its connection the steps of its handler (`PublishSteps`,
`AckSteps`, ...), after the handler's first synchronous part, which is the
action itself (`Send`, `Ack`, ...). A step that calls another coroutine is
replaced by the steps of the callee (`Become`). `running` is the task that holds
the event loop: it goes on without interruption until a storage call, which it
queues in `dbq`, or until a drain that waits. So exactly the awaits that can
suspend are points of interleaving. The drain of a connection that is open and
takes what it is sent returns at once, so `DispatchSteps` leaves it out there.

*A storage call* is executed, committed and answered in one action
(`QueueSaved`, `MessageSaved`, ...). In the code `execute` and `commit` are two
trips to one first-come-first-served thread, and what other tasks execute in
between is committed by whoever commits first; no task reads the database while
the server is up, and a crash between the two is a crash before the call or
after it. A call that raises (`StorageFails`) either had no effect, or its
statement was executed and the commit raised: then the next commit, of whatever
call, keeps the effect (`Executed`). Nobody reads the tables in between, and a
crash in between leaves what a call without effect leaves.

*Wire.* `wire` is what has been written and not yet read, `reading` the local
variables of `read_frame`, which awaits one line per `ReadCommand` or
`ReadHeader` and the body in `ReadBody`. `Break` leaves any part of the
characters. A frame that is sent has its headers as pairs in the order
`build_frame` writes them, one that was read has a function on names.
`Characters` are what strings are sequences of; what `str` makes of a length
(`Decimal`) is one of them, which `int` takes back: all that is assumed of a
number is that two lengths never look the same and that it holds no colon,
backslash or line end. A caller may name `content-length` itself: `build_frame`
puts the right length in its place when there is a body (`HeadersOf`) and leaves
it alone when there is none (`protocol.py:81`). `FramesSurvive` speaks until such
a length is wrong (`Stated`). The limit of `asyncio` is on a line as it came, with
its carriage returns (`size`), `MAX_FRAME_SIZE` on what is left without them. The
length of a line counts characters; in the code lines are cut in bytes and
counted in characters, which differs for other alphabets only.

*Queues.* `ready[q]` is the order in which the heap of `q` will pop. `HeapQueue`
keeps the entries `(-priority, order, id)` and implements this sequence.
`inflight[id]` is the attempt in the `in_flight` entry. Ids are numbered in
order of creation: the id order is the order of `created_at`, which assumes a
wall clock that does not stand still or run backwards between two messages of
one queue.

*Time.* There is no clock. `Expire(id)` makes any message with an `x-ttl` expire
at any moment while no task runs; any message in flight may be found overdue by
a scan. Scans that would find nothing are left out.

*Connections.* `link` is `open`, `lost` (the peer is gone, or sent DISCONNECT:
a drain may already fail, frames that arrived are still handled) or `gone`
(unregistered). A connection is not used again after it; CONNECT is merged with
the opening of the socket.

*Crash* kills the process: memory is gone, the database stays. `Start` and the
steps of `restore()` follow, with a crash possible at any of them. Loss of power
(WAL with `synchronous = NORMAL` may lose the last commits) is not modelled. A
graceful stop cancels tasks at their awaits and does no more than a crash.

*A storage call that raises* (`StorageFails`) ends the handler or the scan,
but takes the `except` clause of the delivery loop when it was `update_status`,
whether or not the statement was executed.

*The environment* is what clients can send: SEND with any of the given
priorities, queue types and TTLs, with a receipt; SUBSCRIBE under a free id;
UNSUBSCRIBE; ACK and NACK of a message they were sent, once. ACK is by id
and the server looks it up in all queues, as the model does.

### How `Topics` corresponds to the code

`Topics` shares no state with `Broker`: topics touch neither queues nor the
database. `exact` and `wildcard` are the two collections of `TopicManager`; a
destination is the sequence of its parts between dots, and the first part of
`/topic/logs.error` is `/topic/logs`. A set of exact subscribers is listed in
any order. `ReadSend` computes the list once, `SendMessage` writes to one
subscriber after the other and may wait in `Drained`, so everything can happen
between two subscribers. A transport takes `High` frames before a drain waits.

At the other end `Listen` reads a frame and calls its handler, `HandlerEnds`
lets the listener go on. A handler may publish (`Relay`): it writes at once and
awaits the drain, and the listener with it (`InDrain`), until the server has
read what was written. The server for its part may wait, in the task of that
very client, for the client to read. `Tied` is this wait of both ends, and TLC
reaches it. It takes more bytes under way in both directions than the high-water
marks of both transports and of both readers, all of which `High` stands for.

`close()` (`client.py:35`) does not end a connection at once. `Close` sets
`_connected` to `False`, writes DISCONNECT and awaits the drain of it
(`closing`). The listener goes on with the frame or the handler it awaits and
stops after it, as its loop asks for `_connected` (`ReadsOn`). Only when the
drain has returned or failed does `CloseSocket` cancel the listener, a handler
that is still under way included, and close the socket. So there is a second way
to be tied: the listener has stopped, the server writes to this client and waits
for it to read, and does not read the DISCONNECT whose drain `close()` awaits
(`Stuck`). `Lose` is a broken connection, `EndOfStream` the listener's end when
the server has closed it. Some of the bytes under way may still be read when a
connection ends.

`FanOut` routes a message in one step to the subscriptions its topic is covered
by, `Covers` being stated over what a star may stand for and not part by part as
`_match` does. The mapping takes a subscription for `listening` while its client
has a handler for it and is connected; what is on its way to others may be
dropped.

### How `Cache` corresponds to the code

Handlers run in a pool of threads, so every access of Redis, of the table or of
`dirty_keys` is an action, and `doing[t]` says what a request still has to do.
UPDATE and commit of a PUT are one action: another UPDATE of the row waits in
between, and nobody sees the uncommitted value. A flush updates several rows in
one transaction and reads Redis in between, so `rows[f]` keeps its UPDATEs and
their locks until `Commit`. The strategy is chosen in `Init`. Every PUT has its
own value, in order of the PUTs. `Expire` may come at any time.

An exception in a flush leaves its connection out of the pool. A failed
statement releases the locks of its transaction, a failing Redis does not:
`FetchFails` keeps the rows locked, and later flushes of them hang.

`spoiled` is a history variable. A product is added when somebody changes it
while a thread holds an older copy it will write (a GET that missed, a PUT that
has committed but not stored, another flush), and when a step that was due is
lost to a failure.

### How `Orders` corresponds to the code

A call is a transaction: `UnitOfWork.__enter__` begins it (`Ask`), the body of
the `with` executes its statements one after the other, `__exit__` commits or
rolls back and closes the session (`Exit`). `at[t]` is the statement call `t` is
about to execute, `result[t]` what its body came to. A statement and the Python
code up to the next one are one action, as nobody sees the latter. `customers`,
`products` and `orders` hold what is committed; `wrote[t]` says that `t` has
flushed what `Committed` will add, of which others see only its place in a
unique index.

The database is external and modelled by what the code relies on, at READ
COMMITTED, the default of PostgreSQL that `database.py` leaves in place. A row
that is selected FOR UPDATE waits for its owner and is locked until the
transaction ends, and `get_many_locked` locks row by row in any order, since its
query has no ORDER BY. A flush waits while an entry of the unique index belongs
to a transaction that has not ended (`HoldsEmail`, `HoldsName`: one that it
inserts, and one that it vacates). A failing statement rolls back what the
transaction did, so its locks are free before `__exit__` comes. Of a cycle of
waits PostgreSQL aborts one member, any (`DeadlockDetected`). `Break` is a
connection lost at a statement or at the commit, `CommitUnheard` one that is
lost after the commit was executed.

Of the data, `fits` says whether what a call inserts fits the columns of
`models.py`: quantities, subtotals and total of an order, name and price of a
product, names and email of a new customer. The email of an `update_email`
always fits, since its type `EmailStr` allows fewer characters than the column.
Products are known by their name, a new customer by the
call that creates it, and the lines of an order are a set of products.

In `Shop` a call is served in one step, or refused. A refusal must name a reason
that was good at some moment between call and answer; a call that lost its
database may have been served or not. The mapping takes a call for served at its
commit, and for answered as soon as its body has raised.

## 3. Runs

In the runs of `Broker`, `Conns` are two connections everywhere: one publisher
and one or two consumers make every pair of handlers, and every handler with
every loop, interleave. One subscription id per connection is enough, since the
broker never compares two consumers of one connection with each other except by
position in the list.

| run | instance | what it shows |
|---|---|---|
| `delivery` | c1 publishes and consumes, c2 consumes slowly; both NACK; 2 messages | `TypeOK`, `Held`, `Exclusive`, `NoLostWakeup` under all interleavings of two deliveries, scans, ACK and NACK |
| `restart` | 2 priorities, FIFO and LIFO, 2 messages, 1 crash, 1 storage failure with or without effect | `Durable`, `QueueRowFirst`, `OneQueueType`, `ServedInOrder` |
| `loss` | c2 may break, 1 message with a TTL, 1 crash | `Held`, `NoLostWakeup`, `NoGhostConsumer`, `RowsGoForAReason` with failed drains and expiry |
| `dlq` | q1, its dead letter queue and the dead letter queue of that, all with `max_deliveries` 1 and all used by clients, 3 messages, both types | `Held`, `NoLostWakeup`, `QueueRowFirst`, `OneQueueType`, `RowsGoForAReason` |
| `liveness` | publisher, consumer that may stop reading, 2 messages, `FairSpec` | `Redelivered`, `Delivered`, `ScanEnds` |
| `parts` | 3 messages, 2 priorities, 5 pushes, both types; or two frames with every pair of special characters, too large ones, lengths named by the caller, one break | `PopsInSequence` (refinement of `ReadyQueue`), `FramesSurvive` |
| `topics` | c1 publishes to two topics, the handlers of both clients publish too; c1 is subscribed exactly, c2 by a pattern, and c2 may close or break | `TypeOK`, `NoGhostSubscriber`, `FansOutOnce` (refinement of `FanOut`), `EveryoneServed` |
| `cache` | all strategies, two requests, loop and /flush, 2 PUTs, one product with a row and one without, 1 failure or crash | `TypeOK`, `Coherent`, `Converges` |
| `orders` | 3 calls out of 10 requests: orders that share two products, changes to one free email and to one that may become free, a creation, a new product and an order with it; 1 lost connection | `TypeOK`, `StuckOutOfOrder`, `ServedAsOne` (refinement of `Shop`), `Answered` |

Two messages are needed for an order, a scan with several overdue messages and a
delivery loop that goes round twice; where a run has one, the second would only
add an order that `restart` and `delivery` look at. One crash visits every point
at which the process can die, `restore()` included; a second one would find the
tables in no new state, as `restore()` writes nothing that the first life did
not. One storage failure likewise. `MaxMessages` counts copies, and every run
leaves room for all the copies its messages can have, so the bound never stops a
move to a dead letter queue. `max_deliveries` other than 5 only comes from the
`queues` table, hence the constant `Configured`. The chain `q.DLQ.DLQ...` is cut
after its first queue, which its own `max_deliveries` of 5 never leaves, and in
`dlq` after its second, where every queue of the chain gives up at once and a
copy is copied again. The dead letter queue that a move creates gets
`max_deliveries` 1 there, where the code gives it the default 5
(`broker.py:342`): the run shows a chain that the code has when the rows of its
queues were given that value beforehand, together with the creation of the row
by the move. With the default a copy that fails is requeued, as in the other
runs. In `topics` c1 publishes two messages, to topics of which the pattern
covers one, and a handler a third: two messages of one publisher for their
order, and two publishers whose fan-outs interleave and who may wait for each
other. `High` is 0, so every frame makes its drain wait. There is no bare star
in the patterns: `_match` takes the star of `/topic/*` for a character and
`Covers` reads it the same way, so the run would not tell whether it should. In
`orders` three calls are enough for two that wait for each other beside a third
that waits for either or takes what they vacate; every pair of statements that
touch one row or one index entry occurs. In `parts` the second frame shows what
a mistake in the first does to those behind it. The frames have at most two
headers and a `content-length` that `build_frame` adds; the sizes 12 and 5 stand
for `MAX_FRAME_SIZE` and the line limit of `asyncio`, and frames on both sides
of each are sent. In `cache` two PUTs are what it takes for one to overtake the
other, in the table, in the cache or in two flushes. Two flushes that deadlock
over two rows need four PUTs and two rows and are beyond the run, though the
model has them. `CHECK_DEADLOCK FALSE` is set everywhere because clients may
have nothing left to do once the bounds are reached.

*Fairness.* One weak fairness for `Restart` and every `Run(t)`: the event loop
goes on while a task can, and so does `restore()`. `SF(TimeoutTick)`: the loop
wakes every second, but the event loop may be taken at that moment.
`SF(TimesOut(id))`: a message that is in flight at scan after scan is overdue in
the end. Nothing is assumed of clients or of the drain of a client that does not
read, so the fairness exempts a task that is `HeldUp` by one. The `liveness` run
has a slow consumer: other tasks may wait for it, and the timeout loop must go
on unless it is the one that waits. There is no crash in it: a crash empties
`in_flight` and leaves no consumer, so it settles all three promises at once.
Nor are there `Nackers`: a consumer that NACKs at once for ever can keep one
scan of the timeout loop busy for ever, which the code allows. In `topics`
clients read what they are sent, handlers end once the drain of what they
published does, and `close()` goes on once its drain has returned or failed, not
before; clients need not publish, subscribe or stay, and no connection need
break. One weak fairness for all of them is enough, since
nothing goes on for ever: some task that can go on will. In `orders` likewise:
some statement that can be executed is, and the database looks for deadlocks; no
call need be made and no connection be lost. In `cache` threads go on, the loop
comes round, and an entry with a time to live expires; nobody is assumed to GET
or to PUT, and nothing to fail or not to.

### Disagreements

| run | violated | what happens |
|---|---|---|
| `deliveries` | `DeliveriesBounded` | the attempt is kept in an entry that NACK and timeout pop: every delivery is the first, only `max_deliveries = 1` ever moves a message (`queue.py:73`, `REPORT.md:62`) |
| `dlqcrash` | `Held` | a crash between the deletion of the original row and the insertion of the copy (`broker.py:355`, `README.md:28`) |
| `twice` | `Exclusive` | a drain that fails after the message was requeued by a scan pops the next delivery's entry and requeues it again (`broker.py:324`, `README.md:7`) |

Three more are left without a run of their own. `docs/architecture.md:136` draws
an acknowledged message as gone ("SEND ──► READY ──► IN_FLIGHT ──────►
удалено"). A message is in the heap before its row is saved (`broker.py:279`,
`283`); another task may deliver it meanwhile, its ACK deletes no row
(`broker.py:203`), the row comes afterwards and the message is delivered again
after a restart. `practice_cache_comprasion/REPORT.md:90` says of write-through
that the data are always synchronised. Two PUTs that commit in one order and
store in the other leave a wrong entry for up to 120 seconds. `Coherent` fails
at once when it does not exempt the products in `spoiled`, under each of the
strategies, and `Converges` is what holds without exemption.
`docs/implementation-plan.md:17` wants a frame that is built and parsed to come
back as it was, and `REPORT.md:31` and `REPORT.md:74` speak of escape sequences
and of all of STOMP 1.2; `_escape` leaves a carriage return as it is, and
`rstrip("\r\n")` (`protocol.py:50`) takes it off the end of a header. `AsRead`
in `Wire` says so, and `FramesSurvive` fails if a frame is expected back
unchanged.

`Held` is therefore checked with `max_deliveries = 1` without crashes and with
crashes without a dead letter queue, and `Exclusive` without broken connections;
in these bounds the promises hold. `Held` is not checked with storage failures
either: a failing call in the middle of `check_timeouts` drops the rest of the
overdue messages from memory until the next start, for which `Durable` holds.
The proofs below show that nothing else is in the way: `Calm` and `Steady` are
these conditions. `Held` follows a message through copies of copies (`Lineages`):
a client may consume from `q.DLQ` and fail there, and that the first copy alone
is held or over is false then, as the run `dlq` with its chain of three queues
shows if `Held` is stated so.

## 4. Proofs

For every number of connections, queues, messages, calls, crashes and failures,
under the named assumptions on the constants (`ConstantsOK`,
`HeapConstantsOK`, `WireConstantsOK`, `TopicConstantsOK`, `CacheConstantsOK`,
`OrdersConstantsOK`) only:

| theorem | module | states |
|---|---|---|
| `TypeCorrect` | `BrokerDurability` | `Spec => []TypeOK` |
| `ConfirmedIsStored` | `BrokerDurability` | `Spec => []Durable` |
| `QueueRowIsFirst` | `BrokerDurability` | `Spec => []QueueRowFirst` |
| `RowsAreKept` | `BrokerDurability` | `Spec => RowsGoForAReason` |
| `ConsumersAreLive` | `BrokerDelivery` | `Spec => []NoGhostConsumer` |
| `QueueTypeIsOne` | `BrokerDelivery` | `Spec => []OneQueueType` |
| `NothingSleeps` | `BrokerDelivery` | `Spec => [](dbFailures = 0 => NoLostWakeup)` |
| `NowhereTwice` | `BrokerDelivery` | `Spec => [](Steady => Exclusive)` |
| `NothingIsDropped` | `BrokerMessages` | `Spec => [](Calm => Held)` |
| `FirstInOrder` | `BrokerMessages` | `Spec => ServedInOrder` |
| `Types` | `CacheTheorems` | `Spec => []TypeOK` |
| `Coherence` | `CacheTheorems` | `Spec => []Coherent` |
| `Types` | `TopicsTheorems` | `Spec => []TypeOK` |
| `Ghosts` | `TopicsTheorems` | `Spec => []NoGhostSubscriber` |
| `Promises` | `TopicsTheorems` | `Spec => []Promising` |
| `FanOuts` | `TopicsTheorems` | `Spec => FansOutOnce` |
| `HeapPops` | `PartsTheorems` | `Spec => PopsInSequence` |
| `UnescapeEscape` | `PartsTheorems` | `\A v \in Seq(Characters) : Unescape(Escape(v)) = v` |
| `Transported` | `PartsTheorems` | `WireSpec => []WireOK` |
| `FramesSurviving` | `PartsTheorems` | `WireSpec => []FramesSurvive` |
| `Types` | `OrdersTheorems` | `Spec => []TypeOK` |
| `Deadlocks` | `OrdersTheorems` | `Spec => []StuckOutOfOrder` |
| `Service` | `OrdersTheorems` | `Spec => ServedAsOne` |

*Typing.* `TypeOK` is not inductive: `Deliver` reads `consumers[q]` of the queue
its step names, so the step must name a queue. `Typed` adds that every step of
every task names a queue, message and consumer there are (`Work`), that a drain
is followed by an `update_status`, that a task waits in `dbq` once, with a
storage call as its next step and without holding the event loop, and that
heaps, inboxes and rows hold known messages only. `Rests` adds that nothing runs
while the server is down. Each action has a lemma; the work is in the lemmas on
sequences (`WorkConcat`, `ProceedKeepsTasks`, `QueueTheorems`).

*Durability.* What a task will do to the tables was decided when its steps were
laid out, and anything happens in between. `Backed` says of each step to come
that its reason holds already or will be made to hold by an earlier step of the
same task: a `DeleteMessage` is of a message that is over or was copied; a
`SaveMessage` comes when its queue has a row, or after a `SaveQueue` of it; a
`Receipt` comes when its message is safe, or after its `SaveMessage`. The facts
these reasons are about only grow (`Lasting`), except in a crash, which clears
all steps: so the steps of *other* tasks survive every action, and only the
task that acts needs a look. `Kept` is `Backed` for all tasks with
`confirmed \subseteq Safe` and `Stored \subseteq Homed`, and the three theorems
follow. A failed call whose statement was executed changes the tables as the
call would have, with the same reason (`ExecutedKept`), and ends its task's
steps.

*Consumers and types.* `Opening` says who can act when: until the socket is
open only `Main` has steps, those of `restore()`, and no connection is there;
afterwards `Main` rests. `OnlyLive` is that every consumer, in whatever
position, belongs to a connection that is open or lost; it survives `Unregister`
because that walks all the queues, and suspended handlers because the consumer
is added before their first await. `OneType` says of a queue with a row (`Fits`)
that it has the type of the row in memory, or that its row is still to be loaded:
a handler writes the row from the queue in memory, and `restore()` makes the queue
from the row before a frame can name it.

*Wakeups.* `Woken` says that each queue with a message and a consumer has a task
with a delivery of it to come, and of each task (`Followed`) that what it still
has to do ends well: a `Failed`, a `SetInFlight` and the outcome of a `Drain` are
followed by a delivery. The second part is why a delivery loop may stop: it stops
when the heap or the list of consumers is empty, and whoever changes that has a
delivery of its own to come. A storage call that raises takes the rest of its
handler with it, its delivery included, hence `dbFailures = 0`.

*One place.* `Single` counts, for each message, the heaps, `in_flight`, and the
steps to come that will put it into one; every action moves it from one of them to
another, and `Unloaded` says that `restore()` loads a queue once, before any of
its messages is anywhere. Outside `Steady` it is false, by `broker.py:324`: the
run `twice`.

*Nothing dropped.* Let a message be owed (`Owed`) when it was confirmed, has a row
or will be given either by a task, and until the first crash in any case.
`Accounted` says that an owed message is in memory, or in the hands of a task, or
still to be loaded, or was acknowledged, expired or copied (`Justified`). The
copy is owed like any other message, and it is later than its original
(`CopiesAreLater`): so the last member of a lineage was not copied, and is held or
over. The crash of the run `dlqcrash` removes the original row and leaves no copy,
hence the second half of `Calm`: after a crash no message may have been moved.

*Order.* `Rightly` says that a message lies in the heap of its own queue, and
that one which is in flight, or which a step will fail or requeue, was delivered
before. `Rebuilding` says that the steps of `restore()` load each queue once,
into an empty heap, in ascending order of ids. `Turns` says of any two messages
of a heap that they are in the order of their first deliveries, unless the one
before was delivered already: what `Push` of a new message does by its place in
the heap, `restore()` by `ORDER BY created_at`, and a requeued message cannot
spoil, having been delivered. `FirstIsDue` is then about one step: what a
delivery hands out is the first of the heap, which is due before the rest.

*Heap.* That `heapq` pops what this sequence does is the refinement of
`ReadyQueue` by `HeapQueue`. `Heaped` says that every entry has the priority of
its message and an `order` the counter has given out, and that the entries can
be listed with the least first (`Sorted`). Such a list is what `PopOrder`
computes, since the k-th entry has k - 1 entries before it (`SortedPops`). So
each step is shown on lists: an added entry goes between those that `AddMessage`
leaves before and behind the message, because its `order` is beyond all others
on the side its type asks for; a pop takes the head; a purge leaves a sublist.

*Wire.* `FramesSurvive` says nothing of a frame that is half read. `Carried`,
which `WireOK` says of all behaviours in which no caller has named a wrong
length, adds where `read_frame` is (`Place`): between frames, with the frames
not yet returned before it (`Stream`); at a header line, with the headers of the
lines before it and their lengths counted (`InHeaders`); or at a body
(`InBody`). In each case what is on the wire, followed by some text that was
lost, is exactly what is left to read, and nothing is lost while the connection
is open. A step takes one line or body: either it is on the wire as a whole, or
the connection ends in it (`NextLine`, `BodyEndsOf`) and then nothing can be
returned any more. A header line gives back the name and the stripped value
(`HeaderRead`): `Escape` leaves no line end and no colon, so the line and the
name end where they should, `Unescape` undoes it (`UnescapeEscape`), and
stripping carriage returns from the line strips them from the value
(`StripEscape`). `Escape` is first shown to replace each character on its own,
which is where the order of the three `replace` calls matters. Induction over
strings is put as a fact about sets: a set with the empty sequence that has,
with every sequence, each longer by one element has all (`Appending`, from
`Counting` on numbers), which needs no operator as a parameter.

*Cache.* `Coherent` is not inductive: it lets any flush that has the product
settle the difference between row and entry, even one that read an older entry.
`Fresh`, for products that are not `spoiled`, says which copies can still bring
the two together: what a request is about to write is the value of the row, what
a flush is about to write lies between row and entry, and an entry that differs
from its row is dirty, or in a list of keys whose value is not read yet, or held
by a flush in its present value (`Pending`). `Sound` adds that no value is newer
than the last write and that only write-back has flushes (`Bounded`, `Apart`).

*Topics.* `Orderly` adds to `TypeOK` and `NoGhostSubscriber` that a SEND
frame under way names a message there is, that the task that holds the event
loop has a subscriber left and does not wait, and that the inbox of a connection
that was unregistered is empty: no SUBSCRIBE of it can be read any more,
which is why `Unregister` may forget its registrations once and for all.

For the refinement of `FanOut`, `Promising` adds two things. `Ordered` follows
the messages of one publisher: in its inbox they are in the order they were sent
(`InOrder`), the copies its task still has to write are of one message, older
than those in the inbox, and for different subscriptions (`FanningOut`), and
what was written to an outbox is in order there, and before what will be written
to the same subscription (`Copied`). So a message is on its way to a
subscription once, and the first one a listener reads is the earliest of its
publisher. `Known` relates the two indexes to the subscriptions: they hold a
registration exactly under the destination the connection has recorded for it
(`Indexed`), which needs that an id is subscribed at most once, counting the
frames under way (`SubscribesOnce`). A publication then maps to `FanOut!Send`,
the reading of its frame to `FanOut!Publish` for all subscriptions at once, a
call of a handler to `Deliver`, and all the rest to `Session` or a stutter; a
copy that is written moves from one part of `OnTheWay` to another.

*Orders.* `Sound` says, beside `TypeOK` and that a row is locked by one call
under way (`OneOwner`, which is what PostgreSQL gives and no promise of this
code): what a call has locked,
scanned and written at each statement (`Shape`); an email change works on a
customer it has locked and a creation on one there is not yet (`Rows`); what a
call that is to commit has written can be committed (`Committable`); of two
calls only one has an entry of a unique index (`Claims`); and committed emails
are unique (`Unique`). For `Deadlocks`, take among the calls of a stuck set the
product that comes last in `Position` of those its members wait for: its owner
is stuck in a scan too, and waits for an earlier one. For the refinement, every
action maps to one of `Shop` or to a stutter: a refusal to `Refuse`, the product
that was missing to `Notice`, a commit to `Serve`, whose conditions (`Fine`) are
what `Committable` and `Claims` keep true from the check to the commit.

Model-checked only: liveness (`Redelivered`, `Delivered`, `ScanEnds`,
`EveryoneServed`, `Converges`, `Answered`), since fairness and `ENABLED` are
beyond the prover. Every safety invariant, action property and refinement of the
passing runs is the subject of a theorem, three of them under the condition the
table shows.

## 5. Not modelled

The components with status `not_modelled` in `PROJECT.json`, with the reasons
there. Inside the broker: frames with
missing headers or unknown commands, which change nothing; headers of a
publisher that override `message-id` or `subscription` of a MESSAGE;
`SUBSCRIBE` under an id in use; the ACK mode, which the server stores and never
reads; the drain of a RECEIPT or ERROR on the connection that asked for it.

In `Topics`: handlers that subscribe or close, the queues of `asyncio` below
their high-water marks, `connect()`, and the writer that `close()` leaves open
when the listener has ended before (`client.py:37`). In `Orders`: the amounts
themselves (a total is the sum of its lines by one expression), the demo program
and its retries of the first connection, which happen before any call. In
`Cache`: the size of the connection pool, metrics, and the loss of Redis or of
the table.

## 6. Plan

1. The connection pool of `Cache`, counted, with handlers that find it empty.
