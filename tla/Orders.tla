------------------------------- MODULE Orders -------------------------------
(***************************************************************************)
(* The services of practice1/app: every call is a transaction of           *)
(* PostgreSQL at READ COMMITTED, one action per statement.  A statement    *)
(* reads what is committed; rows selected FOR UPDATE stay locked, and an   *)
(* uncommitted email or product name keeps its place in the unique index,  *)
(* until the transaction ends.                                             *)
(*                                                                         *)
(* An operator name_mistake, put in the place of `name', must make one of  *)
(* the properties below fail; the model uses none.                         *)
(***************************************************************************)
EXTENDS SequencesExt

CONSTANTS
  Calls,        \* calls of the services, each in a thread of its own, numbered
                \* in the order in which they are made
  Seeded,       \* customers there are from the start
  Products, Emails,
  Position,     \* any order of the products
  None

\* What the environment does, and the bounds of the model.
CONSTANTS
  FirstEmail, OnOffer,  \* what is in the tables at first
  Asked,                \* requests that are made, creations apart
  Wanted,               \* emails of the customers that are created
  MaxFaults             \* statements that lose the database

\* A new customer is known by the call that creates it.
Customers == Seeded \cup Calls

\* `fits' says that the names and amounts fit the columns of models.py; an email
\* that passes EmailStr always does.
Requests ==
  [do : {"place_order"}, customer : Customers, items : SUBSET Products, fits : BOOLEAN]
  \cup [do : {"update_email"}, customer : Customers, email : Emails]
  \cup [do : {"create"}, customer : Customers, email : Emails, fits : BOOLEAN]
  \cup [do : {"add_product"}, product : Products, fits : BOOLEAN]

Refusals == {"CustomerNotFound", "ProductNotFound", "DuplicateEmail", "IntegrityError",
             "DuplicateProduct", "DataError", "OperationalError"}
Labels == {"none", "customer", "products", "scan", "email", "write_email",
           "name", "write_product", "exit", "end"}

ASSUME OrdersConstantsOK ==
  /\ Calls \subseteq Nat /\ Seeded \cap Calls = {} /\ Customers \cap Products = {}
  /\ None \notin Emails \cup Requests \cup Refusals \cup {"ok"}
  /\ FirstEmail \in [Seeded -> Emails] /\ IsInjective(FirstEmail)
  /\ IsFiniteSet(Products) /\ Position \in Injection(Products, Nat)
  /\ OnOffer \subseteq Products /\ Wanted \subseteq Emails
  /\ Asked \subseteq {r \in Requests : r.do # "create"}
  /\ MaxFaults \in Nat

VARIABLES
  customers, products, orders,   \* what is committed
  call,     \* the request of every call
  at,       \* the statement it is about to execute
  result,   \* what the body of its `with' came to
  holds,    \* rows it has locked
  scan,     \* products it has yet to lock, in the order of its scan
  missing,  \* whether it asked for a product there was not
  wrote,    \* whether it has flushed what it writes
  faults

tables == <<customers, products, orders>>
vars == <<tables, call, at, result, holds, scan, missing, wrote, faults>>
-----------------------------------------------------------------------------
Email == {"update_email", "create"}
Exists(c) == customers[c] # None
Fits(r) == r.do # "update_email" => r.fits

\* email_exists, with its exclude_customer_id; a new customer excludes nobody
\* there is.
EmailExists(t) ==
  \E c \in Customers \ {call[t].customer} : customers[c] = call[t].email

\* The unique index has an entry of u that may come or go with its transaction.
HoldsEmail(u, e) ==
  wrote[u] /\ call[u].do \in Email /\ e \in {call[u].email, customers[call[u].customer]}
HoldsName(u, p) == wrote[u] /\ call[u].do = "add_product" /\ call[u].product = p

Awaits_lockedCheck(t, u) ==
  /\ t # u
  /\ \/ at[t] = "customer" /\ Exists(call[t].customer) /\ call[t].customer \in holds[u]
     \/ at[t] = "scan" /\ scan[t] # <<>> /\ Head(scan[t]) \in holds[u]
     \/ at[t] = "email" /\ \E c \in holds[u] \cap Customers : customers[c] = call[t].email
     \/ at[t] = "write_email" /\ Fits(call[t]) /\ HoldsEmail(u, call[t].email)
     \/ at[t] = "write_product" /\ Fits(call[t]) /\ HoldsName(u, call[t].product)
\* t cannot execute its statement before the transaction of u has ended.
Awaits(t, u) ==
  /\ t # u
  /\ \/ at[t] = "customer" /\ Exists(call[t].customer) /\ call[t].customer \in holds[u]
     \/ at[t] = "scan" /\ scan[t] # <<>> /\ Head(scan[t]) \in holds[u]
     \/ at[t] = "write_email" /\ Fits(call[t]) /\ HoldsEmail(u, call[t].email)
     \/ at[t] = "write_product" /\ Fits(call[t]) /\ HoldsName(u, call[t].product)

\* The statement t is about to execute is s and need not wait.
Executes(t, s) == at[t] = s /\ \A u \in Calls : ~Awaits(t, u)

Goes(t, s) == at' = [at EXCEPT ![t] = s]

\* The body raises or returns: __exit__ is next.
Comes(t, r) == Goes(t, "exit") /\ result' = [result EXCEPT ![t] = r]

\* The database rolls back what t did and releases its locks.
Undone(t) == holds' = [holds EXCEPT ![t] = {}] /\ wrote' = [wrote EXCEPT ![t] = FALSE]

NoWrites == UNCHANGED <<tables, call, faults>>
-----------------------------------------------------------------------------
(* The calls. *)

First(r) ==
  CASE r.do \in {"place_order", "update_email"} -> "customer"
    [] r.do = "create" -> "email"
    [] r.do = "add_product" -> "name"

Ask(t, r) ==
  /\ at[t] = "none" /\ \A u \in Calls : u < t => at[u] # "none"
  /\ call' = [call EXCEPT ![t] = r]
  /\ Goes(t, First(r))
  /\ UNCHANGED <<tables, result, holds, scan, missing, wrote, faults>>

LockCustomer_plainSelect(t) ==
  LET c == call[t].customer IN
  /\ at[t] = "customer"
  /\ IF ~Exists(c) THEN Comes(t, "CustomerNotFound")
     ELSE IF call[t].do = "place_order" THEN Goes(t, "products") /\ UNCHANGED result
     ELSE IF customers[c] = call[t].email THEN Comes(t, "ok")
     ELSE Goes(t, "email") /\ UNCHANGED result
  /\ UNCHANGED <<holds, scan, missing, wrote>> /\ NoWrites

\* get_for_update, and what is done with the customer.
LockCustomer(t) ==
  LET c == call[t].customer IN
  /\ Executes(t, "customer")
  /\ IF ~Exists(c) THEN Comes(t, "CustomerNotFound") /\ UNCHANGED holds
     ELSE /\ holds' = [holds EXCEPT ![t] = @ \cup {c}]
          /\ IF call[t].do = "place_order" THEN Goes(t, "products") /\ UNCHANGED result
             ELSE IF customers[c] = call[t].email THEN Comes(t, "ok")
             ELSE Goes(t, "email") /\ UNCHANGED result
  /\ UNCHANGED <<scan, missing, wrote>> /\ NoWrites

BeginScan_unchecked(t) ==
  /\ Executes(t, "products") /\ Goes(t, "scan")
  /\ \E s \in SetToSeqs(call[t].items) : scan' = [scan EXCEPT ![t] = s]
  /\ UNCHANGED <<result, holds, missing, wrote>> /\ NoWrites
\* get_many_locked begins: it has no ORDER BY, the rows that are there may come
\* in any order.
BeginScan(t) ==
  LET found == call[t].items \cap products IN
  /\ Executes(t, "products") /\ Goes(t, "scan")
  /\ \E s \in SetToSeqs(found) : scan' = [scan EXCEPT ![t] = s]
  /\ missing' = [missing EXCEPT ![t] = found # call[t].items]
  /\ UNCHANGED <<result, holds, wrote>> /\ NoWrites

LockProduct(t) ==
  /\ Executes(t, "scan") /\ scan[t] # <<>>
  /\ holds' = [holds EXCEPT ![t] = @ \cup {Head(scan[t])}]
  /\ scan' = [scan EXCEPT ![t] = Tail(@)]
  /\ UNCHANGED <<at, result, missing, wrote>> /\ NoWrites

\* All rows have come: the order and its items are flushed.
InsertOrder(t) ==
  /\ Executes(t, "scan") /\ scan[t] = <<>>
  /\ \/ missing[t] /\ Comes(t, "ProductNotFound") /\ UNCHANGED <<holds, wrote>>
     \/ ~missing[t] /\ ~Fits(call[t]) /\ Comes(t, "DataError") /\ Undone(t)
     \/ ~missing[t] /\ Fits(call[t]) /\ Comes(t, "ok")
        /\ wrote' = [wrote EXCEPT ![t] = TRUE] /\ UNCHANGED holds
  /\ UNCHANGED <<scan, missing>> /\ NoWrites

CheckEmail(t) ==
  /\ Executes(t, "email")
  /\ IF EmailExists(t) THEN Comes(t, "DuplicateEmail")
     ELSE Goes(t, "write_email") /\ UNCHANGED result
  /\ UNCHANGED <<holds, scan, missing, wrote>> /\ NoWrites

\* The flush of an email.  Only update_email expects that it may be a duplicate
\* by now.
FlushEmail(t) ==
  /\ Executes(t, "write_email")
  /\ \/ ~Fits(call[t]) /\ Comes(t, "DataError") /\ Undone(t)
     \/ /\ Fits(call[t]) /\ EmailExists(t) /\ Undone(t)
        /\ Comes(t, IF call[t].do = "create" THEN "IntegrityError" ELSE "DuplicateEmail")
     \/ Fits(call[t]) /\ ~EmailExists(t) /\ Comes(t, "ok")
        /\ wrote' = [wrote EXCEPT ![t] = TRUE] /\ UNCHANGED holds
  /\ UNCHANGED <<scan, missing>> /\ NoWrites

CheckName(t) ==
  /\ Executes(t, "name")
  /\ IF call[t].product \in products THEN Comes(t, "DuplicateProduct")
     ELSE Goes(t, "write_product") /\ UNCHANGED result
  /\ UNCHANGED <<holds, scan, missing, wrote>> /\ NoWrites

InsertProduct(t) ==
  /\ Executes(t, "write_product")
  /\ \/ ~Fits(call[t]) /\ Comes(t, "DataError") /\ Undone(t)
     \/ Fits(call[t]) /\ call[t].product \in products /\ Comes(t, "DuplicateProduct") /\ Undone(t)
     \/ Fits(call[t]) /\ call[t].product \notin products /\ Comes(t, "ok")
        /\ wrote' = [wrote EXCEPT ![t] = TRUE] /\ UNCHANGED holds
  /\ UNCHANGED <<scan, missing>> /\ NoWrites
-----------------------------------------------------------------------------
(* UnitOfWork.__exit__. *)

\* What t wrote is committed.
Committed(t) ==
  LET r == call[t] IN
  /\ customers' = IF wrote[t] /\ r.do \in Email
                  THEN [customers EXCEPT ![r.customer] = r.email] ELSE customers
  /\ products' = IF wrote[t] /\ r.do = "add_product"
                 THEN products \cup {r.product} ELSE products
  /\ orders' = IF wrote[t] /\ r.do = "place_order"
               THEN orders \cup {[by |-> t, customer |-> r.customer, items |-> r.items]}
               ELSE orders

Exit_notClosed(t) ==
  /\ at[t] = "exit" /\ Goes(t, "end")
  /\ IF result[t] = "ok" THEN Committed(t) /\ Undone(t)
     ELSE UNCHANGED <<customers, products, orders, holds, wrote>>
  /\ UNCHANGED <<call, result, scan, missing, faults>>
Exit(t) ==
  /\ at[t] = "exit" /\ Goes(t, "end") /\ Undone(t)
  /\ IF result[t] = "ok" THEN Committed(t) ELSE UNCHANGED <<customers, products, orders>>
  /\ UNCHANGED <<call, result, scan, missing, faults>>

\* A statement or the commit raises OperationalError; rollback follows.
Loses(t) ==
  /\ at[t] \notin {"none", "end"} /\ result[t] \in {None, "ok"}
  /\ Goes(t, "end") /\ Undone(t)
  /\ result' = [result EXCEPT ![t] = "OperationalError"]
  /\ UNCHANGED <<tables, call, scan, missing>>

Break(t) == faults < MaxFaults /\ faults' = faults + 1 /\ Loses(t)

\* The commit is executed, but its confirmation does not come back.
CommitUnheard(t) ==
  /\ faults < MaxFaults /\ faults' = faults + 1
  /\ at[t] = "exit" /\ result[t] = "ok"
  /\ Goes(t, "end") /\ Undone(t) /\ Committed(t)
  /\ result' = [result EXCEPT ![t] = "OperationalError"]
  /\ UNCHANGED <<call, scan, missing>>

Waiting == {t \in Calls : \E u \in Calls : Awaits(t, u)}

\* A set of calls each of which waits for another of them.
Stuck(S) == S # {} /\ \A t \in S : \E u \in S : Awaits(t, u)

\* The deadlock detection of PostgreSQL aborts one member of a cycle.
InCycle(t) ==
  \E S \in SUBSET Waiting : t \in S /\ Stuck(S) /\ \A u \in S : \E v \in S : Awaits(v, u)
DeadlockDetected(t) == InCycle(t) /\ Loses(t) /\ UNCHANGED faults
-----------------------------------------------------------------------------
Init ==
  /\ customers = [c \in Customers |-> IF c \in Seeded THEN FirstEmail[c] ELSE None]
  /\ products = OnOffer /\ orders = {}
  /\ call = [t \in Calls |-> None]
  /\ at = [t \in Calls |-> "none"]
  /\ result = [t \in Calls |-> None]
  /\ holds = [t \in Calls |-> {}]
  /\ scan = [t \in Calls |-> <<>>]
  /\ missing = [t \in Calls |-> FALSE]
  /\ wrote = [t \in Calls |-> FALSE]
  /\ faults = 0

\* A creation is of the customer known by its call.
Made(t) == Asked \cup [do : {"create"}, customer : {t}, email : Wanted, fits : BOOLEAN]

Statement(t) ==
  \/ LockCustomer(t) \/ BeginScan(t) \/ LockProduct(t) \/ InsertOrder(t)
  \/ CheckEmail(t) \/ FlushEmail(t) \/ CheckName(t) \/ InsertProduct(t) \/ Exit(t)

Next ==
  \E t \in Calls :
    \/ \E r \in Made(t) : Ask(t, r)
    \/ Statement(t) \/ Break(t) \/ CommitUnheard(t) \/ DeadlockDetected(t)

Spec == Init /\ [][Next]_vars

\* While some statement can be executed one will be, and the database looks for
\* deadlocks.
FairSpec == Spec /\ WF_vars(\E t \in Calls : Statement(t) \/ DeadlockDetected(t))
-----------------------------------------------------------------------------
\* Every variable has its type; the rows that are locked are there.
TypeOK ==
  /\ customers \in [Customers -> Emails \cup {None}]
  /\ products \subseteq Products
  /\ orders \subseteq [by : Calls, customer : Customers, items : SUBSET Products]
  /\ call \in [Calls -> Requests \cup {None}]
  /\ at \in [Calls -> Labels]
  /\ result \in [Calls -> Refusals \cup {"ok", None}]
  /\ holds \in [Calls -> SUBSET (Customers \cup Products)]
  /\ \A t \in Calls : holds[t] \subseteq {c \in Customers : Exists(c)} \cup products
  /\ scan \in [Calls -> Seq(Products)]
  /\ missing \in [Calls -> BOOLEAN]
  /\ wrote \in [Calls -> BOOLEAN]
  /\ faults \in 0..MaxFaults

\* Calls that wait for each other do so over the order in which they lock
\* products: some order of a customer already holds a product that comes after
\* the one it waits for, whatever order of the products one takes.  Email
\* changes, creations and locks of customers deadlock nobody, and nobody would be
\* stuck if the query had an ORDER BY.
OutOfOrder(t) ==
  /\ at[t] = "scan" /\ scan[t] # <<>>
  /\ \E p \in holds[t] \cap Products : Position[Head(scan[t])] < Position[p]
StuckOutOfOrder == \A S \in SUBSET Waiting : Stuck(S) => \E t \in S : OutOfOrder(t)

Unit == INSTANCE Shop WITH
  noticed <- [t \in Calls |-> IF missing[t] THEN {"ProductNotFound"} ELSE {}],
  answer <- [t \in Calls |->
    IF at[t] = "end" \/ result[t] \in Refusals THEN result[t] ELSE None]

\* Whatever the statements of other transactions do in between, a call is
\* served as if alone, or changes nothing and names a reason that was good: no
\* email or product is given out twice and no order refers to what is not there.
ServedAsOne == Unit!Spec

\* Calls do not wait for each other for ever: all that are under way come to an
\* end, whoever the database aborts.
UnderWay(t) == at[t] \notin {"none", "end"}
Answered == (\E t \in Calls : UnderWay(t)) ~> (\A t \in Calls : ~UnderWay(t))
=============================================================================
