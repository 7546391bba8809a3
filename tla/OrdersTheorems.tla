--------------------------- MODULE OrdersTheorems ---------------------------
(***************************************************************************)
(* The transactions of Orders keep their rows and locks apart and serve    *)
(* calls as Shop says, one at a time, for any number of calls, customers   *)
(* and products.                                                           *)
(***************************************************************************)
EXTENDS Orders, FiniteSetTheorems, SequenceTheorems, WellFoundedInduction, TLAPS

\* A row is locked by one call at a time, and by none that is not under way: what
\* the locks of PostgreSQL give, put to use below.
OneOwner ==
  /\ \A t, u \in Calls : t # u => holds[t] \cap holds[u] = {}
  /\ \A t \in Calls : at[t] \in {"none", "end"} => holds[t] = {}

\* Where a call is, what it asked for and what came of it belong together.
ShapeOf(t) ==
  /\ call[t] = None <=> at[t] = "none"
  /\ at[t] = "customer" => call[t].do \in {"place_order", "update_email"}
  /\ at[t] \in {"products", "scan"} =>
       call[t].do = "place_order" /\ Exists(call[t].customer)
  /\ at[t] \in {"email", "write_email"} => call[t].do \in Email
  /\ at[t] \in {"name", "write_product"} => call[t].do = "add_product"
  /\ at[t] \in {"exit", "end"} <=> result[t] # None
  /\ wrote[t] => at[t] = "exit" /\ result[t] = "ok"
  /\ at[t] \in {"none", "customer", "products"} => ~missing[t]
  /\ at[t] = "scan" /\ ~missing[t] => call[t].items \subseteq products
  /\ at[t] = "scan" => \A i \in 1..Len(scan[t]) : scan[t][i] \in products
  /\ at[t] \in {"none", "customer", "name", "write_product", "end"} => holds[t] = {}
Shape == \A t \in Calls : ShapeOf(t)

\* An email change works on a customer it has locked, a creation on a new one.
RowOf(t) ==
  /\ call[t] # None /\ call[t].do = "update_email" /\ at[t] \in {"email", "write_email"} =>
       call[t].customer \in holds[t] /\ Exists(call[t].customer)
  /\ call[t] # None /\ call[t].do = "create" =>
       call[t].customer = t /\ (at[t] # "end" => ~Exists(t))
  /\ at[t] = "none" => t \in Seeded \/ ~Exists(t)
Rows == \A t \in Calls : RowOf(t)

\* A call that is about to commit may do so whatever others commit first.
MayCommit(t) ==
  LET r == call[t] IN
  /\ r.do = "place_order" =>
       wrote[t] /\ Exists(r.customer) /\ r.items \subseteq products /\ r.fits
  /\ r.do = "update_email" =>
       /\ r.customer \in holds[t] /\ Exists(r.customer)
       /\ wrote[t] \/ customers[r.customer] = r.email
  /\ r.do = "create" => wrote[t] /\ r.fits
  /\ r.do \in Email => ~EmailExists(t)
  /\ r.do = "add_product" => wrote[t] /\ r.fits /\ r.product \notin products
Committable == \A t \in Calls : at[t] = "exit" /\ result[t] = "ok" => MayCommit(t)

\* Nobody else has flushed the email or the product name.
Claimed(t, u) ==
  /\ wrote[t] /\ wrote[u]
  /\ \/ call[t].do \in Email /\ call[u].do \in Email /\ call[t].email = call[u].email
     \/ call[t].do = "add_product" /\ call[u].do = "add_product"
        /\ call[t].product = call[u].product
Claims == \A t, u \in Calls : t # u => ~Claimed(t, u)

Unique == \A c, d \in Customers : Exists(c) /\ customers[c] = customers[d] => c = d

Sound == TypeOK /\ OneOwner /\ Shape /\ Rows /\ Committable /\ Claims /\ Unique
-----------------------------------------------------------------------------
(* Steps that leave the tables alone. *)

\* Nothing of another call changes.
Elsewhere(t) ==
  \A u \in Calls \ {t} :
    /\ call'[u] = call[u] /\ at'[u] = at[u] /\ result'[u] = result[u]
    /\ holds'[u] = holds[u] /\ scan'[u] = scan[u] /\ missing'[u] = missing[u]
    /\ wrote'[u] = wrote[u]

\* What is left to show of such a step is about the call that makes it.
LEMMA LocalStep ==
  ASSUME Sound, NEW t \in Calls, UNCHANGED tables, Elsewhere(t), TypeOK',
         ShapeOf(t)', RowOf(t)',
         at'[t] = "exit" /\ result'[t] = "ok" => MayCommit(t)',
         \A u \in Calls \ {t} : holds'[t] \cap holds[u] = {},
         \A u \in Calls \ {t} : ~Claimed(t, u)'
  PROVE  Sound'
<1>1. \A u \in Calls \ {t} : ShapeOf(u)' /\ RowOf(u)'
  BY DEF Sound, Shape, Rows, ShapeOf, RowOf, Elsewhere, tables, Exists
<1>2. \A u \in Calls \ {t} : at'[u] = "exit" /\ result'[u] = "ok" => MayCommit(u)'
  BY DEF Sound, Committable, MayCommit, Elsewhere, tables, Exists, EmailExists
<1>3. \A u \in Calls : at'[u] \in {"none", "end"} => holds'[u] = {}
  BY <1>1 DEF ShapeOf
<1>4. OneOwner'
  <2>1. ASSUME NEW u \in Calls, NEW v \in Calls, u # v
        PROVE  holds'[u] \cap holds'[v] = {}
    BY <2>1 DEF Sound, OneOwner, Elsewhere
  <2> QED
    BY <2>1, <1>3 DEF OneOwner
<1>5. Claims'
  <2>1. ASSUME NEW u \in Calls, NEW v \in Calls, u # v
        PROVE  ~Claimed(u, v)'
    <3>1. CASE u = t
      BY <3>1, <2>1
    <3>2. CASE v = t
      BY <3>2, <2>1 DEF Claimed
    <3>3. CASE u # t /\ v # t
      BY <3>3, <2>1 DEF Claimed, Sound, Claims, Elsewhere
    <3> QED
      BY <3>1, <3>2, <3>3
  <2> QED
    BY <2>1 DEF Claims
<1>6. Unique'
  BY DEF Sound, Unique, Exists, tables
<1> QED
  BY <1>1, <1>2, <1>4, <1>5, <1>6 DEF Sound, Shape, Rows, Committable

\* A request has the fields of its kind.
LEMMA RequestTyped ==
  ASSUME NEW r \in Requests
  PROVE  /\ r.do \in {"place_order", "update_email", "create", "add_product"}
         /\ r.do # "add_product" => r.customer \in Customers
         /\ r.do = "place_order" => r.items \in SUBSET Products /\ r.fits \in BOOLEAN
         /\ r.do \in Email => r.email \in Emails
         /\ r.do = "create" => r.fits \in BOOLEAN
         /\ r.do = "add_product" => r.product \in Products /\ r.fits \in BOOLEAN
BY DEF Requests, Email

\* None is not an answer.
LEMMA NoneApart ==
  /\ \A why \in Refusals : why # None
  /\ "ok" # None /\ "ok" \notin Refusals
BY OrdersConstantsOK DEF Refusals

USE DEF Executes, Goes, Comes, Undone, NoWrites, tables, Fits

\* A call begins: it has locked, scanned and written nothing.
LEMMA AskStep ==
  ASSUME Sound, NEW t \in Calls, NEW r \in Made(t), Ask(t, r)
  PROVE  Sound'
<1>1. r \in Requests /\ (r.do = "create" => r.customer = t) /\ r # None
  BY OrdersConstantsOK DEF Made, Requests, Customers
<1>2. TypeOK'
  <2>1. First(r) \in Labels
    BY <1>1, RequestTyped DEF First, Labels
  <2> QED
    BY <1>1, <2>1 DEF Ask, Sound, TypeOK, Exists
<1>3. Elsewhere(t) /\ UNCHANGED tables
  BY DEF Ask, Elsewhere, Sound, TypeOK
<1>4. call'[t] = r /\ at'[t] = First(r)
  BY DEF Ask, Sound, TypeOK
<1>5. ShapeOf(t)' /\ RowOf(t)'
  <2>1. ShapeOf(t) /\ RowOf(t) /\ at[t] = "none"
    BY DEF Sound, Shape, Rows, Ask
  <2>2. /\ result'[t] = result[t] /\ wrote'[t] = wrote[t] /\ holds'[t] = holds[t]
        /\ customers' = customers /\ missing'[t] = missing[t]
    BY DEF Ask
  <2>3. t \notin Seeded
    BY OrdersConstantsOK
  <2> QED
    BY <1>1, <1>4, <2>1, <2>2, <2>3, RequestTyped DEF ShapeOf, RowOf, First, Email, Exists
<1> QED
  BY <1>2, <1>3, <1>4, <1>5, LocalStep DEF First, Sound, OneOwner, Claimed, Shape, ShapeOf, Ask

\* The customer is locked, or was not found.
LEMMA LockCustomerStep ==
  ASSUME Sound, NEW t \in Calls, LockCustomer(t)
  PROVE  Sound'
<1>0. call[t] \in Requests /\ at[t] # "none"
  BY DEF LockCustomer, Sound, TypeOK, Shape, ShapeOf
<1>1. TypeOK'
  <2>1. holds'[t] \subseteq {c \in Customers : Exists(c)}
    <3>1. holds[t] = {} /\ call[t].customer \in Customers
      BY <1>0, RequestTyped DEF LockCustomer, Sound, Shape, ShapeOf
    <3>2. \/ holds'[t] = {}
          \/ Exists(call[t].customer) /\ holds'[t] = {call[t].customer}
      BY <3>1 DEF LockCustomer, Sound, TypeOK
    <3> QED
      BY <3>1, <3>2
  <2> QED
    BY ZenonT(60), <2>1 DEF LockCustomer, Sound, TypeOK, Labels, Refusals, Exists
<1>2. Elsewhere(t) /\ UNCHANGED tables
  BY DEF LockCustomer, Elsewhere, Sound, TypeOK
<1>3. ShapeOf(t)' /\ RowOf(t)'
  BY <1>0, RequestTyped, NoneApart DEF LockCustomer, Refusals, Sound, TypeOK, ShapeOf, RowOf, Shape, Rows, Email, Exists
<1>4. at'[t] = "exit" /\ result'[t] = "ok" => MayCommit(t)'
  <2> SUFFICES ASSUME at'[t] = "exit", result'[t] = "ok"
               PROVE  MayCommit(t)'
    OBVIOUS
  <2>1. /\ call[t].do = "update_email" /\ Exists(call[t].customer)
        /\ customers[call[t].customer] = call[t].email /\ call[t].customer \in holds'[t]
    BY <1>0, RequestTyped DEF LockCustomer, Sound, TypeOK, Shape, ShapeOf
  <2>2. ~EmailExists(t)
    BY <2>1, <1>0, RequestTyped DEF EmailExists, Sound, Unique, Email
  <2> QED
    BY <2>1, <2>2 DEF LockCustomer, MayCommit, EmailExists, Exists
<1>5. \A u \in Calls \ {t} : holds'[t] \cap holds[u] = {}
  BY DEF LockCustomer, Awaits, Sound, TypeOK, OneOwner
<1>6. \A u \in Calls \ {t} : ~Claimed(t, u)'
  BY <1>2 DEF LockCustomer, Awaits, HoldsEmail, HoldsName, Elsewhere, Sound, TypeOK, Claims, Claimed, Shape, ShapeOf, Email
<1> QED
  BY <1>1, <1>2, <1>3, <1>4, <1>5, <1>6, LocalStep

\* get_many_locked begins: it will visit rows there are.
LEMMA BeginScanStep ==
  ASSUME Sound, NEW t \in Calls, BeginScan(t)
  PROVE  Sound'
<1>0. call[t] \in Requests /\ at[t] # "none"
  BY DEF BeginScan, Sound, TypeOK, Shape, ShapeOf
<1>7. scan' \in [Calls -> Seq(Products)] /\ \A i \in 1..Len(scan'[t]) : scan'[t][i] \in products
  <2> DEFINE found == call[t].items \cap products
  <2>1. PICK s \in SetToSeqs(found) : scan' = [scan EXCEPT ![t] = s]
    BY DEF BeginScan
  <2>2. IsFiniteSet(found) /\ found \subseteq Products
    BY OrdersConstantsOK, FS_Subset DEF Sound, TypeOK
  <2>3. s \in Seq(found)
    <3>1. s \in [1..Cardinality(found) -> found]
      BY DEF SetToSeqs
    <3>2. Cardinality(found) \in Nat
      BY <2>2, FS_CardinalityType
    <3> HIDE DEF found
    <3> QED
      BY <3>1, <3>2, SeqDef
  <2>4. s \in Seq(Products) /\ \A i \in 1..Len(s) : s[i] \in products
    BY <2>2, <2>3
  <2> QED
    BY <2>1, <2>4 DEF Sound, TypeOK
<1>1. TypeOK'
  BY <1>0, <1>7 DEF BeginScan, Sound, TypeOK, Labels, Exists
<1>2. Elsewhere(t) /\ UNCHANGED tables
  BY DEF BeginScan, Elsewhere, Sound, TypeOK
<1>3. ShapeOf(t)' /\ RowOf(t)'
  <2>1. at[t] = "products" /\ at'[t] = "scan" /\ call'[t] = call[t] /\ products' = products
    BY DEF BeginScan, Sound, TypeOK
  <2>2. missing'[t] = (call[t].items \cap products # call[t].items)
    BY DEF BeginScan, Sound, TypeOK
  <2>3. ~missing'[t] => call[t].items \subseteq products
    BY <2>2
  <2> QED
    BY <1>7, <2>1, <2>3 DEF BeginScan, Sound, Shape, ShapeOf, Rows, RowOf, Exists, Email
<1>4. at'[t] = "exit" /\ result'[t] = "ok" => MayCommit(t)'
  BY <1>0, RequestTyped, NoneApart DEF BeginScan, Refusals, Sound, TypeOK, Committable, MayCommit, Shape, ShapeOf, Rows, RowOf, Email, Exists
<1>5. \A u \in Calls \ {t} : holds'[t] \cap holds[u] = {}
  BY DEF BeginScan, Awaits, Sound, TypeOK, OneOwner
<1>6. \A u \in Calls \ {t} : ~Claimed(t, u)'
  BY <1>2 DEF BeginScan, Awaits, HoldsEmail, HoldsName, Elsewhere, Sound, TypeOK, Claims, Claimed, Shape, ShapeOf, Email
<1> QED
  BY <1>1, <1>2, <1>3, <1>4, <1>5, <1>6, LocalStep

\* get_many_locked locks its next row, or ends.
LEMMA LockProductStep ==
  ASSUME Sound, NEW t \in Calls, LockProduct(t)
  PROVE  Sound'
<1>0. call[t] \in Requests /\ at[t] # "none"
  BY DEF LockProduct, Sound, TypeOK, Shape, ShapeOf
<1>7. /\ Head(scan[t]) \in products /\ products \subseteq Products
      /\ Tail(scan[t]) \in Seq(Products)
      /\ \A i \in 1..Len(Tail(scan[t])) : Tail(scan[t])[i] \in products
  <2> DEFINE s == scan[t]
  <2>1. s \in Seq(Products) /\ s # <<>> /\ \A i \in 1..Len(s) : s[i] \in products
    BY DEF LockProduct, Sound, TypeOK, Shape, ShapeOf
  <2>2. products \subseteq Products
    BY DEF Sound, TypeOK
  <2> HIDE DEF s
  <2>3. Head(s) = s[1] /\ Len(s) \in Nat \ {0}
    BY <2>1, EmptySeq
  <2>4. Head(s) \in products
    BY <2>1, <2>3
  <2>5. /\ Tail(s) \in Seq(Products) /\ Len(Tail(s)) = Len(s) - 1
        /\ \A i \in 1..Len(Tail(s)) : Tail(s)[i] = s[i + 1]
    BY <2>1, HeadTailProperties
  <2>6. ASSUME NEW i \in 1..Len(Tail(s))
        PROVE  Tail(s)[i] \in products
    <3>1. i + 1 \in 1..Len(s)
      BY <2>3, <2>5
    <3> QED
      BY <2>1, <2>5, <3>1
  <2> QED
    BY <2>2, <2>4, <2>5, <2>6 DEF s
<1>1. TypeOK'
  BY <1>7 DEF LockProduct, Sound, TypeOK, Exists
<1>2. Elsewhere(t) /\ UNCHANGED tables
  BY DEF LockProduct, Elsewhere, Sound, TypeOK
<1>3. ShapeOf(t)' /\ RowOf(t)'
  BY <1>7 DEF LockProduct, Sound, TypeOK, Shape, ShapeOf, Rows, RowOf, Exists, Email
<1>4. at'[t] = "exit" /\ result'[t] = "ok" => MayCommit(t)'
  BY <1>0, RequestTyped, NoneApart DEF LockProduct, Refusals, Sound, TypeOK, Committable, MayCommit, Shape, ShapeOf, Rows, RowOf, Email, Exists
<1>5. \A u \in Calls \ {t} : holds'[t] \cap holds[u] = {}
  BY DEF LockProduct, Awaits, Sound, TypeOK, OneOwner
<1>6. \A u \in Calls \ {t} : ~Claimed(t, u)'
  BY <1>2 DEF LockProduct, Awaits, HoldsEmail, HoldsName, Elsewhere, Sound, TypeOK, Claims, Claimed, Shape, ShapeOf, Email
<1> QED
  BY <1>1, <1>2, <1>3, <1>4, <1>5, <1>6, LocalStep

\* The order is flushed: its customer and its products are locked.
LEMMA InsertOrderStep ==
  ASSUME Sound, NEW t \in Calls, InsertOrder(t)
  PROVE  Sound'
<1>0. call[t] \in Requests /\ at[t] # "none"
  BY DEF InsertOrder, Sound, TypeOK, Shape, ShapeOf
<1>1. TypeOK'
  BY <1>0, RequestTyped DEF InsertOrder, Sound, TypeOK, Labels, Refusals, Exists
<1>2. Elsewhere(t) /\ UNCHANGED tables
  BY DEF InsertOrder, Elsewhere, Sound, TypeOK
<1>3. ShapeOf(t)' /\ RowOf(t)'
  BY <1>0, RequestTyped, NoneApart DEF InsertOrder, Refusals, Sound, TypeOK, ShapeOf, RowOf, Shape, Rows, Email, Exists
<1>4. at'[t] = "exit" /\ result'[t] = "ok" => MayCommit(t)'
  BY <1>0, RequestTyped, NoneApart DEF InsertOrder, Refusals, Sound, TypeOK, Committable, MayCommit, Shape, ShapeOf, Rows, RowOf, Email, Exists
<1>5. \A u \in Calls \ {t} : holds'[t] \cap holds[u] = {}
  BY DEF InsertOrder, Awaits, Sound, TypeOK, OneOwner
<1>6. \A u \in Calls \ {t} : ~Claimed(t, u)'
  BY <1>2 DEF InsertOrder, Awaits, HoldsEmail, HoldsName, Elsewhere, Sound, TypeOK, Claims, Claimed, Shape, ShapeOf, Email
<1> QED
  BY <1>1, <1>2, <1>3, <1>4, <1>5, <1>6, LocalStep

\* find_by_email: the email was free when the call looked.
LEMMA CheckEmailStep ==
  ASSUME Sound, NEW t \in Calls, CheckEmail(t)
  PROVE  Sound'
<1>0. call[t] \in Requests /\ at[t] # "none"
  BY DEF CheckEmail, Sound, TypeOK, Shape, ShapeOf
<1>1. TypeOK'
  BY <1>0, RequestTyped DEF CheckEmail, Sound, TypeOK, Labels, Refusals, Exists
<1>2. Elsewhere(t) /\ UNCHANGED tables
  BY DEF CheckEmail, Elsewhere, Sound, TypeOK
<1>3. ShapeOf(t)' /\ RowOf(t)'
  BY <1>0, RequestTyped, NoneApart DEF CheckEmail, Refusals, Sound, TypeOK, ShapeOf, RowOf, Shape, Rows, Email, Exists
<1>4. at'[t] = "exit" /\ result'[t] = "ok" => MayCommit(t)'
  BY <1>0, RequestTyped, NoneApart DEF CheckEmail, Refusals, Sound, TypeOK, Committable, MayCommit, Shape, ShapeOf, Rows, RowOf, Email, Exists
<1>5. \A u \in Calls \ {t} : holds'[t] \cap holds[u] = {}
  BY DEF CheckEmail, Awaits, Sound, TypeOK, OneOwner
<1>6. \A u \in Calls \ {t} : ~Claimed(t, u)'
  BY <1>2 DEF CheckEmail, Awaits, HoldsEmail, HoldsName, Elsewhere, Sound, TypeOK, Claims, Claimed, Shape, ShapeOf, Email
<1> QED
  BY <1>1, <1>2, <1>3, <1>4, <1>5, <1>6, LocalStep

\* The new email is flushed: no other call holds it in the unique index.
LEMMA FlushEmailStep ==
  ASSUME Sound, NEW t \in Calls, FlushEmail(t)
  PROVE  Sound'
<1>0. call[t] \in Requests /\ at[t] # "none"
  BY DEF FlushEmail, Sound, TypeOK, Shape, ShapeOf
<1>1. TypeOK'
  BY ZenonT(60), <1>0, RequestTyped DEF FlushEmail, Sound, TypeOK, Labels, Refusals, Exists
<1>2. Elsewhere(t) /\ UNCHANGED tables
  BY DEF FlushEmail, Elsewhere, Sound, TypeOK
<1>3. ShapeOf(t)' /\ RowOf(t)'
  BY <1>0, RequestTyped, NoneApart DEF FlushEmail, Refusals, Sound, TypeOK, ShapeOf, RowOf, Shape, Rows, Email, Exists
<1>4. at'[t] = "exit" /\ result'[t] = "ok" => MayCommit(t)'
  <2> SUFFICES ASSUME at'[t] = "exit", result'[t] = "ok"
               PROVE  MayCommit(t)'
    OBVIOUS
  <2>1. /\ call[t].do \in Email /\ ~EmailExists(t) /\ wrote'[t] /\ holds' = holds
        /\ call[t].do = "create" => call[t].fits
    BY NoneApart DEF FlushEmail, Sound, TypeOK, Shape, ShapeOf, Refusals
  <2>2. call[t].do = "update_email" => call[t].customer \in holds[t] /\ Exists(call[t].customer)
    BY <1>0 DEF FlushEmail, Sound, Rows, RowOf, Shape, ShapeOf
  <2> QED
    BY <2>1, <2>2 DEF FlushEmail, MayCommit, EmailExists, Exists, Email
<1>5. \A u \in Calls \ {t} : holds'[t] \cap holds[u] = {}
  BY DEF FlushEmail, Awaits, Sound, TypeOK, OneOwner
<1>6. \A u \in Calls \ {t} : ~Claimed(t, u)'
  BY <1>2 DEF FlushEmail, Awaits, HoldsEmail, HoldsName, Elsewhere, Sound, TypeOK, Claims, Claimed, Shape, ShapeOf, Email
<1> QED
  BY <1>1, <1>2, <1>3, <1>4, <1>5, <1>6, LocalStep

\* find_by_name: the name was free when the call looked.
LEMMA CheckNameStep ==
  ASSUME Sound, NEW t \in Calls, CheckName(t)
  PROVE  Sound'
<1>0. call[t] \in Requests /\ at[t] # "none"
  BY DEF CheckName, Sound, TypeOK, Shape, ShapeOf
<1>1. TypeOK'
  BY <1>0, RequestTyped DEF CheckName, Sound, TypeOK, Labels, Refusals, Exists
<1>2. Elsewhere(t) /\ UNCHANGED tables
  BY DEF CheckName, Elsewhere, Sound, TypeOK
<1>3. ShapeOf(t)' /\ RowOf(t)'
  BY <1>0, RequestTyped, NoneApart DEF CheckName, Refusals, Sound, TypeOK, ShapeOf, RowOf, Shape, Rows, Email, Exists
<1>4. at'[t] = "exit" /\ result'[t] = "ok" => MayCommit(t)'
  BY <1>0, RequestTyped, NoneApart DEF CheckName, Refusals, Sound, TypeOK, Committable, MayCommit, Shape, ShapeOf, Rows, RowOf, Email, Exists
<1>5. \A u \in Calls \ {t} : holds'[t] \cap holds[u] = {}
  BY DEF CheckName, Awaits, Sound, TypeOK, OneOwner
<1>6. \A u \in Calls \ {t} : ~Claimed(t, u)'
  BY <1>2 DEF CheckName, Awaits, HoldsEmail, HoldsName, Elsewhere, Sound, TypeOK, Claims, Claimed, Shape, ShapeOf, Email
<1> QED
  BY <1>1, <1>2, <1>3, <1>4, <1>5, <1>6, LocalStep

\* The product is flushed: no other call holds its name in the unique index.
LEMMA InsertProductStep ==
  ASSUME Sound, NEW t \in Calls, InsertProduct(t)
  PROVE  Sound'
<1>0. call[t] \in Requests /\ at[t] # "none"
  BY DEF InsertProduct, Sound, TypeOK, Shape, ShapeOf
<1>1. TypeOK'
  BY ZenonT(60), <1>0, RequestTyped DEF InsertProduct, Sound, TypeOK, Labels, Refusals, Exists
<1>2. Elsewhere(t) /\ UNCHANGED tables
  BY DEF InsertProduct, Elsewhere, Sound, TypeOK
<1>3. ShapeOf(t)' /\ RowOf(t)'
  BY <1>0, RequestTyped, NoneApart DEF InsertProduct, Refusals, Sound, TypeOK, ShapeOf, RowOf, Shape, Rows, Email, Exists
<1>4. at'[t] = "exit" /\ result'[t] = "ok" => MayCommit(t)'
  BY <1>0, RequestTyped, NoneApart DEF InsertProduct, Refusals, Sound, TypeOK, Committable, MayCommit, Shape, ShapeOf, Rows, RowOf, Email, Exists
<1>5. \A u \in Calls \ {t} : holds'[t] \cap holds[u] = {}
  BY DEF InsertProduct, Awaits, Sound, TypeOK, OneOwner
<1>6. \A u \in Calls \ {t} : ~Claimed(t, u)'
  BY <1>2 DEF InsertProduct, Awaits, HoldsEmail, HoldsName, Elsewhere, Sound, TypeOK, Claims, Claimed, Shape, ShapeOf, Email
<1> QED
  BY <1>1, <1>2, <1>3, <1>4, <1>5, <1>6, LocalStep

-----------------------------------------------------------------------------
(* The end of a transaction. *)

\* Losing the database, or a rollback, changes nothing of anybody else.
LEMMA LosesStep ==
  ASSUME Sound, NEW t \in Calls, Loses(t), faults' \in 0..MaxFaults
  PROVE  Sound'
<1>0. call[t] \in Requests /\ at[t] # "none"
  BY DEF Loses, Sound, TypeOK, Shape, ShapeOf
<1>1. TypeOK'
  BY DEF Loses, Sound, TypeOK, Labels, Refusals, Exists
<1>2. Elsewhere(t) /\ UNCHANGED tables
  BY DEF Loses, Elsewhere, Sound, TypeOK
<1>3. ShapeOf(t)' /\ RowOf(t)'
  BY <1>0, NoneApart DEF Loses, Refusals, Sound, TypeOK, Shape, ShapeOf, Rows, RowOf, Exists
<1> QED
  BY ZenonT(60), <1>1, <1>2, <1>3, LocalStep DEF Loses, Sound, TypeOK, Claimed

\* A transaction that is rolled back at its end.
LEMMA RollbackStep ==
  ASSUME Sound, NEW t \in Calls, Exit(t), result[t] # "ok"
  PROVE  Sound'
<1>1. TypeOK'
  BY DEF Exit, Sound, TypeOK, Labels, Exists
<1>2. Elsewhere(t) /\ UNCHANGED tables
  BY DEF Exit, Elsewhere, Sound, TypeOK
<1>3. ShapeOf(t)' /\ RowOf(t)'
  BY NoneApart DEF Exit, Refusals, Sound, TypeOK, Shape, ShapeOf, Rows, RowOf, Exists
<1> QED
  BY ZenonT(60), <1>1, <1>2, <1>3, LocalStep DEF Exit, Sound, TypeOK, Claimed

\* A commit.
Commits(t) ==
  /\ at[t] = "exit" /\ result[t] = "ok"
  /\ Goes(t, "end") /\ Undone(t) /\ Committed(t)
  /\ \E a \in {"ok", "OperationalError"} : result' = [result EXCEPT ![t] = a]
  /\ faults' \in 0..MaxFaults
  /\ UNCHANGED <<call, scan, missing>>

\* What a commit does to the customers: it leaves them alone or gives a locked
\* or new one an email that nobody has or has flushed.
LEMMA CommittedRow ==
  ASSUME Sound, NEW t \in Calls, Commits(t)
  PROVE  \/ customers' = customers
         \/ LET c == call[t].customer  e == call[t].email IN
            /\ customers' = [customers EXCEPT ![c] = e]
            /\ wrote[t] /\ call[t].do \in Email
            /\ c \in Customers /\ e \in Emails /\ e # None /\ ~EmailExists(t)
            /\ \/ c \in holds[t] /\ Exists(c)
               \/ c = t /\ ~Exists(c)
<1>0. call[t] \in Requests /\ MayCommit(t)
  BY DEF Commits, Sound, TypeOK, Shape, ShapeOf, Committable
<1> SUFFICES ASSUME wrote[t], call[t].do \in Email
             PROVE  LET c == call[t].customer  e == call[t].email IN
                    /\ customers' = [customers EXCEPT ![c] = e]
                    /\ c \in Customers /\ e \in Emails /\ e # None /\ ~EmailExists(t)
                    /\ \/ c \in holds[t] /\ Exists(c)
                       \/ c = t /\ ~Exists(c)
  BY DEF Commits, Committed
<1>1. call[t].customer \in Customers /\ call[t].email \in Emails
  BY <1>0, RequestTyped DEF Email
<1>2. call[t].email # None
  BY <1>1, OrdersConstantsOK
<1>3. CASE call[t].do = "update_email"
  BY <1>0, <1>1, <1>2, <1>3 DEF Commits, Committed, MayCommit
<1>4. CASE call[t].do = "create"
  <2>1. call[t].customer = t /\ ~Exists(t)
    BY <1>0, <1>4, OrdersConstantsOK DEF Commits, Sound, Rows, RowOf
  <2> QED
    BY <1>0, <1>1, <1>2, <1>4, <2>1 DEF Commits, Committed, MayCommit
<1> QED
  BY <1>3, <1>4 DEF Email

\* What the commit does to the tables, as far as the others can tell.
LEMMA CommittedTables ==
  ASSUME Sound, NEW t \in Calls, Commits(t)
  PROVE  /\ customers' \in [Customers -> Emails \cup {None}]
         /\ \A c \in Customers : Exists(c) => Exists(c)'
         /\ \A c \in Customers : ~Exists(c) /\ c # t => ~Exists(c)'
         /\ \A u \in Calls \ {t} : \A c \in holds[u] \cap Customers : customers'[c] = customers[c]
         /\ products \subseteq products' /\ products' \subseteq Products
<1>1. customers \in [Customers -> Emails \cup {None}]
  BY DEF Sound, TypeOK
<1>2. products \subseteq products' /\ products' \subseteq Products
  <2>1. call[t] \in Requests
    BY DEF Commits, Sound, TypeOK, Shape, ShapeOf
  <2> QED
    BY <2>1, RequestTyped DEF Commits, Committed, Sound, TypeOK
<1>3. CASE customers' = customers
  BY <1>1, <1>2, <1>3 DEF Exists
<1>4. ASSUME NEW c \in Customers, NEW e \in Emails, e # None,
             customers' = [customers EXCEPT ![c] = e],
             (c \in holds[t] /\ Exists(c)) \/ (c = t /\ ~Exists(c))
      PROVE  /\ customers' \in [Customers -> Emails \cup {None}]
             /\ \A d \in Customers : Exists(d) => Exists(d)'
             /\ \A d \in Customers : ~Exists(d) /\ d # t => ~Exists(d)'
             /\ \A u \in Calls \ {t} : \A d \in holds[u] \cap Customers :
                  customers'[d] = customers[d]
  <2>1. \A d \in Customers : customers'[d] = IF d = c THEN e ELSE customers[d]
    BY <1>1, <1>4
  <2>2. ASSUME NEW u \in Calls \ {t}, NEW d \in holds[u] \cap Customers
        PROVE  d # c
    <3>1. Exists(d)
      BY OrdersConstantsOK DEF Sound, TypeOK
    <3>2. d \notin holds[t]
      BY DEF Sound, OneOwner
    <3> QED
      BY <1>4, <3>1, <3>2
  <2> QED
    BY <1>1, <1>4, <2>1, <2>2 DEF Exists
<1>5. CASE customers' # customers
  <2> DEFINE c == call[t].customer  e == call[t].email
  <2>1. /\ c \in Customers /\ e \in Emails /\ e # None
        /\ customers' = [customers EXCEPT ![c] = e]
        /\ (c \in holds[t] /\ Exists(c)) \/ (c = t /\ ~Exists(c))
    BY <1>5, CommittedRow DEF Exists
  <2> HIDE DEF c, e
  <2> QED
    BY <1>2, <1>4, <2>1
<1> QED
  BY <1>3, <1>5

\* Another call that may commit still may.
LEMMA CommitLeaves ==
  ASSUME Sound, NEW t \in Calls, Commits(t), NEW u \in Calls \ {t},
         at[u] = "exit", result[u] = "ok"
  PROVE  MayCommit(u)'
<1> DEFINE r == call[u]
<1>1. MayCommit(u) /\ call[u] \in Requests /\ call[t] \in Requests
  BY DEF Commits, Sound, TypeOK, Committable, Shape, ShapeOf
<1>2. call' = call /\ wrote'[u] = wrote[u] /\ holds'[u] = holds[u]
  BY DEF Commits, Sound, TypeOK
<1>3. CASE r.do = "place_order"
  BY <1>1, <1>2, <1>3, RequestTyped, CommittedTables DEF MayCommit, Email
<1>4. CASE r.do = "add_product"
  <2>1. r.product \notin products'
    <3>1. ~(wrote[t] /\ call[t].do = "add_product" /\ call[t].product = r.product)
      BY <1>1, <1>4 DEF MayCommit, Sound, Claims, Claimed
    <3> QED
      BY <1>1, <1>4, <3>1 DEF Commits, Committed, MayCommit
  <2> QED
    BY <1>1, <1>2, <1>4, <2>1 DEF MayCommit, Email
<1>5. CASE r.do \in Email
  <2>1. r.customer \in Customers
    BY <1>1, <1>5, RequestTyped DEF Email
  <2>2. r.do = "update_email" => r.customer \in holds[u] /\ Exists(r.customer)
    BY <1>1 DEF MayCommit
  <2>3. r.do = "update_email" => Exists(r.customer)' /\ customers'[r.customer] = customers[r.customer]
    BY <1>2, <2>1, <2>2, CommittedTables DEF Exists
  <2>4. ~EmailExists(u)'
    <3> SUFFICES ASSUME NEW d \in Customers \ {r.customer}, customers'[d] = r.email
                 PROVE  FALSE
      BY <1>2 DEF EmailExists
    <3>1. customers[d] # r.email
      BY <1>1, <1>5 DEF MayCommit, EmailExists
    <3>2. /\ d = call[t].customer /\ call[t].email = r.email
          /\ wrote[t] /\ call[t].do \in Email /\ ~EmailExists(t)
      BY <3>1, CommittedRow DEF Sound, TypeOK
    <3>3. ~wrote[u]
      BY <1>5, <3>2 DEF Sound, Claims, Claimed
    <3>4. customers[r.customer] = r.email
      BY <1>1, <1>5, <3>3 DEF MayCommit, Email
    <3> QED
      BY <2>1, <3>2, <3>4 DEF EmailExists
  <2> QED
    BY <1>1, <1>2, <1>5, <2>1, <2>2, <2>3, <2>4 DEF MayCommit, Email
<1> QED
  BY <1>1, <1>3, <1>4, <1>5, RequestTyped DEF Email

\* COMMIT: emails and names stay unique, as no other call has the same entry.
LEMMA CommitStep ==
  ASSUME Sound, NEW t \in Calls, Commits(t)
  PROVE  Sound'
<1>0. call[t] \in Requests /\ call' = call
  BY DEF Commits, Sound, TypeOK, Shape, ShapeOf
<1>1. /\ at'[t] = "end" /\ result'[t] \in {"ok", "OperationalError"}
      /\ holds'[t] = {} /\ ~wrote'[t]
  BY DEF Commits, Sound, TypeOK
<1>2. Elsewhere(t)
  BY DEF Commits, Elsewhere, Sound, TypeOK
<1>3. TypeOK'
  <2>1. orders' \subseteq [by : Calls, customer : Customers, items : SUBSET Products]
    BY <1>0, RequestTyped DEF Commits, Committed, Sound, TypeOK
  <2>2. \A u \in Calls : holds'[u] \subseteq {c \in Customers : Exists(c)'} \cup products'
    BY <1>1, <1>2, CommittedTables DEF Elsewhere, Sound, TypeOK
  <2>3. /\ at' \in [Calls -> Labels] /\ result' \in [Calls -> Refusals \cup {"ok", None}]
        /\ holds' \in [Calls -> SUBSET (Customers \cup Products)]
        /\ wrote' \in [Calls -> BOOLEAN]
    BY DEF Commits, Sound, TypeOK, Labels, Refusals
  <2> QED
    BY <2>1, <2>2, <2>3, CommittedTables DEF Commits, Sound, TypeOK
<1>4. ASSUME NEW u \in Calls
      PROVE  ShapeOf(u)'
  <2>1. CASE u = t
    BY <1>0, <1>1, <2>1, NoneApart DEF Refusals, Commits, Sound, Shape, ShapeOf
  <2>2. CASE u # t
    <3>1. at[u] \in {"products", "scan"} => call[u].customer \in Customers
      BY RequestTyped DEF Sound, TypeOK, Shape, ShapeOf
    <3>2. at[u] \in {"products", "scan"} => Exists(call[u].customer)'
      BY <1>0, <3>1, CommittedTables DEF Sound, Shape, ShapeOf, Exists
    <3>3. ShapeOf(u)
      BY DEF Sound, Shape
    <3> QED
      BY <1>0, <1>2, <2>2, <3>2, <3>3, CommittedTables DEF Elsewhere, ShapeOf, Exists
  <2> QED
    BY <2>1, <2>2
<1>5. ASSUME NEW u \in Calls
      PROVE  RowOf(u)'
  <2>1. CASE u = t
    BY <1>0, <1>1, <2>1, NoneApart DEF Sound, Rows, RowOf, Commits
  <2>2. CASE u # t
    <3>1. RowOf(u) /\ u \in Customers
      BY DEF Sound, Rows, Customers
    <3>2. call[u] # None /\ call[u].do = "update_email" => call[u].customer \in Customers
      BY RequestTyped DEF Sound, TypeOK
    <3> QED
      BY <1>0, <1>2, <2>2, <3>1, <3>2, CommittedTables DEF Elsewhere, RowOf, Exists
  <2> QED
    BY <2>1, <2>2
<1>6. Committable'
  BY <1>1, <1>2, CommitLeaves DEF Committable, Elsewhere
<1>7. OneOwner'
  BY <1>1, <1>2 DEF OneOwner, Elsewhere, Sound
<1>8. Claims'
  BY <1>0, <1>1, <1>2 DEF Claims, Claimed, Elsewhere, Sound
<1>9. Unique'
  <2>1. CASE customers' = customers
    BY <2>1 DEF Sound, Unique, Exists
  <2>2. CASE customers' # customers
    <3> SUFFICES ASSUME NEW c \in Customers, NEW d \in Customers,
                        Exists(c)', customers'[c] = customers'[d]
                 PROVE  c = d
      BY DEF Unique
    <3> DEFINE k == call[t].customer  e == call[t].email
    <3>1. /\ k \in Customers /\ customers' = [customers EXCEPT ![k] = e]
          /\ \A b \in Customers \ {k} : customers[b] # e
      BY <2>2, CommittedRow DEF EmailExists
    <3>2. \A b \in Customers : customers'[b] = IF b = k THEN e ELSE customers[b]
      BY <3>1 DEF Sound, TypeOK
    <3> HIDE DEF k, e
    <3> QED
      BY <3>1, <3>2 DEF Sound, Unique, Exists
  <2> QED
    BY <2>1, <2>2
<1> QED
  BY <1>3, <1>4, <1>5, <1>6, <1>7, <1>8, <1>9 DEF Sound, Shape, Rows
-----------------------------------------------------------------------------
\* No call has begun at first.
LEMMA Initially == Init => Sound
<1> SUFFICES ASSUME Init PROVE Sound
  OBVIOUS
<1>1. TypeOK
  BY OrdersConstantsOK DEF Init, TypeOK, Labels, Exists
<1>2. Shape /\ Rows /\ OneOwner /\ Committable /\ Claims
  BY NoneApart, OrdersConstantsOK DEF Init, Shape, ShapeOf, Rows, RowOf, OneOwner,
     Committable, Claims, Claimed, Exists, Customers
<1>3. Unique
  BY OrdersConstantsOK DEF Init, Unique, Exists, IsInjective, Customers
<1> QED
  BY <1>1, <1>2, <1>3 DEF Sound

\* What a call can do, sorted by its effect on what is promised.
LEMMA Inductive == Sound /\ [Next]_vars => Sound'
<1> SUFFICES ASSUME Sound, [Next]_vars PROVE Sound'
  OBVIOUS
<1>1. ASSUME NEW t \in Calls, NEW r \in Made(t), Ask(t, r) PROVE Sound'
  BY <1>1, AskStep
<1>2. ASSUME NEW t \in Calls, Statement(t) PROVE Sound'
  <2>1. CASE Exit(t) /\ result[t] = "ok"
    <3>1. Commits(t)
      BY <2>1 DEF Exit, Commits, Sound, TypeOK
    <3> QED
      BY <3>1, CommitStep
  <2> QED
    BY <1>2, <2>1, LockCustomerStep, BeginScanStep, LockProductStep, InsertOrderStep,
       CheckEmailStep, FlushEmailStep, CheckNameStep, InsertProductStep, RollbackStep
       DEF Statement
<1>3. ASSUME NEW t \in Calls, Break(t) \/ DeadlockDetected(t) PROVE Sound'
  <2>1. Loses(t) /\ faults' \in 0..MaxFaults
    BY <1>3, OrdersConstantsOK DEF Break, DeadlockDetected, Sound, TypeOK
  <2> QED
    BY <2>1, LosesStep
<1>4. ASSUME NEW t \in Calls, CommitUnheard(t) PROVE Sound'
  <2>1. Commits(t)
    BY <1>4, OrdersConstantsOK DEF CommitUnheard, Commits, Sound, TypeOK
  <2> QED
    BY <2>1, CommitStep
<1>5. CASE UNCHANGED vars
  BY <1>5 DEF vars, Sound, TypeOK, Shape, ShapeOf, Rows, RowOf, OneOwner, Committable,
     MayCommit, Claims, Claimed, Unique, Exists, EmailExists
<1> QED
  BY <1>1, <1>2, <1>3, <1>4, <1>5 DEF Next

\* The inductive invariant of the services holds in every state.
THEOREM Soundness == Spec => []Sound
BY Initially, Inductive, PTL DEF Spec
-----------------------------------------------------------------------------
(* The properties. *)

\* Every variable keeps its type, and only rows that are there are locked.
THEOREM Types == Spec => []TypeOK
BY Soundness, PTL DEF Sound

\* Of the products that are awaited one comes last.
LEMMA LastAwaited ==
  ASSUME NEW C \in SUBSET Products, C # {}
  PROVE  \E p \in C : \A q \in C : Position[q] <= Position[p]
<1> DEFINE Later(p) == {q \in Products : Position[q] > Position[p]}
           rank == {Cardinality(Later(p)) : p \in C}
<1>1. \A p \in Products : Position[p] \in Nat
  BY OrdersConstantsOK DEF Injection
<1>2. \A p \in Products : IsFiniteSet(Later(p)) /\ Cardinality(Later(p)) \in Nat
  <2> SUFFICES ASSUME NEW p \in Products
               PROVE  IsFiniteSet(Later(p)) /\ Cardinality(Later(p)) \in Nat
    OBVIOUS
  <2>1. IsFiniteSet(Later(p))
    BY OrdersConstantsOK, FS_Subset
  <2> QED
    BY <2>1, FS_CardinalityType
<1>3. rank \subseteq Nat /\ rank # {}
  BY <1>2
<1>4. PICK n \in rank : \A m \in rank : ~(<<m, n>> \in OpToRel(<, Nat))
  <2> HIDE DEF rank
  <2> QED
    BY <1>3, NatLessThanWellFounded, WFMin
<1>5. \A m \in rank : ~(m < n)
  BY <1>3, <1>4 DEF OpToRel
<1>6. PICK p \in C : n = Cardinality(Later(p))
  OBVIOUS
<1>7. SUFFICES ASSUME NEW q \in C, ~(Position[q] <= Position[p])
               PROVE  FALSE
  OBVIOUS
<1>8. Later(q) \subseteq Later(p) /\ q \in Later(p) /\ q \notin Later(q)
  BY <1>1, <1>7
<1>9. Cardinality(Later(q)) < Cardinality(Later(p))
  <2> HIDE DEF Later
  <2>1. Cardinality(Later(q)) <= Cardinality(Later(p)) /\ Cardinality(Later(q)) # Cardinality(Later(p))
    BY <1>2, <1>8, FS_Subset
  <2> QED
    BY <1>2, <2>1
<1> QED
  BY <1>5, <1>6, <1>9

\* Calls are stuck only where some order holds a product that comes after the
\* one it waits for.
LEMMA StuckScans ==
  ASSUME Sound, NEW S \in SUBSET Calls, Stuck(S)
  PROVE  \E t \in S : OutOfOrder(t)
<1>1. ASSUME NEW u \in S
      PROVE  ~wrote[u]
  BY <1>1 DEF Stuck, Awaits, Sound, Shape, ShapeOf
<1>2. ASSUME NEW t \in S, NEW u \in S, Awaits(t, u)
      PROVE  /\ at[u] = "scan" /\ scan[u] # <<>>
             /\ at[t] = "scan" => Head(scan[t]) \in holds[u]
  <2>1. \/ at[t] = "customer" /\ call[t].customer \in holds[u]
        \/ at[t] = "scan" /\ Head(scan[t]) \in holds[u]
    BY <1>1, <1>2 DEF Awaits, HoldsEmail, HoldsName
  <2>2. at[u] \in {"customer", "scan", "write_email", "write_product"}
    BY DEF Stuck, Awaits
  <2>3. at[u] \notin {"customer", "write_product"}
    BY <2>1 DEF Sound, Shape, ShapeOf
  <2>4. at[u] # "write_email"
    BY <1>1, <2>2 DEF Stuck, Awaits, HoldsEmail
  <2>5. at[u] = "scan"
    BY <2>2, <2>3, <2>4
  <2> QED
    BY <2>1, <2>5 DEF Stuck, Awaits
<1> DEFINE C == {Head(scan[t]) : t \in {u \in S : at[u] = "scan" /\ scan[u] # <<>>}}
<1>3. C # {}
  <2>1. PICK t \in S, u \in S : Awaits(t, u)
    BY DEF Stuck
  <2> QED
    BY <1>2, <2>1
<1>4. ASSUME NEW t \in S, at[t] = "scan", scan[t] # <<>>
      PROVE  Head(scan[t]) \in Products
  BY <1>4, HeadTailProperties DEF Sound, TypeOK
<1>5. PICK p \in C : p \in Products /\ \A q \in C : Position[q] <= Position[p]
  <2>1. C \in SUBSET Products
    BY <1>4
  <2> HIDE DEF C
  <2> QED
    BY <1>3, <2>1, LastAwaited
<1>6. PICK t \in S : at[t] = "scan" /\ scan[t] # <<>> /\ p = Head(scan[t])
  OBVIOUS
<1>7. PICK u \in S : Awaits(t, u)
  BY DEF Stuck
<1>8. at[u] = "scan" /\ scan[u] # <<>> /\ p \in holds[u]
  BY <1>2, <1>6, <1>7
<1>9. Head(scan[u]) # p
  <2>1. PICK v \in S : Awaits(u, v)
    BY DEF Stuck
  <2>2. Head(scan[u]) \in holds[v] /\ u # v
    BY <1>2, <1>8, <2>1 DEF Awaits
  <2> QED
    BY <1>8, <2>2 DEF Sound, OneOwner
<1>10. Position[Head(scan[u])] < Position[p]
  <2> DEFINE q == Head(scan[u])
  <2>1. q \in C /\ q \in Products
    BY <1>4, <1>8
  <2>2. Position[q] <= Position[p]
    BY <1>5, <2>1
  <2>3. Position[q] # Position[p] /\ Position[q] \in Nat /\ Position[p] \in Nat
    BY <1>5, <1>9, <2>1, OrdersConstantsOK DEF Injection, IsInjective
  <2> QED
    BY <2>2, <2>3
<1> QED
  BY <1>5, <1>8, <1>10 DEF OutOfOrder

\* Deadlocks come of the order in which get_many_locked locks products, and of
\* nothing else.
THEOREM Deadlocks == Spec => []StuckOutOfOrder
<1>1. Sound => StuckOutOfOrder
  BY StuckScans DEF StuckOutOfOrder, Waiting
<1> QED
  BY <1>1, Soundness, PTL
-----------------------------------------------------------------------------
(* The transactions implement Shop. *)

\* What Shop sees of a call.
Noticed == [t \in Calls |-> IF missing[t] THEN {"ProductNotFound"} ELSE {}]
Answer == [t \in Calls |->
  IF at[t] = "end" \/ result[t] \in Refusals THEN result[t] ELSE None]

Promise == <<customers, products, orders, call, Noticed, Answer>>

USE DEF Executes, Goes, Comes, Undone, NoWrites, tables, Fits

\* No call is answered at first.
LEMMA InitRefines == Init => Unit!Init
<1> SUFFICES ASSUME Init PROVE Unit!Init
  OBVIOUS
<1>1. Sound
  BY Initially
<1>2. \A t \in Calls : ~missing[t] /\ at[t] = "none" /\ result[t] = None
  BY DEF Init
<1> QED
  BY <1>1, <1>2, NoneApart DEF Init, Unit!Init, Unit!Known, Sound, TypeOK, Unique, Exists

\* An unanswered call gets the answer a and nothing else changes.
Answers(t, a) ==
  /\ call[t] # None /\ Answer[t] = None
  /\ Answer' = [Answer EXCEPT ![t] = a]
  /\ UNCHANGED <<call, Noticed>>

\* An answer is seen as soon as it is certain.
LEMMA AnswerSeen ==
  ASSUME Sound, NEW t \in Calls, UNCHANGED <<call, missing>>, at[t] # "none",
         Answer[t] = None, NEW a,
         NEW s \in Labels, at' = [at EXCEPT ![t] = s], result' = [result EXCEPT ![t] = a],
         s = "end" \/ a \in Refusals
  PROVE  Answers(t, a)
<1>1. call[t] # None
  BY DEF Sound, Shape, ShapeOf
<1>2. Answer' = [Answer EXCEPT ![t] = a]
  BY DEF Sound, TypeOK, Answer
<1> QED
  BY <1>1, <1>2 DEF Answers, Noticed

\* A call without an answer is one that has neither ended nor failed.
LEMMA Unanswered ==
  ASSUME Sound, NEW t \in Calls
  PROVE  /\ at[t] \notin {"exit", "end"} => Answer[t] = None
         /\ at[t] = "exit" /\ result[t] = "ok" => Answer[t] = None
BY NoneApart DEF Sound, TypeOK, Shape, ShapeOf, Answer

\* A refusal is one of Shop when its reason is good now or was noticed.
LEMMA RefusalRefines ==
  ASSUME NEW t \in Calls, NEW why \in Refusals, Answers(t, why), UNCHANGED tables,
         Unit!Reason(call[t], why) \/ why \in Noticed[t]
  PROVE  Unit!Next
<1>1. Unit!Refuse(t)
  BY DEF Answers, Unit!Refuse, Unit!Reasons, Refusals, Noticed, Answer
<1> QED
  BY <1>1 DEF Unit!Next

\* A commit serves the call at that moment.
LEMMA CommitRefines ==
  ASSUME Sound, NEW t \in Calls, Commits(t)
  PROVE  Unit!Next
<1>1. call[t] \in Requests /\ MayCommit(t)
  BY DEF Commits, Sound, TypeOK, Shape, ShapeOf, Committable
<1>2. PICK a \in {"ok", "OperationalError"} :
        Answers(t, a) /\ Answer' = [Answer EXCEPT ![t] = a]
  BY AnswerSeen, Unanswered DEF Commits, Labels, Answers
<1>3. Unit!Fine(call[t])
  BY <1>1, RequestTyped DEF MayCommit, Unit!Fine, Unit!Reason, Unit!Reasons, Unit!Known,
     Unit!Taken, Exists, EmailExists, Email
<1>4. Unit!Effect(t, call[t])
  <2>1. ASSUME ~wrote[t]
        PROVE  /\ call[t].do = "update_email"
               /\ customers[call[t].customer] = call[t].email
    BY <1>1, <2>1, RequestTyped DEF MayCommit
  <2>2. CASE ~wrote[t]
    BY <2>1, <2>2 DEF Commits, Committed, Unit!Effect, Sound, TypeOK
  <2>3. CASE wrote[t]
    BY <2>3 DEF Commits, Committed, Unit!Effect, Email
  <2> QED
    BY <2>2, <2>3
<1>5. Unit!Serve(t)
  BY <1>2, <1>3, <1>4 DEF Answers, Unit!Serve, Noticed, Answer
<1> QED
  BY <1>5 DEF Unit!Next

\* A call that begins is asked in Shop.
LEMMA AskRefines ==
  ASSUME Sound, NEW t \in Calls, NEW r \in Made(t), Ask(t, r)
  PROVE  Unit!Next
<1>1. r \in Requests /\ call[t] = None
  BY OrdersConstantsOK DEF Made, Requests, Customers, Ask, Sound, Shape, ShapeOf
<1>2. call' = [call EXCEPT ![t] = r] /\ call'[t] = r
  BY DEF Ask, Sound, TypeOK
<1>3. Answer' = Answer /\ Noticed' = Noticed
  BY NoneApart, RequestTyped, <1>1 DEF Ask, Answer, Noticed, Sound, TypeOK, First, Shape, ShapeOf
<1>4. Unit!Ask(t)
  BY <1>1, <1>2, <1>3 DEF Unit!Ask, Ask, Noticed, Answer
<1> QED
  BY <1>4 DEF Unit!Next

\* The first products that are not there are the reason for a later refusal.
LEMMA ScanRefines ==
  ASSUME Sound, NEW t \in Calls, BeginScan(t)
  PROVE  Unit!Next \/ UNCHANGED Promise
<1>1. /\ call[t] # None /\ call[t].do = "place_order" /\ Exists(call[t].customer)
      /\ Answer[t] = None /\ ~missing[t]
  BY NoneApart, Unanswered DEF BeginScan, Sound, Shape, ShapeOf
<1>2. Answer' = Answer
  BY NoneApart DEF BeginScan, Answer, Sound, TypeOK, Shape, ShapeOf
<1>3. CASE ~missing'[t]
  <2>1. Noticed' = Noticed
    BY <1>1, <1>3 DEF BeginScan, Noticed, Sound, TypeOK
  <2> QED
    BY <1>2, <2>1 DEF BeginScan, Promise
<1>4. CASE missing'[t]
  <2>1. Noticed' = [Noticed EXCEPT ![t] = @ \cup {"ProductNotFound"}]
    BY <1>1, <1>4 DEF BeginScan, Noticed, Sound, TypeOK
  <2>2. ~(call[t].items \subseteq products)
    BY <1>4 DEF BeginScan, Sound, TypeOK
  <2>3. Unit!Reason(call[t], "ProductNotFound")
    BY <1>1, <2>2 DEF Unit!Reason, Unit!Known, Exists
  <2>4. Unit!Notice(t)
    BY <1>1, <1>2, <2>1, <2>3 DEF Unit!Notice, Unit!Reasons, BeginScan, Noticed, Answer
  <2> QED
    BY <2>4 DEF Unit!Next
<1> QED
  BY <1>3, <1>4

\* A call that was refused before ends: nothing new is seen.
LEMMA EndSeen ==
  ASSUME Sound, NEW t \in Calls, Exit(t), result[t] # "ok"
  PROVE  UNCHANGED Promise
BY NoneApart DEF Exit, Promise, Noticed, Answer, Sound, TypeOK, Shape, ShapeOf

\* A call that loses its connection is refused as one that lost its database.
LEMMA LosesRefines ==
  ASSUME Sound, NEW t \in Calls, Loses(t)
  PROVE  Unit!Next
<1>1. at[t] # "none" /\ Answer[t] = None
  BY Unanswered, NoneApart DEF Loses, Sound, TypeOK, Shape, ShapeOf, Answer
<1>2. Answers(t, "OperationalError")
  BY <1>1, AnswerSeen DEF Loses, Labels
<1>3. Unit!Reason(call[t], "OperationalError")
  BY DEF Unit!Reason
<1> QED
  BY <1>2, <1>3, RefusalRefines DEF Loses, Refusals

\* A statement that raises an error: the reason is there now, or the missing
\* product was noticed when the scan began.
LEMMA RaiseRefines ==
  ASSUME Sound, NEW t \in Calls, NEW why \in Refusals, Comes(t, why),
         at[t] \notin {"none", "exit", "end"}, UNCHANGED <<tables, call, missing>>,
         Unit!Reason(call[t], why) \/ why \in Noticed[t]
  PROVE  Unit!Next
<1>1. Answer[t] = None
  BY Unanswered
<1>2. Answers(t, why)
  BY <1>1, AnswerSeen DEF Labels
<1> QED
  BY <1>2, RefusalRefines

\* Every statement of a call.
LEMMA StatementRefines ==
  ASSUME Sound, NEW t \in Calls, Statement(t)
  PROVE  Unit!Next \/ UNCHANGED Promise
<1>0. ASSUME at[t] # "none"
      PROVE  call[t] \in Requests
  BY <1>0 DEF Sound, TypeOK, Shape, ShapeOf
<1>1. CASE LockCustomer(t)
  <2>1. CASE ~Exists(call[t].customer)
    <3>1. Unit!Reason(call[t], "CustomerNotFound")
      BY <1>1, <2>1 DEF LockCustomer, Unit!Reason, Unit!Known, Exists, Sound, Shape, ShapeOf
    <3> QED
      BY <1>1, <2>1, <3>1, RaiseRefines DEF LockCustomer, Refusals
  <2>2. CASE Exists(call[t].customer)
    BY <1>1, <2>2, NoneApart DEF LockCustomer, Promise, Noticed, Answer, Sound, TypeOK, Shape, ShapeOf
  <2> QED
    BY <2>1, <2>2
<1>2. CASE BeginScan(t)
  BY <1>2, ScanRefines
<1>3. CASE LockProduct(t)
  BY <1>3 DEF LockProduct, Promise, Noticed, Answer
<1>4. CASE InsertOrder(t)
  <2>1. at[t] = "scan" /\ call[t].do = "place_order" /\ UNCHANGED <<tables, call, missing>>
    BY <1>4 DEF InsertOrder, Sound, Shape, ShapeOf
  <2>2. CASE missing[t] /\ Comes(t, "ProductNotFound")
    <3>1. "ProductNotFound" \in Noticed[t]
      BY <2>2 DEF Noticed
    <3> QED
      BY <2>1, <2>2, <3>1, RaiseRefines DEF Refusals
  <2>3. CASE ~Fits(call[t]) /\ Comes(t, "DataError")
    <3>1. Unit!Reason(call[t], "DataError")
      BY <2>1, <2>3 DEF Unit!Reason
    <3> QED
      BY <2>1, <2>3, <3>1, RaiseRefines DEF Refusals
  <2>4. CASE Comes(t, "ok")
    BY <2>1, <2>4, NoneApart DEF Promise, Noticed, Answer, Sound, TypeOK, Shape, ShapeOf
  <2> QED
    BY <1>4, <2>2, <2>3, <2>4 DEF InsertOrder
<1>5. CASE CheckEmail(t)
  <2>1. at[t] = "email" /\ call[t].do \in Email /\ UNCHANGED <<tables, call, missing>>
    BY <1>5 DEF CheckEmail, Sound, Shape, ShapeOf
  <2>2. CASE EmailExists(t)
    <3>1. Unit!Reason(call[t], "DuplicateEmail")
      BY <2>1, <2>2 DEF Unit!Reason, Unit!Taken, EmailExists, Email
    <3> QED
      BY <1>5, <2>1, <2>2, <3>1, RaiseRefines DEF CheckEmail, Refusals
  <2>3. CASE ~EmailExists(t)
    BY <1>5, <2>1, <2>3 DEF CheckEmail, Promise, Noticed, Answer, Sound, TypeOK
  <2> QED
    BY <2>2, <2>3
<1>6. CASE FlushEmail(t)
  <2>1. /\ at[t] = "write_email" /\ call[t].do \in Email
        /\ UNCHANGED <<tables, call, missing>>
    BY <1>6 DEF FlushEmail, Sound, Shape, ShapeOf
  <2>2. CASE Fits(call[t]) /\ EmailExists(t)
    <3>1. /\ Unit!Reason(call[t], "DuplicateEmail")
          /\ call[t].do = "create" => Unit!Reason(call[t], "IntegrityError")
      BY <2>1, <2>2 DEF Unit!Reason, Unit!Taken, EmailExists, Email
    <3> QED
      BY <1>6, <2>1, <2>2, <3>1, RaiseRefines DEF FlushEmail, Refusals
  <2>3. CASE Fits(call[t]) /\ ~EmailExists(t)
    BY <1>6, <2>1, <2>3, NoneApart
       DEF FlushEmail, Promise, Noticed, Answer, Sound, TypeOK, Shape, ShapeOf
  <2>4. CASE ~Fits(call[t])
    <3>1. Unit!Reason(call[t], "DataError")
      BY <2>1, <2>4 DEF Unit!Reason, Email
    <3> QED
      BY <1>6, <2>1, <2>4, <3>1, RaiseRefines DEF FlushEmail, Refusals
  <2> QED
    BY <2>2, <2>3, <2>4
<1>7. CASE CheckName(t)
  <2>1. at[t] = "name" /\ call[t].do = "add_product" /\ UNCHANGED <<tables, call, missing>>
    BY <1>7 DEF CheckName, Sound, Shape, ShapeOf
  <2>2. CASE call[t].product \in products
    <3>1. Unit!Reason(call[t], "DuplicateProduct")
      BY <2>1, <2>2 DEF Unit!Reason
    <3> QED
      BY <1>7, <2>1, <2>2, <3>1, RaiseRefines DEF CheckName, Refusals
  <2>3. CASE call[t].product \notin products
    BY <1>7, <2>1, <2>3 DEF CheckName, Promise, Noticed, Answer, Sound, TypeOK
  <2> QED
    BY <2>2, <2>3
<1>8. CASE InsertProduct(t)
  <2>1. /\ at[t] = "write_product" /\ call[t].do = "add_product"
        /\ UNCHANGED <<tables, call, missing>>
    BY <1>8 DEF InsertProduct, Sound, Shape, ShapeOf
  <2>2. CASE ~Fits(call[t]) /\ Comes(t, "DataError")
    <3>1. Unit!Reason(call[t], "DataError")
      BY <2>1, <2>2 DEF Unit!Reason
    <3> QED
      BY <2>1, <2>2, <3>1, RaiseRefines DEF Refusals
  <2>3. CASE call[t].product \in products /\ Comes(t, "DuplicateProduct")
    <3>1. Unit!Reason(call[t], "DuplicateProduct")
      BY <2>1, <2>3 DEF Unit!Reason
    <3> QED
      BY <2>1, <2>3, <3>1, RaiseRefines DEF Refusals
  <2>4. CASE Comes(t, "ok")
    BY <2>1, <2>4, NoneApart DEF Promise, Noticed, Answer, Sound, TypeOK, Shape, ShapeOf
  <2> QED
    BY <1>8, <2>2, <2>3, <2>4 DEF InsertProduct
<1>9. CASE Exit(t)
  <2>1. CASE result[t] = "ok"
    <3>1. Commits(t)
      BY <1>9, <2>1 DEF Exit, Commits, Sound, TypeOK
    <3> QED
      BY <3>1, CommitRefines
  <2>2. CASE result[t] # "ok"
    BY <1>9, <2>2, EndSeen
  <2> QED
    BY <2>1, <2>2
<1> QED
  BY <1>1, <1>2, <1>3, <1>4, <1>5, <1>6, <1>7, <1>8, <1>9 DEF Statement

\* Every step of the services is a step of Shop, or changes nothing that Shop promises of.
LEMMA NextRefines == Sound /\ [Next]_vars => [Unit!Next]_Promise
<1> SUFFICES ASSUME Sound, [Next]_vars
             PROVE  Unit!Next \/ UNCHANGED Promise
  OBVIOUS
<1>1. ASSUME NEW t \in Calls, NEW r \in Made(t), Ask(t, r)
      PROVE  Unit!Next
  BY <1>1, AskRefines
<1>2. ASSUME NEW t \in Calls, Statement(t)
      PROVE  Unit!Next \/ UNCHANGED Promise
  BY <1>2, StatementRefines
<1>3. ASSUME NEW t \in Calls, Break(t) \/ DeadlockDetected(t)
      PROVE  Unit!Next
  BY <1>3, LosesRefines DEF Break, DeadlockDetected
<1>4. ASSUME NEW t \in Calls, CommitUnheard(t)
      PROVE  Unit!Next
  <2>1. Commits(t)
    BY <1>4, OrdersConstantsOK DEF CommitUnheard, Commits, Sound, TypeOK
  <2> QED
    BY <2>1, CommitRefines
<1>5. CASE UNCHANGED vars
  BY <1>5 DEF vars, Promise, Noticed, Answer
<1> QED
  BY <1>1, <1>2, <1>3, <1>4, <1>5 DEF Next

\* Every behaviour of the transactions is one of Shop: whatever other calls do
\* between its statements, a call is served at one moment and as a whole, or
\* changes nothing and names a reason that was good.
THEOREM Service == Spec => ServedAsOne
<1>1. Sound /\ [Next]_vars =>
        [Unit!Next]_<<customers, products, orders, call,
          [t \in Calls |-> IF missing[t] THEN {"ProductNotFound"} ELSE {}],
          [t \in Calls |->
             IF at[t] = "end" \/ result[t] \in Refusals THEN result[t] ELSE None]>>
  BY NextRefines DEF Promise, Noticed, Answer
<1> QED
  BY <1>1, InitRefines, Soundness, PTL DEF Spec, ServedAsOne, Unit!Spec

=============================================================================
