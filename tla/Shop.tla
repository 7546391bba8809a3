-------------------------------- MODULE Shop --------------------------------
(***************************************************************************)
(* What the services of practice1/ promise: a call takes effect at one     *)
(* moment and as a whole, or is refused and changes nothing.  A refusal    *)
(* names something that was so at a moment of the call; a call that lost   *)
(* its database may have taken effect or not.                              *)
(***************************************************************************)
CONSTANTS
  Calls,                        \* calls of the services
  Customers, Products, Emails,
  Requests,                     \* what a call may ask for
  None

VARIABLES
  customers,  \* the email of every customer, or None
  products,   \* products on offer
  orders,     \* orders placed: [by, customer, items]
  call,       \* the request of every call, or None before it
  noticed,    \* reasons for a refusal that were good at some moment of the call
  answer      \* the answer of every call, or None before it

Known(c) == customers[c] # None
Taken(e, c) == \E d \in Customers \ {c} : customers[d] = e

\* The reasons there are now to refuse a request.
Reason(r, why) ==
  \/ /\ why = "CustomerNotFound" /\ r.do \in {"place_order", "update_email"}
     /\ ~Known(r.customer)
  \/ /\ why = "ProductNotFound" /\ r.do = "place_order"
     /\ Known(r.customer) /\ ~(r.items \subseteq products)
  \/ /\ why = "DuplicateEmail" /\ r.do \in {"update_email", "create"}
     /\ Taken(r.email, r.customer)
  \/ /\ why = "IntegrityError" /\ r.do = "create"
     /\ Taken(r.email, r.customer)
  \/ why = "DuplicateProduct" /\ r.do = "add_product" /\ r.product \in products
  \/ why = "DataError" /\ r.do \in {"place_order", "create", "add_product"} /\ ~r.fits
  \/ why = "OperationalError"

Reasons == {"CustomerNotFound", "ProductNotFound", "DuplicateEmail", "IntegrityError",
            "DuplicateProduct", "DataError", "OperationalError"}

\* Nothing but a lost database stands in the way.
Fine(r) == \A why \in Reasons \ {"OperationalError"} : ~Reason(r, why)

Effect(t, r) ==
  /\ customers' = IF r.do \in {"update_email", "create"}
                  THEN [customers EXCEPT ![r.customer] = r.email] ELSE customers
  /\ products' = IF r.do = "add_product" THEN products \cup {r.product} ELSE products
  /\ orders' = IF r.do = "place_order"
               THEN orders \cup {[by |-> t, customer |-> r.customer, items |-> r.items]}
               ELSE orders

Init ==
  /\ customers \in [Customers -> Emails \cup {None}]
  /\ \A c, d \in Customers : Known(c) /\ customers[c] = customers[d] => c = d
  /\ products \in SUBSET Products
  /\ orders = {}
  /\ call = [t \in Calls |-> None]
  /\ noticed = [t \in Calls |-> {}]
  /\ answer = [t \in Calls |-> None]

Ask(t) ==
  /\ call[t] = None
  /\ call'[t] \in Requests /\ call' = [call EXCEPT ![t] = call'[t]]
  /\ UNCHANGED <<customers, products, orders, noticed, answer>>

Notice(t) ==
  /\ call[t] # None /\ answer[t] = None
  /\ \E why \in Reasons :
       Reason(call[t], why) /\ noticed' = [noticed EXCEPT ![t] = @ \cup {why}]
  /\ UNCHANGED <<customers, products, orders, call, answer>>

Refuse(t) ==
  /\ call[t] # None /\ answer[t] = None
  /\ \E why \in Reasons :
       /\ answer' = [answer EXCEPT ![t] = why]
       /\ why \in noticed[t] \/ Reason(call[t], why)
  /\ UNCHANGED <<customers, products, orders, call, noticed>>

Serve(t) ==
  /\ call[t] # None /\ answer[t] = None
  /\ Fine(call[t]) /\ Effect(t, call[t])
  /\ \E a \in {"ok", "OperationalError"} : answer' = [answer EXCEPT ![t] = a]
  /\ UNCHANGED <<call, noticed>>

Next == \E t \in Calls : Ask(t) \/ Notice(t) \/ Refuse(t) \/ Serve(t)

Spec == Init /\ [][Next]_<<customers, products, orders, call, noticed, answer>>
=============================================================================
