------------------------------ MODULE MCOrders ------------------------------
(***************************************************************************)
(* A small instance of Orders for TLC.                                     *)
(***************************************************************************)
EXTENDS Orders, TLC
CONSTANTS k1, k2, p1, p2, p3, e1, e2, e3

MCPosition == (p1 :> 1) @@ (p2 :> 2) @@ (p3 :> 3)
MCFirstEmail == (k1 :> e1) @@ (k2 :> e2)

Place(c, items, fits) ==
  [do |-> "place_order", customer |-> c, items |-> items, fits |-> fits]
Update(c, e) == [do |-> "update_email", customer |-> c, email |-> e]
Add(p, fits) == [do |-> "add_product", product |-> p, fits |-> fits]

\* Orders that share two products; changes to one free email and to one that may
\* become free; a product that comes, and an order with it, whose amounts do not
\* fit, by a customer that the first call may create.
MCAsked ==
  {Place(k1, {p1, p2}, TRUE), Place(k2, {p1, p2}, TRUE), Place(1, {p2, p3}, FALSE),
   Update(k1, e2), Update(k2, e1), Update(k2, e2), Update(k2, e3),
   Add(p3, TRUE), Add(p3, FALSE)}
=============================================================================
