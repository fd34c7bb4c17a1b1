------------------------------ MODULE BoxOffice ------------------------------
(***************************************************************************)
(* What the sale of an event's places promises, without sessions, locks,   *)
(* counts or orders.  Places are reserved all at once, while there are     *)
(* enough, at the price of that moment, by a buyer with nothing reserved   *)
(* of the type.  A reservation is paid, or given up, as a whole.  What is  *)
(* gone stays gone, and an edit takes no place away and changes no price   *)
(* that somebody was promised.                                             *)
(***************************************************************************)
EXTENDS Naturals, FiniteSets

CONSTANTS Type, Ticket, Buyer, Price, Free, MaxQuantity, NoType, NoBuyer

VARIABLES
  quantity, price,  \* what the organizer offers
  place             \* who has which place, at what price

vars == <<quantity, price, place>>

Vacant == [state |-> "vacant", type |-> NoType, cost |-> Free, buyer |-> NoBuyer]

Taken(y) == {t \in Ticket : place[t].type = y /\ place[t].state \in {"reserved", "sold"}}
ReservedBy(b, y) ==
  {t \in Ticket : place[t].type = y /\ place[t].buyer = b /\ place[t].state = "reserved"}

Init ==
  /\ quantity \in [Type -> 0 .. MaxQuantity]
  /\ price \in [Type -> Price]
  /\ place = [t \in Ticket |-> Vacant]

\* A place that costs nothing is sold at once.
Reserve(b, y, new) ==
  /\ \A t \in new : place[t].state = "vacant"
  /\ Cardinality(Taken(y)) + Cardinality(new) <= quantity[y]
  /\ ReservedBy(b, y) = {}
  /\ place' = [t \in Ticket |->
       IF t \in new THEN [state |-> IF price[y] = Free THEN "sold" ELSE "reserved",
                          type |-> y, cost |-> price[y], buyer |-> b]
       ELSE place[t]]
  /\ UNCHANGED <<quantity, price>>

Become(ts, state) ==
  /\ place' = [t \in Ticket |-> IF t \in ts THEN [place[t] EXCEPT !.state = state] ELSE place[t]]
  /\ UNCHANGED <<quantity, price>>

\* Paid; or cancelled, released or run out.
Conclude(b, y) == \E state \in {"sold", "gone"} : Become(ReservedBy(b, y), state)

Return(t) ==
  /\ place[t].state \in {"reserved", "sold"}
  /\ Become({t}, "gone")

Edit(y, q, p) ==
  /\ Cardinality(Taken(y)) <= q
  /\ p # price[y] => Taken(y) = {}
  /\ quantity' = [quantity EXCEPT ![y] = q]
  /\ price' = [price EXCEPT ![y] = p]
  /\ UNCHANGED place

Next ==
  \/ \E y \in Type, b \in Buyer :
       \/ \E new \in SUBSET Ticket : Reserve(b, y, new)
       \/ Conclude(b, y)
  \/ \E y \in Type, q \in 0 .. MaxQuantity, p \in Price : Edit(y, q, p)
  \/ \E t \in Ticket : Return(t)

Spec == Init /\ [][Next]_vars
=============================================================================
