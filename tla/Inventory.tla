----------------------------- MODULE Inventory -----------------------------
(***************************************************************************)
(* How places of a ticket type are given out: create_order and             *)
(* update_ticket_type of src/services/ticket.py.  Both lock the type's row, *)
(* count the tickets that hold its capacity, decide, and commit; what they *)
(* counted may change before they write, because tickets end, are paid and *)
(* are admitted (modules Checkout and Settlement) without that lock.       *)
(***************************************************************************)
EXTENDS Naturals, FiniteSets

CONSTANTS
  Type,         \* ticket types on sale
  Ticket,       \* the ticket rows there may ever be
  Buyer,
  Key,          \* Order.idempotency_key, unique: an order is known by its key
  Session,      \* sessions serving orders and edits
  Price,        \* what a ticket may cost: price and currency
  Free,         \* the price 0
  MaxQuantity,  \* bound: places an organizer offers
  MaxPerOrder,  \* TicketType.max_per_order of a type that is not free
  NoSession, NoKey, NoType, NoBuyer

ASSUME InventoryAssumption ==
  /\ IsFiniteSet(Ticket)
  /\ Free \in Price
  /\ MaxQuantity \in Nat /\ MaxPerOrder \in Nat \ {0}
  /\ NoSession \notin Session /\ NoKey \notin Key
  /\ NoType \notin Type /\ NoBuyer \notin Buyer

\* Ticket.status: "held" is pending_payment; "released" a reservation that
\* ended unpaid, "returned" a sold ticket that was cancelled or refunded.
HoldsCapacity == {"held", "active", "used"}
TicketStatus  == HoldsCapacity \cup {"none", "released", "returned"}
OrderStatus   == {"none", "pending", "confirmed", "ended"}

VARIABLES
  quantity,  \* TicketType.quantity
  price,     \* TicketType.price and .currency
  order,     \* the orders, by idempotency key
  ticket,    \* the ticket rows
  revived,   \* returned tickets an attendance verification marked used again
  lock,      \* which session holds a ticket type FOR UPDATE
  desk       \* what each session does and what it has decided

types == <<quantity, price>>
sales == <<order, ticket, revived>>
vars  == <<quantity, price, order, ticket, revived, lock, desk>>

NoOrder  == [status |-> "none", buyer |-> NoBuyer]
NoTicket == [status |-> "none", type |-> NoType, order |-> NoKey, cost |-> Free]
AtRest   == [at |-> "rest", type |-> NoType, buyer |-> NoBuyer, key |-> NoKey,
             n |-> 0, price |-> Free]

DeskState ==
  [at : {"rest", "o_lock", "o_count", "o_insert", "e_count", "e_save"},
   type : Type \cup {NoType}, buyer : Buyer \cup {NoBuyer}, key : Key \cup {NoKey},
   n : Nat, price : Price]

TypeOK ==
  /\ quantity \in [Type -> 0 .. MaxQuantity]
  /\ price \in [Type -> Price]
  /\ order \in [Key -> [status : OrderStatus, buyer : Buyer \cup {NoBuyer}]]
  /\ ticket \in [Ticket -> [status : TicketStatus, type : Type \cup {NoType},
                            order : Key \cup {NoKey}, cost : Price]]
  /\ revived \subseteq Ticket
  /\ lock \in [Type -> Session \cup {NoSession}]
  /\ desk \in [Session -> DeskState]

\* create_ticket_type has committed each type.
Init ==
  /\ quantity \in [Type -> 0 .. MaxQuantity]
  /\ price \in [Type -> Price]
  /\ order = [k \in Key |-> NoOrder]
  /\ ticket = [t \in Ticket |-> NoTicket]
  /\ revived = {}
  /\ lock = [y \in Type |-> NoSession]
  /\ desk = [s \in Session |-> AtRest]

-----------------------------------------------------------------------------
\* What `issued` counts.
Issued(y) == {t \in Ticket : ticket[t].type = y /\ ticket[t].status \in HoldsCapacity}

TicketsOf(k) == {t \in Ticket : ticket[t].order = k}
Unused       == {t \in Ticket : ticket[t].status = "none"}

\* per_order_ceiling
Ceiling(p) == IF p = Free THEN 1 ELSE MaxPerOrder

\* A pending order of the buyer with a ticket of the type still to be paid.
Reservation(b, y) ==
  {k \in Key : /\ order[k].status = "pending"
               /\ order[k].buyer = b
               /\ \E t \in TicketsOf(k) : ticket[t].type = y /\ ticket[t].status = "held"}

\* Commit, refusal or crash: the session's lock is gone.
Leave(s) ==
  /\ desk' = [desk EXCEPT ![s] = AtRest]
  /\ lock' = [y \in Type |-> IF lock[y] = s THEN NoSession ELSE lock[y]]

\* Mutant of TakeType: the row is read and not locked.
ReadType(s, y, next) ==
  /\ desk' = next
  /\ UNCHANGED lock

TakeType(s, y, next) ==
  /\ lock[y] = NoSession
  /\ lock' = [lock EXCEPT ![y] = s]
  /\ desk' = next

-----------------------------------------------------------------------------
\* create_order with a key no order has; a known key only reads.
OrderStart(s, b, y, n, k) ==
  /\ desk[s].at = "rest"
  /\ order[k].status = "none"
  /\ desk' = [desk EXCEPT ![s] = [AtRest EXCEPT !.at = "o_lock", !.type = y,
                                   !.buyer = b, !.key = k, !.n = n]]
  /\ UNCHANGED <<types, sales, lock>>

OrderLock(s) ==
  /\ desk[s].at = "o_lock"
  /\ TakeType(s, desk[s].type, [desk EXCEPT ![s].at = "o_count"])
  /\ UNCHANGED <<types, sales>>

\* Mutant of OrderCount: a buyer with an open reservation gets another.
OrderCountOnly(s) ==
  LET me == desk[s]
  IN  /\ me.at = "o_count"
      /\ me.n <= Ceiling(price[me.type])
      /\ Cardinality(Issued(me.type)) + me.n <= quantity[me.type]
      /\ desk' = [desk EXCEPT ![s].at = "o_insert", ![s].price = price[me.type]]
      /\ UNCHANGED <<types, sales, lock>>

\* A buyer with an open reservation is answered with it; other requests are
\* refused (Refuse) or go on.
OrderCount(s) ==
  LET me == desk[s]
  IN  /\ me.at = "o_count"
      /\ Reservation(me.buyer, me.type) = {}
      /\ me.n <= Ceiling(price[me.type])
      /\ Cardinality(Issued(me.type)) + me.n <= quantity[me.type]
      /\ desk' = [desk EXCEPT ![s].at = "o_insert", ![s].price = price[me.type]]
      /\ UNCHANGED <<types, sales, lock>>

\* The unique key lets the first of two concurrent requests through.
OrderInsert(s) ==
  LET me   == desk[s]
      free == me.price = Free
  IN  /\ me.at = "o_insert"
      /\ order[me.key].status = "none"
      /\ \E new \in SUBSET Unused :
           /\ Cardinality(new) = me.n
           /\ ticket' = [t \in Ticket |->
                IF t \in new
                THEN [status |-> IF free THEN "active" ELSE "held",
                      type |-> me.type, order |-> me.key, cost |-> me.price]
                ELSE ticket[t]]
      /\ order' = [order EXCEPT ![me.key] =
                     [status |-> IF free THEN "confirmed" ELSE "pending",
                      buyer |-> me.buyer]]
      /\ Leave(s)
      /\ UNCHANGED <<types, revived>>

-----------------------------------------------------------------------------
\* update_ticket_type
EditLock(s, y) ==
  /\ desk[s].at = "rest"
  /\ TakeType(s, y, [desk EXCEPT ![s] = [AtRest EXCEPT !.at = "e_count", !.type = y]])
  /\ UNCHANGED <<types, sales>>

\* Mutant of EditCount: price and currency may always change.
EditCountQuantity(s, q, p) ==
  LET me     == desk[s]
      issued == Cardinality(Issued(me.type))
  IN  /\ me.at = "e_count"
      /\ q # quantity[me.type] => issued <= q
      /\ desk' = [desk EXCEPT ![s].at = "e_save", ![s].n = q, ![s].price = p]
      /\ UNCHANGED <<types, sales, lock>>

EditCount(s, q, p) ==
  LET me     == desk[s]
      issued == Cardinality(Issued(me.type))
  IN  /\ me.at = "e_count"
      /\ p # price[me.type] => issued = 0
      /\ q # quantity[me.type] => issued <= q
      /\ desk' = [desk EXCEPT ![s].at = "e_save", ![s].n = q, ![s].price = p]
      /\ UNCHANGED <<types, sales, lock>>

EditSave(s) ==
  LET me == desk[s]
  IN  /\ me.at = "e_save"
      /\ quantity' = [quantity EXCEPT ![me.type] = me.n]
      /\ price' = [price EXCEPT ![me.type] = me.price]
      /\ Leave(s)
      /\ UNCHANGED sales

\* Refused by a check, answered with what exists, or rolled back.
Refuse(s) ==
  /\ desk[s].at # "rest"
  /\ Leave(s)
  /\ UNCHANGED <<types, sales>>

-----------------------------------------------------------------------------
\* What the other modules' commits do to the rows, without the type's lock.
MoveTickets(ts, from, to) ==
  ticket' = [t \in Ticket |-> IF t \in ts /\ ticket[t].status \in from
                              THEN [ticket[t] EXCEPT !.status = to] ELSE ticket[t]]

\* The charge is confirmed; or the reservation is cancelled, released or swept.
Conclude(k) ==
  /\ order[k].status = "pending"
  /\ \/ /\ order' = [order EXCEPT ![k].status = "confirmed"]
        /\ MoveTickets(TicketsOf(k), {"held"}, "active")
     \/ /\ order' = [order EXCEPT ![k].status = "ended"]
        /\ MoveTickets(TicketsOf(k), {"held"}, "released")
  /\ UNCHANGED <<types, revived, lock, desk>>

\* One ticket is cancelled or refunded, a used one on an out-of-date copy.  Its
\* order stays, or ends: by refund_order, or with its last ticket.
ReturnTicket(t) ==
  /\ ticket[t].status \in HoldsCapacity
  /\ MoveTickets({t}, HoldsCapacity, IF ticket[t].status = "held" THEN "released" ELSE "returned")
  /\ \/ UNCHANGED order
     \/ /\ \/ order[ticket[t].order].status = "confirmed"
           \/ \A u \in TicketsOf(ticket[t].order) \ {t} : ticket[u].status \notin HoldsCapacity
        /\ order' = [order EXCEPT ![ticket[t].order].status = "ended"]
  /\ revived' = revived \ {t}
  /\ UNCHANGED <<types, lock, desk>>

\* The ticket is admitted; or a verification that has read it as active marks
\* it used after it was returned (VerifyCommit of Settlement).
Admit(t) ==
  /\ \/ /\ ticket[t].status = "active"
        /\ UNCHANGED revived
     \/ /\ ticket[t].status = "returned"
        /\ revived' = revived \cup {t}
  /\ MoveTickets({t}, {"active", "returned"}, "used")
  /\ UNCHANGED <<types, order, lock, desk>>

-----------------------------------------------------------------------------
Serve(s) ==
  \/ \E b \in Buyer, y \in Type, n \in 1 .. MaxPerOrder, k \in Key : OrderStart(s, b, y, n, k)
  \/ OrderLock(s) \/ OrderCount(s) \/ OrderInsert(s)
  \/ \E y \in Type : EditLock(s, y)
  \/ \E q \in 0 .. MaxQuantity, p \in Price : EditCount(s, q, p)
  \/ EditSave(s) \/ Refuse(s)

Next ==
  \/ \E s \in Session : Serve(s)
  \/ \E k \in Key : Conclude(k)
  \/ \E t \in Ticket : ReturnTicket(t) \/ Admit(t)

Spec == Init /\ [][Next]_vars

-----------------------------------------------------------------------------
\* However orders, edits and releases interleave, no more tickets hold places
\* of a type than it has, except those a late verification brought back.
CapacityIsKept ==
  \A y \in Type : Cardinality(Issued(y) \ revived) <= quantity[y]

\* ticket.py: an edit must not "silently restate what a buyer already paid":
\* every ticket that holds a place was bought at the price its type has now.
PriceIsKept ==
  \A t \in Ticket :
    ticket[t].status \in HoldsCapacity /\ t \notin revived => ticket[t].cost = price[ticket[t].type]

\* BUILD_STATUS.md: pending reservations of the same user and type reuse the
\* one live order, also when two requests with fresh keys arrive together.
OneReservationPerBuyer ==
  \A b \in Buyer, y \in Type :
    \A k1, k2 \in Reservation(b, y) : k1 = k2

\* A buyer's view of a ticket's row; a ticket that a late verification brought
\* back has had its place already.
PlaceState(t) ==
  IF ticket[t].status = "none" THEN "vacant" ELSE
  IF ticket[t].status = "held" THEN "reserved" ELSE
  IF ticket[t].status \in {"active", "used"} /\ t \notin revived THEN "sold" ELSE "gone"

Place(t) ==
  [state |-> PlaceState(t), type |-> ticket[t].type, cost |-> ticket[t].cost,
   buyer |-> IF ticket[t].order = NoKey THEN NoBuyer ELSE order[ticket[t].order].buyer]

\* Every commit sells, concludes, returns or edits as if it were alone: what was
\* counted under the lock still suffices when it is used, and a reservation is
\* concluded as a whole.
Promise == INSTANCE BoxOffice WITH place <- [t \in Ticket |-> Place(t)]
SellsPlaces == Promise!Spec

=============================================================================
