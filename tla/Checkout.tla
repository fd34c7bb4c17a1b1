------------------------------ MODULE Checkout ------------------------------
(***************************************************************************)
(* How a paid reservation is concluded (src/services/payment.py and the    *)
(* sweep and release of src/services/ticket.py).                           *)
(*                                                                         *)
(* A paid order starts out pending: its tickets hold inventory, nobody has *)
(* paid.  Five server paths race to conclude it: the charge is confirmed   *)
(* (webhook, return page, verify route), the buyer cancels, the checkout   *)
(* cannot be started, or a sweep finds it overdue.  Each path is one       *)
(* database transaction of one session; a step of this module is the work  *)
(* between two points where the session may wait (a row lock, a provider   *)
(* call) and a transaction's writes become visible at its commit.          *)
(***************************************************************************)
EXTENDS Naturals, FiniteSets

CONSTANTS
  Order,      \* the paid orders create_order has committed
  Ticket,     \* their ticket rows
  OrderOf,    \* Ticket.order_id
  Request,    \* sessions serving web requests
  Worker,     \* the session of scripts/notification_worker.py
  Scope,      \* what one sweep may look at: an event's, a user's, or all orders
  NoSession,  \* the owner of a row nobody has locked
  NoOrder     \* what an idle session works on

Session == Request \cup {Worker}

ASSUME CheckoutAssumption ==
  /\ OrderOf \in [Ticket -> Order]
  /\ Worker \notin Request
  /\ Scope \subseteq SUBSET Order
  /\ NoSession \notin Session
  /\ NoOrder \notin Order

OrderStatus   == {"pending", "confirmed", "cancelled", "refunded", "expired"}
PaymentStatus == {"pending", "successful", "failed", "cancelled", "refunded"}
TicketStatus  == {"reserved", "pending_payment", "paid", "active", "used",
                  "cancelled", "refunded", "expired"}

\* What the provider answers to a verification of the order's reference:
\* "wrong" is a success whose amount, currency or reference does not match,
\* "ended" any of failed, abandoned, cancelled.  "none": never initialized.
ChargeStatus == {"none", "open", "ended", "paid", "wrong", "reversed"}

EndedCheckout     == {"ended", "reversed"}
ReleasablePayment == {"pending", "failed"}
ReleasableTicket  == {"reserved", "pending_payment"}

PaymentRow(o) == <<"payment", o>>
OrderRow(o)   == <<"order", o>>
TicketRow(t)  == <<"ticket", t>>
Row == ({"payment", "order"} \X Order) \cup ({"ticket"} \X Ticket)

TicketsOf(o) == {t \in Ticket : OrderOf[t] = o}

VARIABLES
  order,    \* Order.status
  overdue,  \* the orders whose expires_at has passed
  payment,  \* Payment.status, "none" while the order has no payment row
  review,   \* payments whose failure_reason asks for a refund review
  ticket,   \* Ticket.status
  charge,   \* the provider's record of the order's reference
  lock,     \* which session holds each row FOR UPDATE
  pc,       \* where each session is in its handler
  on,       \* the order each session works on
  todo      \* the candidates a sweep has still to visit

rows     == <<order, payment, review, ticket>>
sessions == <<lock, pc, on, todo>>
vars     == <<order, overdue, payment, review, ticket, charge, lock, pc, on, todo>>

Step == {"idle", "s_pay", "s_order", "s_tickets", "s_commit",
         "a_pay", "a_verify", "a_mismatch", "a_order", "a_commit",
         "c_verify", "c_pay", "c_order", "c_commit",
         "i_call", "i_insert", "r_pay", "r_order", "r_commit"}

TypeOK ==
  /\ order \in [Order -> OrderStatus]
  /\ overdue \subseteq Order
  /\ payment \in [Order -> PaymentStatus \cup {"none"}]
  /\ review \subseteq Order
  /\ ticket \in [Ticket -> TicketStatus]
  /\ charge \in [Order -> ChargeStatus]
  /\ lock \in [Row -> Session \cup {NoSession}]
  /\ pc \in [Session -> Step]
  /\ on \in [Session -> Order \cup {NoOrder}]
  /\ todo \in [Session -> SUBSET Order]

\* What create_order commits for a paid ticket type.
Init ==
  /\ order = [o \in Order |-> "pending"]
  /\ overdue = {}
  /\ payment = [o \in Order |-> "none"]
  /\ review = {}
  /\ ticket = [t \in Ticket |-> "pending_payment"]
  /\ charge = [o \in Order |-> "none"]
  /\ lock = [w \in Row |-> NoSession]
  /\ pc = [s \in Session |-> "idle"]
  /\ on = [s \in Session |-> NoOrder]
  /\ todo = [s \in Session |-> {}]

-----------------------------------------------------------------------------
\* Mutant of Wants: release_pending_order locks the order before the payment.
WantsOrderFirst(s) ==
  CASE pc[s] = "s_pay"   -> {PaymentRow(o) : o \in {x \in {on[s]} : payment[x] = "pending"}}
    [] pc[s] = "s_order" -> {OrderRow(o) : o \in {x \in {on[s]} : order[x] = "pending"}}
    [] pc[s] \in {"a_pay", "c_pay", "r_order"} ->
         {PaymentRow(o) : o \in {x \in {on[s]} : payment[x] # "none"}}
    [] pc[s] \in {"a_order", "a_mismatch", "c_order", "r_pay", "i_insert"} ->
         {OrderRow(on[s])}
    [] pc[s] \in {"s_tickets", "a_commit", "c_commit", "r_commit"} ->
         {TicketRow(t) : t \in TicketsOf(on[s])}
    [] OTHER -> {}

\* Row locks.  Wants(s) is what the next statement of s locks; a select that
\* filters on a status locks only the rows that still satisfy the filter.
Wants(s) ==
  CASE pc[s] = "s_pay"   -> {PaymentRow(o) : o \in {x \in {on[s]} : payment[x] = "pending"}}
    [] pc[s] = "s_order" -> {OrderRow(o) : o \in {x \in {on[s]} : order[x] = "pending"}}
    [] pc[s] \in {"a_pay", "c_pay", "r_pay"} ->
         {PaymentRow(o) : o \in {x \in {on[s]} : payment[x] # "none"}}
    [] pc[s] \in {"a_order", "a_mismatch", "c_order", "r_order", "i_insert"} ->
         {OrderRow(on[s])}
    [] pc[s] \in {"s_tickets", "a_commit", "c_commit", "r_commit"} ->
         {TicketRow(t) : t \in TicketsOf(on[s])}
    [] OTHER -> {}

Holders(s) == {lock[w] : w \in Wants(s)} \ {NoSession, s}
MayLock(s) == Holders(s) = {}
TakeLocks(s) == lock' = [w \in Row |-> IF w \in Wants(s) THEN s ELSE lock[w]]

Goto(s, step) == pc' = [pc EXCEPT ![s] = step]

\* Commit or roll back: either way every row lock of the session is gone.
EndTransaction(s) ==
  /\ lock' = [w \in Row |-> IF lock[w] = s THEN NoSession ELSE lock[w]]
  /\ Goto(s, "idle")
  /\ on' = [on EXCEPT ![s] = NoOrder]
  /\ todo' = [todo EXCEPT ![s] = {}]

Begin(s, o, step) ==
  /\ pc[s] = "idle"
  /\ Goto(s, step)
  /\ on' = [on EXCEPT ![s] = o]

\* The bodies of the `for ticket in ...` loops: the tickets of the orders in
\* os that are in one of the states from move to the state to.
MoveTickets(os, from, to) ==
  ticket' = [t \in Ticket |->
               IF OrderOf[t] \in os /\ ticket[t] \in from THEN to ELSE ticket[t]]

-----------------------------------------------------------------------------
\* expire_pending_orders: candidates are read without locks and in no stated
\* order; the locks of every candidate are kept until the one commit.
NextCandidate(s, rest) ==
  IF rest = {}
  THEN Goto(s, "s_commit") /\ UNCHANGED <<on, todo>>
  ELSE \E o \in rest : /\ Goto(s, "s_pay")
                       /\ on' = [on EXCEPT ![s] = o]
                       /\ todo' = [todo EXCEPT ![s] = rest \ {o}]

\* Mutant of SweepStart: only orders with a pending payment are candidates.
SweepStartedCheckouts(s, scope) ==
  LET candidates == {o \in scope \cap overdue : order[o] = "pending" /\ payment[o] = "pending"}
  IN  /\ pc[s] = "idle"
      /\ candidates # {}
      /\ NextCandidate(s, candidates)
      /\ UNCHANGED <<rows, overdue, charge, lock>>

SweepStart(s, scope) ==
  LET candidates == {o \in scope \cap overdue : order[o] = "pending"}
  IN  /\ pc[s] = "idle"
      /\ candidates # {}
      /\ NextCandidate(s, candidates)
      /\ UNCHANGED <<rows, overdue, charge, lock>>

SweepPayment(s) ==
  /\ pc[s] = "s_pay"
  /\ MayLock(s)
  /\ TakeLocks(s)
  /\ Goto(s, "s_order")
  /\ UNCHANGED <<rows, overdue, charge, on, todo>>

\* An order no longer pending is skipped.
SweepOrder(s) ==
  /\ pc[s] = "s_order"
  /\ MayLock(s)
  /\ IF order[on[s]] = "pending"
     THEN TakeLocks(s) /\ Goto(s, "s_tickets") /\ UNCHANGED <<on, todo>>
     ELSE NextCandidate(s, todo[s]) /\ UNCHANGED lock
  /\ UNCHANGED <<rows, overdue, charge>>

SweepTickets(s) ==
  /\ pc[s] = "s_tickets"
  /\ MayLock(s)
  /\ TakeLocks(s)
  /\ NextCandidate(s, todo[s])
  /\ UNCHANGED <<rows, overdue, charge>>

\* Mutant of SweepCommit: pending tickets are forgotten.
SweepReservedOnly(s) ==
  LET expired == {o \in Order : lock[OrderRow(o)] = s}
  IN  /\ pc[s] = "s_commit"
      /\ order' = [o \in Order |-> IF o \in expired THEN "expired" ELSE order[o]]
      /\ payment' = [o \in Order |->
                       IF lock[PaymentRow(o)] = s THEN "cancelled" ELSE payment[o]]
      /\ MoveTickets(expired, {"reserved"}, "expired")
      /\ EndTransaction(s)
      /\ UNCHANGED <<review, overdue, charge>>

\* Every order row the sweep holds expires; every payment row it holds is
\* cancelled, also one whose order it then found concluded.
SweepCommit(s) ==
  LET expired == {o \in Order : lock[OrderRow(o)] = s}
  IN  /\ pc[s] = "s_commit"
      /\ order' = [o \in Order |-> IF o \in expired THEN "expired" ELSE order[o]]
      /\ payment' = [o \in Order |->
                       IF lock[PaymentRow(o)] = s THEN "cancelled" ELSE payment[o]]
      /\ MoveTickets(expired, ReleasableTicket, "expired")
      /\ EndTransaction(s)
      /\ UNCHANGED <<review, overdue, charge>>

-----------------------------------------------------------------------------
\* apply_successful_payment: the webhook, /verify and /verify-reference.
ApplyStart(s, o) ==
  /\ payment[o] # "none"
  /\ Begin(s, o, "a_pay")
  /\ UNCHANGED <<rows, overdue, charge, lock, todo>>

\* Mutant of ApplyLockPayment: whatever is not pending counts as replayed.
ApplyPendingOnly(s) ==
  /\ pc[s] = "a_pay"
  /\ MayLock(s)
  /\ IF payment[on[s]] # "pending"
     THEN EndTransaction(s)
     ELSE TakeLocks(s) /\ Goto(s, "a_verify") /\ UNCHANGED <<on, todo>>
  /\ UNCHANGED <<rows, overdue, charge>>

ApplyLockPayment(s) ==
  /\ pc[s] = "a_pay"
  /\ MayLock(s)
  /\ IF payment[on[s]] = "successful"
     THEN EndTransaction(s)
     ELSE TakeLocks(s) /\ Goto(s, "a_verify") /\ UNCHANGED <<on, todo>>
  /\ UNCHANGED <<rows, overdue, charge>>

\* Mutant of ApplyVerify: the amount is not compared.
VerifyAnyAmount(s) ==
  LET o == on[s]
  IN  /\ pc[s] = "a_verify"
      /\ \/ /\ charge[o] \in {"paid", "wrong"}
            /\ Goto(s, "a_order")
            /\ UNCHANGED <<payment, lock, on, todo>>
         \/ /\ charge[o] \in EndedCheckout
            /\ payment' = [payment EXCEPT ![o] = "failed"]
            /\ EndTransaction(s)
         \/ /\ charge[o] \in {"none", "open"}
            /\ EndTransaction(s)
            /\ UNCHANGED payment
      /\ UNCHANGED <<order, review, ticket, overdue, charge>>

\* The provider is asked while the payment row is locked.
ApplyVerify(s) ==
  LET o == on[s]
  IN  /\ pc[s] = "a_verify"
      /\ \/ /\ charge[o] = "paid"
            /\ Goto(s, "a_order")
            /\ UNCHANGED <<payment, lock, on, todo>>
         \/ /\ charge[o] = "wrong"
            /\ Goto(s, "a_mismatch")
            /\ UNCHANGED <<payment, lock, on, todo>>
         \/ /\ charge[o] \in EndedCheckout
            /\ payment' = [payment EXCEPT ![o] = "failed"]
            /\ EndTransaction(s)
         \/ /\ charge[o] \in {"none", "open"}
            /\ EndTransaction(s)
            /\ UNCHANGED payment
      /\ UNCHANGED <<order, review, ticket, overdue, charge>>

\* The amounts are compared with the locked order; a mismatch changes nothing.
ApplyMismatch(s) ==
  /\ pc[s] = "a_mismatch"
  /\ MayLock(s)
  /\ EndTransaction(s)
  /\ UNCHANGED <<rows, overdue, charge>>

ApplyLockOrder(s) ==
  /\ pc[s] = "a_order"
  /\ MayLock(s)
  /\ TakeLocks(s)
  /\ Goto(s, "a_commit")
  /\ UNCHANGED <<rows, overdue, charge, on, todo>>

\* Mutant of ApplyLate: the late payment brings the sale back.
LateRevivesSale(s) ==
  LET o == on[s]
  IN  /\ pc[s] = "a_commit"
      /\ order[o] \notin {"pending", "confirmed"}
      /\ payment' = [payment EXCEPT ![o] = "successful"]
      /\ order' = [order EXCEPT ![o] = "confirmed"]
      /\ MoveTickets({o}, TicketStatus, "active")
      /\ EndTransaction(s)
      /\ UNCHANGED <<review, overdue, charge>>

\* The reservation ended before the money was confirmed: no ticket comes back.
ApplyLate(s) ==
  LET o == on[s]
  IN  /\ pc[s] = "a_commit"
      /\ order[o] \notin {"pending", "confirmed"}
      /\ payment' = [payment EXCEPT ![o] = "successful"]
      /\ review' = review \cup {o}
      /\ EndTransaction(s)
      /\ UNCHANGED <<order, ticket, overdue, charge>>

ApplyConfirm(s) ==
  LET o == on[s]
  IN  /\ pc[s] = "a_commit"
      /\ order[o] \in {"pending", "confirmed"}
      /\ MayLock(s)
      /\ payment' = [payment EXCEPT ![o] = "successful"]
      /\ order' = [order EXCEPT ![o] = "confirmed"]
      /\ MoveTickets({o}, {"pending_payment"}, "active")
      /\ EndTransaction(s)
      /\ UNCHANGED <<review, overdue, charge>>

-----------------------------------------------------------------------------
\* cancel_pending_checkout: the status is read and the provider asked before
\* anything is locked; a payment already failed is not asked about again.
CancelStart(s, o) ==
  /\ payment[o] \in ReleasablePayment
  /\ Begin(s, o, IF payment[o] = "pending" THEN "c_verify" ELSE "c_pay")
  /\ UNCHANGED <<rows, overdue, charge, lock, todo>>

CancelVerify(s) ==
  /\ pc[s] = "c_verify"
  /\ IF charge[on[s]] \in EndedCheckout
     THEN Goto(s, "c_pay") /\ UNCHANGED <<lock, on, todo>>
     ELSE EndTransaction(s)
  /\ UNCHANGED <<rows, overdue, charge>>

CancelLockPayment(s) ==
  /\ pc[s] = "c_pay"
  /\ MayLock(s)
  /\ IF payment[on[s]] \in ReleasablePayment
     THEN TakeLocks(s) /\ Goto(s, "c_order") /\ UNCHANGED <<on, todo>>
     ELSE EndTransaction(s)
  /\ UNCHANGED <<rows, overdue, charge>>

\* Mutant of CancelLockOrder: the order's status is not read again.
CancelAnyOrder(s) ==
  /\ pc[s] = "c_order"
  /\ MayLock(s)
  /\ TakeLocks(s)
  /\ Goto(s, "c_commit")
  /\ UNCHANGED <<rows, overdue, charge, on, todo>>

CancelLockOrder(s) ==
  /\ pc[s] = "c_order"
  /\ MayLock(s)
  /\ IF order[on[s]] = "pending"
     THEN TakeLocks(s) /\ Goto(s, "c_commit") /\ UNCHANGED <<on, todo>>
     ELSE EndTransaction(s)
  /\ UNCHANGED <<rows, overdue, charge>>

CancelCommit(s) ==
  LET o == on[s]
  IN  /\ pc[s] = "c_commit"
      /\ MayLock(s)
      /\ order' = [order EXCEPT ![o] = "cancelled"]
      /\ payment' = [payment EXCEPT ![o] = "cancelled"]
      /\ MoveTickets({o}, ReleasableTicket, "cancelled")
      /\ EndTransaction(s)
      /\ UNCHANGED <<review, overdue, charge>>

-----------------------------------------------------------------------------
\* initialize_payment with an idempotency key not used before (a used one only
\* reads).  The order is read unlocked, then the provider is called.
InitializeStart(s, o) ==
  /\ order[o] = "pending"
  /\ Begin(s, o, "i_call")
  /\ UNCHANGED <<rows, overdue, charge, lock, todo>>

Opened(o) == [charge EXCEPT ![o] = IF @ = "none" THEN "open" ELSE @]

\* A call the session saw fail may still have opened the checkout.
InitializeCall(s) ==
  /\ pc[s] = "i_call"
  /\ \/ Goto(s, "i_insert") /\ charge' = Opened(on[s])
     \/ Goto(s, "r_pay") /\ charge' \in {charge, Opened(on[s])}
  /\ UNCHANGED <<rows, overdue, lock, on, todo>>

\* The foreign key makes the insert wait for a locked order row; a second row
\* with the same provider reference violates its unique constraint.
InitializeInsert(s) ==
  LET o == on[s]
  IN  /\ pc[s] = "i_insert"
      /\ MayLock(s)
      /\ payment' = [payment EXCEPT ![o] = IF @ = "none" THEN "pending" ELSE @]
      /\ EndTransaction(s)
      /\ UNCHANGED <<order, review, ticket, overdue, charge>>

\* release_pending_order: locks, re-reads, and leaves the payment as it is.
ReleaseLockPayment(s) ==
  /\ pc[s] = "r_pay"
  /\ MayLock(s)
  /\ TakeLocks(s)
  /\ Goto(s, "r_order")
  /\ UNCHANGED <<rows, overdue, charge, on, todo>>

ReleaseLockOrder(s) ==
  /\ pc[s] = "r_order"
  /\ MayLock(s)
  /\ IF order[on[s]] = "pending"
     THEN TakeLocks(s) /\ Goto(s, "r_commit") /\ UNCHANGED <<on, todo>>
     ELSE EndTransaction(s)
  /\ UNCHANGED <<rows, overdue, charge>>

ReleaseCommit(s) ==
  LET o == on[s]
  IN  /\ pc[s] = "r_commit"
      /\ MayLock(s)
      /\ order' = [order EXCEPT ![o] = "cancelled"]
      /\ MoveTickets({o}, ReleasableTicket, "cancelled")
      /\ EndTransaction(s)
      /\ UNCHANGED <<payment, review, overdue, charge>>

-----------------------------------------------------------------------------
\* A crash, a provider that cannot be reached, or a deadlock victim: get_db
\* rolls the transaction back.
Abort(s) ==
  /\ pc[s] # "idle"
  /\ EndTransaction(s)
  /\ UNCHANGED <<rows, overdue, charge>>

\* The fifteen minutes of expires_at run out.
TimePasses(o) ==
  /\ order[o] = "pending"
  /\ o \notin overdue
  /\ overdue' = overdue \cup {o}
  /\ UNCHANGED <<rows, charge, sessions>>

\* The buyer at the provider's checkout page.
ChargeMoves(o) ==
  /\ \/ charge[o] = "open"            /\ charge' = [charge EXCEPT ![o] = "ended"]
     \/ charge[o] \in {"open", "ended"} /\ charge' = [charge EXCEPT ![o] = "paid"]
     \/ charge[o] = "open"            /\ charge' = [charge EXCEPT ![o] = "wrong"]
     \/ charge[o] = "paid"            /\ charge' = [charge EXCEPT ![o] = "reversed"]
  /\ UNCHANGED <<rows, overdue, sessions>>

\* A session in the middle of a handler goes on.
Continue(s) ==
  \/ SweepPayment(s) \/ SweepOrder(s) \/ SweepTickets(s) \/ SweepCommit(s)
  \/ ApplyLockPayment(s) \/ ApplyVerify(s) \/ ApplyMismatch(s)
  \/ ApplyLockOrder(s) \/ ApplyLate(s) \/ ApplyConfirm(s)
  \/ CancelVerify(s) \/ CancelLockPayment(s) \/ CancelLockOrder(s) \/ CancelCommit(s)
  \/ InitializeCall(s) \/ InitializeInsert(s)
  \/ ReleaseLockPayment(s) \/ ReleaseLockOrder(s) \/ ReleaseCommit(s)

\* A request arrives; any member may open a page that sweeps first.
Arrive(s) ==
  \/ \E scope \in Scope : SweepStart(s, scope)
  \/ \E o \in Order : ApplyStart(s, o) \/ CancelStart(s, o) \/ InitializeStart(s, o)

\* Everything but a rollback.
Proceed ==
  \/ \E s \in Session : Continue(s)
  \/ \E s \in Request : Arrive(s)
  \/ SweepStart(Worker, Order)
  \/ \E o \in Order : TimePasses(o) \/ ChargeMoves(o)

Next == Proceed \/ \E s \in Session : Abort(s)

Spec == Init /\ [][Next]_vars

\* A session that goes on is served by the lock queue and by a provider that
\* answers; the worker sweeps every minute; the provider redelivers its
\* webhook until a delivery is answered with success.
Fairness ==
  /\ \A s \in Session : SF_vars(Continue(s))
  /\ SF_vars(SweepStart(Worker, Order))
  /\ \A o \in Order : SF_vars(charge[o] = "paid" /\ \E s \in Request : ApplyStart(s, o))

FairSpec == Spec /\ Fairness

-----------------------------------------------------------------------------
\* The order row and its ticket rows always tell the same story, whichever
\* paths raced: apply, cancel, release and the sweep each write both.
TicketsFollowOrder ==
  \A t \in Ticket :
    ticket[t] = CASE order[OrderOf[t]] = "pending"   -> "pending_payment"
                  [] order[OrderOf[t]] = "confirmed" -> "active"
                  [] OTHER                           -> order[OrderOf[t]]

\* apply_successful_payment never sells on an unverified charge: a confirmed
\* order has a settled payment the provider confirmed, and none to review.
SaleIsPaid ==
  \A o \in Order : order[o] = "confirmed" =>
    payment[o] = "successful" /\ charge[o] \in {"paid", "reversed"} /\ o \notin review

\* A settled payment bought a sale or is marked for refund review: the late
\* confirmation of apply_successful_payment loses no money silently.
MoneyIsAccountedFor ==
  \A o \in Order : payment[o] = "successful" => (order[o] = "confirmed" <=> o \notin review)

\* A payment is only ever cancelled together with (or after) its reservation:
\* neither the sweep nor the buyer's cancel strands a live order.
CancelledPaymentHasEndedOrder ==
  \A o \in Order : payment[o] = "cancelled" => order[o] \in {"cancelled", "expired"}

\* No set of sessions each waiting for a row another of them holds: what the
\* lock order Payment, Order, Ticket of payment.py is for.
NoWaitCycle ==
  \A S \in SUBSET Session : S # {} => \E s \in S : Holders(s) \cap S = {}

\* Whatever arrives second finds the conclusion and leaves it: an order that
\* is confirmed, cancelled or expired stays so, a settled payment settled.
ConclusionsAreFinal ==
  [][\A o \in Order : /\ order[o] # "pending" => order'[o] = order[o]
                      /\ payment[o] = "successful" => payment'[o] = "successful"]_vars

\* Transactions are not rolled back for ever: some day every step that is taken
\* is one its handler could have taken.
AbortsEnd == <>[][Proceed]_vars

\* The worker's sweep (or a faster path) concludes every overdue reservation,
\* so abandoned inventory comes back.
OverdueIsConcluded ==
  AbortsEnd => \A o \in Order : o \in overdue ~> order[o] # "pending"

\* A charge the provider keeps reporting as paid is recorded against its
\* payment row, as a sale or for refund review.
PaidChargeIsRecorded ==
  AbortsEnd => \A o \in Order :
    [](charge[o] = "paid" /\ payment[o] # "none"
         => <>(payment[o] = "successful" \/ charge[o] = "reversed"))

-----------------------------------------------------------------------------
\* The refinement mapping to Reservation.
Place(o) == CASE order[o] = "pending"   -> "held"
              [] order[o] = "confirmed" -> "sold"
              [] OTHER                  -> "free"
Money(o) == IF payment[o] # "successful" THEN "none"
            ELSE IF o \in review THEN "owed" ELSE "kept"

Promise == INSTANCE Reservation
             WITH place <- [o \in Order |-> Place(o)],
                  money <- [o \in Order |-> Money(o)]

\* Every commit of a concluding path is one step of the promised protocol and
\* every other step changes nothing a buyer could see.
KeepsPromise == Promise!Spec

=============================================================================
