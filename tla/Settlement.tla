----------------------------- MODULE Settlement -----------------------------
(***************************************************************************)
(* What happens to an order's tickets besides the checkout: the buyer has  *)
(* the order or one ticket refunded, cancels one ticket, or is admitted at *)
(* the door (src/services/ticket.py) or by a verification of attendance    *)
(* (src/services/attendance.py).  Checkout goes on beside it, on the same  *)
(* rows.                                                                   *)
(*                                                                         *)
(* A desk is a session serving one of these requests.  Most of its reads   *)
(* take no lock and a row it has read before keeps the values of the first *)
(* read, also when it is selected again FOR UPDATE: what a desk knows may  *)
(* be out of date when it writes.  Writes reach the database at the flush  *)
(* of its commit, the order's row first, and wait for rows that are locked.*)
(***************************************************************************)
EXTENDS Checkout

CONSTANTS
  Desk,      \* sessions serving refunds, cancellations and admissions
  Service,   \* which of them this instance offers
  MaxAsked,  \* bound: refunds of one item the provider accepts
  NoTicket   \* what a desk works on when it works on a whole order

ASSUME SettlementAssumption ==
  /\ Desk \cap (Session \cup {NoSession}) = {}
  /\ Service \subseteq {"refund_order", "refund_ticket", "cancel_ticket", "scan", "verify"}
  /\ MaxAsked \in Nat
  /\ NoTicket \notin Ticket
  /\ Order \cap Ticket = {}

DeadTicket    == {"cancelled", "refunded", "expired"}
EndableTicket == {"reserved", "pending_payment", "active"}
RefundStatus  == {"none", "pending", "success"}

\* What the provider can be asked to pay back: an order's whole amount, or the
\* price of one of its tickets.
Item == Order \cup Ticket
Whose(i) == IF i \in Order THEN i ELSE OrderOf[i]

\* Payment.provider_metadata, one JSON value: a whole refund's reference, the
\* status of the refund noted last, and a status per refunded ticket.
Note == [whole : BOOLEAN, last : RefundStatus, each : [Ticket -> RefundStatus]]
NoNote == [whole |-> FALSE, last |-> "none", each |-> [t \in Ticket |-> "none"]]

VARIABLES
  note,     \* Payment.provider_metadata
  asked,    \* how many refunds of an item the provider accepted
  granted,  \* the provider's record of them
  desk      \* what each desk does and what it remembers of its reads

settled   == <<note, asked, granted, desk>>
elsewhere == <<overdue, charge, pc, on, todo>>
allVars   == <<vars, settled>>

AtRest == [at |-> "rest", service |-> "none", order |-> NoOrder, ticket |-> NoTicket,
           was |-> "pending", seen |-> NoNote, noted |-> FALSE, paid |-> FALSE,
           mine |-> {}, to |-> "same"]

NothingAsked ==
  /\ note = [o \in Order |-> NoNote]
  /\ asked = [i \in Item |-> 0]
  /\ granted = [i \in Item |-> "none"]
  /\ desk = [d \in Desk |-> AtRest]

SettlementInit == Init /\ NothingAsked

-----------------------------------------------------------------------------
\* The rows the next statement of a desk locks: a SELECT ... FOR UPDATE, or the
\* UPDATEs of a flush.
Needs(d) ==
  LET me == desk[d]
  IN  CASE me.at \in {"t_lock", "verify"} -> {TicketRow(me.ticket)}
        [] me.at \in {"o_order", "t_order"} -> {OrderRow(me.order)}
        [] me.at = "o_commit" -> {TicketRow(t) : t \in me.mine}
                                   \cup {PaymentRow(o) : o \in {x \in {me.order} : me.paid}}
        [] me.at = "t_commit" -> {PaymentRow(o) : o \in {x \in {me.order} : me.noted}}
        [] me.at \in {"note", "fail"} -> {PaymentRow(me.order)}
        [] OTHER -> {}

MayGo(d, step) ==
  /\ desk[d].at = step
  /\ \A w \in Needs(d) : lock[w] \in {NoSession, d}

TakeNeeds(d) == lock' = [w \in Row |-> IF w \in Needs(d) THEN d ELSE lock[w]]

Now(d, step) == desk' = [desk EXCEPT ![d].at = step]

Leave(d) ==
  /\ desk' = [desk EXCEPT ![d] = AtRest]
  /\ lock' = [w \in Row |-> IF lock[w] = d THEN NoSession ELSE lock[w]]

\* The provider accepts a refund of i with status r, and the desk adds n to
\* what it has read of the metadata; or it refuses, or cannot be reached.
Ask(d, i, n, next) ==
  \/ /\ asked[i] < MaxAsked
     /\ \E r \in {"pending", "success"} :
          /\ asked' = [asked EXCEPT ![i] = @ + 1]
          /\ granted' = [granted EXCEPT ![i] = IF @ = "success" THEN @ ELSE r]
          /\ desk' = [desk EXCEPT ![d].seen = n[r], ![d].noted = TRUE,
                                  ![d].at = IF r = "success" THEN next ELSE "note"]
  \/ Now(d, "fail") /\ UNCHANGED <<asked, granted>>

-----------------------------------------------------------------------------
\* refund_order.  The route reads payment and order, which stay as read.
RefundStart(d, o) ==
  /\ "refund_order" \in Service
  /\ desk[d].at = "rest"
  /\ payment[o] # "none"
  /\ order[o] \in {"confirmed", "pending"}
  /\ desk' = [desk EXCEPT ![d] = [AtRest EXCEPT !.at = "o_find", !.service = "refund_order",
                                   !.order = o, !.was = order[o], !.seen = note[o]]]
  /\ UNCHANGED <<rows, lock, note, asked, granted, elsewhere>>

\* Mutant of OrderFind: any payment of the order will do.
FindAnyPayment(d) ==
  LET me == desk[d]
  IN  /\ me.at = "o_find"
      /\ \/ /\ ~ me.seen.whole
            /\ desk' = [desk EXCEPT ![d].paid = TRUE, ![d].at = "o_ask"]
            /\ UNCHANGED lock
         \/ /\ me.seen.whole /\ me.seen.last = "success"
            /\ desk' = [desk EXCEPT ![d].paid = TRUE, ![d].at = "o_tickets"]
            /\ UNCHANGED lock
         \/ /\ me.seen.whole /\ me.seen.last # "success"
            /\ Leave(d)
      /\ UNCHANGED <<rows, note, asked, granted, elsewhere>>

\* The successful payment is looked for; without one there is nothing to pay
\* back and the order is closed at once.  A refund asked for before is not
\* asked for again: the status noted last decides.
OrderFind(d) ==
  LET me    == desk[d]
      found == payment[me.order] = "successful"
  IN  /\ me.at = "o_find"
      /\ \/ /\ ~ found
            /\ Now(d, "o_tickets")
            /\ UNCHANGED lock
         \/ /\ found /\ ~ me.seen.whole
            /\ desk' = [desk EXCEPT ![d].paid = TRUE, ![d].at = "o_ask"]
            /\ UNCHANGED lock
         \/ /\ found /\ me.seen.whole /\ me.seen.last = "success"
            /\ desk' = [desk EXCEPT ![d].paid = TRUE, ![d].at = "o_tickets"]
            /\ UNCHANGED lock
         \/ /\ found /\ me.seen.whole /\ me.seen.last # "success"
            /\ Leave(d)
      /\ UNCHANGED <<rows, note, asked, granted, elsewhere>>

OrderAsk(d) ==
  LET me == desk[d]
  IN  /\ me.at = "o_ask"
      /\ Ask(d, me.order,
             [r \in RefundStatus |-> [me.seen EXCEPT !.whole = TRUE, !.last = r]],
             "o_tickets")
      /\ UNCHANGED <<rows, lock, note, elsewhere>>

\* Mutant of OrderTickets: only active tickets are closed.
CloseActiveTickets(d) ==
  /\ desk[d].at = "o_tickets"
  /\ desk' = [desk EXCEPT ![d].at = "o_order",
                          ![d].mine = {t \in TicketsOf(desk[d].order) : ticket[t] = "active"}]
  /\ UNCHANGED <<rows, lock, note, asked, granted, elsewhere>>

\* The tickets are read without a lock; an UPDATE is due for each that is
\* neither used nor refunded already.
OrderTickets(d) ==
  /\ desk[d].at = "o_tickets"
  /\ desk' = [desk EXCEPT ![d].at = "o_order",
                          ![d].mine = {t \in TicketsOf(desk[d].order) :
                                         ticket[t] \notin {"used", "refunded"}}]
  /\ UNCHANGED <<rows, lock, note, asked, granted, elsewhere>>

\* The flush starts with the order's row.
FlushOrder(d) ==
  /\ \/ MayGo(d, "o_order") /\ Now(d, "o_commit")
     \/ MayGo(d, "t_order") /\ Now(d, "t_commit")
  /\ TakeNeeds(d)
  /\ UNCHANGED <<rows, note, asked, granted, elsewhere>>

OrderCommit(d) ==
  LET me == desk[d]
  IN  /\ MayGo(d, "o_commit")
      /\ order' = [order EXCEPT ![me.order] = "refunded"]
      /\ payment' = [payment EXCEPT ![me.order] = IF me.paid THEN "refunded" ELSE @]
      /\ note' = [note EXCEPT ![me.order] = IF me.noted THEN me.seen ELSE @]
      /\ ticket' = [t \in Ticket |-> IF t \in me.mine THEN "refunded" ELSE ticket[t]]
      /\ Leave(d)
      /\ UNCHANGED <<review, asked, granted, elsewhere>>

\* A refund that is pending is noted, the metadata written as a whole; one that
\* could not be initiated replaces the payment's failure_reason.
NoteCommit(d) ==
  LET me == desk[d]
  IN  /\ \/ /\ MayGo(d, "note")
            /\ note' = [note EXCEPT ![me.order] = me.seen]
            /\ UNCHANGED review
         \/ /\ MayGo(d, "fail")
            /\ review' = review \ {me.order}
            /\ UNCHANGED note
      /\ Leave(d)
      /\ UNCHANGED <<order, payment, ticket, asked, granted, elsewhere>>

-----------------------------------------------------------------------------
\* refund_single_ticket and cancel_single_ticket.  The route has read the
\* ticket; the later checks look at what it read.
TicketStart(d, t, service) ==
  /\ service \in Service \cap {"refund_ticket", "cancel_ticket"}
  /\ desk[d].at = "rest"
  /\ ticket[t] \in EndableTicket
  /\ desk' = [desk EXCEPT ![d] = [AtRest EXCEPT !.at = "t_lock", !.service = service,
                                   !.order = OrderOf[t], !.ticket = t]]
  /\ UNCHANGED <<rows, lock, note, asked, granted, elsewhere>>

TicketLock(d) ==
  /\ MayGo(d, "t_lock")
  /\ TakeNeeds(d)
  /\ desk' = [desk EXCEPT ![d].was = order[desk[d].order],
                          ![d].at = IF desk[d].service = "refund_ticket"
                                    THEN "t_find" ELSE "t_close"]
  /\ UNCHANGED <<rows, note, asked, granted, elsewhere>>

TicketFind(d) ==
  LET me    == desk[d]
      found == payment[me.order] = "successful"
      noted == note[me.order].each[me.ticket]
  IN  /\ me.at = "t_find"
      /\ \/ /\ ~ found \/ noted = "success"
            /\ Now(d, "t_close")
            /\ UNCHANGED lock
         \/ /\ found /\ noted = "none"
            /\ desk' = [desk EXCEPT ![d].seen = note[me.order], ![d].at = "t_ask"]
            /\ UNCHANGED lock
         \/ /\ found /\ noted = "pending"
            /\ Leave(d)
      /\ UNCHANGED <<rows, note, asked, granted, elsewhere>>

TicketAsk(d) ==
  LET me == desk[d]
  IN  /\ me.at = "t_ask"
      /\ Ask(d, me.ticket,
             [r \in RefundStatus |-> [me.seen EXCEPT !.each[me.ticket] = r, !.last = r]],
             "t_close")
      /\ UNCHANGED <<rows, lock, note, elsewhere>>

\* _recompute_order_status reads the statuses from the database, where the
\* ticket this desk is ending has not been flushed to.
TicketClose(d) ==
  LET me       == desk[d]
      statuses == {ticket[t] : t \in TicketsOf(me.order)}
      to       == IF ~ statuses \subseteq DeadTicket THEN me.was
                  ELSE IF "refunded" \in statuses THEN "refunded" ELSE "cancelled"
  IN  /\ me.at = "t_close"
      /\ desk' = IF to = me.was
                 THEN [desk EXCEPT ![d].at = "t_commit"]
                 ELSE [desk EXCEPT ![d].at = "t_order", ![d].to = to]
      /\ UNCHANGED <<rows, lock, note, asked, granted, elsewhere>>

TicketCommit(d) ==
  LET me == desk[d]
  IN  /\ MayGo(d, "t_commit")
      /\ ticket' = [ticket EXCEPT ![me.ticket] =
                      IF me.service = "refund_ticket" THEN "refunded" ELSE "cancelled"]
      /\ order' = [order EXCEPT ![me.order] = IF me.to = "same" THEN @ ELSE me.to]
      /\ note' = [note EXCEPT ![me.order] = IF me.noted THEN me.seen ELSE @]
      /\ Leave(d)
      /\ UNCHANGED <<payment, review, asked, granted, elsewhere>>

-----------------------------------------------------------------------------
\* Mutant of ScanLock: the row is not locked.
ScanUnlocked(d, t) ==
  /\ "scan" \in Service
  /\ desk[d].at = "rest"
  /\ ticket[t] = "active"
  /\ desk' = [desk EXCEPT ![d] = [AtRest EXCEPT !.at = "scan", !.service = "scan",
                                   !.order = OrderOf[t], !.ticket = t]]
  /\ UNCHANGED <<rows, lock, note, asked, granted, elsewhere>>

\* validate_ticket: the first read of the ticket is the locking one.
ScanLock(d, t) ==
  /\ "scan" \in Service
  /\ desk[d].at = "rest"
  /\ lock[TicketRow(t)] = NoSession
  /\ ticket[t] = "active"
  /\ lock' = [lock EXCEPT ![TicketRow(t)] = d]
  /\ desk' = [desk EXCEPT ![d] = [AtRest EXCEPT !.at = "scan", !.service = "scan",
                                   !.order = OrderOf[t], !.ticket = t]]
  /\ UNCHANGED <<rows, note, asked, granted, elsewhere>>

ScanCommit(d) ==
  /\ desk[d].at = "scan"
  /\ ticket' = [ticket EXCEPT ![desk[d].ticket] = "used"]
  /\ Leave(d)
  /\ UNCHANGED <<order, payment, review, note, asked, granted, elsewhere>>

\* qr_verify and organizer_verify read the ticket without a lock and admit it
\* by what they have read; the UPDATE waits for the row, whatever it says now.
VerifyStart(d, t) ==
  /\ "verify" \in Service
  /\ desk[d].at = "rest"
  /\ ticket[t] = "active"
  /\ desk' = [desk EXCEPT ![d] = [AtRest EXCEPT !.at = "verify", !.service = "verify",
                                   !.order = OrderOf[t], !.ticket = t]]
  /\ UNCHANGED <<rows, lock, note, asked, granted, elsewhere>>

VerifyCommit(d) ==
  /\ MayGo(d, "verify")
  /\ ticket' = [ticket EXCEPT ![desk[d].ticket] = "used"]
  /\ Leave(d)
  /\ UNCHANGED <<order, payment, review, note, asked, granted, elsewhere>>

-----------------------------------------------------------------------------
\* A request refused after its first read (not the holder, not claimed, the
\* holder's limit reached), a crash, a deadlock victim: nothing is written.
DeskAbort(d) ==
  /\ desk[d].at # "rest"
  /\ Leave(d)
  /\ UNCHANGED <<rows, note, asked, granted, elsewhere>>

\* The provider pays a pending refund out.
ProviderSettles(i) ==
  /\ granted[i] = "pending"
  /\ granted' = [granted EXCEPT ![i] = "success"]
  /\ UNCHANGED <<rows, lock, note, asked, desk, elsewhere>>

DeskContinues(d) ==
  \/ OrderFind(d) \/ OrderAsk(d) \/ OrderTickets(d) \/ FlushOrder(d) \/ OrderCommit(d)
  \/ NoteCommit(d)
  \/ TicketLock(d) \/ TicketFind(d) \/ TicketAsk(d) \/ TicketClose(d) \/ TicketCommit(d)
  \/ ScanCommit(d) \/ VerifyCommit(d)

DeskStarts(d) ==
  \/ \E o \in Order : RefundStart(d, o)
  \/ \E t \in Ticket, service \in Service : TicketStart(d, t, service)
  \/ \E t \in Ticket : ScanLock(d, t) \/ VerifyStart(d, t)

\* Everything but the rollback of a desk.
SettlementProceeds ==
  \/ Next /\ UNCHANGED settled
  \/ \E d \in Desk : DeskContinues(d) \/ DeskStarts(d)
  \/ \E i \in Item : ProviderSettles(i)

SettlementNext == SettlementProceeds \/ \E d \in Desk : DeskAbort(d)

SettlementSpec == SettlementInit /\ [][SettlementNext]_allVars

-----------------------------------------------------------------------------
\* Whatever a refund read out of date and wrote late, a ticket that admits has
\* a confirmed order behind it, bought with a charge the provider confirmed.
ActiveTicketIsSold ==
  \A t \in Ticket : ticket[t] = "active" =>
    order[OrderOf[t]] = "confirmed" /\ charge[OrderOf[t]] \in {"paid", "reversed"}

\* No confirmation, refund, cancellation, scan or late write brings a ticket back
\* that was cancelled, refunded or expired, whatever it read before: only the
\* verifications of attendance.py do ("Ticket is not valid for attendance").
KeepsEnded == \A t \in Ticket : ticket[t] \in DeadTicket => ticket'[t] \in DeadTicket
OnlyVerificationRevives == [][KeepsEnded \/ \E d \in Desk : VerifyCommit(d)]_allVars

\* The provider is asked to pay back only what it has confirmed to have taken.
RefundsAreOfReceivedMoney ==
  \A i \in Item : asked[i] > 0 => charge[Whose(i)] \in {"paid", "reversed"}

-----------------------------------------------------------------------------
\* EXTERNAL_INTEGRATION_SETUP.md: "Local payment/order/ticket status changes
\* only after provider status is `success`": a payment becomes refunded only
\* once the provider has paid its whole amount back.
RefundedAfterProvider ==
  [][\A o \in Order : payment'[o] = "refunded" /\ payment[o] # "refunded"
                        => granted[o] = "success"]_allVars

\* ticket.py: "A checked-in ticket cannot be refunded automatically".
UsedTicketIsNotRefunded ==
  [][\A t \in Ticket : ticket[t] = "used" => ticket'[t] # "refunded"]_allVars

=============================================================================
