-------------------------- MODULE SettlementProofs --------------------------
(***************************************************************************)
(* Proofs about Settlement for any orders, tickets, sessions and desks.    *)
(*                                                                         *)
(* The desks do not keep the invariant of Checkout alone: they write the   *)
(* same rows, mostly by what they read earlier and without a lock.  What   *)
(* stays true is that a ticket once over (dead or used) is never live      *)
(* again, so that a stale read of one is never too optimistic (IsRight).   *)
(***************************************************************************)
EXTENDS Settlement, CheckoutProofs

Charged(o) == charge[o] \in {"paid", "reversed"}
Over == DeadTicket \cup {"used"}

DeskStep == {"rest", "o_find", "o_ask", "o_tickets", "o_order", "o_commit", "note", "fail",
             "t_lock", "t_find", "t_ask", "t_close", "t_order", "t_commit", "scan", "verify"}
DeskState == [at : DeskStep,
              service : {"none", "refund_order", "refund_ticket", "cancel_ticket", "scan", "verify"},
              order : Order \cup {NoOrder}, ticket : Ticket \cup {NoTicket}, was : OrderStatus,
              seen : Note, noted : BOOLEAN, paid : BOOLEAN, mine : SUBSET Ticket,
              to : OrderStatus \cup {"same"}]

SettlementTypeOK ==
  /\ order \in [Order -> OrderStatus]
  /\ overdue \subseteq Order
  /\ payment \in [Order -> PaymentStatus \cup {"none"}]
  /\ review \subseteq Order
  /\ ticket \in [Ticket -> TicketStatus]
  /\ charge \in [Order -> ChargeStatus]
  /\ lock \in [Row -> Session \cup Desk \cup {NoSession}]
  /\ pc \in [Session -> Step]
  /\ on \in [Session -> Order \cup {NoOrder}]
  /\ todo \in [Session -> SUBSET Order]
  /\ note \in [Order -> Note]
  /\ asked \in [Item -> 0..MaxAsked]
  /\ granted \in [Item -> RefundStatus]
  /\ desk \in [Desk -> DeskState]

\* What a checkout session relies on is still so beside the desks: the order
\* it has locked, and the charge it has seen confirmed.
SellerInv(s) ==
  /\ pc[s] # "idle" => on[s] \in Order
  /\ pc[s] \in {"s_tickets", "a_commit", "c_commit", "r_commit"} => lock[OrderRow(on[s])] = s
  /\ \A o \in Order : lock[OrderRow(o)] = s /\ pc[s] # "a_commit" => order[o] = "pending"
  /\ pc[s] \in {"a_order", "a_commit"} => Charged(on[s])

WholeSteps  == {"o_find", "o_ask", "o_tickets", "o_order", "o_commit"}
TicketSteps == {"t_lock", "t_find", "t_ask", "t_close", "t_order", "t_commit"}

\* A desk knows what it serves, and holds the rows its steps have behind them.
Serves(d) ==
  LET me == desk[d]
  IN  /\ me.at # "rest" => me.order \in Order
      /\ me.at \in TicketSteps \cup {"scan", "verify"} => me.ticket \in Ticket /\ OrderOf[me.ticket] = me.order
      /\ me.at \in (TicketSteps \ {"t_lock"}) \cup {"scan"} => lock[TicketRow(me.ticket)] = d
      /\ me.at = "o_commit" \/ (me.at = "t_commit" /\ me.to # "same") => lock[OrderRow(me.order)] = d

\* What a desk goes by is still so when it acts: money is asked back of a
\* charge that was confirmed; the tickets it leaves alone, and all tickets of
\* an order it will close, are over; a ticket being scanned still admits.
IsRight(d) ==
  LET me == desk[d]
  IN  /\ me.at \in {"o_ask", "t_ask"} => Charged(me.order)
      /\ me.at \in {"o_order", "o_commit"} => \A t \in TicketsOf(me.order) \ me.mine : ticket[t] \in Over
      /\ me.to # "same" => /\ me.at \in {"t_order", "t_commit"}
                           /\ \A t \in TicketsOf(me.order) : ticket[t] \in Over
      /\ me.at = "scan" => ticket[me.ticket] = "active"

DeskInv(d) == Serves(d) /\ IsRight(d)

SuccessIsCharged == \A o \in Order : payment[o] = "successful" => Charged(o)

SettlementInv ==
  /\ SettlementTypeOK
  /\ \A s \in Session : SellerInv(s)
  /\ \A d \in Desk : DeskInv(d)
  /\ ActiveTicketIsSold /\ SuccessIsCharged /\ RefundsAreOfReceivedMoney

-----------------------------------------------------------------------------
LEMMA Apart == Session \cap Desk = {} /\ NoSession \notin Session \cup Desk /\ NoOrder \notin Order /\ NoTicket \notin Ticket
  BY CheckoutAssumption, SettlementAssumption DEF Session

\* How locks pass: whoever acts takes rows that are free and frees its own.
Locking(a) == \A w \in Row : lock'[w] = lock[w] \/ (lock[w] \in {NoSession, a} /\ lock'[w] \in {NoSession, a})

\* Nobody else is disturbed by an actor that writes the orders it has locked
\* and leaves what is over that way.
LEMMA OthersKeep ==
  ASSUME SettlementInv, NEW a, Locking(a),
         \A x \in Session \ {a} : pc'[x] = pc[x] /\ on'[x] = on[x],
         \A x \in Desk \ {a} : desk'[x] = desk[x],
         \A o \in Order : order'[o] = order[o] \/ lock[OrderRow(o)] = a,
         \A t \in Ticket : \/ ticket'[t] = ticket[t]
                           \/ lock[TicketRow(t)] \in {NoSession, a}
                           \/ ticket[t] \in ReleasableTicket,
         \A t \in Ticket : ticket[t] \in Over => ticket'[t] \in Over,
         \A o \in Order : Charged(o) => Charged(o)'
  PROVE  /\ \A x \in Session \ {a} : SellerInv(x)'
         /\ \A x \in Desk \ {a} : DeskInv(x)'
<1>1. \A x \in (Session \cup Desk) \ {a} : \A w \in Row : lock'[w] = x <=> lock[w] = x
  BY Apart DEF Locking
<1>2. ASSUME NEW x \in Session \ {a}
      PROVE  SellerInv(x)'
  <2>1. SellerInv(x) /\ pc'[x] = pc[x] /\ on'[x] = on[x]
    BY DEF SettlementInv
  <2>2. \A w \in Row : lock'[w] = x <=> lock[w] = x
    BY <1>1
  <2>3. \A o \in Order : lock[OrderRow(o)] = x => order'[o] = order[o]
    OBVIOUS
  <2> QED BY <2>1, <2>2, <2>3, RowFacts DEF SellerInv
<1>3. ASSUME NEW x \in Desk \ {a}
      PROVE  DeskInv(x)'
  <2>1. Serves(x) /\ IsRight(x) /\ desk'[x] = desk[x]
    BY DEF SettlementInv, DeskInv
  <2>2. \A w \in Row : lock'[w] = x <=> lock[w] = x
    BY <1>1
  <2>3. Serves(x)'
    BY <2>1, <2>2, RowFacts DEF Serves, TicketSteps
  <2>4. \A t \in Ticket : lock[TicketRow(t)] = x /\ ticket[t] = "active" => ticket'[t] = "active"
    BY Apart DEF ReleasableTicket
  <2>5. IsRight(x)'
    <3>1. desk[x].at = "scan" => ticket'[desk[x].ticket] = "active"
      BY <2>1, <2>4 DEF Serves, IsRight
    <3>2. desk[x].at \in {"o_ask", "t_ask"} => Charged(desk[x].order)'
      BY <2>1 DEF Serves, IsRight, TicketSteps
    <3>3. desk[x].at \in {"o_order", "o_commit"}
            => \A t \in TicketsOf(desk[x].order) \ desk[x].mine : ticket'[t] \in Over
      BY <2>1 DEF IsRight, TicketsOf
    <3>4. desk[x].to # "same" => \A t \in TicketsOf(desk[x].order) : ticket'[t] \in Over
      BY <2>1 DEF IsRight, TicketsOf
    <3> QED BY <2>1, <3>1, <3>2, <3>3, <3>4 DEF IsRight, Charged
  <2> QED BY <2>3, <2>5 DEF DeskInv
<1> QED BY <1>2, <1>3

-----------------------------------------------------------------------------
(* The sessions of Checkout.                                                *)

LEMMA RefundsStayCovered ==
  ASSUME SettlementInv, \A i \in Item : asked'[i] = asked[i] \/ Charged(Whose(i)),
         \A o \in Order : Charged(o) => Charged(o)'
  PROVE  RefundsAreOfReceivedMoney'
<1>1. \A i \in Item : Whose(i) \in Order
  BY CheckoutAssumption DEF Item, Whose
<1>2. \A i \in Item : asked[i] > 0 => Charged(Whose(i))
  BY DEF SettlementInv, RefundsAreOfReceivedMoney, Charged
<1>3. \A i \in Item : asked'[i] > 0 => Charged(Whose(i))'
  BY <1>1, <1>2 DEF Whose
<1> QED BY <1>3 DEF RefundsAreOfReceivedMoney, Charged

LEMMA SellerStep ==
  ASSUME SettlementInv, NEW s \in Session, UNCHANGED settled, SettlementTypeOK', Locking(s),
         \A x \in Session \ {s} : pc'[x] = pc[x] /\ on'[x] = on[x],
         \A o \in Order : order'[o] = order[o] \/ lock[OrderRow(o)] = s,
         \A t \in Ticket : ticket'[t] = ticket[t] \/ ticket[t] \in ReleasableTicket,
         \A o \in Order : Charged(o) => Charged(o)',
         SellerInv(s)', ActiveTicketIsSold', SuccessIsCharged'
  PROVE  SettlementInv'
<1>1. \A t \in Ticket : ticket[t] \in Over => ticket'[t] \in Over
  BY DEF Over, DeadTicket, ReleasableTicket
<1>2. s \notin Desk /\ \A x \in Desk : desk'[x] = desk[x]
  BY Apart DEF settled
<1>3. /\ \A x \in Session \ {s} : SellerInv(x)'
      /\ \A x \in Desk \ {s} : DeskInv(x)'
  BY <1>1, <1>2, OthersKeep
<1>4. RefundsAreOfReceivedMoney'
  BY RefundsStayCovered DEF settled
<1>5. (\A x \in Session : SellerInv(x))' /\ (\A d \in Desk : DeskInv(d))'
  BY <1>2, <1>3
<1> QED BY <1>4, <1>5 DEF SettlementInv

\* What is sold stays sold while no row is written.
LEMMA SalesStay ==
  ASSUME SettlementInv, UNCHANGED <<order, ticket>>,
         \A o \in Order : payment'[o] = payment[o] \/ payment'[o] # "successful" \/ Charged(o),
         \A o \in Order : Charged(o) => Charged(o)'
  PROVE  ActiveTicketIsSold' /\ SuccessIsCharged'
<1>1. \A t \in Ticket : OrderOf[t] \in Order
  BY CheckoutAssumption
<1>2. \A t \in Ticket : ticket[t] = "active" => order[OrderOf[t]] = "confirmed" /\ Charged(OrderOf[t])
  BY DEF SettlementInv, ActiveTicketIsSold, Charged
<1>3. ActiveTicketIsSold'
  BY <1>1, <1>2 DEF ActiveTicketIsSold, Charged
<1>4. SuccessIsCharged'
  BY DEF SettlementInv, SuccessIsCharged
<1> QED BY <1>3, <1>4

LEMMA SellerTakes ==
  ASSUME SettlementInv, NEW s \in Session, MayLock(s), TakeLocks(s)
  PROVE  /\ lock' \in [Row -> Session \cup Desk \cup {NoSession}] /\ Locking(s)
         /\ \A w \in Row : lock'[w] = IF w \in Wants(s) THEN s ELSE lock[w]
<1>1. \A w \in Row : lock'[w] = IF w \in Wants(s) THEN s ELSE lock[w]
  BY DEF TakeLocks
<1>2. \A w \in Row : w \in Wants(s) => lock[w] \in {NoSession, s}
  BY DEF MayLock, Holders
<1>3. lock' \in [Row -> Session \cup Desk \cup {NoSession}]
  BY DEF TakeLocks, SettlementInv, SettlementTypeOK
<1> QED BY <1>1, <1>2, <1>3 DEF Locking

LEMMA SellerEnds ==
  ASSUME SettlementInv, NEW s \in Session, EndTransaction(s)
  PROVE  /\ lock' \in [Row -> Session \cup Desk \cup {NoSession}] /\ Locking(s)
         /\ pc' \in [Session -> Step] /\ on' \in [Session -> Order \cup {NoOrder}]
         /\ todo' \in [Session -> SUBSET Order]
         /\ \A x \in Session \ {s} : pc'[x] = pc[x] /\ on'[x] = on[x]
         /\ SellerInv(s)'
<1> USE DEF SettlementInv, SettlementTypeOK
<1>1. \A w \in Row : lock'[w] = IF lock[w] = s THEN NoSession ELSE lock[w]
  BY DEF EndTransaction
<1>2. lock' \in [Row -> Session \cup Desk \cup {NoSession}]
  BY DEF EndTransaction
<1>3. /\ pc' \in [Session -> Step] /\ on' \in [Session -> Order \cup {NoOrder}]
      /\ todo' \in [Session -> SUBSET Order] /\ pc'[s] = "idle"
      /\ \A x \in Session \ {s} : pc'[x] = pc[x] /\ on'[x] = on[x]
  BY DEF EndTransaction, Goto, Step
<1>4. \A w \in Row : lock'[w] # s
  BY <1>1, Apart
<1>5. SellerInv(s)'
  BY <1>3, <1>4, RowFacts DEF SellerInv
<1> QED BY <1>1, <1>2, <1>3, <1>5 DEF Locking

\* A step that writes no row.
LEMMA SellerGoes ==
  ASSUME SettlementInv, NEW s \in Session, UNCHANGED <<rows, overdue, settled>>,
         charge' \in [Order -> ChargeStatus], \A o \in Order : Charged(o) => Charged(o)',
         pc' \in [Session -> Step], on' \in [Session -> Order \cup {NoOrder}],
         todo' \in [Session -> SUBSET Order],
         \A x \in Session \ {s} : pc'[x] = pc[x] /\ on'[x] = on[x],
         lock' \in [Row -> Session \cup Desk \cup {NoSession}], Locking(s), SellerInv(s)'
  PROVE  SettlementInv'
<1>1. SettlementTypeOK'
  BY DEF SettlementInv, SettlementTypeOK, rows, settled
<1>2. ActiveTicketIsSold' /\ SuccessIsCharged'
  BY SalesStay DEF rows
<1>3. UNCHANGED <<order, ticket>>
  BY DEF rows
<1> QED BY <1>1, <1>2, <1>3, SellerStep

LEMMA SellerRollsBack ==
  ASSUME SettlementInv, NEW s \in Session, EndTransaction(s), UNCHANGED <<rows, overdue, charge, settled>>
  PROVE  SettlementInv'
<1>1. charge' \in [Order -> ChargeStatus] /\ \A o \in Order : Charged(o) => Charged(o)'
  BY DEF SettlementInv, SettlementTypeOK, Charged
<1> QED BY <1>1, SellerEnds, SellerGoes

CommitSteps == {"s_tickets", "a_commit", "c_commit", "r_commit"}

\* A step from one place of a handler to the next, before any row is written.
LEMMA SellerGoto ==
  ASSUME SettlementInv, NEW s \in Session, NEW step \in Step, Goto(s, step), pc[s] \notin {"idle", "a_commit"},
         UNCHANGED <<rows, overdue, charge, settled, on, todo>>,
         \/ UNCHANGED lock /\ step \notin CommitSteps
         \/ MayLock(s) /\ TakeLocks(s) /\ pc[s] \in {"s_pay", "a_pay", "c_pay", "r_pay"} /\ step \notin CommitSteps
         \/ /\ MayLock(s) /\ TakeLocks(s) /\ pc[s] \in {"s_order", "a_order", "c_order", "r_order"}
            /\ step \in CommitSteps
            /\ order[on[s]] = "pending" \/ (pc[s] = "a_order" /\ step = "a_commit"),
         step \in {"a_order", "a_commit"} => Charged(on[s])
  PROVE  SettlementInv'
<1> USE DEF SettlementInv, SettlementTypeOK
<1>1. /\ pc' \in [Session -> Step] /\ pc'[s] = step
      /\ \A x \in Session \ {s} : pc'[x] = pc[x] /\ on'[x] = on[x]
      /\ on' \in [Session -> Order \cup {NoOrder}] /\ todo' \in [Session -> SUBSET Order]
      /\ charge' \in [Order -> ChargeStatus] /\ \A o \in Order : Charged(o) => Charged(o)'
      /\ UNCHANGED <<order, charge, on>>
  BY DEF Goto, Charged, rows
<1>2. SellerInv(s) /\ on[s] \in Order
  BY DEF SellerInv
<1>3. lock' \in [Row -> Session \cup Desk \cup {NoSession}] /\ Locking(s)
  BY SellerTakes DEF Locking
<1>4. CASE step \notin CommitSteps
  <2>1. \A o \in Order : lock'[OrderRow(o)] = s => lock[OrderRow(o)] = s
    <3>1. CASE UNCHANGED lock
      BY <3>1
    <3>2. CASE MayLock(s) /\ TakeLocks(s) /\ pc[s] \in {"s_pay", "a_pay", "c_pay", "r_pay"}
      <4>1. Wants(s) \subseteq {PaymentRow(on[s])}
        BY <3>2, WantsFacts
      <4> QED BY <1>2, <3>2, <4>1, SellerTakes, RowFacts
    <3> QED BY <1>4, <3>1, <3>2
  <2> QED BY <1>1, <1>2, <1>3, <1>4, <2>1, SellerGoes DEF SellerInv, CommitSteps, Charged, rows
<1>5. CASE step \in CommitSteps
  <2>1. MayLock(s) /\ TakeLocks(s) /\ pc[s] \in {"s_order", "a_order", "c_order", "r_order"}
        /\ (order[on[s]] = "pending" \/ (pc[s] = "a_order" /\ step = "a_commit"))
    BY <1>5
  <2>2. Wants(s) = {OrderRow(on[s])}
    <3>1. CASE pc[s] = "a_order"
      BY <3>1, WantsFacts
    <3>2. CASE order[on[s]] = "pending"
      BY <2>1, <3>2, WantsFacts
    <3> QED BY <2>1, <3>1, <3>2
  <2>3. lock'[OrderRow(on[s])] = s /\ \A o \in Order : lock'[OrderRow(o)] = s => o = on[s] \/ lock[OrderRow(o)] = s
    BY <1>2, <2>1, <2>2, SellerTakes, RowFacts
  <2>4. SellerInv(s)'
    BY <1>1, <1>2, <1>5, <2>1, <2>3 DEF SellerInv, CommitSteps, Charged
  <2> QED BY <1>1, <1>3, <2>4, SellerGoes
<1> QED BY <1>4, <1>5

\* A sweep goes on to another candidate, or to its commit.
LEMMA SellerSweepsOn ==
  ASSUME SettlementInv, NEW s \in Session, NEW rest \in SUBSET Order, NextCandidate(s, rest),
         UNCHANGED <<rows, overdue, charge, settled>>, pc[s] # "a_commit", rest # {} \/ pc[s] # "idle",
         UNCHANGED lock \/ (pc[s] = "s_tickets" /\ MayLock(s) /\ TakeLocks(s))
  PROVE  SettlementInv'
<1> USE DEF SettlementInv, SettlementTypeOK
<1>1. /\ pc' \in [Session -> Step] /\ on' \in [Session -> Order \cup {NoOrder}]
      /\ todo' \in [Session -> SUBSET Order]
      /\ pc'[s] \in {"s_pay", "s_commit"} /\ on'[s] \in Order
      /\ \A x \in Session \ {s} : pc'[x] = pc[x] /\ on'[x] = on[x]
  <2>1. CASE rest = {}
    BY <2>1 DEF NextCandidate, Goto, Step, SellerInv
  <2>2. CASE rest # {}
    <3>1. PICK o \in rest : /\ pc' = [pc EXCEPT ![s] = "s_pay"]
                            /\ on' = [on EXCEPT ![s] = o]
                            /\ todo' = [todo EXCEPT ![s] = rest \ {o}]
      BY <2>2 DEF NextCandidate, Goto
    <3> QED BY <3>1 DEF Step
  <2> QED BY <2>1, <2>2
<1>2. lock' \in [Row -> Session \cup Desk \cup {NoSession}] /\ Locking(s)
      /\ \A o \in Order : lock'[OrderRow(o)] = lock[OrderRow(o)]
  <2>1. CASE UNCHANGED lock
    BY <2>1 DEF Locking
  <2>2. CASE pc[s] = "s_tickets" /\ MayLock(s) /\ TakeLocks(s)
    <3>1. \A o \in Order : OrderRow(o) \notin Wants(s)
      BY <2>2, WantsFacts, RowFacts DEF TicketsOf
    <3> QED BY <2>2, <3>1, SellerTakes, RowFacts
  <2> QED BY <2>1, <2>2
<1>3. SellerInv(s)'
  BY <1>1, <1>2 DEF SellerInv, rows
<1>4. charge' \in [Order -> ChargeStatus] /\ \A o \in Order : Charged(o) => Charged(o)'
  BY DEF Charged
<1> QED BY <1>1, <1>2, <1>3, <1>4, SellerGoes

-----------------------------------------------------------------------------
\* A transaction that ends an order's reservation: expired or cancelled.
LEMMA SellerEndsOrders ==
  ASSUME SettlementInv, NEW s \in Session, NEW os \in SUBSET Order, NEW to \in {"expired", "cancelled"},
         \A o \in os : lock[OrderRow(o)] = s, pc[s] # "a_commit",
         order' = [o \in Order |-> IF o \in os THEN to ELSE order[o]],
         MoveTickets(os, ReleasableTicket, to),
         payment' \in [Order -> PaymentStatus \cup {"none"}],
         \A o \in Order : payment'[o] = payment[o] \/ payment'[o] # "successful",
         EndTransaction(s), UNCHANGED <<review, overdue, charge, settled>>
  PROVE  SettlementInv'
<1> USE DEF SettlementInv, SettlementTypeOK
<1>1. \A o \in os : order[o] = "pending"
  BY DEF SellerInv
<1>2. \A t \in Ticket : OrderOf[t] \in Order
  BY CheckoutAssumption
<1>3. /\ ticket' = [t \in Ticket |-> IF OrderOf[t] \in os /\ ticket[t] \in ReleasableTicket THEN to ELSE ticket[t]]
      /\ ticket' \in [Ticket -> TicketStatus] /\ order' \in [Order -> OrderStatus]
  BY DEF MoveTickets, TicketStatus, OrderStatus
<1>4. \A o \in Order : Charged(o) => Charged(o)'
  BY DEF Charged
<1>5. ActiveTicketIsSold'
  <2> SUFFICES ASSUME NEW t \in Ticket, ticket'[t] = "active"
               PROVE  order'[OrderOf[t]] = "confirmed" /\ charge'[OrderOf[t]] \in {"paid", "reversed"}
    BY DEF ActiveTicketIsSold
  <2>1. ticket[t] = "active"
    BY <1>3
  <2> QED BY <2>1, <1>1, <1>2 DEF ActiveTicketIsSold
<1>6. SuccessIsCharged'
  BY DEF SuccessIsCharged, Charged
<1>7. \A t \in Ticket : ticket'[t] = ticket[t] \/ ticket[t] \in ReleasableTicket
  BY <1>3
<1>8. \A o \in Order : order'[o] = order[o] \/ lock[OrderRow(o)] = s
  OBVIOUS
<1>9. SettlementTypeOK'
  BY <1>3, SellerEnds DEF settled
<1> QED BY <1>4, <1>5, <1>6, <1>7, <1>8, <1>9, SellerEnds, SellerStep

LEMMA SellerSells ==
  ASSUME SettlementInv, NEW s \in Session, ApplyConfirm(s), UNCHANGED settled
  PROVE  SettlementInv'
<1> USE DEF SettlementInv, SettlementTypeOK
<1> DEFINE o == on[s]
<1>1. /\ o \in Order /\ lock[OrderRow(o)] = s /\ Charged(o)
      /\ payment' = [payment EXCEPT ![o] = "successful"]
      /\ order' = [order EXCEPT ![o] = "confirmed"]
      /\ ticket' = [t \in Ticket |-> IF OrderOf[t] = o /\ ticket[t] = "pending_payment"
                                     THEN "active" ELSE ticket[t]]
      /\ EndTransaction(s) /\ UNCHANGED <<review, overdue, charge>>
  BY DEF ApplyConfirm, SellerInv, MoveTickets
<1>2. \A t \in Ticket : OrderOf[t] \in Order
  BY CheckoutAssumption
<1>3. \A p \in Order : Charged(p) => Charged(p)'
  BY <1>1 DEF Charged
<1>4. ticket' \in [Ticket -> TicketStatus] /\ order' \in [Order -> OrderStatus]
      /\ payment' \in [Order -> PaymentStatus \cup {"none"}]
  BY <1>1 DEF TicketStatus, OrderStatus, PaymentStatus
<1>5. ActiveTicketIsSold'
  <2> SUFFICES ASSUME NEW t \in Ticket, ticket'[t] = "active"
               PROVE  order'[OrderOf[t]] = "confirmed" /\ charge'[OrderOf[t]] \in {"paid", "reversed"}
    BY DEF ActiveTicketIsSold
  <2>1. OrderOf[t] = o \/ ticket[t] = "active"
    BY <1>1
  <2> QED BY <2>1, <1>1, <1>2 DEF ActiveTicketIsSold, Charged
<1>6. SuccessIsCharged'
  BY <1>1 DEF SuccessIsCharged, Charged
<1>7. /\ \A t \in Ticket : ticket'[t] = ticket[t] \/ ticket[t] \in ReleasableTicket
      /\ \A p \in Order : order'[p] = order[p] \/ lock[OrderRow(p)] = s
  BY <1>1 DEF ReleasableTicket
<1>8. SettlementTypeOK'
  BY <1>1, <1>4, SellerEnds DEF settled
<1> QED BY <1>1, <1>3, <1>5, <1>6, <1>7, <1>8, SellerEnds, SellerStep

\* A transaction that writes a payment only.
LEMMA SellerPays ==
  ASSUME SettlementInv, NEW s \in Session, EndTransaction(s), UNCHANGED <<order, ticket, overdue, charge, settled>>,
         NEW o \in Order, NEW v \in PaymentStatus \cup {"none"}, payment' = [payment EXCEPT ![o] = v],
         v = "successful" => Charged(o) \/ payment[o] = "successful",
         review' \subseteq Order
  PROVE  SettlementInv'
<1> USE DEF SettlementInv, SettlementTypeOK
<1>1. \A p \in Order : Charged(p) => Charged(p)'
  BY DEF Charged
<1>2. \A p \in Order : payment'[p] = payment[p] \/ payment'[p] # "successful" \/ Charged(p)
  BY DEF SuccessIsCharged
<1>3. ActiveTicketIsSold' /\ SuccessIsCharged'
  BY <1>1, <1>2, SalesStay
<1>4. SettlementTypeOK'
  BY SellerEnds DEF settled
<1> QED BY <1>1, <1>3, <1>4, SellerEnds, SellerStep

-----------------------------------------------------------------------------
LEMMA SellerContinues ==
  ASSUME SettlementInv, NEW s \in Session, Continue(s) \/ Abort(s), UNCHANGED settled
  PROVE  SettlementInv'
<1>1. on[s] \in Order \/ pc[s] = "idle"
  BY DEF SettlementInv, SellerInv
<1>2. CASE SweepPayment(s) \/ ApplyLockOrder(s) \/ ReleaseLockPayment(s)
  <2>1. pc[s] = "a_order" => Charged(on[s])
    BY DEF SettlementInv, SellerInv
  <2> QED BY <1>2, <2>1, SellerGoto DEF SweepPayment, ApplyLockOrder, ReleaseLockPayment, Step, CommitSteps
<1>3. CASE ApplyLockPayment(s) \/ CancelLockPayment(s) \/ CancelLockOrder(s) \/ ReleaseLockOrder(s) \/ CancelVerify(s)
  <2>1. CASE EndTransaction(s)
    BY <1>3, <2>1, SellerRollsBack
         DEF ApplyLockPayment, CancelLockPayment, CancelLockOrder, ReleaseLockOrder, CancelVerify
  <2>2. CASE ~EndTransaction(s)
    BY <1>3, <2>2, SellerGoto
         DEF ApplyLockPayment, CancelLockPayment, CancelLockOrder, ReleaseLockOrder, CancelVerify, Step, CommitSteps
  <2> QED BY <2>1, <2>2
<1>4. CASE SweepOrder(s)
  <2>1. CASE order[on[s]] = "pending"
    BY <1>4, <2>1, SellerGoto DEF SweepOrder, Step, CommitSteps
  <2>2. CASE order[on[s]] # "pending"
    <3>1. todo[s] \in SUBSET Order
      BY DEF SettlementInv, SettlementTypeOK
    <3> QED BY <1>4, <2>2, <3>1, SellerSweepsOn DEF SweepOrder
  <2> QED BY <2>1, <2>2
<1>5. CASE SweepTickets(s)
  <2>1. todo[s] \in SUBSET Order
    BY DEF SettlementInv, SettlementTypeOK
  <2> QED BY <1>5, <2>1, SellerSweepsOn DEF SweepTickets
<1>6. CASE SweepCommit(s)
  <2> DEFINE expired == {o \in Order : lock[OrderRow(o)] = s}
  <2>1. \A o \in Order : payment'[o] = payment[o] \/ payment'[o] # "successful"
    BY <1>6 DEF SweepCommit
  <2>2. payment' \in [Order -> PaymentStatus \cup {"none"}]
    BY <1>6 DEF SweepCommit, SettlementInv, SettlementTypeOK, PaymentStatus
  <2>3. /\ order' = [o \in Order |-> IF o \in expired THEN "expired" ELSE order[o]]
        /\ MoveTickets(expired, ReleasableTicket, "expired")
        /\ EndTransaction(s) /\ UNCHANGED <<review, overdue, charge>> /\ pc[s] = "s_commit"
        /\ expired \in SUBSET Order /\ \A o \in expired : lock[OrderRow(o)] = s
    BY <1>6 DEF SweepCommit
  <2> HIDE DEF expired
  <2> QED BY <2>1, <2>2, <2>3, SellerEndsOrders
<1>7. CASE ApplyVerify(s)
  <2>1. CASE charge[on[s]] \in EndedCheckout
    <3>1. EndTransaction(s) /\ payment' = [payment EXCEPT ![on[s]] = "failed"]
          /\ UNCHANGED <<order, review, ticket, overdue, charge>> /\ on[s] \in Order
      BY <1>1, <1>7, <2>1 DEF ApplyVerify, EndedCheckout
    <3>2. review' \subseteq Order /\ "failed" \in PaymentStatus
      BY <3>1 DEF SettlementInv, SettlementTypeOK, PaymentStatus
    <3> QED BY <3>1, <3>2, SellerPays
  <2>2. CASE charge[on[s]] \in {"none", "open"}
    BY <1>7, <2>2, SellerRollsBack DEF ApplyVerify, EndedCheckout, rows
  <2>3. CASE charge[on[s]] \in {"paid", "wrong"}
    BY <1>7, <2>3, SellerGoto DEF ApplyVerify, EndedCheckout, rows, Charged, Step, CommitSteps
  <2> QED BY <1>7, <2>1, <2>2, <2>3 DEF ApplyVerify
<1>8. CASE ApplyMismatch(s) \/ Abort(s)
  BY <1>8, SellerRollsBack DEF ApplyMismatch, Abort
<1>9. CASE ApplyLate(s)
  <2>1. EndTransaction(s) /\ payment' = [payment EXCEPT ![on[s]] = "successful"] /\ on[s] \in Order
        /\ UNCHANGED <<order, ticket, overdue, charge>> /\ Charged(on[s])
    BY <1>1, <1>9 DEF ApplyLate, SettlementInv, SellerInv
  <2>2. review' \subseteq Order /\ "successful" \in PaymentStatus
    BY <1>9, <2>1 DEF ApplyLate, SettlementInv, SettlementTypeOK, PaymentStatus
  <2> QED BY <2>1, <2>2, SellerPays
<1>10. CASE ApplyConfirm(s)
  BY <1>10, SellerSells
<1>11. CASE CancelCommit(s) \/ ReleaseCommit(s)
  <2>1. /\ order' = [o \in Order |-> IF o \in {on[s]} THEN "cancelled" ELSE order[o]]
        /\ MoveTickets({on[s]}, ReleasableTicket, "cancelled")
        /\ EndTransaction(s) /\ UNCHANGED <<review, overdue, charge>> /\ pc[s] # "a_commit"
        /\ on[s] \in Order /\ lock[OrderRow(on[s])] = s
    BY <1>1, <1>11 DEF CancelCommit, ReleaseCommit, SettlementInv, SettlementTypeOK, SellerInv
  <2>2. payment' \in [Order -> PaymentStatus \cup {"none"}]
        /\ \A o \in Order : payment'[o] = payment[o] \/ payment'[o] # "successful"
    BY <1>11, <2>1 DEF CancelCommit, ReleaseCommit, SettlementInv, SettlementTypeOK, PaymentStatus
  <2>3. {on[s]} \in SUBSET Order
    BY <2>1
  <2> QED BY <2>1, <2>2, <2>3, SellerEndsOrders
<1>12. CASE InitializeCall(s)
  <2>1. PICK step \in {"i_insert", "r_pay"} : Goto(s, step)
    BY <1>12 DEF InitializeCall
  <2>2. charge' \in {charge, Opened(on[s])} /\ pc[s] = "i_call" /\ UNCHANGED <<rows, overdue, lock, on, todo>>
    BY <1>12 DEF InitializeCall
  <2>3. charge' \in [Order -> ChargeStatus] /\ \A o \in Order : Charged(o) => Charged(o)'
    BY <2>2 DEF SettlementInv, SettlementTypeOK, Opened, ChargeStatus, Charged
  <2>4. /\ pc' \in [Session -> Step] /\ pc'[s] = step /\ \A x \in Session \ {s} : pc'[x] = pc[x] /\ on'[x] = on[x]
        /\ on' \in [Session -> Order \cup {NoOrder}] /\ todo' \in [Session -> SUBSET Order]
        /\ lock' \in [Row -> Session \cup Desk \cup {NoSession}] /\ Locking(s)
    BY <2>1, <2>2 DEF SettlementInv, SettlementTypeOK, Goto, Step, Locking
  <2>5. SellerInv(s)'
    BY <1>1, <2>2, <2>4 DEF SettlementInv, SellerInv, rows
  <2> QED BY <2>2, <2>3, <2>4, <2>5, SellerGoes
<1>13. CASE InitializeInsert(s)
  <2> DEFINE v == IF payment[on[s]] = "none" THEN "pending" ELSE payment[on[s]]
  <2>1. EndTransaction(s) /\ payment' = [payment EXCEPT ![on[s]] = v] /\ on[s] \in Order
        /\ UNCHANGED <<order, review, ticket, overdue, charge>>
    BY <1>1, <1>13 DEF InitializeInsert
  <2>2. review' \subseteq Order /\ v \in PaymentStatus \cup {"none"} /\ (v = "successful" => payment[on[s]] = "successful")
    BY <2>1 DEF SettlementInv, SettlementTypeOK, PaymentStatus
  <2> HIDE DEF v
  <2> QED BY <2>1, <2>2, SellerPays
<1> QED
  BY <1>2, <1>3, <1>4, <1>5, <1>6, <1>7, <1>8, <1>9, <1>10, <1>11, <1>12, <1>13 DEF Continue

LEMMA SellerArrives ==
  ASSUME SettlementInv, NEW s \in Session, UNCHANGED settled,
         (\E scope \in Scope \cup {Order} : SweepStart(s, scope)) \/ Arrive(s)
  PROVE  SettlementInv'
<1>1. ASSUME NEW scope, SweepStart(s, scope)
      PROVE  SettlementInv'
  <2> DEFINE candidates == {o \in scope \cap overdue : order[o] = "pending"}
  <2>1. candidates \in SUBSET Order
    BY DEF SettlementInv, SettlementTypeOK
  <2>2. pc[s] = "idle" /\ NextCandidate(s, candidates) /\ candidates # {}
        /\ UNCHANGED <<rows, overdue, charge, lock>>
    BY <1>1 DEF SweepStart
  <2> HIDE DEF candidates
  <2> QED BY <2>1, <2>2, SellerSweepsOn
<1>2. ASSUME NEW o \in Order, ApplyStart(s, o) \/ CancelStart(s, o) \/ InitializeStart(s, o)
      PROVE  SettlementInv'
  <2>1. PICK step \in {"a_pay", "c_verify", "c_pay", "i_call"} : Begin(s, o, step)
    BY <1>2 DEF ApplyStart, CancelStart, InitializeStart
  <2>2. UNCHANGED <<rows, overdue, charge, lock, todo>>
    BY <1>2 DEF ApplyStart, CancelStart, InitializeStart
  <2>3. charge' \in [Order -> ChargeStatus] /\ \A p \in Order : Charged(p) => Charged(p)'
    BY <2>2 DEF SettlementInv, SettlementTypeOK, Charged
  <2>4. /\ pc' \in [Session -> Step] /\ pc'[s] = step /\ on'[s] = o /\ pc[s] = "idle"
        /\ \A x \in Session \ {s} : pc'[x] = pc[x] /\ on'[x] = on[x]
        /\ on' \in [Session -> Order \cup {NoOrder}] /\ todo' \in [Session -> SUBSET Order]
        /\ lock' \in [Row -> Session \cup Desk \cup {NoSession}] /\ Locking(s)
    BY <2>1, <2>2 DEF SettlementInv, SettlementTypeOK, Begin, Goto, Step, Locking
  <2>5. SellerInv(s)'
    BY <2>2, <2>4 DEF SettlementInv, SellerInv, rows
  <2> QED BY <2>2, <2>3, <2>4, <2>5, SellerGoes
<1> QED BY <1>1, <1>2 DEF Arrive

LEMMA CheckoutGoesOn ==
  ASSUME SettlementInv, Next, UNCHANGED settled
  PROVE  SettlementInv'
<1>1. Worker \in Session /\ Request \subseteq Session
  BY DEF Session
<1>2. ASSUME NEW o \in Order, TimePasses(o) \/ ChargeMoves(o)
      PROVE  SettlementInv'
  <2>1. UNCHANGED <<rows, sessions>>
    BY <1>2 DEF TimePasses, ChargeMoves
  <2>2. overdue' \subseteq Order /\ charge' \in [Order -> ChargeStatus]
        /\ \A p \in Order : Charged(p) => Charged(p)'
    <3>1. CASE TimePasses(o)
      BY <3>1 DEF TimePasses, SettlementInv, SettlementTypeOK, Charged
    <3>2. CASE ChargeMoves(o)
      BY <3>2 DEF ChargeMoves, SettlementInv, SettlementTypeOK, ChargeStatus, Charged
    <3> QED BY <1>2, <3>1, <3>2
  <2>3. SettlementTypeOK'
    BY <2>1, <2>2 DEF SettlementInv, SettlementTypeOK, rows, sessions, settled
  <2>4. ActiveTicketIsSold' /\ SuccessIsCharged' /\ RefundsAreOfReceivedMoney'
    BY <2>1, <2>2, SalesStay, RefundsStayCovered DEF rows, settled
  <2>5. (\A x \in Session : SellerInv(x)') /\ (\A x \in Desk : DeskInv(x)')
    <3>1. Locking(NoSession)
      BY <2>1 DEF Locking, sessions
    <3>2. NoSession \notin Session \cup Desk
      BY Apart
    <3>3. UNCHANGED <<order, ticket, pc, on, desk>>
      BY <2>1 DEF rows, sessions, settled
    <3> QED BY <2>2, <3>1, <3>2, <3>3, OthersKeep
  <2>6. (\A x \in Session : SellerInv(x))' /\ (\A x \in Desk : DeskInv(x))'
    BY <2>5
  <2> QED BY <2>3, <2>4, <2>6 DEF SettlementInv
<1> QED BY <1>1, <1>2, SellerContinues, SellerArrives DEF Next, Proceed

-----------------------------------------------------------------------------
(* The desks.                                                               *)

LEMMA DeskStepInv ==
  ASSUME SettlementInv, NEW d \in Desk, UNCHANGED elsewhere, SettlementTypeOK', Locking(d),
         \A x \in Desk \ {d} : desk'[x] = desk[x],
         \A o \in Order : order'[o] = order[o] \/ lock[OrderRow(o)] = d,
         \A t \in Ticket : \/ ticket'[t] = ticket[t]
                           \/ lock[TicketRow(t)] \in {NoSession, d} /\ ticket'[t] \in Over,
         \A t \in Ticket : ticket'[t] = "active" => order'[OrderOf[t]] = order[OrderOf[t]],
         \A o \in Order : payment'[o] = payment[o] \/ payment'[o] # "successful",
         \A i \in Item : asked'[i] = asked[i] \/ Charged(Whose(i)),
         DeskInv(d)'
  PROVE  SettlementInv'
<1>1. \A o \in Order : Charged(o) => Charged(o)'
  BY DEF elsewhere, Charged
<1>2. d \notin Session /\ UNCHANGED <<pc, on, charge>>
  BY Apart DEF elsewhere
<1>3. (\A x \in Session \ {d} : SellerInv(x)') /\ (\A x \in Desk \ {d} : DeskInv(x)')
  <2>1. \A t \in Ticket : ticket[t] \in Over => ticket'[t] \in Over
    OBVIOUS
  <2>2. \A t \in Ticket : \/ ticket'[t] = ticket[t]
                          \/ lock[TicketRow(t)] \in {NoSession, d}
                          \/ ticket[t] \in ReleasableTicket
    OBVIOUS
  <2> QED BY <1>1, <1>2, <2>1, <2>2, OthersKeep
<1>4. (\A x \in Session : SellerInv(x))' /\ (\A x \in Desk : DeskInv(x))'
  BY <1>2, <1>3
<1>5. ActiveTicketIsSold'
  <2> SUFFICES ASSUME NEW t \in Ticket, ticket'[t] = "active"
               PROVE  order'[OrderOf[t]] = "confirmed" /\ charge'[OrderOf[t]] \in {"paid", "reversed"}
    BY DEF ActiveTicketIsSold
  <2>1. ticket[t] = "active"
    BY DEF Over, DeadTicket
  <2> QED BY <1>2, <2>1 DEF SettlementInv, ActiveTicketIsSold
<1>6. SuccessIsCharged'
  BY <1>1 DEF SettlementInv, SuccessIsCharged
<1>7. RefundsAreOfReceivedMoney'
  BY <1>1, RefundsStayCovered
<1> QED BY <1>4, <1>5, <1>6, <1>7 DEF SettlementInv

LEMMA DeskSet ==
  ASSUME SettlementInv, NEW d \in Desk, NEW r \in DeskState, desk' = [desk EXCEPT ![d] = r]
  PROVE  desk' \in [Desk -> DeskState] /\ desk'[d] = r /\ \A x \in Desk \ {d} : desk'[x] = desk[x]
<1> HIDE DEF DeskState
<1> QED BY DEF SettlementInv, SettlementTypeOK

\* A step that writes no row.
LEMMA DeskGoes ==
  ASSUME SettlementInv, NEW d \in Desk, NEW r \in DeskState, desk' = [desk EXCEPT ![d] = r],
         UNCHANGED <<rows, note, asked, granted, elsewhere>>,
         lock' \in [Row -> Session \cup Desk \cup {NoSession}], Locking(d), DeskInv(d)'
  PROVE  SettlementInv'
<1>1. SettlementTypeOK'
  BY DeskSet DEF SettlementInv, SettlementTypeOK, rows, elsewhere
<1> QED BY <1>1, DeskSet, DeskStepInv DEF rows

LEMMA LockStays ==
  ASSUME SettlementInv, NEW d, UNCHANGED lock
  PROVE  lock' \in [Row -> Session \cup Desk \cup {NoSession}] /\ Locking(d)
  BY DEF SettlementInv, SettlementTypeOK, Locking

LEMMA DeskTakes ==
  ASSUME SettlementInv, NEW d \in Desk, NEW step, MayGo(d, step), TakeNeeds(d)
  PROVE  /\ lock' \in [Row -> Session \cup Desk \cup {NoSession}] /\ Locking(d)
         /\ \A w \in Row : lock'[w] = IF w \in Needs(d) THEN d ELSE lock[w]
<1>1. \A w \in Row : lock'[w] = IF w \in Needs(d) THEN d ELSE lock[w]
  BY DEF TakeNeeds
<1>2. \A w \in Row : w \in Needs(d) => lock[w] \in {NoSession, d}
  BY DEF MayGo
<1>3. lock' \in [Row -> Session \cup Desk \cup {NoSession}]
  BY DEF TakeNeeds, SettlementInv, SettlementTypeOK
<1> QED BY <1>1, <1>2, <1>3 DEF Locking

LEMMA WholeNoted ==
  ASSUME NEW n \in Note, NEW r \in RefundStatus
  PROVE  [n EXCEPT !.whole = TRUE, !.last = r] \in Note
  BY DEF Note

LEMMA TicketNoted ==
  ASSUME NEW n \in Note, NEW r \in RefundStatus, NEW t \in Ticket
  PROVE  [n EXCEPT !.each[t] = r, !.last = r] \in Note
<1> DEFINE each     == [n.each EXCEPT ![t] = r]
           Noted(e) == [n EXCEPT !.each = e, !.last = r]
<1>1. \A e \in [Ticket -> RefundStatus] : Noted(e) \in Note
  BY DEF Note
<1>2. n.each \in [Ticket -> RefundStatus]
  BY DEF Note
<1>3. each \in [Ticket -> RefundStatus]
  BY <1>2
<1> HIDE DEF each, Noted
<1>4. Noted(each) \in Note
  BY <1>1, <1>3
<1> QED BY <1>4, Zenon DEF each, Noted

LEMMA RestIsAState == AtRest \in DeskState
<1>1. "rest" \in DeskStep /\ "pending" \in OrderStatus
  BY DEF DeskStep, OrderStatus
<1>2. NoNote \in Note
  BY DEF NoNote, Note, RefundStatus
<1>3. FALSE \in BOOLEAN /\ {} \in SUBSET Ticket
  OBVIOUS
<1> QED BY <1>1, <1>2, <1>3 DEF AtRest, DeskState

LEMMA DeskLeaves ==
  ASSUME SettlementInv, NEW d \in Desk, Leave(d)
  PROVE  /\ lock' \in [Row -> Session \cup Desk \cup {NoSession}] /\ Locking(d)
         /\ desk' = [desk EXCEPT ![d] = AtRest]
         /\ desk' \in [Desk -> DeskState] /\ \A x \in Desk \ {d} : desk'[x] = desk[x]
         /\ DeskInv(d)'
<1>1. lock' = [w \in Row |-> IF lock[w] = d THEN NoSession ELSE lock[w]] /\ desk' = [desk EXCEPT ![d] = AtRest]
  BY DEF Leave
<1>2. lock' \in [Row -> Session \cup Desk \cup {NoSession}] /\ Locking(d)
  BY <1>1 DEF SettlementInv, SettlementTypeOK, Locking
<1>3. desk' \in [Desk -> DeskState] /\ desk'[d] = AtRest /\ \A x \in Desk \ {d} : desk'[x] = desk[x]
  BY <1>1, RestIsAState, DeskSet
<1>4. DeskInv(d)'
  BY <1>3 DEF AtRest, DeskInv, Serves, IsRight, TicketSteps
<1> QED BY <1>1, <1>2, <1>3, <1>4

LEMMA DeskGivesUp ==
  ASSUME SettlementInv, NEW d \in Desk, Leave(d), UNCHANGED <<rows, note, asked, granted, elsewhere>>
  PROVE  SettlementInv'
  BY DeskLeaves, RestIsAState, DeskGoes

-----------------------------------------------------------------------------
\* refund_order
LEMMA RefundStartInv ==
  ASSUME SettlementInv, NEW d \in Desk, NEW o \in Order, RefundStart(d, o)
  PROVE  SettlementInv'
<1> DEFINE r == [AtRest EXCEPT !.at = "o_find", !.service = "refund_order",
                               !.order = o, !.was = order[o], !.seen = note[o]]
<1>1. desk' = [desk EXCEPT ![d] = r] /\ UNCHANGED <<rows, lock, note, asked, granted, elsewhere>>
  BY DEF RefundStart
<1>2. order[o] \in OrderStatus /\ note[o] \in Note
  BY DEF SettlementInv, SettlementTypeOK
<1>3. r \in DeskState
  BY <1>2, RestIsAState DEF DeskState, DeskStep
<1>4. r.at = "o_find" /\ r.order = o /\ r.to = "same"
  BY DEF AtRest
<1> HIDE DEF r
<1>5. desk'[d] = r
  BY <1>1, <1>3, DeskSet
<1>6. DeskInv(d)'
  BY <1>4, <1>5 DEF DeskInv, Serves, IsRight, TicketSteps
<1> QED BY <1>1, <1>3, <1>6, LockStays, DeskGoes

\* A desk goes to its next step and keeps in mind what it works on.
LEMMA DeskAdvances ==
  ASSUME SettlementInv, NEW d \in Desk, NEW r \in DeskState, desk' = [desk EXCEPT ![d] = r],
         r.order = desk[d].order, r.ticket = desk[d].ticket,
         lock' \in [Row -> Session \cup Desk \cup {NoSession}], Locking(d),
         UNCHANGED <<rows, note, asked, granted, elsewhere>>,
         r.at # "rest" => desk[d].at # "rest",
         r.at \in TicketSteps => desk[d].at \in TicketSteps,
         r.at \notin {"scan", "verify"},
         r.at \in TicketSteps \ {"t_lock"} => lock'[TicketRow(r.ticket)] = d,
         r.at = "o_commit" \/ (r.at = "t_commit" /\ r.to # "same") => lock'[OrderRow(r.order)] = d,
         r.at \in {"o_ask", "t_ask"} => Charged(r.order),
         r.at \in {"o_order", "o_commit"} => \A t \in TicketsOf(r.order) \ r.mine : ticket[t] \in Over,
         r.to # "same" => r.at \in {"t_order", "t_commit"} /\ \A t \in TicketsOf(r.order) : ticket[t] \in Over
  PROVE  SettlementInv'
<1>1. desk'[d] = r
  BY DeskSet
<1>2. Serves(d)
  BY DEF SettlementInv, DeskInv
<1>3. Serves(d)'
  BY <1>1, <1>2 DEF Serves
<1>4. IsRight(d)'
  BY <1>1 DEF IsRight, Charged, rows, elsewhere
<1> QED BY <1>3, <1>4, DeskGoes DEF DeskInv

LEMMA DeskKnown ==
  ASSUME SettlementInv, NEW d \in Desk
  PROVE  desk[d] \in DeskState /\ Serves(d) /\ IsRight(d)
<1> HIDE DEF DeskState
<1> QED BY DEF SettlementInv, SettlementTypeOK, DeskInv

LEMMA OrderFindInv ==
  ASSUME SettlementInv, NEW d \in Desk, OrderFind(d)
  PROVE  SettlementInv'
<1>1. CASE Leave(d)
  BY <1>1, DeskGivesUp DEF OrderFind
<1>2. CASE ~Leave(d)
  <2>1. desk[d].at = "o_find" /\ UNCHANGED <<rows, lock, note, asked, granted, elsewhere>>
    BY <1>2 DEF OrderFind
  <2>2. desk[d] \in DeskState /\ desk[d].order \in Order /\ desk[d].to = "same"
    BY <2>1, DeskKnown DEF Serves, IsRight
  <2>3. \/ desk' = [desk EXCEPT ![d].at = "o_tickets"]
        \/ /\ payment[desk[d].order] = "successful"
           /\ desk' = [desk EXCEPT ![d].paid = TRUE, ![d].at = "o_ask"]
        \/ desk' = [desk EXCEPT ![d].paid = TRUE, ![d].at = "o_tickets"]
    BY <1>2 DEF OrderFind, Now
  <2>4. ASSUME NEW r \in DeskState, desk' = [desk EXCEPT ![d] = r], r.at \in {"o_tickets", "o_ask"},
               r.order = desk[d].order, r.ticket = desk[d].ticket, r.to = desk[d].to,
               r.at = "o_ask" => payment[desk[d].order] = "successful"
        PROVE  SettlementInv'
    <3>1. r.at = "o_ask" => Charged(r.order)
      BY <2>2, <2>4 DEF SettlementInv, SuccessIsCharged
    <3> QED BY <2>1, <2>2, <2>4, <3>1, LockStays, DeskAdvances DEF TicketSteps
  <2>5. CASE desk' = [desk EXCEPT ![d].at = "o_tickets"]
    <3> DEFINE r == [desk[d] EXCEPT !.at = "o_tickets"]
    <3>1. r \in DeskState /\ r.at = "o_tickets" /\ r.order = desk[d].order /\ r.ticket = desk[d].ticket /\ r.to = desk[d].to
      BY <2>2 DEF DeskState, DeskStep
    <3>2. desk' = [desk EXCEPT ![d] = r]
      BY <2>5
    <3> HIDE DEF r
    <3> QED BY <2>4, <3>1, <3>2
  <2>6. ASSUME NEW step \in {"o_ask", "o_tickets"}, desk' = [desk EXCEPT ![d].paid = TRUE, ![d].at = step],
               step = "o_ask" => payment[desk[d].order] = "successful"
        PROVE  SettlementInv'
    <3> DEFINE r == [desk[d] EXCEPT !.paid = TRUE, !.at = step]
    <3>1. r \in DeskState /\ r.at = step /\ r.order = desk[d].order /\ r.ticket = desk[d].ticket /\ r.to = desk[d].to
      BY <2>2 DEF DeskState, DeskStep
    <3>2. desk' = [desk EXCEPT ![d] = r]
      BY <2>6
    <3> HIDE DEF r
    <3> QED BY <2>4, <2>6, <3>1, <3>2
  <2> QED BY <2>3, <2>5, <2>6
<1> QED BY <1>1, <1>2

\* A step that changes nothing but where the desk is.
LEMMA DeskNow ==
  ASSUME SettlementInv, NEW d \in Desk, NEW step \in DeskStep, Now(d, step)
  PROVE  \E r \in DeskState : /\ desk' = [desk EXCEPT ![d] = r] /\ r.at = step
                              /\ r.order = desk[d].order /\ r.ticket = desk[d].ticket
                              /\ r.to = desk[d].to /\ r.mine = desk[d].mine
<1> DEFINE r == [desk[d] EXCEPT !.at = step]
<1>1. r \in DeskState /\ r.at = step /\ r.order = desk[d].order /\ r.ticket = desk[d].ticket
      /\ r.to = desk[d].to /\ r.mine = desk[d].mine
  BY DeskKnown DEF DeskState
<1>2. desk' = [desk EXCEPT ![d] = r]
  BY DEF Now
<1> HIDE DEF r
<1> QED BY <1>1, <1>2

\* The provider's answer to a refund.
LEMMA DeskAsks ==
  ASSUME SettlementInv, NEW d \in Desk, NEW i \in Item, NEW n, NEW next \in {"o_tickets", "t_close"},
         Ask(d, i, n, next), \A r \in {"pending", "success"} : n[r] \in Note,
         Charged(Whose(i)), desk[d].at # "rest",
         next = "t_close" => desk[d].at \in TicketSteps \ {"t_lock"},
         desk[d].to = "same",
         UNCHANGED <<rows, lock, note, elsewhere>>
  PROVE  SettlementInv'
<1>1. /\ desk[d] \in DeskState /\ desk[d].order \in Order
      /\ next = "t_close" => /\ desk[d].ticket \in Ticket /\ OrderOf[desk[d].ticket] = desk[d].order
                             /\ lock[TicketRow(desk[d].ticket)] = d
  BY DeskKnown DEF Serves
<1>2. ASSUME NEW x \in DeskState, desk' = [desk EXCEPT ![d] = x], x.at \in {next, "note", "fail"},
             x.order = desk[d].order, x.ticket = desk[d].ticket, x.to = "same",
             asked' \in [Item -> 0..MaxAsked], granted' \in [Item -> RefundStatus],
             \A j \in Item : asked'[j] = asked[j] \/ j = i
      PROVE  SettlementInv'
  <2>1. desk'[d] = x /\ desk' \in [Desk -> DeskState] /\ \A y \in Desk \ {d} : desk'[y] = desk[y]
    BY <1>2, DeskSet
  <2>2. DeskInv(d)'
    BY <1>1, <1>2, <2>1 DEF DeskInv, Serves, IsRight, TicketSteps
  <2>3. SettlementTypeOK'
    BY <1>2, <2>1 DEF SettlementInv, SettlementTypeOK, rows, elsewhere
  <2> QED BY <1>2, <2>1, <2>2, <2>3, LockStays, DeskStepInv DEF rows
<1>3. CASE Now(d, "fail") /\ UNCHANGED <<asked, granted>>
  <2>1. PICK r \in DeskState : /\ desk' = [desk EXCEPT ![d] = r] /\ r.at = "fail"
                              /\ r.order = desk[d].order /\ r.ticket = desk[d].ticket
                              /\ r.to = desk[d].to /\ r.mine = desk[d].mine
    BY <1>3, DeskNow DEF DeskStep
  <2>2. asked' \in [Item -> 0..MaxAsked] /\ granted' \in [Item -> RefundStatus]
    BY <1>3 DEF SettlementInv, SettlementTypeOK
  <2> QED BY <1>2, <1>3, <2>1, <2>2
<1>4. ASSUME NEW r \in {"pending", "success"}, asked[i] < MaxAsked,
             asked' = [asked EXCEPT ![i] = @ + 1],
             granted' = [granted EXCEPT ![i] = IF @ = "success" THEN @ ELSE r],
             desk' = [desk EXCEPT ![d].seen = n[r], ![d].noted = TRUE,
                                  ![d].at = IF r = "success" THEN next ELSE "note"]
      PROVE  SettlementInv'
  <2> DEFINE step == IF r = "success" THEN next ELSE "note"
             x == [desk[d] EXCEPT !.seen = n[r], !.noted = TRUE, !.at = step]
  <2>1. n[r] \in Note /\ step \in {next, "note"} /\ step \in DeskStep
    BY DEF DeskStep
  <2>2. desk' = [desk EXCEPT ![d] = x]
    BY <1>4
  <2>3. asked' \in [Item -> 0..MaxAsked] /\ \A j \in Item : asked'[j] = asked[j] \/ j = i
    BY <1>4, SettlementAssumption DEF SettlementInv, SettlementTypeOK
  <2>4. granted' \in [Item -> RefundStatus]
    BY <1>4 DEF SettlementInv, SettlementTypeOK, RefundStatus
  <2> HIDE DEF step
  <2>5. x \in DeskState /\ x.at = step /\ x.order = desk[d].order /\ x.ticket = desk[d].ticket /\ x.to = desk[d].to
    BY <1>1, <2>1 DEF DeskState
  <2> HIDE DEF x
  <2> QED BY <1>2, <2>1, <2>2, <2>3, <2>4, <2>5
<1> QED BY <1>3, <1>4 DEF Ask

LEMMA OrderAskInv ==
  ASSUME SettlementInv, NEW d \in Desk, OrderAsk(d)
  PROVE  SettlementInv'
<1> DEFINE Noted(r) == [desk[d].seen EXCEPT !.whole = TRUE, !.last = r]
           n        == [r \in RefundStatus |-> Noted(r)]
<1>1. Ask(d, desk[d].order, n, "o_tickets") /\ UNCHANGED <<rows, lock, note, elsewhere>>
  BY Zenon DEF OrderAsk
<1>2. /\ desk[d].at = "o_ask" /\ desk[d].order \in Order
      /\ Charged(desk[d].order) /\ desk[d].to = "same"
  <2>1. desk[d].at = "o_ask"
    BY Zenon DEF OrderAsk
  <2> QED BY <2>1, DeskKnown DEF Serves, IsRight
<1>3. desk[d].seen \in Note
  BY DeskKnown DEF DeskState
<1>4. \A r \in RefundStatus : Noted(r) \in Note
  BY <1>3, WholeNoted, Zenon
<1>5. desk[d].order \in Item /\ Whose(desk[d].order) = desk[d].order
  BY <1>2 DEF Item, Whose
<1> HIDE DEF Noted
<1>6. \A r \in {"pending", "success"} : n[r] \in Note
  BY <1>4 DEF RefundStatus
<1> HIDE DEF n
<1> QED BY <1>1, <1>2, <1>5, <1>6, DeskAsks

LEMMA OrderTicketsInv ==
  ASSUME SettlementInv, NEW d \in Desk, OrderTickets(d)
  PROVE  SettlementInv'
<1> DEFINE mine == {t \in TicketsOf(desk[d].order) : ticket[t] \notin {"used", "refunded"}}
           r    == [desk[d] EXCEPT !.at = "o_order", !.mine = mine]
<1>1. /\ desk[d].at = "o_tickets" /\ UNCHANGED <<rows, lock, note, asked, granted, elsewhere>>
      /\ desk' = [desk EXCEPT ![d].at = "o_order", ![d].mine = mine]
  BY DEF OrderTickets
<1>2. mine \subseteq Ticket /\ \A t \in TicketsOf(desk[d].order) \ mine : ticket[t] \in Over
  BY DEF TicketsOf, Over, DeadTicket
<1>3. desk' = [desk EXCEPT ![d] = r]
  BY <1>1
<1> HIDE DEF mine
<1>4. /\ r \in DeskState /\ r.at = "o_order" /\ r.mine = mine /\ r.order = desk[d].order
      /\ r.ticket = desk[d].ticket /\ r.to = desk[d].to
  <2>1. "o_order" \in DeskStep /\ desk[d] \in DeskState /\ mine \in SUBSET Ticket
    BY <1>2, DeskKnown DEF DeskStep
  <2> QED BY <2>1 DEF DeskState
<1>5. desk[d].to = "same"
  BY <1>1, DeskKnown DEF IsRight
<1> HIDE DEF r
<1> QED BY <1>1, <1>2, <1>3, <1>4, <1>5, LockStays, DeskAdvances DEF TicketSteps

LEMMA FlushOrderInv ==
  ASSUME SettlementInv, NEW d \in Desk, FlushOrder(d)
  PROVE  SettlementInv'
<1>1. PICK step \in {"o_commit", "t_commit"} :
        /\ Now(d, step)
        /\ MayGo(d, IF step = "o_commit" THEN "o_order" ELSE "t_order")
  BY DEF FlushOrder
<1>2. /\ TakeNeeds(d) /\ UNCHANGED <<rows, note, asked, granted, elsewhere>>
      /\ desk[d].at = IF step = "o_commit" THEN "o_order" ELSE "t_order"
  BY <1>1 DEF FlushOrder, MayGo
<1>3. PICK r \in DeskState : /\ desk' = [desk EXCEPT ![d] = r] /\ r.at = step
                             /\ r.order = desk[d].order /\ r.ticket = desk[d].ticket
                             /\ r.to = desk[d].to /\ r.mine = desk[d].mine
  BY <1>1, DeskNow DEF DeskStep
<1>4. Serves(d) /\ IsRight(d) /\ desk[d].order \in Order
  BY <1>2, DeskKnown DEF Serves
<1>5. Needs(d) = {OrderRow(desk[d].order)}
  BY <1>2 DEF Needs
<1>6. /\ lock' \in [Row -> Session \cup Desk \cup {NoSession}] /\ Locking(d)
      /\ lock'[OrderRow(desk[d].order)] = d
      /\ \A w \in Row : lock[w] = d => lock'[w] = d
  BY <1>1, <1>2, <1>4, <1>5, DeskTakes, RowFacts
<1>7. step = "t_commit" => lock'[TicketRow(desk[d].ticket)] = d
  BY <1>2, <1>4, <1>6, RowFacts DEF Serves, TicketSteps
<1>8. /\ step = "o_commit" => \A t \in TicketsOf(desk[d].order) \ desk[d].mine : ticket[t] \in Over
      /\ desk[d].to # "same" => /\ step = "t_commit"
                                /\ \A t \in TicketsOf(desk[d].order) : ticket[t] \in Over
  BY <1>2, <1>4 DEF IsRight
<1> QED BY <1>2, <1>3, <1>6, <1>7, <1>8, DeskAdvances DEF TicketSteps

LEMMA OrderCommitInv ==
  ASSUME SettlementInv, NEW d \in Desk, OrderCommit(d)
  PROVE  SettlementInv'
<1> DEFINE o == desk[d].order
           mine == desk[d].mine
<1>1. /\ order' = [order EXCEPT ![o] = "refunded"]
      /\ payment' = [payment EXCEPT ![o] = IF desk[d].paid THEN "refunded" ELSE @]
      /\ ticket' = [t \in Ticket |-> IF t \in mine THEN "refunded" ELSE ticket[t]]
      /\ Leave(d) /\ UNCHANGED <<review, asked, granted, elsewhere>>
  BY DEF OrderCommit
<1>2. note' = [note EXCEPT ![o] = IF desk[d].noted THEN desk[d].seen ELSE @]
  BY DEF OrderCommit
<1>3. MayGo(d, "o_commit") /\ desk[d].at = "o_commit"
  BY DEF OrderCommit, MayGo
<1>4. /\ o \in Order /\ lock[OrderRow(o)] = d
      /\ \A t \in TicketsOf(o) \ mine : ticket[t] \in Over
  BY <1>3, DeskKnown DEF Serves, IsRight
<1>5. desk[d].seen \in Note
  BY DeskKnown DEF DeskState
<1>6. \A t \in mine : lock[TicketRow(t)] \in {NoSession, d}
  BY <1>3 DEF MayGo, Needs
<1>7. SettlementTypeOK'
  <2>1. /\ order' \in [Order -> OrderStatus] /\ ticket' \in [Ticket -> TicketStatus]
        /\ payment' \in [Order -> PaymentStatus \cup {"none"}]
    BY <1>1 DEF SettlementInv, SettlementTypeOK, OrderStatus, TicketStatus, PaymentStatus
  <2>2. note' \in [Order -> Note]
    BY <1>2, <1>5 DEF SettlementInv, SettlementTypeOK
  <2>3. lock' \in [Row -> Session \cup Desk \cup {NoSession}] /\ desk' \in [Desk -> DeskState]
    BY <1>1, DeskLeaves
  <2>4. UNCHANGED <<review, asked, granted, overdue, charge, pc, on, todo>>
    BY <1>1 DEF elsewhere
  <2> QED BY <2>1, <2>2, <2>3, <2>4 DEF SettlementInv, SettlementTypeOK
<1>8. /\ \A p \in Order : order'[p] = order[p] \/ lock[OrderRow(p)] = d
      /\ \A p \in Order : payment'[p] = payment[p] \/ payment'[p] # "successful"
  BY <1>1, <1>4 DEF SettlementInv, SettlementTypeOK
<1>9. \A t \in Ticket : \/ ticket'[t] = ticket[t]
                        \/ lock[TicketRow(t)] \in {NoSession, d} /\ ticket'[t] \in Over
  BY <1>1, <1>6 DEF Over, DeadTicket
<1>10. \A t \in Ticket : ticket'[t] = "active" => order'[OrderOf[t]] = order[OrderOf[t]]
  <2> SUFFICES ASSUME NEW t \in Ticket, ticket'[t] = "active"
               PROVE  order'[OrderOf[t]] = order[OrderOf[t]]
    OBVIOUS
  <2>1. t \notin mine /\ ticket[t] = "active"
    BY <1>1
  <2>2. OrderOf[t] # o /\ OrderOf[t] \in Order
    BY <1>4, <2>1, CheckoutAssumption DEF TicketsOf, Over, DeadTicket
  <2> QED BY <1>1, <2>2 DEF SettlementInv, SettlementTypeOK
<1>11. \A i \in Item : asked'[i] = asked[i] \/ Charged(Whose(i))
  BY <1>1
<1> QED BY <1>1, <1>7, <1>8, <1>9, <1>10, <1>11, DeskLeaves, DeskStepInv

LEMMA NoteCommitInv ==
  ASSUME SettlementInv, NEW d \in Desk, NoteCommit(d)
  PROVE  SettlementInv'
<1>1. Leave(d) /\ UNCHANGED <<order, payment, ticket, asked, granted, elsewhere>>
  BY DEF NoteCommit
<1>2. note' \in [Order -> Note] /\ review' \subseteq Order
  <2>1. desk[d].seen \in Note
    BY DeskKnown DEF DeskState
  <2> QED BY <2>1 DEF NoteCommit, SettlementInv, SettlementTypeOK
<1>3. SettlementTypeOK'
  BY <1>1, <1>2, DeskLeaves DEF SettlementInv, SettlementTypeOK, elsewhere
<1> QED BY <1>1, <1>3, DeskLeaves, DeskStepInv

-----------------------------------------------------------------------------
\* refund_single_ticket, cancel_single_ticket, and the doors
Opening(step, service, t) ==
  [AtRest EXCEPT !.at = step, !.service = service, !.order = OrderOf[t], !.ticket = t]

LEMMA DeskOpens ==
  ASSUME SettlementInv, NEW d \in Desk, NEW t \in Ticket, NEW service \in Service,
         NEW step \in {"t_lock", "scan", "verify"},
         desk' = [desk EXCEPT ![d] = Opening(step, service, t)],
         lock' \in [Row -> Session \cup Desk \cup {NoSession}], Locking(d),
         step = "scan" => ticket[t] = "active" /\ lock'[TicketRow(t)] = d,
         UNCHANGED <<rows, note, asked, granted, elsewhere>>
  PROVE  SettlementInv'
<1> DEFINE r == Opening(step, service, t)
<1>1. OrderOf[t] \in Order
  BY CheckoutAssumption
<1>2. service \in {"none", "refund_order", "refund_ticket", "cancel_ticket", "scan", "verify"} /\ step \in DeskStep
  BY SettlementAssumption DEF DeskStep
<1>3. r \in DeskState
  BY <1>1, <1>2, RestIsAState DEF DeskState, Opening
<1>4. r.at = step /\ r.order = OrderOf[t] /\ r.ticket = t /\ r.to = "same"
  BY DEF AtRest, Opening
<1>5. desk' = [desk EXCEPT ![d] = r]
  OBVIOUS
<1> HIDE DEF r
<1>6. desk'[d] = r
  BY <1>3, <1>5, DeskSet
<1>7. ticket' = ticket
  BY DEF rows
<1>8. DeskInv(d)'
  BY <1>1, <1>4, <1>6, <1>7 DEF DeskInv, Serves, IsRight, TicketSteps
<1> QED BY <1>3, <1>5, <1>8, DeskGoes

LEMMA DeskStartsInv ==
  ASSUME SettlementInv, NEW d \in Desk, DeskStarts(d)
  PROVE  SettlementInv'
<1>1. ASSUME NEW t \in Ticket, NEW service \in Service, TicketStart(d, t, service)
      PROVE  SettlementInv'
  <2>1. /\ desk' = [desk EXCEPT ![d] = Opening("t_lock", service, t)]
        /\ UNCHANGED <<rows, lock, note, asked, granted, elsewhere>>
    BY <1>1 DEF TicketStart, Opening
  <2> QED BY <2>1, LockStays, DeskOpens
<1>2. ASSUME NEW t \in Ticket, VerifyStart(d, t)
      PROVE  SettlementInv'
  <2>1. /\ "verify" \in Service
        /\ desk' = [desk EXCEPT ![d] = Opening("verify", "verify", t)]
        /\ UNCHANGED <<rows, lock, note, asked, granted, elsewhere>>
    BY <1>2 DEF VerifyStart, Opening
  <2> QED BY <2>1, LockStays, DeskOpens
<1>3. ASSUME NEW t \in Ticket, ScanLock(d, t)
      PROVE  SettlementInv'
  <2>1. /\ "scan" \in Service /\ ticket[t] = "active"
        /\ desk' = [desk EXCEPT ![d] = Opening("scan", "scan", t)]
        /\ UNCHANGED <<rows, note, asked, granted, elsewhere>>
    BY <1>3 DEF ScanLock, Opening
  <2>2. lock[TicketRow(t)] = NoSession /\ lock' = [lock EXCEPT ![TicketRow(t)] = d]
    BY <1>3 DEF ScanLock
  <2>3. lock' \in [Row -> Session \cup Desk \cup {NoSession}] /\ Locking(d) /\ lock'[TicketRow(t)] = d
    BY <2>2, RowFacts DEF SettlementInv, SettlementTypeOK, Locking
  <2> QED BY <2>1, <2>3, DeskOpens
<1> QED BY <1>1, <1>2, <1>3, RefundStartInv DEF DeskStarts

LEMMA TicketLockInv ==
  ASSUME SettlementInv, NEW d \in Desk, TicketLock(d)
  PROVE  SettlementInv'
<1> DEFINE step == IF desk[d].service = "refund_ticket" THEN "t_find" ELSE "t_close"
           r    == [desk[d] EXCEPT !.was = order[desk[d].order], !.at = step]
<1>1. MayGo(d, "t_lock") /\ TakeNeeds(d) /\ UNCHANGED <<rows, note, asked, granted, elsewhere>>
  BY DEF TicketLock
<1>2. desk[d].at = "t_lock"
  BY <1>1 DEF MayGo
<1>3. desk' = [desk EXCEPT ![d] = r]
  BY DEF TicketLock
<1>4. desk[d] \in DeskState /\ desk[d].order \in Order /\ desk[d].ticket \in Ticket /\ desk[d].to = "same"
  BY <1>2, DeskKnown DEF Serves, IsRight, TicketSteps
<1>5. order[desk[d].order] \in OrderStatus /\ step \in DeskStep /\ step \in {"t_find", "t_close"}
  BY <1>4 DEF SettlementInv, SettlementTypeOK, DeskStep
<1> HIDE DEF step
<1>6. r \in DeskState /\ r.at = step /\ r.order = desk[d].order /\ r.ticket = desk[d].ticket /\ r.to = desk[d].to
  BY <1>4, <1>5 DEF DeskState
<1>7. Needs(d) = {TicketRow(desk[d].ticket)}
  BY <1>2 DEF Needs
<1>8. lock' \in [Row -> Session \cup Desk \cup {NoSession}] /\ Locking(d) /\ lock'[TicketRow(desk[d].ticket)] = d
  BY <1>1, <1>4, <1>7, DeskTakes, RowFacts
<1> HIDE DEF r
<1> QED BY <1>1, <1>2, <1>3, <1>4, <1>5, <1>6, <1>8, DeskAdvances DEF TicketSteps

LEMMA TicketFindInv ==
  ASSUME SettlementInv, NEW d \in Desk, TicketFind(d)
  PROVE  SettlementInv'
<1>1. desk[d].at = "t_find" /\ UNCHANGED <<rows, note, asked, granted, elsewhere>>
  BY DEF TicketFind
<1>2. /\ desk[d] \in DeskState /\ desk[d].order \in Order /\ desk[d].to = "same"
      /\ lock[TicketRow(desk[d].ticket)] = d
  BY <1>1, DeskKnown DEF Serves, IsRight, TicketSteps
<1>3. CASE Leave(d)
  BY <1>1, <1>3, DeskGivesUp
<1>4. CASE Now(d, "t_close") /\ UNCHANGED lock
  <2>1. PICK r \in DeskState : /\ desk' = [desk EXCEPT ![d] = r] /\ r.at = "t_close"
                               /\ r.order = desk[d].order /\ r.ticket = desk[d].ticket
                               /\ r.to = desk[d].to /\ r.mine = desk[d].mine
    BY <1>4, DeskNow DEF DeskStep
  <2> QED BY <1>1, <1>2, <1>4, <2>1, LockStays, DeskAdvances DEF TicketSteps
<1>5. CASE /\ payment[desk[d].order] = "successful" /\ UNCHANGED lock
           /\ desk' = [desk EXCEPT ![d].seen = note[desk[d].order], ![d].at = "t_ask"]
  <2> DEFINE r == [desk[d] EXCEPT !.seen = note[desk[d].order], !.at = "t_ask"]
  <2>1. desk' = [desk EXCEPT ![d] = r]
    BY <1>5
  <2>2. note[desk[d].order] \in Note /\ "t_ask" \in DeskStep
    BY <1>2 DEF SettlementInv, SettlementTypeOK, DeskStep
  <2>3. r \in DeskState /\ r.at = "t_ask" /\ r.order = desk[d].order /\ r.ticket = desk[d].ticket /\ r.to = desk[d].to
    BY <1>2, <2>2 DEF DeskState
  <2>4. Charged(desk[d].order)
    BY <1>2, <1>5 DEF SettlementInv, SuccessIsCharged
  <2>5. UNCHANGED lock
    BY <1>5
  <2> HIDE DEF r
  <2> QED BY <1>1, <1>2, <2>1, <2>3, <2>4, <2>5, LockStays, DeskAdvances DEF TicketSteps
<1> QED BY <1>3, <1>4, <1>5 DEF TicketFind

LEMMA TicketAskInv ==
  ASSUME SettlementInv, NEW d \in Desk, TicketAsk(d)
  PROVE  SettlementInv'
<1> DEFINE Noted(r) == [desk[d].seen EXCEPT !.each[desk[d].ticket] = r, !.last = r]
           n        == [r \in RefundStatus |-> Noted(r)]
<1>1. Ask(d, desk[d].ticket, n, "t_close") /\ UNCHANGED <<rows, lock, note, elsewhere>>
  BY Zenon DEF TicketAsk
<1>2. /\ desk[d].at = "t_ask" /\ desk[d].ticket \in Ticket /\ desk[d].to = "same"
      /\ Charged(desk[d].order) /\ OrderOf[desk[d].ticket] = desk[d].order
  <2>1. desk[d].at = "t_ask"
    BY Zenon DEF TicketAsk
  <2> QED BY <2>1, DeskKnown DEF Serves, IsRight, TicketSteps
<1>3. desk[d].seen \in Note
  BY DeskKnown DEF DeskState
<1>4. \A r \in RefundStatus : Noted(r) \in Note
  BY <1>2, <1>3, TicketNoted, Zenon
<1>5. desk[d].ticket \in Item /\ Whose(desk[d].ticket) = desk[d].order
  BY <1>2, SettlementAssumption DEF Item, Whose
<1> HIDE DEF Noted
<1>6. \A r \in {"pending", "success"} : n[r] \in Note
  BY <1>4 DEF RefundStatus
<1> HIDE DEF n
<1> QED BY <1>1, <1>2, <1>5, <1>6, DeskAsks DEF TicketSteps

LEMMA TicketCloseInv ==
  ASSUME SettlementInv, NEW d \in Desk, TicketClose(d)
  PROVE  SettlementInv'
<1> DEFINE statuses == {ticket[t] : t \in TicketsOf(desk[d].order)}
           to       == IF ~ statuses \subseteq DeadTicket THEN desk[d].was
                       ELSE IF "refunded" \in statuses THEN "refunded" ELSE "cancelled"
           r        == [desk[d] EXCEPT !.at = "t_order", !.to = to]
<1>1. UNCHANGED <<rows, lock, note, asked, granted, elsewhere>>
  BY DEF TicketClose
<1>2. desk[d].at = "t_close"
  BY DEF TicketClose
<1>3. /\ desk[d] \in DeskState /\ desk[d].to = "same" /\ lock[TicketRow(desk[d].ticket)] = d
  BY <1>2, DeskKnown DEF Serves, IsRight, TicketSteps
<1>4. CASE to = desk[d].was
  <2>1. Now(d, "t_commit")
    BY <1>4 DEF TicketClose, Now
  <2>2. PICK x \in DeskState : /\ desk' = [desk EXCEPT ![d] = x] /\ x.at = "t_commit"
                               /\ x.order = desk[d].order /\ x.ticket = desk[d].ticket
                               /\ x.to = desk[d].to /\ x.mine = desk[d].mine
    BY <2>1, DeskNow DEF DeskStep
  <2> QED BY <1>1, <1>2, <1>3, <2>2, LockStays, DeskAdvances DEF TicketSteps
<1>5. CASE to # desk[d].was
  <2>1. desk' = [desk EXCEPT ![d] = r]
    BY <1>5 DEF TicketClose
  <2>2. to \in {"refunded", "cancelled"} /\ \A t \in TicketsOf(desk[d].order) : ticket[t] \in Over
    BY <1>5 DEF Over
  <2>3. to \in OrderStatus \cup {"same"} /\ "t_order" \in DeskStep
    BY <2>2 DEF OrderStatus, DeskStep
  <2> HIDE DEF to
  <2>4. r \in DeskState /\ r.at = "t_order" /\ r.order = desk[d].order /\ r.ticket = desk[d].ticket
    BY <1>3, <2>3 DEF DeskState
  <2> HIDE DEF r
  <2> QED BY <1>1, <1>2, <1>3, <2>1, <2>2, <2>4, LockStays, DeskAdvances DEF TicketSteps
<1> QED BY <1>4, <1>5

\* A commit that ends the desk's one ticket.
LEMMA DeskEndsTicket ==
  ASSUME SettlementInv, NEW d \in Desk, Leave(d), NEW v \in Over,
         desk[d].at \in {"t_commit", "scan", "verify"},
         lock[TicketRow(desk[d].ticket)] \in {NoSession, d},
         ticket' = [ticket EXCEPT ![desk[d].ticket] = v],
         order' \in [Order -> OrderStatus],
         \A o \in Order : order'[o] = order[o] \/ (o = desk[d].order /\ desk[d].at = "t_commit" /\ desk[d].to # "same"),
         note' \in [Order -> Note],
         UNCHANGED <<payment, review, asked, granted, elsewhere>>
  PROVE  SettlementInv'
<1>1. /\ desk[d].order \in Order /\ desk[d].ticket \in Ticket /\ OrderOf[desk[d].ticket] = desk[d].order
      /\ desk[d].at = "t_commit" /\ desk[d].to # "same"
           => lock[OrderRow(desk[d].order)] = d /\ \A t \in TicketsOf(desk[d].order) : ticket[t] \in Over
  BY DeskKnown DEF Serves, IsRight, TicketSteps
<1>2. v \in TicketStatus /\ v # "active"
  BY DEF Over, DeadTicket, TicketStatus
<1>3. SettlementTypeOK'
  BY <1>2, DeskLeaves DEF SettlementInv, SettlementTypeOK, elsewhere
<1>4. \A o \in Order : order'[o] = order[o] \/ lock[OrderRow(o)] = d
  BY <1>1
<1>5. \A t \in Ticket : \/ ticket'[t] = ticket[t]
                        \/ lock[TicketRow(t)] \in {NoSession, d} /\ ticket'[t] \in Over
  BY DEF SettlementInv, SettlementTypeOK
<1>6. \A t \in Ticket : ticket'[t] = "active" => order'[OrderOf[t]] = order[OrderOf[t]]
  <2> SUFFICES ASSUME NEW t \in Ticket, ticket'[t] = "active"
               PROVE  order'[OrderOf[t]] = order[OrderOf[t]]
    OBVIOUS
  <2>1. ticket[t] = "active" /\ OrderOf[t] \in Order
    BY <1>2, CheckoutAssumption DEF SettlementInv, SettlementTypeOK
  <2> QED BY <1>1, <2>1 DEF TicketsOf, Over, DeadTicket
<1> QED BY <1>3, <1>4, <1>5, <1>6, DeskLeaves, DeskStepInv

LEMMA TicketCommitInv ==
  ASSUME SettlementInv, NEW d \in Desk, TicketCommit(d)
  PROVE  SettlementInv'
<1> DEFINE v == IF desk[d].service = "refund_ticket" THEN "refunded" ELSE "cancelled"
<1>1. /\ ticket' = [ticket EXCEPT ![desk[d].ticket] = v] /\ Leave(d) /\ desk[d].at = "t_commit"
      /\ UNCHANGED <<payment, review, asked, granted, elsewhere>>
  BY DEF TicketCommit, MayGo
<1>2. lock[TicketRow(desk[d].ticket)] = d /\ desk[d].order \in Order /\ desk[d].to \in OrderStatus \cup {"same"}
  BY <1>1, DeskKnown DEF Serves, TicketSteps, DeskState
<1>3. order' = [order EXCEPT ![desk[d].order] = IF desk[d].to = "same" THEN @ ELSE desk[d].to]
  BY DEF TicketCommit
<1>4. /\ order' \in [Order -> OrderStatus]
      /\ \A o \in Order : order'[o] = order[o] \/ (o = desk[d].order /\ desk[d].to # "same")
  BY <1>2, <1>3 DEF SettlementInv, SettlementTypeOK
<1>5. note' \in [Order -> Note]
  <2>1. desk[d].seen \in Note
    BY DeskKnown DEF DeskState
  <2> QED BY <2>1 DEF TicketCommit, SettlementInv, SettlementTypeOK
<1>6. v \in Over
  BY DEF Over, DeadTicket
<1> HIDE DEF v
<1> QED BY <1>1, <1>2, <1>4, <1>5, <1>6, DeskEndsTicket

LEMMA DoorCommitInv ==
  ASSUME SettlementInv, NEW d \in Desk, ScanCommit(d) \/ VerifyCommit(d)
  PROVE  SettlementInv'
<1>1. /\ ticket' = [ticket EXCEPT ![desk[d].ticket] = "used"] /\ Leave(d)
      /\ UNCHANGED <<order, payment, review, note, asked, granted, elsewhere>>
      /\ desk[d].at \in {"scan", "verify"}
  BY DEF ScanCommit, VerifyCommit, MayGo
<1>2. lock[TicketRow(desk[d].ticket)] \in {NoSession, d}
  <2>1. CASE ScanCommit(d)
    BY <2>1, DeskKnown DEF ScanCommit, Serves
  <2>2. CASE VerifyCommit(d)
    BY <2>2 DEF VerifyCommit, MayGo, Needs
  <2> QED BY <2>1, <2>2
<1>3. "used" \in Over /\ order' \in [Order -> OrderStatus] /\ note' \in [Order -> Note]
  BY <1>1 DEF Over, SettlementInv, SettlementTypeOK
<1>4. \A o \in Order : order'[o] = order[o]
  BY <1>1
<1> QED BY <1>1, <1>2, <1>3, <1>4, DeskEndsTicket

LEMMA ProviderSettlesInv ==
  ASSUME SettlementInv, NEW i \in Item, ProviderSettles(i)
  PROVE  SettlementInv'
<1>1. UNCHANGED <<rows, lock, note, asked, desk, elsewhere>>
  BY DEF ProviderSettles
<1>2. granted' \in [Item -> RefundStatus]
  BY DEF ProviderSettles, SettlementInv, SettlementTypeOK, RefundStatus
<1> QED
  BY <1>1, <1>2 DEF SettlementInv, SettlementTypeOK, SellerInv, DeskInv, Serves, IsRight, Charged,
     ActiveTicketIsSold, SuccessIsCharged, RefundsAreOfReceivedMoney, rows, elsewhere

-----------------------------------------------------------------------------
LEMMA SettlementInitInv == SettlementInit => SettlementInv
<1> SUFFICES ASSUME SettlementInit PROVE SettlementInv
  OBVIOUS
<1> USE DEF SettlementInit, Init, NothingAsked
<1>1. NoNote \in Note
  BY DEF NoNote, Note, RefundStatus
<1>2. desk \in [Desk -> DeskState]
  BY RestIsAState
<1>3. SettlementTypeOK
  BY <1>1, <1>2, SettlementAssumption
     DEF SettlementTypeOK, OrderStatus, PaymentStatus, TicketStatus, ChargeStatus, Step, RefundStatus
<1>4. \A s \in Session : SellerInv(s)
  BY Apart, RowFacts DEF SellerInv
<1>5. \A d \in Desk : DeskInv(d)
  BY DEF DeskInv, Serves, IsRight, TicketSteps, AtRest
<1>6. ActiveTicketIsSold /\ SuccessIsCharged /\ RefundsAreOfReceivedMoney
  BY DEF ActiveTicketIsSold, SuccessIsCharged, RefundsAreOfReceivedMoney
<1> QED BY <1>3, <1>4, <1>5, <1>6 DEF SettlementInv

LEMMA DeskContinuesInv ==
  ASSUME SettlementInv, NEW d \in Desk, DeskContinues(d)
  PROVE  SettlementInv'
  BY OrderFindInv, OrderAskInv, OrderTicketsInv, FlushOrderInv, OrderCommitInv, NoteCommitInv,
     TicketLockInv, TicketFindInv, TicketAskInv, TicketCloseInv, TicketCommitInv, DoorCommitInv
     DEF DeskContinues

LEMMA SettlementNextInv == SettlementInv /\ [SettlementNext]_allVars => SettlementInv'
<1> SUFFICES ASSUME SettlementInv, [SettlementNext]_allVars PROVE SettlementInv'
  OBVIOUS
<1>1. CASE Next /\ UNCHANGED settled
  BY <1>1, CheckoutGoesOn
<1>2. ASSUME NEW d \in Desk, DeskAbort(d) PROVE SettlementInv'
  BY <1>2, DeskGivesUp DEF DeskAbort
<1>3. CASE UNCHANGED allVars
  BY <1>3 DEF allVars, vars, settled, SettlementInv, SettlementTypeOK, SellerInv, DeskInv, Serves, IsRight, Charged,
              ActiveTicketIsSold, SuccessIsCharged, RefundsAreOfReceivedMoney
<1> QED
  BY <1>1, <1>2, <1>3, DeskContinuesInv, DeskStartsInv, ProviderSettlesInv DEF SettlementNext, SettlementProceeds

THEOREM SettlementInvariance == SettlementSpec => []SettlementInv
  BY SettlementInitInv, SettlementNextInv, PTL DEF SettlementSpec

\* Whatever refunds, cancellations and doors run beside the checkout, each by
\* what it read before, a ticket admits only under a confirmed, charged order.
THEOREM TicketsThatAdmitAreSold == SettlementSpec => []ActiveTicketIsSold
<1>1. SettlementInv => ActiveTicketIsSold
  BY DEF SettlementInv
<1> QED BY <1>1, SettlementInvariance, PTL

\* refund_order and refund_single_ticket never ask the provider for money it
\* has not confirmed to have taken.
THEOREM OnlyReceivedMoneyIsRefunded == SettlementSpec => []RefundsAreOfReceivedMoney
<1>1. SettlementInv => RefundsAreOfReceivedMoney
  BY DEF SettlementInv
<1> QED BY <1>1, SettlementInvariance, PTL

\* A checkout session moves only tickets still to be paid.
LEMMA SellersLeaveTheDead ==
  ASSUME SettlementInv, Next, NEW t \in Ticket, ticket[t] \in DeadTicket
  PROVE  ticket'[t] = ticket[t]
<1>1. ASSUME NEW s \in Session, SweepCommit(s) \/ ApplyConfirm(s) \/ CancelCommit(s) \/ ReleaseCommit(s)
      PROVE  ticket'[t] = ticket[t]
  BY <1>1 DEF SweepCommit, ApplyConfirm, CancelCommit, ReleaseCommit, MoveTickets, DeadTicket, ReleasableTicket
<1>2. ASSUME NEW s \in Session, Continue(s) \/ Abort(s),
             ~ (SweepCommit(s) \/ ApplyConfirm(s) \/ CancelCommit(s) \/ ReleaseCommit(s))
      PROVE  ticket'[t] = ticket[t]
  BY <1>2 DEF Continue, Abort, SweepPayment, SweepOrder, SweepTickets, ApplyLockPayment, ApplyVerify, ApplyMismatch,
              ApplyLockOrder, ApplyLate, CancelVerify, CancelLockPayment, CancelLockOrder, InitializeCall,
              InitializeInsert, ReleaseLockPayment, ReleaseLockOrder, rows
<1>3. ASSUME NEW s \in Session, Arrive(s) \/ SweepStart(s, Order)
      PROVE  ticket'[t] = ticket[t]
  BY <1>3 DEF Arrive, SweepStart, ApplyStart, CancelStart, InitializeStart, rows
<1>4. ASSUME NEW o \in Order, TimePasses(o) \/ ChargeMoves(o)
      PROVE  ticket'[t] = ticket[t]
  BY <1>4 DEF TimePasses, ChargeMoves, rows
<1> QED BY <1>1, <1>2, <1>3, <1>4 DEF Next, Proceed, Session

\* Only the verification of attendance, which admits by a status it read
\* without a lock, ever takes a ticket out of cancelled, refunded or expired:
\* no confirmation, refund, cancellation or scan does, whatever it read before.
THEOREM EndedStaysEnded == SettlementSpec => OnlyVerificationRevives
<1>1. ASSUME SettlementInv, SettlementNext, \A d \in Desk : ~VerifyCommit(d), NEW t \in Ticket, ticket[t] \in DeadTicket
      PROVE  ticket'[t] \in DeadTicket
  <2>1. CASE Next /\ UNCHANGED settled
    BY <1>1, <2>1, SellersLeaveTheDead
  <2>2. ASSUME NEW d \in Desk, OrderCommit(d)
        PROVE  ticket'[t] \in DeadTicket
    BY <1>1, <2>2 DEF OrderCommit, DeadTicket
  <2>3. ASSUME NEW d \in Desk, TicketCommit(d)
        PROVE  ticket'[t] \in DeadTicket
    BY <1>1, <2>3 DEF TicketCommit, DeadTicket, SettlementInv, SettlementTypeOK
  <2>4. ASSUME NEW d \in Desk, ScanCommit(d)
        PROVE  ticket'[t] \in DeadTicket
    <3>1. ticket[desk[d].ticket] = "active" /\ ticket' = [ticket EXCEPT ![desk[d].ticket] = "used"]
      BY <1>1, <2>4, DeskKnown DEF ScanCommit, IsRight
    <3> QED BY <1>1, <3>1 DEF DeadTicket, SettlementInv, SettlementTypeOK
  <2>5. ASSUME NEW d \in Desk, DeskContinues(d) \/ DeskStarts(d) \/ DeskAbort(d),
               ~ (OrderCommit(d) \/ TicketCommit(d) \/ ScanCommit(d))
        PROVE  ticket'[t] \in DeadTicket
    <3>1. OrderFind(d) \/ OrderAsk(d) \/ OrderTickets(d) \/ FlushOrder(d) => UNCHANGED rows
      BY Zenon DEF OrderFind, OrderAsk, OrderTickets, FlushOrder
    <3>2. TicketLock(d) \/ TicketFind(d) \/ TicketAsk(d) \/ TicketClose(d) \/ DeskAbort(d) => UNCHANGED rows
      BY Zenon DEF TicketLock, TicketFind, TicketAsk, TicketClose, DeskAbort
    <3>3. NoteCommit(d) => ticket' = ticket
      BY Zenon DEF NoteCommit
    <3>4. DeskStarts(d) => UNCHANGED rows
      BY Zenon DEF DeskStarts, RefundStart, TicketStart, ScanLock, VerifyStart
    <3> QED BY <1>1, <2>5, <3>1, <3>2, <3>3, <3>4 DEF DeskContinues, rows
  <2>6. ASSUME NEW i \in Item, ProviderSettles(i)
        PROVE  ticket'[t] \in DeadTicket
    BY <1>1, <2>6 DEF ProviderSettles, rows
  <2> QED BY <1>1, <2>1, <2>2, <2>3, <2>4, <2>5, <2>6 DEF SettlementNext, SettlementProceeds
<1>2. SettlementInv /\ [SettlementNext]_allVars => [KeepsEnded \/ \E d \in Desk : VerifyCommit(d)]_allVars
  BY <1>1 DEF KeepsEnded
<1> QED BY <1>2, SettlementInvariance, PTL DEF SettlementSpec, OnlyVerificationRevives
=============================================================================
