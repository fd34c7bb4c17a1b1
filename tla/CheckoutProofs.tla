--------------------------- MODULE CheckoutProofs ---------------------------
(***************************************************************************)
(* Proofs about Checkout for any sets of orders, tickets and sessions.     *)
(*                                                                         *)
(* What a transaction checked under a row lock still holds when it commits *)
(* is an invariant of the lock table (the *Held* formulas); with it every  *)
(* commit moves the order, its tickets and its payment together.           *)
(***************************************************************************)
EXTENDS Checkout, TLAPS

SweepStep  == {"s_pay", "s_order", "s_tickets", "s_commit"}
ApplyStep  == {"a_verify", "a_mismatch", "a_order", "a_commit"}
CancelStep == {"c_order", "c_commit"}
Unlocked   == {"idle", "a_pay", "c_verify", "c_pay", "i_call", "i_insert", "r_pay"}

\* A session in a handler works on an order, and the handlers of a payment are
\* given one.
WorksOnRows(s) ==
  /\ pc[s] # "idle" => on[s] \in Order
  /\ pc[s] \in ApplyStep \cup CancelStep \cup {"a_pay", "c_verify", "c_pay"}
       => payment[on[s]] # "none"

\* The rows each step has behind it.
HoldsRows(s) ==
  /\ pc[s] \in Unlocked => \A w \in Row : lock[w] # s
  /\ pc[s] \in ApplyStep \cup CancelStep => lock[PaymentRow(on[s])] = s
  /\ pc[s] \in {"s_tickets", "a_commit", "c_commit", "r_commit"} => lock[OrderRow(on[s])] = s

\* What was read under a lock is still so.
HeldOrderIsPending(s) ==
  \A o \in Order : lock[OrderRow(o)] = s /\ pc[s] # "a_commit" => order[o] = "pending"
HeldPaymentIsOpen(s) ==
  \A o \in Order : lock[PaymentRow(o)] = s =>
    /\ payment[o] # "none"
    /\ pc[s] \in SweepStep  => payment[o] = "pending"
    /\ pc[s] \in ApplyStep  => payment[o] # "successful"
    /\ pc[s] \in CancelStep => payment[o] \in ReleasablePayment

\* A sweep gives up a payment's order only when somebody concluded it.
SweptOrderIsHeldOrEnded(s) ==
  \A o \in Order :
    pc[s] \in SweepStep /\ lock[PaymentRow(o)] = s /\ lock[OrderRow(o)] # s
      => order[o] # "pending" \/ (pc[s] = "s_order" /\ on[s] = o)

ChargeIsVerified(s) ==
  pc[s] \in {"a_order", "a_commit"} => charge[on[s]] \in {"paid", "reversed"}

SessionInv(s) ==
  /\ WorksOnRows(s) /\ HoldsRows(s) /\ HeldOrderIsPending(s) /\ HeldPaymentIsOpen(s)
  /\ SweptOrderIsHeldOrEnded(s) /\ ChargeIsVerified(s)

\* Refunds are not part of this module, and a review is never of a live order.
NeverRefunded == \A o \in Order : order[o] # "refunded"
ReviewIsOfEndedOrder == \A o \in review : order[o] \notin {"pending", "confirmed"}

SaleInv == /\ NeverRefunded /\ ReviewIsOfEndedOrder /\ TicketsFollowOrder /\ SaleIsPaid
           /\ MoneyIsAccountedFor /\ CancelledPaymentHasEndedOrder

IInv == TypeOK /\ (\A s \in Session : SessionInv(s)) /\ SaleInv

-----------------------------------------------------------------------------
\* Rows of different tables, and of different keys, are different rows.
LEMMA RowFacts ==
  /\ \A o \in Order : PaymentRow(o) \in Row /\ OrderRow(o) \in Row
  /\ \A t \in Ticket : TicketRow(t) \in Row
  /\ \A o, p \in Order : /\ PaymentRow(o) # OrderRow(p)
                         /\ PaymentRow(o) = PaymentRow(p) => o = p
                         /\ OrderRow(o) = OrderRow(p) => o = p
  /\ \A o \in Order, t \in Ticket : TicketRow(t) # PaymentRow(o) /\ TicketRow(t) # OrderRow(o)
  BY DEF PaymentRow, OrderRow, TicketRow, Row

\* What the next statement of a session locks.
LEMMA WantsFacts ==
  ASSUME NEW s \in Session
  PROVE  /\ pc[s] = "s_pay" =>
              Wants(s) = IF payment[on[s]] = "pending" THEN {PaymentRow(on[s])} ELSE {}
         /\ pc[s] = "s_order" =>
              Wants(s) = IF order[on[s]] = "pending" THEN {OrderRow(on[s])} ELSE {}
         /\ pc[s] \in {"a_pay", "c_pay", "r_pay"} =>
              Wants(s) = IF payment[on[s]] # "none" THEN {PaymentRow(on[s])} ELSE {}
         /\ pc[s] \in {"a_order", "a_mismatch", "c_order", "r_order", "i_insert"} =>
              Wants(s) = {OrderRow(on[s])}
         /\ pc[s] \in {"s_tickets", "a_commit", "c_commit", "r_commit"} =>
              Wants(s) = {TicketRow(t) : t \in TicketsOf(on[s])}
<1>1. ASSUME pc[s] = "s_pay"
      PROVE  Wants(s) = IF payment[on[s]] = "pending" THEN {PaymentRow(on[s])} ELSE {}
  BY <1>1 DEF Wants
<1>2. ASSUME pc[s] = "s_order"
      PROVE  Wants(s) = IF order[on[s]] = "pending" THEN {OrderRow(on[s])} ELSE {}
  BY <1>2 DEF Wants
<1>3. ASSUME pc[s] \in {"a_pay", "c_pay", "r_pay"}
      PROVE  Wants(s) = IF payment[on[s]] # "none" THEN {PaymentRow(on[s])} ELSE {}
  BY <1>3 DEF Wants
<1>4. ASSUME pc[s] \in {"a_order", "a_mismatch", "c_order", "r_order", "i_insert"}
      PROVE  Wants(s) = {OrderRow(on[s])}
  BY <1>4 DEF Wants
<1>5. ASSUME pc[s] \in {"s_tickets", "a_commit", "c_commit", "r_commit"}
      PROVE  Wants(s) = {TicketRow(t) : t \in TicketsOf(on[s])}
  BY <1>5 DEF Wants
<1> QED BY <1>1, <1>2, <1>3, <1>4, <1>5

\* A lock taken from nobody is taken from no other session.
LEMMA TakeLocksFrame ==
  ASSUME TypeOK, NEW s \in Session, NEW x \in Session, x # s, MayLock(s), TakeLocks(s)
  PROVE  \A w \in Row : lock'[w] = x <=> lock[w] = x
<1> SUFFICES ASSUME NEW w \in Row
             PROVE  lock'[w] = x <=> lock[w] = x
  OBVIOUS
<1>1. lock'[w] = IF w \in Wants(s) THEN s ELSE lock[w]
  BY DEF TakeLocks
<1>2. CASE w \in Wants(s)
  <2>1. lock[w] \in {NoSession, s}
    BY <1>2 DEF MayLock, Holders
  <2> QED BY <1>1, <1>2, <2>1, CheckoutAssumption
<1>3. CASE w \notin Wants(s)
  BY <1>1, <1>3
<1> QED BY <1>2, <1>3

LEMMA TakeLocksType ==
  ASSUME TypeOK, NEW s \in Session, TakeLocks(s)
  PROVE  lock' \in [Row -> Session \cup {NoSession}]
  BY DEF TypeOK, TakeLocks

\* Ending a transaction frees the rows of its session and no other's.
LEMMA EndTransactionFrame ==
  ASSUME TypeOK, NEW s \in Session, EndTransaction(s)
  PROVE  /\ lock' \in [Row -> Session \cup {NoSession}]
         /\ pc' \in [Session -> Step] /\ on' \in [Session -> Order \cup {NoOrder}]
         /\ todo' \in [Session -> SUBSET Order]
         /\ pc'[s] = "idle"
         /\ \A w \in Row : lock'[w] # s
         /\ \A x \in Session \ {s} :
              /\ pc'[x] = pc[x] /\ on'[x] = on[x]
              /\ \A w \in Row : lock'[w] = x <=> lock[w] = x
<1>1. \A w \in Row : lock'[w] = IF lock[w] = s THEN NoSession ELSE lock[w]
  BY DEF EndTransaction
<1>2. NoSession \notin Session
  BY CheckoutAssumption
<1>3. lock' \in [Row -> Session \cup {NoSession}]
  BY DEF EndTransaction, TypeOK
<1>4. \A w \in Row : lock'[w] # s
  BY <1>1, <1>2
<1>5. \A x \in Session \ {s} : \A w \in Row : lock'[w] = x <=> lock[w] = x
  BY <1>1, <1>2
<1>6. /\ pc' \in [Session -> Step] /\ on' \in [Session -> Order \cup {NoOrder}]
      /\ todo' \in [Session -> SUBSET Order]
      /\ pc'[s] = "idle"
      /\ \A x \in Session \ {s} : pc'[x] = pc[x] /\ on'[x] = on[x]
  BY DEF EndTransaction, Goto, TypeOK, Step
<1> QED BY <1>3, <1>4, <1>5, <1>6

\* A session left idle and holding nothing satisfies its invariant.
LEMMA IdleSessionInv ==
  ASSUME NEW s \in Session, pc'[s] = "idle", \A w \in Row : lock'[w] # s
  PROVE  SessionInv(s)'
  BY RowFacts DEF SessionInv, WorksOnRows, HoldsRows, HeldOrderIsPending, HeldPaymentIsOpen,
     SweptOrderIsHeldOrEnded, ChargeIsVerified, SweepStep, ApplyStep, CancelStep

\* A session whose own place, locks and locked rows are left alone keeps its
\* invariant, whatever else another session commits.
LEMMA UndisturbedSessionInv ==
  ASSUME TypeOK, NEW x \in Session, SessionInv(x),
         pc'[x] = pc[x], on'[x] = on[x],
         \A w \in Row : lock'[w] = x <=> lock[w] = x,
         \A o \in Order : lock[PaymentRow(o)] = x => payment'[o] = payment[o],
         \A o \in Order : lock[OrderRow(o)] = x => order'[o] = order[o],
         \A o \in Order : payment[o] # "none" => payment'[o] # "none",
         \A o \in Order : order[o] # "pending" => order'[o] # "pending",
         \A o \in Order : charge[o] \in {"paid", "reversed"} => charge'[o] \in {"paid", "reversed"}
  PROVE  SessionInv(x)'
<1> USE DEF SessionInv
<1>1. WorksOnRows(x)'
  BY DEF WorksOnRows, ApplyStep, CancelStep
<1>2. HoldsRows(x)'
  BY RowFacts DEF HoldsRows, WorksOnRows, ApplyStep, CancelStep
<1>3. HeldOrderIsPending(x)'
  BY RowFacts DEF HeldOrderIsPending
<1>4. HeldPaymentIsOpen(x)'
  BY RowFacts DEF HeldPaymentIsOpen
<1>5. SweptOrderIsHeldOrEnded(x)'
  BY RowFacts DEF SweptOrderIsHeldOrEnded
<1>6. ChargeIsVerified(x)'
  BY DEF ChargeIsVerified, WorksOnRows
<1> QED BY <1>1, <1>2, <1>3, <1>4, <1>5, <1>6

\* A commit whose writes stay within the rows its session holds (or insert a
\* payment) keeps the invariant of every session.
LEMMA CommitKeepsSessions ==
  ASSUME IInv, NEW s \in Session, EndTransaction(s), UNCHANGED charge,
         \A o \in Order : \/ payment'[o] = payment[o]
                          \/ lock[PaymentRow(o)] = s
                          \/ payment[o] = "none",
         \A o \in Order : payment[o] # "none" => payment'[o] # "none",
         \A o \in Order : order'[o] = order[o] \/ lock[OrderRow(o)] = s,
         \A o \in Order : order[o] # "pending" => order'[o] # "pending"
  PROVE  \A x \in Session : SessionInv(x)'
<1> SUFFICES ASSUME NEW x \in Session
             PROVE  SessionInv(x)'
  OBVIOUS
<1> USE DEF IInv
<1>1. CASE x = s
  BY <1>1, EndTransactionFrame, IdleSessionInv
<1>2. CASE x # s
  <2>1. /\ pc'[x] = pc[x] /\ on'[x] = on[x]
        /\ \A w \in Row : lock'[w] = x <=> lock[w] = x
    BY <1>2, EndTransactionFrame
  <2>2. \A o \in Order : lock[PaymentRow(o)] = x => payment'[o] = payment[o]
    BY <1>2 DEF SessionInv, HeldPaymentIsOpen
  <2>3. \A o \in Order : lock[OrderRow(o)] = x => order'[o] = order[o]
    BY <1>2
  <2> QED BY <2>1, <2>2, <2>3, UndisturbedSessionInv
<1> QED BY <1>1, <1>2

\* A step that at most takes locks keeps the invariant of the other sessions.
LEMMA StepKeepsOthers ==
  ASSUME IInv, NEW s \in Session, UNCHANGED <<order, payment>>,
         \A o \in Order : charge[o] \in {"paid", "reversed"} => charge'[o] \in {"paid", "reversed"},
         \A x \in Session \ {s} : pc'[x] = pc[x] /\ on'[x] = on[x],
         (MayLock(s) /\ TakeLocks(s)) \/ UNCHANGED lock
  PROVE  \A x \in Session \ {s} : SessionInv(x)'
<1> SUFFICES ASSUME NEW x \in Session \ {s}
             PROVE  SessionInv(x)'
  OBVIOUS
<1> USE DEF IInv
<1>1. \A w \in Row : lock'[w] = x <=> lock[w] = x
  BY TakeLocksFrame
<1> QED BY <1>1, UndisturbedSessionInv

-----------------------------------------------------------------------------
\* Steps that write nothing: the sale part of the invariant is untouched.
LEMMA SaleInvUnchanged ==
  ASSUME SaleInv, UNCHANGED <<order, payment, review, ticket>>,
         \A o \in Order : charge[o] \in {"paid", "reversed"} => charge'[o] \in {"paid", "reversed"}
  PROVE  SaleInv'
  BY DEF SaleInv, NeverRefunded, ReviewIsOfEndedOrder, TicketsFollowOrder, SaleIsPaid,
     MoneyIsAccountedFor, CancelledPaymentHasEndedOrder

\* A transaction that ends without writing.
LEMMA RollbackInv ==
  ASSUME IInv, NEW s \in Session, EndTransaction(s), UNCHANGED <<rows, overdue, charge>>
  PROVE  IInv'
<1>1. TypeOK'
  BY EndTransactionFrame DEF IInv, TypeOK, rows
<1>2. \A x \in Session : SessionInv(x)'
  BY CommitKeepsSessions DEF rows
<1>3. SaleInv'
  BY SaleInvUnchanged DEF IInv, rows
<1> QED BY <1>1, <1>2, <1>3 DEF IInv

\* A step that at most takes locks, once its own session is shown to be right.
LEMMA LockStepInv ==
  ASSUME IInv, NEW s \in Session, UNCHANGED <<rows, overdue, charge>>,
         pc' \in [Session -> Step], on' \in [Session -> Order \cup {NoOrder}],
         todo' \in [Session -> SUBSET Order],
         \A x \in Session \ {s} : pc'[x] = pc[x] /\ on'[x] = on[x],
         (MayLock(s) /\ TakeLocks(s)) \/ UNCHANGED lock,
         SessionInv(s)'
  PROVE  IInv'
<1>1. TypeOK'
  BY TakeLocksType DEF IInv, TypeOK, rows
<1>2. \A x \in Session : SessionInv(x)'
  BY StepKeepsOthers DEF rows
<1>3. SaleInv'
  BY SaleInvUnchanged DEF IInv, rows
<1> QED BY <1>1, <1>2, <1>3 DEF IInv

-----------------------------------------------------------------------------
\* expire_pending_orders.
LEMMA NextCandidateFacts ==
  ASSUME IInv, NEW s \in Session, NEW rest \in SUBSET Order, NextCandidate(s, rest),
         pc[s] # "idle" => on[s] \in Order, rest # {} \/ pc[s] # "idle"
  PROVE  /\ pc' \in [Session -> Step] /\ on' \in [Session -> Order \cup {NoOrder}]
         /\ todo' \in [Session -> SUBSET Order]
         /\ pc'[s] \in {"s_pay", "s_commit"}
         /\ on'[s] \in Order
         /\ \A x \in Session \ {s} : pc'[x] = pc[x] /\ on'[x] = on[x]
<1> USE DEF IInv, TypeOK
<1>1. CASE rest = {}
  BY <1>1 DEF NextCandidate, Goto, Step
<1>2. CASE rest # {}
  <2>1. PICK o \in rest : /\ pc' = [pc EXCEPT ![s] = "s_pay"]
                          /\ on' = [on EXCEPT ![s] = o]
                          /\ todo' = [todo EXCEPT ![s] = rest \ {o}]
    BY <1>2 DEF NextCandidate, Goto
  <2> QED BY <2>1 DEF Step
<1> QED BY <1>1, <1>2

LEMMA SweepStartInv ==
  ASSUME IInv, NEW s \in Session, NEW scope \in SUBSET Order, SweepStart(s, scope)
  PROVE  IInv'
<1> DEFINE candidates == {o \in scope \cap overdue : order[o] = "pending"}
<1>1. candidates \in SUBSET Order /\ candidates # {} /\ NextCandidate(s, candidates)
      /\ pc[s] = "idle" /\ UNCHANGED <<rows, overdue, charge, lock>>
  BY DEF SweepStart
<1>2. /\ pc' \in [Session -> Step] /\ on' \in [Session -> Order \cup {NoOrder}]
      /\ todo' \in [Session -> SUBSET Order]
      /\ pc'[s] \in {"s_pay", "s_commit"} /\ on'[s] \in Order
      /\ \A x \in Session \ {s} : pc'[x] = pc[x] /\ on'[x] = on[x]
  BY <1>1, NextCandidateFacts
<1>3. \A w \in Row : lock'[w] # s
  BY <1>1 DEF IInv, SessionInv, HoldsRows, Unlocked
<1>4. SessionInv(s)'
  BY <1>2, <1>3, RowFacts
  DEF SessionInv, WorksOnRows, HoldsRows, HeldOrderIsPending, HeldPaymentIsOpen,
      SweptOrderIsHeldOrEnded, ChargeIsVerified, ApplyStep, CancelStep, Unlocked
<1> QED BY <1>1, <1>2, <1>4, LockStepInv

LEMMA SweepPaymentInv ==
  ASSUME IInv, NEW s \in Session, SweepPayment(s)
  PROVE  IInv'
<1> DEFINE o == on[s]
<1>1. /\ pc[s] = "s_pay" /\ MayLock(s) /\ TakeLocks(s)
      /\ UNCHANGED <<rows, overdue, charge, on, todo>>
      /\ pc' = [pc EXCEPT ![s] = "s_order"]
  BY DEF SweepPayment, Goto
<1>2. o \in Order
  BY <1>1 DEF IInv, SessionInv, WorksOnRows
<1>3. \A w \in Row : lock'[w] = IF payment[o] = "pending" /\ w = PaymentRow(o) THEN s ELSE lock[w]
  BY <1>1, WantsFacts DEF TakeLocks
<1>4. pc'[s] = "s_order" /\ on' = on /\ pc' \in [Session -> Step]
      /\ \A x \in Session \ {s} : pc'[x] = pc[x]
  BY <1>1 DEF IInv, TypeOK, Step
<1>5. \A p \in Order : lock'[OrderRow(p)] = lock[OrderRow(p)]
  BY <1>2, <1>3, RowFacts
<1>6. \A p \in Order : lock'[PaymentRow(p)] = s
         => lock[PaymentRow(p)] = s \/ (p = o /\ payment[o] = "pending")
  BY <1>2, <1>3, RowFacts
<1>7. SessionInv(s)'
  BY <1>1, <1>2, <1>4, <1>5, <1>6
  DEF IInv, SessionInv, WorksOnRows, HoldsRows, HeldOrderIsPending, HeldPaymentIsOpen,
      SweptOrderIsHeldOrEnded, ChargeIsVerified, SweepStep, ApplyStep, CancelStep, Unlocked, rows
<1> QED BY <1>1, <1>4, <1>7, LockStepInv DEF IInv, TypeOK

\* Locking the tickets of an order leaves payment and order rows as they were.
LEMMA TicketLocks ==
  ASSUME IInv, NEW s \in Session, TakeLocks(s),
         pc[s] \in {"s_tickets", "a_commit", "c_commit", "r_commit"}
  PROVE  \A o \in Order : /\ lock'[PaymentRow(o)] = lock[PaymentRow(o)]
                          /\ lock'[OrderRow(o)] = lock[OrderRow(o)]
<1>1. Wants(s) = {TicketRow(t) : t \in TicketsOf(on[s])}
  BY WantsFacts
<1>2. \A o \in Order : PaymentRow(o) \notin Wants(s) /\ OrderRow(o) \notin Wants(s)
  BY <1>1, RowFacts DEF TicketsOf
<1> QED BY <1>2, RowFacts DEF TakeLocks

LEMMA SweepOrderInv ==
  ASSUME IInv, NEW s \in Session, SweepOrder(s)
  PROVE  IInv'
<1> DEFINE o == on[s]
<1>1. pc[s] = "s_order" /\ MayLock(s) /\ UNCHANGED <<rows, overdue, charge>> /\ o \in Order
  BY DEF SweepOrder, IInv, SessionInv, WorksOnRows
<1>2. CASE order[o] = "pending"
  <2>1. /\ TakeLocks(s) /\ on' = on /\ todo' = todo
        /\ pc' = [pc EXCEPT ![s] = "s_tickets"]
    BY <1>2 DEF SweepOrder, Goto
  <2>2. pc'[s] = "s_tickets" /\ pc' \in [Session -> Step]
        /\ \A x \in Session \ {s} : pc'[x] = pc[x]
    BY <2>1 DEF IInv, TypeOK, Step
  <2>3. \A w \in Row : lock'[w] = IF w = OrderRow(o) THEN s ELSE lock[w]
    BY <1>1, <1>2, <2>1, WantsFacts DEF TakeLocks
  <2>4. /\ \A p \in Order : lock'[PaymentRow(p)] = lock[PaymentRow(p)]
        /\ \A p \in Order : lock'[OrderRow(p)] = IF p = o THEN s ELSE lock[OrderRow(p)]
    BY <1>1, <2>3, RowFacts
  <2>5. SessionInv(s)'
    BY <1>1, <1>2, <2>1, <2>2, <2>4
    DEF IInv, SessionInv, WorksOnRows, HoldsRows, HeldOrderIsPending, HeldPaymentIsOpen,
        SweptOrderIsHeldOrEnded, ChargeIsVerified, SweepStep, ApplyStep, CancelStep, Unlocked, rows
  <2> QED BY <1>1, <2>1, <2>2, <2>5, LockStepInv DEF IInv, TypeOK
<1>3. CASE order[o] # "pending"
  <2>1. NextCandidate(s, todo[s]) /\ UNCHANGED lock /\ todo[s] \in SUBSET Order
    BY <1>3 DEF SweepOrder, IInv, TypeOK
  <2>2. /\ pc' \in [Session -> Step] /\ on' \in [Session -> Order \cup {NoOrder}]
        /\ todo' \in [Session -> SUBSET Order]
        /\ pc'[s] \in {"s_pay", "s_commit"} /\ on'[s] \in Order
        /\ \A x \in Session \ {s} : pc'[x] = pc[x] /\ on'[x] = on[x]
    BY <1>1, <2>1, NextCandidateFacts
  <2>3. SessionInv(s)'
    BY <1>1, <1>3, <2>1, <2>2
    DEF IInv, SessionInv, WorksOnRows, HoldsRows, HeldOrderIsPending, HeldPaymentIsOpen,
        SweptOrderIsHeldOrEnded, ChargeIsVerified, SweepStep, ApplyStep, CancelStep, Unlocked, rows
  <2> QED BY <1>1, <2>1, <2>2, <2>3, LockStepInv
<1> QED BY <1>2, <1>3

LEMMA SweepTicketsInv ==
  ASSUME IInv, NEW s \in Session, SweepTickets(s)
  PROVE  IInv'
<1>1. /\ pc[s] = "s_tickets" /\ MayLock(s) /\ TakeLocks(s)
      /\ UNCHANGED <<rows, overdue, charge>>
      /\ on[s] \in Order /\ NextCandidate(s, todo[s]) /\ todo[s] \in SUBSET Order
  BY DEF SweepTickets, IInv, TypeOK, SessionInv, WorksOnRows
<1>2. /\ pc' \in [Session -> Step] /\ on' \in [Session -> Order \cup {NoOrder}]
      /\ todo' \in [Session -> SUBSET Order]
      /\ pc'[s] \in {"s_pay", "s_commit"} /\ on'[s] \in Order
      /\ \A x \in Session \ {s} : pc'[x] = pc[x] /\ on'[x] = on[x]
  BY <1>1, NextCandidateFacts
<1>3. \A o \in Order : /\ lock'[PaymentRow(o)] = lock[PaymentRow(o)]
                       /\ lock'[OrderRow(o)] = lock[OrderRow(o)]
  BY <1>1, TicketLocks
<1>4. SessionInv(s)'
  BY <1>1, <1>2, <1>3
  DEF IInv, SessionInv, WorksOnRows, HoldsRows, HeldOrderIsPending, HeldPaymentIsOpen,
      SweptOrderIsHeldOrEnded, ChargeIsVerified, SweepStep, ApplyStep, CancelStep, Unlocked, rows
<1> QED BY <1>1, <1>2, <1>4, LockStepInv

LEMMA SweepCommitInv ==
  ASSUME IInv, NEW s \in Session, SweepCommit(s)
  PROVE  IInv'
<1> DEFINE expired == {o \in Order : lock[OrderRow(o)] = s}
<1>1. /\ pc[s] = "s_commit" /\ EndTransaction(s) /\ UNCHANGED <<review, overdue, charge>>
      /\ order' = [o \in Order |-> IF o \in expired THEN "expired" ELSE order[o]]
      /\ payment' = [o \in Order |-> IF lock[PaymentRow(o)] = s THEN "cancelled" ELSE payment[o]]
      /\ ticket' = [t \in Ticket |->
                      IF OrderOf[t] \in expired /\ ticket[t] \in ReleasableTicket
                      THEN "expired" ELSE ticket[t]]
  BY DEF SweepCommit, MoveTickets
<1>2. \A o \in expired : order[o] = "pending"
  BY <1>1 DEF IInv, SessionInv, HeldOrderIsPending
<1>3. \A o \in Order : lock[PaymentRow(o)] = s =>
        payment[o] = "pending" /\ (o \in expired \/ order[o] # "pending")
  BY <1>1 DEF IInv, SessionInv, HeldPaymentIsOpen, SweptOrderIsHeldOrEnded, SweepStep
<1>4. TypeOK'
  BY <1>1, EndTransactionFrame
  DEF IInv, TypeOK, OrderStatus, PaymentStatus, TicketStatus
<1>5. \A x \in Session : SessionInv(x)'
  BY <1>1, CommitKeepsSessions DEF IInv, TypeOK
<1>6. NeverRefunded' /\ ReviewIsOfEndedOrder'
  BY <1>1 DEF IInv, TypeOK, SaleInv, NeverRefunded, ReviewIsOfEndedOrder
<1>7. TicketsFollowOrder'
  BY <1>1, <1>2, CheckoutAssumption
  DEF IInv, TypeOK, SaleInv, TicketsFollowOrder, ReleasableTicket
<1>8. SaleIsPaid'
  BY <1>1, <1>3 DEF IInv, TypeOK, SaleInv, SaleIsPaid
<1>9. MoneyIsAccountedFor'
  BY <1>1, <1>2 DEF IInv, TypeOK, SaleInv, MoneyIsAccountedFor, ReviewIsOfEndedOrder
<1>10. CancelledPaymentHasEndedOrder'
  BY <1>1, <1>3
  DEF IInv, TypeOK, SaleInv, CancelledPaymentHasEndedOrder, SaleIsPaid, NeverRefunded, OrderStatus
<1> QED BY <1>4, <1>5, <1>6, <1>7, <1>8, <1>9, <1>10 DEF IInv, SaleInv

-----------------------------------------------------------------------------
\* A request that begins holds nothing and has a payment when it needs one.
LEMMA BeginInv ==
  ASSUME IInv, NEW s \in Session, NEW o \in Order, NEW step \in Unlocked \ {"idle"},
         Begin(s, o, step), UNCHANGED <<rows, overdue, charge, lock, todo>>,
         step \in {"a_pay", "c_verify", "c_pay"} => payment[o] # "none"
  PROVE  IInv'
<1>1. /\ pc' \in [Session -> Step] /\ on' \in [Session -> Order \cup {NoOrder}]
      /\ pc[s] = "idle" /\ pc'[s] = step /\ on'[s] = o
      /\ \A x \in Session \ {s} : pc'[x] = pc[x] /\ on'[x] = on[x]
  BY DEF Begin, Goto, IInv, TypeOK, Step, Unlocked
<1>2. \A w \in Row : lock'[w] # s
  BY <1>1 DEF IInv, SessionInv, HoldsRows, Unlocked
<1>3. SessionInv(s)'
  BY <1>1, <1>2, RowFacts
  DEF SessionInv, WorksOnRows, HoldsRows, HeldOrderIsPending, HeldPaymentIsOpen,
      SweptOrderIsHeldOrEnded, ChargeIsVerified, SweepStep, ApplyStep, CancelStep, Unlocked, rows
<1> QED BY <1>1, <1>3, LockStepInv DEF IInv, TypeOK

\* Locking the payment row of an order, or its order row, and nothing else.
LEMMA PaymentLock ==
  ASSUME IInv, NEW s \in Session, TakeLocks(s), pc[s] \in {"a_pay", "c_pay", "r_pay"}
  PROVE  /\ on[s] \in Order
         /\ \A o \in Order : /\ lock'[OrderRow(o)] # s
                             /\ lock'[PaymentRow(o)] = s <=> o = on[s] /\ payment[o] # "none"
<1>1. on[s] \in Order /\ \A w \in Row : lock[w] # s
  BY DEF IInv, SessionInv, WorksOnRows, HoldsRows, Unlocked
<1>2. \A w \in Row : lock'[w] = IF payment[on[s]] # "none" /\ w = PaymentRow(on[s])
                                THEN s ELSE lock[w]
  BY WantsFacts DEF TakeLocks
<1> QED BY <1>1, <1>2, RowFacts

LEMMA OrderLock ==
  ASSUME IInv, NEW s \in Session, TakeLocks(s), pc[s] \in {"a_order", "c_order", "r_order"}
  PROVE  /\ on[s] \in Order
         /\ \A o \in Order : /\ lock'[PaymentRow(o)] = lock[PaymentRow(o)]
                             /\ lock'[OrderRow(o)] = IF o = on[s] THEN s ELSE lock[OrderRow(o)]
<1>1. on[s] \in Order
  BY DEF IInv, SessionInv, WorksOnRows
<1>2. \A w \in Row : lock'[w] = IF w = OrderRow(on[s]) THEN s ELSE lock[w]
  BY WantsFacts DEF TakeLocks
<1> QED BY <1>1, <1>2, RowFacts

\* apply_successful_payment.
LEMMA ApplyLockPaymentInv ==
  ASSUME IInv, NEW s \in Session, ApplyLockPayment(s)
  PROVE  IInv'
<1>1. CASE payment[on[s]] # "successful"
  <2>1. /\ pc[s] = "a_pay" /\ MayLock(s) /\ TakeLocks(s)
        /\ UNCHANGED <<rows, overdue, charge, on, todo>>
        /\ pc' = [pc EXCEPT ![s] = "a_verify"]
    BY <1>1 DEF ApplyLockPayment, Goto
  <2>2. pc'[s] = "a_verify" /\ pc' \in [Session -> Step] /\ \A x \in Session \ {s} : pc'[x] = pc[x]
    BY <2>1 DEF IInv, TypeOK, Step
  <2>3. SessionInv(s)'
    BY <1>1, <2>1, <2>2, PaymentLock
    DEF IInv, SessionInv, WorksOnRows, HoldsRows, HeldOrderIsPending, HeldPaymentIsOpen,
        SweptOrderIsHeldOrEnded, ChargeIsVerified, SweepStep, ApplyStep, CancelStep, Unlocked, rows
  <2> QED BY <2>1, <2>2, <2>3, LockStepInv DEF IInv, TypeOK
<1>2. CASE ~(payment[on[s]] # "successful")
  BY <1>2, RollbackInv DEF ApplyLockPayment
<1> QED BY <1>1, <1>2

LEMMA ApplyVerifyInv ==
  ASSUME IInv, NEW s \in Session, ApplyVerify(s)
  PROVE  IInv'
<1> DEFINE o == on[s]
<1>1. /\ pc[s] = "a_verify" /\ UNCHANGED <<order, review, ticket, overdue, charge>>
      /\ o \in Order /\ lock[PaymentRow(o)] = s
      /\ payment[o] \notin {"none", "successful"}
  BY DEF ApplyVerify, IInv, SessionInv, WorksOnRows, HoldsRows, HeldPaymentIsOpen, ApplyStep
<1>2. CASE charge[o] \in {"paid", "wrong"}
  <2>1. UNCHANGED <<payment, lock, on, todo>>
        /\ pc' = [pc EXCEPT ![s] = IF charge[o] = "paid" THEN "a_order" ELSE "a_mismatch"]
    BY <1>2 DEF ApplyVerify, Goto, EndedCheckout
  <2>2. /\ pc'[s] = IF charge[o] = "paid" THEN "a_order" ELSE "a_mismatch"
        /\ pc' \in [Session -> Step] /\ \A x \in Session \ {s} : pc'[x] = pc[x]
    BY <2>1 DEF IInv, TypeOK, Step
  <2>3. SessionInv(s)'
    BY <1>1, <1>2, <2>1, <2>2
    DEF IInv, SessionInv, WorksOnRows, HoldsRows, HeldOrderIsPending, HeldPaymentIsOpen,
        SweptOrderIsHeldOrEnded, ChargeIsVerified, SweepStep, ApplyStep, CancelStep, Unlocked
  <2> QED BY <1>1, <2>1, <2>2, <2>3, LockStepInv DEF IInv, TypeOK, rows
<1>3. CASE charge[o] \in EndedCheckout
  <2>1. payment' = [payment EXCEPT ![o] = "failed"] /\ EndTransaction(s)
    BY <1>3 DEF ApplyVerify, EndedCheckout
  <2>2. TypeOK'
    BY <1>1, <2>1, EndTransactionFrame DEF IInv, TypeOK, PaymentStatus
  <2>3. \A x \in Session : SessionInv(x)'
    BY <1>1, <2>1, CommitKeepsSessions DEF IInv, TypeOK
  <2>4. SaleInv'
    BY <1>1, <2>1
    DEF IInv, TypeOK, SaleInv, NeverRefunded, ReviewIsOfEndedOrder, TicketsFollowOrder, SaleIsPaid,
        MoneyIsAccountedFor, CancelledPaymentHasEndedOrder
  <2> QED BY <2>2, <2>3, <2>4 DEF IInv
<1>4. CASE charge[o] \in {"none", "open"}
  BY <1>1, <1>4, RollbackInv DEF ApplyVerify, EndedCheckout, rows
<1> QED BY <1>1, <1>2, <1>3, <1>4 DEF IInv, TypeOK, ChargeStatus, EndedCheckout

LEMMA ApplyLockOrderInv ==
  ASSUME IInv, NEW s \in Session, ApplyLockOrder(s)
  PROVE  IInv'
<1>1. /\ pc[s] = "a_order" /\ MayLock(s) /\ TakeLocks(s)
      /\ UNCHANGED <<rows, overdue, charge, on, todo>>
      /\ pc' = [pc EXCEPT ![s] = "a_commit"]
  BY DEF ApplyLockOrder, Goto
<1>2. pc'[s] = "a_commit" /\ pc' \in [Session -> Step] /\ \A x \in Session \ {s} : pc'[x] = pc[x]
  BY <1>1 DEF IInv, TypeOK, Step
<1>3. SessionInv(s)'
  BY <1>1, <1>2, OrderLock
  DEF IInv, SessionInv, WorksOnRows, HoldsRows, HeldOrderIsPending, HeldPaymentIsOpen,
      SweptOrderIsHeldOrEnded, ChargeIsVerified, SweepStep, ApplyStep, CancelStep, Unlocked, rows
<1> QED BY <1>1, <1>2, <1>3, LockStepInv DEF IInv, TypeOK

LEMMA ApplyLateInv ==
  ASSUME IInv, NEW s \in Session, ApplyLate(s)
  PROVE  IInv'
<1> DEFINE o == on[s]
<1>1. /\ pc[s] = "a_commit" /\ order[o] \notin {"pending", "confirmed"} /\ o \in Order
      /\ payment' = [payment EXCEPT ![o] = "successful"] /\ review' = review \cup {o}
      /\ EndTransaction(s) /\ UNCHANGED <<order, ticket, overdue, charge>>
      /\ lock[PaymentRow(o)] = s
  BY DEF ApplyLate, IInv, SessionInv, WorksOnRows, HoldsRows, ApplyStep
<1>2. TypeOK'
  BY <1>1, EndTransactionFrame DEF IInv, TypeOK, PaymentStatus
<1>3. \A x \in Session : SessionInv(x)'
  BY <1>1, CommitKeepsSessions DEF IInv, TypeOK
<1>4. SaleInv'
  BY <1>1
  DEF IInv, TypeOK, SaleInv, NeverRefunded, ReviewIsOfEndedOrder, TicketsFollowOrder, SaleIsPaid,
      MoneyIsAccountedFor, CancelledPaymentHasEndedOrder
<1> QED BY <1>2, <1>3, <1>4 DEF IInv

\* A payment not yet successful is of an order not yet confirmed, so a
\* confirmation always finds the order pending.
LEMMA ApplyConfirmInv ==
  ASSUME IInv, NEW s \in Session, ApplyConfirm(s)
  PROVE  IInv' /\ order[on[s]] = "pending"
<1> DEFINE o == on[s]
<1>1. /\ pc[s] = "a_commit" /\ order[o] \in {"pending", "confirmed"} /\ o \in Order
      /\ payment' = [payment EXCEPT ![o] = "successful"]
      /\ order' = [order EXCEPT ![o] = "confirmed"]
      /\ ticket' = [t \in Ticket |-> IF OrderOf[t] = o /\ ticket[t] = "pending_payment"
                                     THEN "active" ELSE ticket[t]]
      /\ EndTransaction(s) /\ UNCHANGED <<review, overdue, charge>>
      /\ lock[PaymentRow(o)] = s /\ lock[OrderRow(o)] = s
  BY DEF ApplyConfirm, MoveTickets, IInv, SessionInv, WorksOnRows, HoldsRows, ApplyStep
<1>2. payment[o] # "successful" /\ charge[o] \in {"paid", "reversed"}
  BY <1>1 DEF IInv, SessionInv, HeldPaymentIsOpen, ChargeIsVerified, ApplyStep
<1>3. order[o] = "pending" /\ o \notin review
  BY <1>1, <1>2 DEF IInv, SaleInv, SaleIsPaid, ReviewIsOfEndedOrder
<1>4. TypeOK'
  BY <1>1, EndTransactionFrame DEF IInv, TypeOK, PaymentStatus, OrderStatus, TicketStatus
<1>5. \A x \in Session : SessionInv(x)'
  BY <1>1, CommitKeepsSessions DEF IInv, TypeOK
<1>6. TicketsFollowOrder'
  BY <1>1, <1>3, CheckoutAssumption DEF IInv, TypeOK, SaleInv, TicketsFollowOrder
<1>7. SaleIsPaid' /\ MoneyIsAccountedFor'
  BY <1>1, <1>2, <1>3 DEF IInv, TypeOK, SaleInv, SaleIsPaid, MoneyIsAccountedFor
<1>8. NeverRefunded' /\ ReviewIsOfEndedOrder' /\ CancelledPaymentHasEndedOrder'
  BY <1>1, <1>3
  DEF IInv, TypeOK, SaleInv, NeverRefunded, ReviewIsOfEndedOrder, CancelledPaymentHasEndedOrder
<1> QED BY <1>3, <1>4, <1>5, <1>6, <1>7, <1>8 DEF IInv, SaleInv

\* cancel_pending_checkout.
LEMMA CancelVerifyInv ==
  ASSUME IInv, NEW s \in Session, CancelVerify(s)
  PROVE  IInv'
<1>1. CASE charge[on[s]] \in EndedCheckout
  <2>1. /\ pc[s] = "c_verify" /\ pc' = [pc EXCEPT ![s] = "c_pay"]
        /\ UNCHANGED <<rows, overdue, charge, lock, on, todo>>
    BY <1>1 DEF CancelVerify, Goto
  <2>2. pc'[s] = "c_pay" /\ pc' \in [Session -> Step] /\ \A x \in Session \ {s} : pc'[x] = pc[x]
    BY <2>1 DEF IInv, TypeOK, Step
  <2>3. SessionInv(s)'
    BY <2>1, <2>2
    DEF IInv, SessionInv, WorksOnRows, HoldsRows, HeldOrderIsPending, HeldPaymentIsOpen,
        SweptOrderIsHeldOrEnded, ChargeIsVerified, SweepStep, ApplyStep, CancelStep, Unlocked, rows
  <2> QED BY <2>1, <2>2, <2>3, LockStepInv DEF IInv, TypeOK
<1>2. CASE charge[on[s]] \notin EndedCheckout
  BY <1>2, RollbackInv DEF CancelVerify
<1> QED BY <1>1, <1>2

LEMMA CancelLockPaymentInv ==
  ASSUME IInv, NEW s \in Session, CancelLockPayment(s)
  PROVE  IInv'
<1>1. CASE payment[on[s]] \in ReleasablePayment
  <2>1. /\ pc[s] = "c_pay" /\ MayLock(s) /\ TakeLocks(s)
        /\ UNCHANGED <<rows, overdue, charge, on, todo>>
        /\ pc' = [pc EXCEPT ![s] = "c_order"]
    BY <1>1 DEF CancelLockPayment, Goto
  <2>2. pc'[s] = "c_order" /\ pc' \in [Session -> Step] /\ \A x \in Session \ {s} : pc'[x] = pc[x]
    BY <2>1 DEF IInv, TypeOK, Step
  <2>3. SessionInv(s)'
    BY <1>1, <2>1, <2>2, PaymentLock
    DEF IInv, SessionInv, WorksOnRows, HoldsRows, HeldOrderIsPending, HeldPaymentIsOpen,
        SweptOrderIsHeldOrEnded, ChargeIsVerified, SweepStep, ApplyStep, CancelStep, Unlocked, rows
  <2> QED BY <2>1, <2>2, <2>3, LockStepInv DEF IInv, TypeOK
<1>2. CASE ~(payment[on[s]] \in ReleasablePayment)
  BY <1>2, RollbackInv DEF CancelLockPayment
<1> QED BY <1>1, <1>2

LEMMA CancelLockOrderInv ==
  ASSUME IInv, NEW s \in Session, CancelLockOrder(s)
  PROVE  IInv'
<1>1. CASE order[on[s]] = "pending"
  <2>1. /\ pc[s] = "c_order" /\ MayLock(s) /\ TakeLocks(s)
        /\ UNCHANGED <<rows, overdue, charge, on, todo>>
        /\ pc' = [pc EXCEPT ![s] = "c_commit"]
    BY <1>1 DEF CancelLockOrder, Goto
  <2>2. pc'[s] = "c_commit" /\ pc' \in [Session -> Step] /\ \A x \in Session \ {s} : pc'[x] = pc[x]
    BY <2>1 DEF IInv, TypeOK, Step
  <2>3. SessionInv(s)'
    BY <1>1, <2>1, <2>2, OrderLock
    DEF IInv, SessionInv, WorksOnRows, HoldsRows, HeldOrderIsPending, HeldPaymentIsOpen,
        SweptOrderIsHeldOrEnded, ChargeIsVerified, SweepStep, ApplyStep, CancelStep, Unlocked, rows
  <2> QED BY <2>1, <2>2, <2>3, LockStepInv DEF IInv, TypeOK
<1>2. CASE ~(order[on[s]] = "pending")
  BY <1>2, RollbackInv DEF CancelLockOrder
<1> QED BY <1>1, <1>2

\* The buyer's cancel and the release write the same order and ticket rows.
LEMMA CancelledRows ==
  ASSUME IInv, NEW o \in Order, order[o] = "pending",
         order' = [order EXCEPT ![o] = "cancelled"],
         MoveTickets({o}, ReleasableTicket, "cancelled"),
         payment' \in {payment, [payment EXCEPT ![o] = "cancelled"]},
         UNCHANGED <<review, charge>>
  PROVE  SaleInv' /\ order' \in [Order -> OrderStatus] /\ ticket' \in [Ticket -> TicketStatus]
         /\ payment' \in [Order -> PaymentStatus \cup {"none"}]
<1>1. order' \in [Order -> OrderStatus] /\ ticket' \in [Ticket -> TicketStatus]
      /\ payment' \in [Order -> PaymentStatus \cup {"none"}]
  BY DEF IInv, TypeOK, MoveTickets, OrderStatus, PaymentStatus, TicketStatus
<1>2. TicketsFollowOrder'
  BY CheckoutAssumption
  DEF IInv, TypeOK, SaleInv, TicketsFollowOrder, MoveTickets, ReleasableTicket
<1>3. \A p \in Order : payment'[p] = payment[p] \/ (p = o /\ payment'[p] = "cancelled")
  BY DEF IInv, TypeOK
<1>4. \A p \in Order : order'[p] = IF p = o THEN "cancelled" ELSE order[p]
  BY DEF IInv, TypeOK
<1>5. SaleIsPaid' /\ MoneyIsAccountedFor' /\ CancelledPaymentHasEndedOrder'
  BY <1>3, <1>4
  DEF IInv, SaleInv, SaleIsPaid, MoneyIsAccountedFor, CancelledPaymentHasEndedOrder,
      ReviewIsOfEndedOrder
<1>6. NeverRefunded' /\ ReviewIsOfEndedOrder'
  BY <1>4 DEF IInv, TypeOK, SaleInv, NeverRefunded, ReviewIsOfEndedOrder
<1> QED BY <1>1, <1>2, <1>5, <1>6 DEF SaleInv

LEMMA CancelCommitInv ==
  ASSUME IInv, NEW s \in Session, CancelCommit(s)
  PROVE  IInv' /\ order[on[s]] = "pending" /\ payment[on[s]] # "successful"
<1> DEFINE o == on[s]
<1>1. /\ pc[s] = "c_commit" /\ o \in Order
      /\ order' = [order EXCEPT ![o] = "cancelled"]
      /\ payment' = [payment EXCEPT ![o] = "cancelled"]
      /\ MoveTickets({o}, ReleasableTicket, "cancelled")
      /\ EndTransaction(s) /\ UNCHANGED <<review, overdue, charge>>
      /\ lock[PaymentRow(o)] = s /\ lock[OrderRow(o)] = s
  BY DEF CancelCommit, IInv, SessionInv, WorksOnRows, HoldsRows, CancelStep
<1>2. order[o] = "pending" /\ payment[o] \in ReleasablePayment
  BY <1>1 DEF IInv, SessionInv, HeldOrderIsPending, HeldPaymentIsOpen, CancelStep
<1>3. SaleInv' /\ order' \in [Order -> OrderStatus] /\ ticket' \in [Ticket -> TicketStatus]
      /\ payment' \in [Order -> PaymentStatus \cup {"none"}]
  BY <1>1, <1>2, CancelledRows
<1>4. TypeOK'
  BY <1>1, <1>3, EndTransactionFrame DEF IInv, TypeOK
<1>5. \A x \in Session : SessionInv(x)'
  BY <1>1, CommitKeepsSessions DEF IInv, TypeOK
<1> QED BY <1>2, <1>3, <1>4, <1>5 DEF IInv, ReleasablePayment

\* initialize_payment and release_pending_order.
LEMMA InitializeCallInv ==
  ASSUME IInv, NEW s \in Session, InitializeCall(s)
  PROVE  IInv'
<1> DEFINE o == on[s]
<1>1. pc[s] = "i_call" /\ o \in Order /\ UNCHANGED <<rows, overdue, lock, on, todo>>
  BY DEF InitializeCall, IInv, SessionInv, WorksOnRows
<1>2. charge' \in {charge, Opened(o)}
  BY DEF InitializeCall
<1>3. PICK step \in {"i_insert", "r_pay"} : pc' = [pc EXCEPT ![s] = step]
  BY DEF InitializeCall, Goto
<1>4. pc'[s] = step /\ pc' \in [Session -> Step] /\ \A x \in Session \ {s} : pc'[x] = pc[x]
  BY <1>3 DEF IInv, TypeOK, Step
<1>5. charge' \in [Order -> ChargeStatus]
      /\ \A p \in Order : charge[p] \in {"paid", "reversed"} => charge'[p] \in {"paid", "reversed"}
  BY <1>1, <1>2 DEF IInv, TypeOK, Opened, ChargeStatus
<1>6. TypeOK'
  BY <1>1, <1>4, <1>5 DEF IInv, TypeOK, rows
<1>7. SessionInv(s)'
  BY <1>1, <1>4, RowFacts
  DEF IInv, SessionInv, WorksOnRows, HoldsRows, HeldOrderIsPending, HeldPaymentIsOpen,
      SweptOrderIsHeldOrEnded, ChargeIsVerified, SweepStep, ApplyStep, CancelStep, Unlocked, rows
<1>8. \A x \in Session \ {s} : SessionInv(x)'
  BY <1>1, <1>4, <1>5, StepKeepsOthers DEF rows
<1>9. SaleInv'
  BY <1>1, <1>5, SaleInvUnchanged DEF IInv, rows
<1> QED BY <1>6, <1>7, <1>8, <1>9 DEF IInv

LEMMA InitializeInsertInv ==
  ASSUME IInv, NEW s \in Session, InitializeInsert(s)
  PROVE  IInv'
<1> DEFINE o == on[s]
<1>1. /\ o \in Order /\ EndTransaction(s)
      /\ payment' = [payment EXCEPT ![o] = IF @ = "none" THEN "pending" ELSE @]
      /\ UNCHANGED <<order, review, ticket, overdue, charge>>
  BY DEF InitializeInsert, IInv, SessionInv, WorksOnRows
<1>2. \A p \in Order : payment'[p] = payment[p] \/ (payment[p] = "none" /\ payment'[p] = "pending")
  BY <1>1 DEF IInv, TypeOK
<1>3. TypeOK'
  BY <1>1, EndTransactionFrame DEF IInv, TypeOK, PaymentStatus
<1>4. \A x \in Session : SessionInv(x)'
  BY <1>1, <1>2, CommitKeepsSessions
<1>5. SaleInv'
  BY <1>1, <1>2
  DEF IInv, SaleInv, NeverRefunded, ReviewIsOfEndedOrder, TicketsFollowOrder, SaleIsPaid,
      MoneyIsAccountedFor, CancelledPaymentHasEndedOrder
<1> QED BY <1>3, <1>4, <1>5 DEF IInv

LEMMA ReleaseLockPaymentInv ==
  ASSUME IInv, NEW s \in Session, ReleaseLockPayment(s)
  PROVE  IInv'
<1>1. /\ pc[s] = "r_pay" /\ MayLock(s) /\ TakeLocks(s)
      /\ UNCHANGED <<rows, overdue, charge, on, todo>>
      /\ pc' = [pc EXCEPT ![s] = "r_order"]
  BY DEF ReleaseLockPayment, Goto
<1>2. pc'[s] = "r_order" /\ pc' \in [Session -> Step] /\ \A x \in Session \ {s} : pc'[x] = pc[x]
  BY <1>1 DEF IInv, TypeOK, Step
<1>3. SessionInv(s)'
  BY <1>1, <1>2, PaymentLock
  DEF IInv, SessionInv, WorksOnRows, HoldsRows, HeldOrderIsPending, HeldPaymentIsOpen,
      SweptOrderIsHeldOrEnded, ChargeIsVerified, SweepStep, ApplyStep, CancelStep, Unlocked, rows
<1> QED BY <1>1, <1>2, <1>3, LockStepInv DEF IInv, TypeOK

LEMMA ReleaseLockOrderInv ==
  ASSUME IInv, NEW s \in Session, ReleaseLockOrder(s)
  PROVE  IInv'
<1>1. CASE order[on[s]] = "pending"
  <2>1. /\ pc[s] = "r_order" /\ MayLock(s) /\ TakeLocks(s)
        /\ UNCHANGED <<rows, overdue, charge, on, todo>>
        /\ pc' = [pc EXCEPT ![s] = "r_commit"]
    BY <1>1 DEF ReleaseLockOrder, Goto
  <2>2. pc'[s] = "r_commit" /\ pc' \in [Session -> Step] /\ \A x \in Session \ {s} : pc'[x] = pc[x]
    BY <2>1 DEF IInv, TypeOK, Step
  <2>3. SessionInv(s)'
    BY <1>1, <2>1, <2>2, OrderLock
    DEF IInv, SessionInv, WorksOnRows, HoldsRows, HeldOrderIsPending, HeldPaymentIsOpen,
        SweptOrderIsHeldOrEnded, ChargeIsVerified, SweepStep, ApplyStep, CancelStep, Unlocked, rows
  <2> QED BY <2>1, <2>2, <2>3, LockStepInv DEF IInv, TypeOK
<1>2. CASE ~(order[on[s]] = "pending")
  BY <1>2, RollbackInv DEF ReleaseLockOrder
<1> QED BY <1>1, <1>2

LEMMA ReleaseCommitInv ==
  ASSUME IInv, NEW s \in Session, ReleaseCommit(s)
  PROVE  IInv' /\ order[on[s]] = "pending"
<1> DEFINE o == on[s]
<1>1. /\ pc[s] = "r_commit" /\ o \in Order
      /\ order' = [order EXCEPT ![o] = "cancelled"]
      /\ MoveTickets({o}, ReleasableTicket, "cancelled")
      /\ EndTransaction(s) /\ UNCHANGED <<payment, review, overdue, charge>>
      /\ lock[OrderRow(o)] = s
  BY DEF ReleaseCommit, IInv, SessionInv, WorksOnRows, HoldsRows
<1>2. order[o] = "pending"
  BY <1>1 DEF IInv, SessionInv, HeldOrderIsPending
<1>3. SaleInv' /\ order' \in [Order -> OrderStatus] /\ ticket' \in [Ticket -> TicketStatus]
  BY <1>1, <1>2, CancelledRows
<1>4. TypeOK'
  BY <1>1, <1>3, EndTransactionFrame DEF IInv, TypeOK
<1>5. \A x \in Session : SessionInv(x)'
  BY <1>1, CommitKeepsSessions DEF IInv, TypeOK
<1> QED BY <1>2, <1>3, <1>4, <1>5 DEF IInv

-----------------------------------------------------------------------------
LEMMA InitInv == Init => IInv
<1> SUFFICES ASSUME Init PROVE IInv
  OBVIOUS
<1>1. TypeOK
  BY DEF Init, TypeOK, OrderStatus, PaymentStatus, TicketStatus, ChargeStatus, Step
<1>2. \A s \in Session : SessionInv(s)
  <2> SUFFICES ASSUME NEW s \in Session
               PROVE  SessionInv(s)
    OBVIOUS
  <2>1. pc[s] = "idle" /\ \A w \in Row : lock[w] # s
    BY CheckoutAssumption DEF Init
  <2> QED BY <2>1, RowFacts
          DEF SessionInv, WorksOnRows, HoldsRows, HeldOrderIsPending, HeldPaymentIsOpen,
              SweptOrderIsHeldOrEnded, ChargeIsVerified, SweepStep, ApplyStep, CancelStep
<1>3. SaleInv
  BY CheckoutAssumption
  DEF Init, SaleInv, NeverRefunded, ReviewIsOfEndedOrder, TicketsFollowOrder, SaleIsPaid,
      MoneyIsAccountedFor, CancelledPaymentHasEndedOrder
<1> QED BY <1>1, <1>2, <1>3 DEF IInv

LEMMA ContinueInv ==
  ASSUME IInv, NEW s \in Session, Continue(s)
  PROVE  IInv'
<1>1. CASE SweepPayment(s) \/ SweepOrder(s) \/ SweepTickets(s) \/ SweepCommit(s)
  BY <1>1, SweepPaymentInv, SweepOrderInv, SweepTicketsInv, SweepCommitInv
<1>2. CASE ApplyMismatch(s)
  BY <1>2, RollbackInv DEF ApplyMismatch
<1>3. CASE ApplyLockPayment(s) \/ ApplyVerify(s) \/ ApplyLockOrder(s)
  BY <1>3, ApplyLockPaymentInv, ApplyVerifyInv, ApplyLockOrderInv
<1>4. CASE ApplyLate(s) \/ ApplyConfirm(s)
  BY <1>4, ApplyLateInv, ApplyConfirmInv
<1>5. CASE CancelVerify(s) \/ CancelLockPayment(s) \/ CancelLockOrder(s) \/ CancelCommit(s)
  BY <1>5, CancelVerifyInv, CancelLockPaymentInv, CancelLockOrderInv, CancelCommitInv
<1>6. CASE InitializeCall(s) \/ InitializeInsert(s)
  BY <1>6, InitializeCallInv, InitializeInsertInv
<1>7. CASE ReleaseLockPayment(s) \/ ReleaseLockOrder(s) \/ ReleaseCommit(s)
  BY <1>7, ReleaseLockPaymentInv, ReleaseLockOrderInv, ReleaseCommitInv
<1> QED BY <1>1, <1>2, <1>3, <1>4, <1>5, <1>6, <1>7 DEF Continue

LEMMA ArriveInv ==
  ASSUME IInv, NEW s \in Session, Arrive(s)
  PROVE  IInv'
<1>1. CASE \E scope \in Scope : SweepStart(s, scope)
  BY <1>1, SweepStartInv, CheckoutAssumption
<1>2. ASSUME NEW o \in Order, ApplyStart(s, o)
      PROVE  IInv'
  BY <1>2, BeginInv DEF ApplyStart, Unlocked
<1>3. ASSUME NEW o \in Order, CancelStart(s, o)
      PROVE  IInv'
  <2>1. PICK step \in {"c_verify", "c_pay"} : Begin(s, o, step)
    BY <1>3 DEF CancelStart
  <2> QED BY <1>3, <2>1, BeginInv DEF CancelStart, ReleasablePayment, Unlocked
<1>4. ASSUME NEW o \in Order, InitializeStart(s, o)
      PROVE  IInv'
  BY <1>4, BeginInv DEF InitializeStart, Unlocked
<1> QED BY <1>1, <1>2, <1>3, <1>4 DEF Arrive

\* Time and the buyer at the provider touch no row and undo no payment.
LEMMA SurroundingsInv ==
  ASSUME IInv, NEW o \in Order, TimePasses(o) \/ ChargeMoves(o)
  PROVE  IInv'
<1>1. UNCHANGED <<rows, sessions>>
  BY DEF TimePasses, ChargeMoves
<1>2. overdue' \subseteq Order /\ charge' \in [Order -> ChargeStatus]
      /\ \A p \in Order : charge[p] \in {"paid", "reversed"} => charge'[p] \in {"paid", "reversed"}
  <2>1. CASE TimePasses(o)
    BY <2>1 DEF TimePasses, IInv, TypeOK
  <2>2. CASE ChargeMoves(o)
    BY <2>2 DEF ChargeMoves, IInv, TypeOK, ChargeStatus
  <2> QED BY <2>1, <2>2
<1>3. TypeOK'
  BY <1>1, <1>2 DEF IInv, TypeOK, rows, sessions
<1>4. \A x \in Session : SessionInv(x)'
  BY <1>1, <1>2, UndisturbedSessionInv DEF IInv, rows, sessions
<1>5. SaleInv'
  BY <1>1, <1>2, SaleInvUnchanged DEF IInv, rows
<1> QED BY <1>3, <1>4, <1>5 DEF IInv

LEMMA NextInv == IInv /\ [Next]_vars => IInv'
<1> SUFFICES ASSUME IInv, [Next]_vars
             PROVE  IInv'
  OBVIOUS
<1>1. ASSUME NEW s \in Session, Continue(s) \/ Abort(s)
      PROVE  IInv'
  BY <1>1, ContinueInv, RollbackInv DEF Abort
<1>2. ASSUME NEW s \in Request, Arrive(s)
      PROVE  IInv'
  BY <1>2, ArriveInv DEF Session
<1>3. CASE SweepStart(Worker, Order)
  BY <1>3, SweepStartInv DEF Session
<1>4. ASSUME NEW o \in Order, TimePasses(o) \/ ChargeMoves(o)
      PROVE  IInv'
  BY <1>4, SurroundingsInv
<1>5. CASE UNCHANGED vars
  BY <1>5
  DEF vars, IInv, TypeOK, SessionInv, WorksOnRows, HoldsRows, HeldOrderIsPending,
      HeldPaymentIsOpen, SweptOrderIsHeldOrEnded, ChargeIsVerified, SaleInv, NeverRefunded,
      ReviewIsOfEndedOrder, TicketsFollowOrder, SaleIsPaid, MoneyIsAccountedFor,
      CancelledPaymentHasEndedOrder
<1> QED BY <1>1, <1>2, <1>3, <1>4, <1>5 DEF Next, Proceed

\* The inductive invariant holds of every behaviour, for any number of orders,
\* tickets and concurrent sessions.
THEOREM Invariance == Spec => []IInv
  BY InitInv, NextInv, PTL DEF Spec

\* Every status a row takes is one of its enumeration, whatever paths race.
THEOREM TypeCorrect == Spec => []TypeOK
<1>1. IInv => TypeOK
  BY DEF IInv
<1> QED BY <1>1, Invariance, PTL

\* The order row and its tickets never disagree about the sale, a sale is paid
\* for, and money is never kept without a sale or a review.
THEOREM SalesAreConsistent ==
  Spec => [](TicketsFollowOrder /\ SaleIsPaid /\ MoneyIsAccountedFor)
<1>1. IInv => TicketsFollowOrder /\ SaleIsPaid /\ MoneyIsAccountedFor
  BY DEF IInv, SaleInv
<1> QED BY <1>1, Invariance, PTL

\* A sweep or a buyer's cancel never cancels the payment of a live order.
THEOREM CancellationsEndOrders == Spec => []CancelledPaymentHasEndedOrder
<1>1. IInv => CancelledPaymentHasEndedOrder
  BY DEF IInv, SaleInv
<1> QED BY <1>1, Invariance, PTL

-----------------------------------------------------------------------------
\* What a step does to the sales, one formula per step of Reservation.
SameMoney(o) == payment'[o] = "successful" <=> payment[o] = "successful"

Quiet == UNCHANGED <<order, review>> /\ \A o \in Order : SameMoney(o)
Sells(o) ==
  /\ order[o] = "pending" /\ payment[o] # "successful" /\ o \notin review
  /\ order' = [order EXCEPT ![o] = "confirmed"]
  /\ payment' = [payment EXCEPT ![o] = "successful"]
  /\ UNCHANGED review
GivesBack(os) ==
  /\ \A o \in os : order[o] = "pending"
  /\ \A o \in Order : /\ o \in os => order'[o] \in {"cancelled", "expired"}
                      /\ o \notin os => order'[o] = order[o]
                      /\ SameMoney(o)
  /\ UNCHANGED review
OwesLate(o) ==
  /\ order[o] \notin {"pending", "confirmed"} /\ payment[o] # "successful"
  /\ payment' = [payment EXCEPT ![o] = "successful"]
  /\ review' = review \cup {o}
  /\ UNCHANGED order

SaleStep == \/ Quiet
            \/ \E o \in Order : Sells(o) \/ OwesLate(o)
            \/ \E os \in SUBSET Order : GivesBack(os)

LEMMA ContinueIsSaleStep ==
  ASSUME IInv, NEW s \in Session, Continue(s)
  PROVE  SaleStep
<1> DEFINE o == on[s]
<1>1. CASE SweepCommit(s)
  <2> DEFINE expired == {p \in Order : lock[OrderRow(p)] = s}
  <2>1. /\ pc[s] = "s_commit" /\ UNCHANGED review
        /\ order' = [p \in Order |-> IF p \in expired THEN "expired" ELSE order[p]]
        /\ payment' = [p \in Order |-> IF lock[PaymentRow(p)] = s THEN "cancelled" ELSE payment[p]]
    BY <1>1 DEF SweepCommit
  <2>2. \A p \in Order : lock[OrderRow(p)] = s => order[p] = "pending"
    BY <2>1 DEF IInv, SessionInv, HeldOrderIsPending
  <2>3. \A p \in Order : lock[PaymentRow(p)] = s => payment[p] = "pending"
    BY <2>1 DEF IInv, SessionInv, HeldPaymentIsOpen, SweepStep
  <2>4. GivesBack(expired)
    BY <2>1, <2>2, <2>3 DEF GivesBack, SameMoney
  <2> QED BY <2>4 DEF SaleStep
<1>2. CASE ApplyVerify(s)
  <2>1. payment[o] # "successful" /\ UNCHANGED <<order, review>> /\ o \in Order
    BY <1>2 DEF ApplyVerify, IInv, SessionInv, WorksOnRows, HoldsRows, HeldPaymentIsOpen, ApplyStep
  <2>2. payment' \in {payment, [payment EXCEPT ![o] = "failed"]}
    BY <1>2 DEF ApplyVerify
  <2> QED BY <2>1, <2>2 DEF SaleStep, Quiet, SameMoney, IInv, TypeOK
<1>3. CASE ApplyLate(s)
  <2>1. o \in Order /\ payment[o] # "successful"
    BY <1>3 DEF ApplyLate, IInv, SessionInv, WorksOnRows, HoldsRows, HeldPaymentIsOpen, ApplyStep
  <2>2. OwesLate(o)
    BY <1>3, <2>1 DEF ApplyLate, OwesLate
  <2> QED BY <2>1, <2>2 DEF SaleStep
<1>4. CASE ApplyConfirm(s)
  <2>1. o \in Order /\ payment[o] # "successful" /\ order[o] = "pending"
    BY <1>4, ApplyConfirmInv
    DEF ApplyConfirm, IInv, SessionInv, WorksOnRows, HoldsRows, HeldPaymentIsOpen, ApplyStep
  <2>2. Sells(o)
    BY <1>4, <2>1 DEF ApplyConfirm, Sells, IInv, SaleInv, ReviewIsOfEndedOrder
  <2> QED BY <2>1, <2>2 DEF SaleStep
<1>5. CASE CancelCommit(s) \/ ReleaseCommit(s)
  <2>1. o \in Order /\ order[o] = "pending"
    BY <1>5, CancelCommitInv, ReleaseCommitInv
    DEF CancelCommit, ReleaseCommit, IInv, SessionInv, WorksOnRows
  <2>2. /\ order' = [order EXCEPT ![o] = "cancelled"] /\ UNCHANGED review
        /\ \/ UNCHANGED payment
           \/ payment[o] # "successful" /\ payment' = [payment EXCEPT ![o] = "cancelled"]
    BY <1>5, CancelCommitInv DEF CancelCommit, ReleaseCommit
  <2>3. GivesBack({o})
    BY <2>1, <2>2 DEF GivesBack, SameMoney, IInv, TypeOK
  <2> QED BY <2>1, <2>3 DEF SaleStep
<1>6. CASE InitializeInsert(s)
  <2>1. /\ payment' = [payment EXCEPT ![o] = IF @ = "none" THEN "pending" ELSE @]
        /\ UNCHANGED <<order, review>>
    BY <1>6 DEF InitializeInsert
  <2> QED BY <2>1 DEF SaleStep, Quiet, SameMoney, IInv, TypeOK
<1>7. CASE \/ SweepPayment(s) \/ SweepOrder(s) \/ SweepTickets(s)
           \/ ApplyLockPayment(s) \/ ApplyMismatch(s) \/ ApplyLockOrder(s)
           \/ CancelVerify(s) \/ CancelLockPayment(s) \/ CancelLockOrder(s)
           \/ InitializeCall(s) \/ ReleaseLockPayment(s) \/ ReleaseLockOrder(s)
  <2>1. UNCHANGED rows
    BY <1>7 DEF SweepPayment, SweepOrder, SweepTickets, ApplyLockPayment, ApplyMismatch,
                ApplyLockOrder, CancelVerify, CancelLockPayment, CancelLockOrder,
                InitializeCall, ReleaseLockPayment, ReleaseLockOrder
  <2> QED BY <2>1 DEF SaleStep, Quiet, SameMoney, rows
<1> QED BY <1>1, <1>2, <1>3, <1>4, <1>5, <1>6, <1>7 DEF Continue

LEMMA NextIsSaleStep == IInv /\ [Next]_vars => SaleStep
<1> SUFFICES ASSUME IInv, [Next]_vars
             PROVE  SaleStep
  OBVIOUS
<1>1. ASSUME NEW s \in Session, Continue(s)
      PROVE  SaleStep
  BY <1>1, ContinueIsSaleStep
<1>2. CASE UNCHANGED rows
  BY <1>2 DEF SaleStep, Quiet, SameMoney, rows
<1>3. ASSUME NEW s \in Session, Abort(s) \/ Arrive(s) \/ SweepStart(s, Order)
      PROVE  UNCHANGED rows
  BY <1>3 DEF Abort, Arrive, SweepStart, ApplyStart, CancelStart, InitializeStart
<1>4. ASSUME NEW o \in Order, TimePasses(o) \/ ChargeMoves(o)
      PROVE  UNCHANGED rows
  BY <1>4 DEF TimePasses, ChargeMoves
<1>5. UNCHANGED vars => UNCHANGED rows
  BY DEF vars, rows
<1> QED BY <1>1, <1>2, <1>3, <1>4, <1>5 DEF Next, Proceed, Session

\* Whichever path comes second finds the conclusion and leaves it.
THEOREM ConclusionsStand == Spec => ConclusionsAreFinal
<1> DEFINE Final == \A o \in Order : /\ order[o] # "pending" => order'[o] = order[o]
                                     /\ payment[o] = "successful" => payment'[o] = "successful"
<1>1. IInv /\ SaleStep => Final
  <2> SUFFICES ASSUME IInv, SaleStep, NEW o \in Order
               PROVE  /\ order[o] # "pending" => order'[o] = order[o]
                      /\ payment[o] = "successful" => payment'[o] = "successful"
    OBVIOUS
  <2>1. CASE Quiet
    BY <2>1 DEF Quiet, SameMoney
  <2>2. ASSUME NEW p \in Order, Sells(p) \/ OwesLate(p)
        PROVE  /\ order[o] # "pending" => order'[o] = order[o]
               /\ payment[o] = "successful" => payment'[o] = "successful"
    BY <2>2 DEF Sells, OwesLate, IInv, TypeOK
  <2>3. ASSUME NEW os \in SUBSET Order, GivesBack(os)
        PROVE  /\ order[o] # "pending" => order'[o] = order[o]
               /\ payment[o] = "successful" => payment'[o] = "successful"
    BY <2>3 DEF GivesBack, SameMoney
  <2> QED BY <2>1, <2>2, <2>3 DEF SaleStep
<1>2. IInv /\ [Next]_vars => [Final]_vars
  BY <1>1, NextIsSaleStep
<1> QED BY <1>2, Invariance, PTL DEF Spec, ConclusionsAreFinal

-----------------------------------------------------------------------------
\* Checkout implements Reservation: nothing the sessions, locks and retries do
\* shows outside as anything but one sale, or places given back, or late money
\* owed to the buyer.
LEMMA InitKeepsPromise == Init => Promise!Init
  BY DEF Init, Promise!Init, Place, Money

LEMMA SaleStepKeepsPromise ==
  ASSUME IInv, SaleStep
  PROVE  [Promise!Next]_<<[o \in Order |-> Place(o)], [o \in Order |-> Money(o)]>>
<1> DEFINE place == [o \in Order |-> Place(o)]
           money == [o \in Order |-> Money(o)]
<1>1. CASE Quiet
  <2>1. \A o \in Order : Place(o)' = Place(o) /\ Money(o)' = Money(o)
    BY <1>1 DEF Quiet, SameMoney, Place, Money
  <2> QED BY <2>1
<1>2. ASSUME NEW o \in Order, Sells(o)
      PROVE  Promise!Next
  <2>1. \A p \in Order : /\ Place(p)' = IF p = o THEN "sold" ELSE Place(p)
                         /\ Money(p)' = IF p = o THEN "kept" ELSE Money(p)
    BY <1>2 DEF Sells, Place, Money, IInv, TypeOK
  <2>2. Place(o) = "held" /\ Money(o) = "none"
    BY <1>2 DEF Sells, Place, Money
  <2>3. place' = [place EXCEPT ![o] = "sold"] /\ money' = [money EXCEPT ![o] = "kept"]
    BY <2>1
  <2>4. Promise!Sell(o)
    BY <2>2, <2>3 DEF Promise!Sell
  <2> QED BY <2>4 DEF Promise!Next
<1>3. ASSUME NEW o \in Order, OwesLate(o)
      PROVE  Promise!Next
  <2>1. \A p \in Order : /\ Place(p)' = Place(p)
                         /\ Money(p)' = IF p = o THEN "owed" ELSE Money(p)
    BY <1>3 DEF OwesLate, Place, Money, IInv, TypeOK
  <2>2. Place(o) = "free" /\ Money(o) = "none"
    BY <1>3 DEF OwesLate, Place, Money
  <2>3. place' = place /\ money' = [money EXCEPT ![o] = "owed"]
    BY <2>1
  <2>4. Promise!OweLateMoney(o)
    BY <2>2, <2>3 DEF Promise!OweLateMoney
  <2> QED BY <2>4 DEF Promise!Next
<1>4. ASSUME NEW os \in SUBSET Order, GivesBack(os)
      PROVE  Promise!Next
  <2>1. \A p \in Order : /\ Place(p)' = IF p \in os THEN "free" ELSE Place(p)
                         /\ Money(p)' = Money(p)
    BY <1>4 DEF GivesBack, SameMoney, Place, Money
  <2>2. \A p \in os : Place(p) = "held"
    BY <1>4 DEF GivesBack, Place
  <2>3. place' = [p \in Order |-> IF p \in os THEN "free" ELSE place[p]] /\ money' = money
    BY <2>1
  <2>4. Promise!GiveBack(os)
    BY <2>2, <2>3 DEF Promise!GiveBack
  <2> QED BY <2>4 DEF Promise!Next
<1> QED BY <1>1, <1>2, <1>3, <1>4 DEF SaleStep

THEOREM Refinement == Spec => KeepsPromise
<1>1. IInv /\ [Next]_vars
        => [Promise!Next]_<<[o \in Order |-> Place(o)], [o \in Order |-> Money(o)]>>
  BY NextIsSaleStep, SaleStepKeepsPromise
<1> QED BY <1>1, InitKeepsPromise, Invariance, PTL DEF Spec, KeepsPromise, Promise!Spec

-----------------------------------------------------------------------------
(* Deadlocks.  Two sweeps that visit several orders in opposite directions  *)
(* wait for each other, and the database breaks the cycle (Abort).  Over    *)
(* the rows of one order every path keeps to Payment, Order, Ticket.        *)

OneOrderOnly == \A o, p \in Order : o = p

WaitsForPayment == {"s_pay", "a_pay", "c_pay", "r_pay"}
WaitsForOrder   == {"s_order", "a_order", "a_mismatch", "c_order", "r_order", "i_insert"}
WaitsForTicket  == {"s_tickets", "a_commit", "c_commit", "r_commit"}

\* What a session holds while it is on its way to a row.
HoldsInOrder(s) ==
  /\ pc[s] \in WaitsForPayment => \A w \in Row : lock[w] # s
  /\ pc[s] \in WaitsForOrder \cup {"a_verify"} => \A w \in Row : lock[w] = s => w[1] = "payment"
  /\ pc[s] \in WaitsForTicket => \A w \in Row : lock[w] = s => w[1] # "ticket"
  /\ pc[s] \in {"s_pay", "s_order", "s_tickets"} => todo[s] = {}

LEMMA WantedKind ==
  ASSUME NEW s \in Session, NEW w \in Wants(s)
  PROVE  \/ pc[s] \in WaitsForPayment /\ w[1] = "payment"
         \/ pc[s] \in WaitsForOrder /\ w[1] = "order"
         \/ pc[s] \in WaitsForTicket /\ w[1] = "ticket"
<1>1. pc[s] \in WaitsForPayment \cup WaitsForOrder \cup WaitsForTicket
  BY DEF Wants, WaitsForPayment, WaitsForOrder, WaitsForTicket
<1>2. CASE pc[s] \in WaitsForPayment
  BY <1>2, WantsFacts DEF WaitsForPayment, PaymentRow
<1>3. CASE pc[s] \in WaitsForOrder
  BY <1>3, WantsFacts DEF WaitsForOrder, OrderRow
<1>4. CASE pc[s] \in WaitsForTicket
  BY <1>4, WantsFacts DEF WaitsForTicket, TicketRow
<1> QED BY <1>1, <1>2, <1>3, <1>4

\* Rows are asked for in the order of their tables by whoever waits, so the
\* farthest of those who wait waits for nobody who does.
LEMMA OrderedHasNoCycle ==
  ASSUME \A s \in Session : SessionInv(s) /\ HoldsInOrder(s)
  PROVE  NoWaitCycle
<1> SUFFICES ASSUME NEW S \in SUBSET Session, NEW x \in S, \A s \in S : Holders(s) \cap S # {}
             PROVE  FALSE
  BY DEF NoWaitCycle
<1>1. ASSUME NEW s \in S
      PROVE  \E h \in S, w \in Row : w \in Wants(s) /\ lock[w] = h
  <2>1. PICK h \in S : h \in Holders(s)
    OBVIOUS
  <2>2. PICK w \in Wants(s) : lock[w] = h
    BY <2>1 DEF Holders
  <2>3. w \in Row
    <3>1. on[s] \in Order
      BY <2>2, WantedKind DEF SessionInv, WorksOnRows, WaitsForPayment, WaitsForOrder, WaitsForTicket
    <3>2. CASE pc[s] \in WaitsForTicket
      BY <2>2, <3>2, RowFacts, WantsFacts DEF WaitsForTicket, TicketsOf
    <3>3. CASE pc[s] \in WaitsForPayment \cup WaitsForOrder
      BY <2>2, <3>1, <3>3, RowFacts, WantsFacts DEF WaitsForPayment, WaitsForOrder
    <3> QED BY <2>2, <3>2, <3>3, WantedKind
  <2> QED BY <2>1, <2>2, <2>3
<1>2. \A s \in S : pc[s] \in WaitsForPayment \cup WaitsForOrder \cup WaitsForTicket
  BY <1>1, WantedKind
<1>3. \A s \in S : pc[s] \notin WaitsForTicket
  <2> SUFFICES ASSUME NEW s \in S, pc[s] \in WaitsForTicket PROVE FALSE
    OBVIOUS
  <2>1. PICK h \in S, w \in Row : w \in Wants(s) /\ lock[w] = h
    BY <1>1
  <2>2. w[1] = "ticket"
    BY <2>1, WantedKind DEF WaitsForPayment, WaitsForOrder, WaitsForTicket
  <2> QED BY <1>2, <2>1, <2>2 DEF HoldsInOrder
<1>4. \A s \in S : pc[s] \notin WaitsForOrder
  <2> SUFFICES ASSUME NEW s \in S, pc[s] \in WaitsForOrder PROVE FALSE
    OBVIOUS
  <2>1. PICK h \in S, w \in Row : w \in Wants(s) /\ lock[w] = h
    BY <1>1
  <2>2. w[1] = "order"
    BY <2>1, WantedKind DEF WaitsForPayment, WaitsForOrder, WaitsForTicket
  <2> QED BY <1>2, <1>3, <2>1, <2>2 DEF HoldsInOrder
<1> QED BY <1>1, <1>2, <1>3, <1>4 DEF HoldsInOrder

LEMMA OrderedElsewhere ==
  ASSUME NEW x \in Session, HoldsInOrder(x), pc'[x] = pc[x], todo'[x] = todo[x],
         \A w \in Row : lock'[w] = x <=> lock[w] = x
  PROVE  HoldsInOrder(x)'
  BY DEF HoldsInOrder

\* The step of one session, once its own locks are shown to be in order.
LEMMA OrderedStep ==
  ASSUME IInv, \A x \in Session : HoldsInOrder(x), NEW s \in Session,
         \A x \in Session \ {s} : pc'[x] = pc[x] /\ todo'[x] = todo[x],
         (MayLock(s) /\ TakeLocks(s)) \/ UNCHANGED lock,
         HoldsInOrder(s)'
  PROVE  \A x \in Session : HoldsInOrder(x)'
<1> SUFFICES ASSUME NEW x \in Session, x # s PROVE HoldsInOrder(x)'
  OBVIOUS
<1>1. \A w \in Row : lock'[w] = x <=> lock[w] = x
  BY TakeLocksFrame DEF IInv
<1> QED BY <1>1, OrderedElsewhere

LEMMA OrderedEnd ==
  ASSUME IInv, \A x \in Session : HoldsInOrder(x), NEW s \in Session, EndTransaction(s)
  PROVE  \A x \in Session : HoldsInOrder(x)'
<1>1. /\ pc'[s] = "idle" /\ TypeOK
      /\ \A x \in Session \ {s} : /\ pc'[x] = pc[x]
                                  /\ \A w \in Row : lock'[w] = x <=> lock[w] = x
  BY EndTransactionFrame DEF IInv
<1>2. \A x \in Session \ {s} : todo'[x] = todo[x]
  BY <1>1 DEF EndTransaction, TypeOK
<1>3. HoldsInOrder(s)'
  BY <1>1 DEF HoldsInOrder, WaitsForPayment, WaitsForOrder, WaitsForTicket
<1>4. \A x \in Session \ {s} : HoldsInOrder(x)'
  BY <1>1, <1>2, OrderedElsewhere
<1> QED BY <1>3, <1>4

\* A session takes what it waits for and goes on to what comes after it.
LEMMA OrderedTake ==
  ASSUME IInv, \A x \in Session : HoldsInOrder(x), NEW s \in Session, NEW step \in Step,
         MayLock(s), TakeLocks(s), Goto(s, step), UNCHANGED todo,
         \/ pc[s] \in WaitsForPayment /\ step \in {"s_order", "a_verify", "c_order", "r_order"}
         \/ pc[s] \in WaitsForOrder /\ step \in WaitsForTicket,
         step \in {"s_order", "s_tickets"} => pc[s] \in {"s_pay", "s_order"}
  PROVE  \A x \in Session : HoldsInOrder(x)'
<1>1. pc'[s] = step /\ \A x \in Session \ {s} : pc'[x] = pc[x]
  BY DEF IInv, TypeOK, Goto
<1>2. \A w \in Row : lock'[w] = s => lock[w] = s \/ w \in Wants(s)
  BY DEF TakeLocks
<1>3. HoldsInOrder(s)
  OBVIOUS
<1>4. CASE pc[s] \in WaitsForPayment /\ step \in {"s_order", "a_verify", "c_order", "r_order"}
  <2>1. \A w \in Row : lock'[w] = s => w[1] = "payment"
    BY <1>2, <1>3, <1>4, WantedKind DEF HoldsInOrder, WaitsForPayment, WaitsForOrder, WaitsForTicket
  <2>2. HoldsInOrder(s)'
    BY <1>1, <1>3, <1>4, <2>1 DEF HoldsInOrder, WaitsForPayment, WaitsForOrder, WaitsForTicket
  <2> QED BY <1>1, <2>2, OrderedStep
<1>5. CASE pc[s] \in WaitsForOrder /\ step \in WaitsForTicket
  <2>1. \A w \in Row : lock'[w] = s => w[1] # "ticket"
    BY <1>2, <1>3, <1>5, WantedKind DEF HoldsInOrder, WaitsForPayment, WaitsForOrder, WaitsForTicket
  <2>2. HoldsInOrder(s)'
    BY <1>1, <1>3, <1>5, <2>1 DEF HoldsInOrder, WaitsForPayment, WaitsForOrder, WaitsForTicket
  <2> QED BY <1>1, <2>2, OrderedStep
<1> QED BY <1>4, <1>5

\* A session goes on without a lock: to what it waits for first, or to the
\* commit of a sweep.
LEMMA OrderedGo ==
  ASSUME IInv, \A x \in Session : HoldsInOrder(x), NEW s \in Session, NEW step \in Step,
         Goto(s, step), UNCHANGED <<lock, todo>>,
         \/ pc[s] \in Unlocked /\ step \in {"a_pay", "c_pay", "r_pay", "c_verify", "i_call", "i_insert"}
         \/ pc[s] = "a_verify" /\ step \in {"a_order", "a_mismatch"}
  PROVE  \A x \in Session : HoldsInOrder(x)'
<1>1. pc'[s] = step /\ \A x \in Session \ {s} : pc'[x] = pc[x]
  BY DEF IInv, TypeOK, Goto
<1>2. pc[s] \in Unlocked => \A w \in Row : lock[w] # s
  BY DEF IInv, SessionInv, HoldsRows
<1>3. HoldsInOrder(s)
  OBVIOUS
<1>4. HoldsInOrder(s)'
  BY <1>1, <1>2, <1>3 DEF HoldsInOrder, WaitsForPayment, WaitsForOrder, WaitsForTicket
<1> QED BY <1>1, <1>4, OrderedStep

\* A sweep over one order has no candidate after the first.
LEMMA OrderedCandidate ==
  ASSUME OneOrderOnly, IInv, \A x \in Session : HoldsInOrder(x), NEW s \in Session, NEW rest \in SUBSET Order,
         NextCandidate(s, rest),
         \/ UNCHANGED lock /\ (rest = {} \/ \A w \in Row : lock[w] # s)
         \/ MayLock(s) /\ TakeLocks(s) /\ rest = {}
  PROVE  \A x \in Session : HoldsInOrder(x)'
<1>1. CASE rest = {}
  <2>1. pc'[s] = "s_commit" /\ \A x \in Session \ {s} : pc'[x] = pc[x] /\ todo'[x] = todo[x]
    BY <1>1 DEF NextCandidate, IInv, TypeOK, Goto
  <2>2. HoldsInOrder(s)'
    BY <2>1 DEF HoldsInOrder, WaitsForPayment, WaitsForOrder, WaitsForTicket
  <2> QED BY <2>1, <2>2, OrderedStep
<1>2. CASE rest # {}
  <2>1. PICK o \in rest : Goto(s, "s_pay") /\ todo' = [todo EXCEPT ![s] = rest \ {o}]
    BY <1>2 DEF NextCandidate
  <2>2. rest \ {o} = {}
    BY DEF OneOrderOnly
  <2>3. pc'[s] = "s_pay" /\ todo'[s] = {} /\ \A x \in Session \ {s} : pc'[x] = pc[x] /\ todo'[x] = todo[x]
    BY <2>1, <2>2 DEF IInv, TypeOK, Goto
  <2>4. HoldsInOrder(s)'
    BY <1>2, <2>3 DEF HoldsInOrder, WaitsForPayment, WaitsForOrder, WaitsForTicket
  <2> QED BY <1>2, <2>3, <2>4, OrderedStep
<1> QED BY <1>1, <1>2

LEMMA OrderedNext ==
  ASSUME OneOrderOnly, IInv, \A x \in Session : HoldsInOrder(x), [Next]_vars
  PROVE  \A x \in Session : HoldsInOrder(x)'
<1>1. \A s \in Session : /\ pc[s] \in Unlocked => \A w \in Row : lock[w] # s
                         /\ pc[s] \in {"s_order", "s_tickets"} => todo[s] = {}
  BY DEF IInv, SessionInv, HoldsRows, HoldsInOrder
<1>2. ASSUME NEW s \in Session,
             EndTransaction(s) \/ Abort(s) \/ SweepCommit(s) \/ ApplyMismatch(s) \/ ApplyLate(s) \/ ApplyConfirm(s)
               \/ CancelCommit(s) \/ InitializeInsert(s) \/ ReleaseCommit(s)
      PROVE  \A x \in Session : HoldsInOrder(x)'
  BY <1>2, OrderedEnd DEF Abort, SweepCommit, ApplyMismatch, ApplyLate, ApplyConfirm, CancelCommit,
                          InitializeInsert, ReleaseCommit
<1>3. ASSUME NEW s \in Session,
             SweepPayment(s) \/ ApplyLockOrder(s) \/ ReleaseLockPayment(s)
      PROVE  \A x \in Session : HoldsInOrder(x)'
  BY <1>3, OrderedTake DEF SweepPayment, ApplyLockOrder, ReleaseLockPayment, Step,
                           WaitsForPayment, WaitsForOrder, WaitsForTicket
<1>4. ASSUME NEW s \in Session, ApplyLockPayment(s) \/ CancelLockPayment(s) \/ CancelLockOrder(s) \/ ReleaseLockOrder(s)
      PROVE  \A x \in Session : HoldsInOrder(x)'
  <2>1. CASE EndTransaction(s)
    BY <2>1, OrderedEnd
  <2>2. CASE ~EndTransaction(s)
    BY <1>4, <2>2, OrderedTake DEF ApplyLockPayment, CancelLockPayment, CancelLockOrder, ReleaseLockOrder, Step,
                                   WaitsForPayment, WaitsForOrder, WaitsForTicket
  <2> QED BY <2>1, <2>2
<1>5. ASSUME NEW s \in Session, ApplyVerify(s) \/ CancelVerify(s) \/ InitializeCall(s)
      PROVE  \A x \in Session : HoldsInOrder(x)'
  <2>1. CASE EndTransaction(s)
    BY <2>1, OrderedEnd
  <2>2. CASE ~EndTransaction(s)
    BY <1>5, <2>2, OrderedGo DEF ApplyVerify, CancelVerify, InitializeCall, Step, Unlocked
  <2> QED BY <2>1, <2>2
<1>6. ASSUME NEW s \in Session, SweepOrder(s) PROVE \A x \in Session : HoldsInOrder(x)'
  <2>1. CASE order[on[s]] = "pending"
    BY <1>6, <2>1, OrderedTake DEF SweepOrder, Step, WaitsForPayment, WaitsForOrder, WaitsForTicket
  <2>2. CASE order[on[s]] # "pending"
    BY <1>1, <1>6, <2>2, OrderedCandidate DEF SweepOrder
  <2> QED BY <2>1, <2>2
<1>7. ASSUME NEW s \in Session, SweepTickets(s) PROVE \A x \in Session : HoldsInOrder(x)'
  BY <1>1, <1>7, OrderedCandidate DEF SweepTickets
<1>8. ASSUME NEW s \in Session, NEW scope, SweepStart(s, scope) PROVE \A x \in Session : HoldsInOrder(x)'
  <2> DEFINE candidates == {o \in scope \cap overdue : order[o] = "pending"}
  <2>1. candidates \in SUBSET Order
    BY DEF IInv, TypeOK
  <2>2. pc[s] = "idle" /\ NextCandidate(s, candidates) /\ UNCHANGED lock
    BY <1>8 DEF SweepStart
  <2> HIDE DEF candidates
  <2> QED BY <1>1, <2>1, <2>2, OrderedCandidate DEF Unlocked
<1>9. ASSUME NEW s \in Session, NEW o \in Order, ApplyStart(s, o) \/ CancelStart(s, o) \/ InitializeStart(s, o)
      PROVE  \A x \in Session : HoldsInOrder(x)'
  BY <1>9, OrderedGo DEF ApplyStart, CancelStart, InitializeStart, Begin, Step, Unlocked
<1>10. ASSUME NEW o \in Order, TimePasses(o) \/ ChargeMoves(o) PROVE \A x \in Session : HoldsInOrder(x)'
  BY <1>10 DEF TimePasses, ChargeMoves, sessions, HoldsInOrder
<1>11. CASE UNCHANGED vars
  BY <1>11 DEF vars, HoldsInOrder
<1>12. Worker \in Session /\ Request \subseteq Session
  BY DEF Session
<1> QED
  BY <1>2, <1>3, <1>4, <1>5, <1>6, <1>7, <1>8, <1>9, <1>10, <1>11, <1>12 DEF Next, Proceed, Continue, Arrive

\* Over the rows of one order no requests and sweeps, however many, wait for
\* each other in a circle: what the lock order Payment, Order, Ticket of
\* payment.py and ticket.py is for.
THEOREM OneOrderNeverDeadlocks ==
  ASSUME OneOrderOnly
  PROVE  Spec => []NoWaitCycle
<1>1. Init => \A s \in Session : HoldsInOrder(s)
  BY DEF Init, HoldsInOrder, WaitsForPayment, WaitsForOrder, WaitsForTicket
<1>2. IInv /\ (\A s \in Session : HoldsInOrder(s)) /\ [Next]_vars => (\A s \in Session : HoldsInOrder(s))'
  BY OrderedNext
<1>3. IInv /\ (\A s \in Session : HoldsInOrder(s)) => NoWaitCycle
  BY OrderedHasNoCycle DEF IInv
<1> QED BY <1>1, <1>2, <1>3, Invariance, PTL DEF Spec

\* No path confirms an order on a charge that was not verified, nor one whose
\* payment is to be refunded.
THEOREM SoldOrdersArePaid == Spec => []SaleIsPaid
<1>1. IInv => SaleIsPaid
  BY DEF IInv, SaleInv
<1> QED BY <1>1, Invariance, PTL
=============================================================================
