-------------------------- MODULE InventoryProofs --------------------------
(***************************************************************************)
(* Proofs about Inventory, for every number of types, tickets, buyers,     *)
(* sessions and keys.  The inductive invariant says what a session that    *)
(* has counted may still rely on when it writes: it holds the type's lock, *)
(* so the tickets that hold places can only have become fewer and the      *)
(* buyer has not got another reservation meanwhile.                        *)
(***************************************************************************)
EXTENDS Venue, FiniteSetTheorems, TLAPS

\* The tickets that hold a place of the type by right.
Kept(y) == Issued(y) \ revived

Locked == {"o_count", "o_insert", "e_count", "e_save"}

\* What a session working on type y has found, and may still rely on.
Relies(s, y) ==
  LET me == desk[s]
  IN  /\ me.at \in Locked => lock[y] = s
      /\ me.at = "o_insert" =>
           /\ Cardinality(Kept(y)) + me.n <= quantity[y]
           /\ me.price = price[y]
           /\ \A b \in Buyer : me.buyer = b => Reservation(b, y) = {}
      /\ me.at = "e_save" =>
           /\ me.n \in 0 .. MaxQuantity
           /\ Cardinality(Kept(y)) <= me.n
           /\ me.price # price[y] => Kept(y) = {}

DeskInv(s) ==
  /\ desk[s].at # "rest" => desk[s].type \in Type
  /\ desk[s].at \in {"o_lock", "o_count", "o_insert"} =>
       desk[s].buyer \in Buyer /\ desk[s].key \in Key
  /\ \A y \in Type : desk[s].type = y => Relies(s, y)

TicketInv ==
  \A t \in Ticket : ticket[t].status # "none" =>
    /\ ticket[t].type \in Type
    /\ ticket[t].order \in Key
    /\ order[ticket[t].order].status # "none"

\* What is inductive: TypeOK and the three properties, with what every session
\* relies on and what every issued ticket refers to.
InventoryInv ==
  /\ TypeOK
  /\ \A s \in Session : DeskInv(s)
  /\ TicketInv
  /\ CapacityIsKept
  /\ PriceIsKept
  /\ OneReservationPerBuyer
-----------------------------------------------------------------------------
\* The counted sets are finite, and counting follows inclusion.
LEMMA Counting ==
  ASSUME NEW S, NEW T, S \subseteq Ticket, T \subseteq Ticket
  PROVE  /\ Cardinality(S) \in Nat
         /\ S \subseteq T => Cardinality(S) <= Cardinality(T)
         /\ Cardinality(S \cup T) <= Cardinality(S) + Cardinality(T)
<1>1. IsFiniteSet(S) /\ IsFiniteSet(T)
  BY FS_Subset, InventoryAssumption
<1>2. Cardinality(S) \in Nat /\ Cardinality(T) \in Nat /\ Cardinality(S \cap T) \in Nat
  BY <1>1, FS_CardinalityType, FS_Intersection
<1>3. S \subseteq T => Cardinality(S) <= Cardinality(T)
  BY <1>1, FS_Subset
<1>4. Cardinality(S \cup T) = Cardinality(S) + Cardinality(T) - Cardinality(S \cap T)
  BY <1>1, FS_Union
<1>5. ASSUME NEW i \in Nat, NEW j \in Nat, NEW k \in Nat PROVE i + j - k <= i + j
  OBVIOUS
<1>6. Cardinality(S \cup T) <= Cardinality(S) + Cardinality(T)
  BY <1>2, <1>4, <1>5
<1> QED
  BY <1>2, <1>3, <1>6

LEMMA InitInv == Init => InventoryInv
<1> SUFFICES ASSUME Init PROVE InventoryInv
  OBVIOUS
<1> USE DEF Init, NoTicket, NoOrder, AtRest
<1>1. TypeOK
  BY InventoryAssumption DEF TypeOK, DeskState, TicketStatus, HoldsCapacity, OrderStatus
<1>2. \A y \in Type : Issued(y) \ revived = {}
  BY DEF Issued, HoldsCapacity
<1>3. CapacityIsKept
  <2>1. \A y \in Type : quantity[y] \in Nat
    BY InventoryAssumption
  <2> HIDE DEF Init
  <2> QED
    BY <1>2, <2>1, FS_EmptySet DEF CapacityIsKept
<1>4. PriceIsKept /\ TicketInv /\ OneReservationPerBuyer
  BY DEF PriceIsKept, TicketInv, OneReservationPerBuyer, HoldsCapacity, Reservation
<1>5. \A s \in Session : DeskInv(s)
  BY InventoryAssumption DEF DeskInv, Relies, Locked
<1> QED
  BY <1>1, <1>3, <1>4, <1>5 DEF InventoryInv

LEMMA NatFields ==
  ASSUME TypeOK
  PROVE  /\ \A s \in Session : desk[s].n \in Nat
         /\ \A y \in Type : quantity[y] \in Nat
<1>1. \A s \in Session : desk[s] \in DeskState
  BY DEF TypeOK
<1>2. \A y \in Type : quantity[y] \in 0 .. MaxQuantity
  BY DEF TypeOK
<1> QED
  BY <1>1, <1>2, InventoryAssumption DEF DeskState

LEMMA KeptType ==
  ASSUME NEW y \in Type
  PROVE  Kept(y) \subseteq Ticket /\ Kept(y)' \subseteq Ticket
BY DEF Kept, Issued

\* A session is not disturbed by a step that leaves its desk and its locks and
\* changes its type, if it has locked it, only by making fewer tickets count.
LEMMA UndisturbedDesk ==
  ASSUME InventoryInv, NEW r \in Session, desk'[r] = desk[r],
         \A y \in Type : lock[y] = r =>
           /\ lock'[y] = r
           /\ quantity'[y] = quantity[y] /\ price'[y] = price[y]
           /\ Kept(y)' \subseteq Kept(y)
           /\ \A b \in Buyer : Reservation(b, y)' \subseteq Reservation(b, y)
  PROVE  DeskInv(r)'
<1>1. DeskInv(r)
  BY DEF InventoryInv
<1>2. ASSUME NEW y \in Type, desk[r].type = y PROVE Relies(r, y)'
  <2>1. Relies(r, y)
    BY <1>1, <1>2 DEF DeskInv
  <2>2. CASE desk[r].at \notin Locked
    BY <2>2 DEF Relies, Locked
  <2>3. CASE desk[r].at \in Locked
    <3>1. lock[y] = r
      BY <2>1, <2>3 DEF Relies
    <3>2. Cardinality(Kept(y)') <= Cardinality(Kept(y))
      BY <3>1, KeptType, Counting
    <3>3. Cardinality(Kept(y)) \in Nat /\ Cardinality(Kept(y)') \in Nat
      BY KeptType, Counting
    <3>4. desk[r].n \in Nat /\ quantity[y] \in Nat /\ MaxQuantity \in Nat
      BY InventoryAssumption DEF InventoryInv, TypeOK, DeskState
    <3>5. desk[r].at = "o_insert" => Cardinality(Kept(y)') + desk[r].n <= quantity[y]
      BY <2>1, <3>2, <3>3, <3>4 DEF Relies
    <3>6. desk[r].at = "e_save" => Cardinality(Kept(y)') <= desk[r].n
      BY <2>1, <3>2, <3>3, <3>4 DEF Relies
    <3>7. desk[r].at = "e_save" /\ desk[r].price # price[y] => Kept(y)' = {}
      BY <2>1, <3>1 DEF Relies
    <3>8. \A b \in Buyer : desk[r].at = "o_insert" /\ desk[r].buyer = b => Reservation(b, y)' = {}
      BY <2>1, <3>1 DEF Relies
    <3> QED
      BY <2>1, <3>1, <3>5, <3>6, <3>7, <3>8 DEF Relies
  <2> QED
    BY <2>2, <2>3
<1> QED
  BY <1>1, <1>2 DEF DeskInv

-----------------------------------------------------------------------------
\* Steps of one session that write no row.
LEMMA DeskStepInv ==
  ASSUME InventoryInv, NEW s \in Session, UNCHANGED <<types, sales>>, TypeOK', DeskInv(s)',
         \A r \in Session \ {s} :
           desk'[r] = desk[r] /\ \A y \in Type : lock[y] = r => lock'[y] = r
  PROVE  InventoryInv'
<1>1. \A y \in Type : Kept(y)' = Kept(y)
  BY DEF Kept, Issued, sales
<1>2. \A b \in Buyer, y \in Type : Reservation(b, y)' = Reservation(b, y)
  BY DEF Reservation, TicketsOf, sales
<1>3. ASSUME NEW r \in Session, r # s PROVE DeskInv(r)'
  BY <1>1, <1>2, <1>3, UndisturbedDesk DEF types
<1>4. TicketInv' /\ PriceIsKept'
  BY DEF InventoryInv, TicketInv, PriceIsKept, types, sales
<1>5. CapacityIsKept'
  BY DEF InventoryInv, CapacityIsKept, Issued, types, sales
<1>6. OneReservationPerBuyer'
  BY <1>2 DEF InventoryInv, OneReservationPerBuyer
<1> QED
  BY <1>3, <1>4, <1>5, <1>6 DEF InventoryInv

\* A session that leaves has nothing to rely on and takes no other's lock.
LEMMA LeaveFacts ==
  ASSUME TypeOK, NEW s \in Session, Leave(s)
  PROVE  /\ desk' \in [Session -> DeskState]
         /\ lock' \in [Type -> Session \cup {NoSession}]
         /\ DeskInv(s)'
         /\ \A r \in Session \ {s} :
              desk'[r] = desk[r] /\ \A y \in Type : lock[y] = r => lock'[y] = r
<1> USE DEF Leave, TypeOK
<1>1. desk'[s] = AtRest
  OBVIOUS
<1>2. DeskInv(s)'
  BY <1>1, InventoryAssumption DEF DeskInv, Relies, AtRest, Locked
<1>3. AtRest \in DeskState
  BY InventoryAssumption DEF AtRest, DeskState
<1>4. desk' \in [Session -> DeskState] /\ \A r \in Session \ {s} : desk'[r] = desk[r]
  BY <1>3
<1>5. lock' \in [Type -> Session \cup {NoSession}]
  OBVIOUS
<1>6. \A r \in Session \ {s}, y \in Type : lock[y] = r => lock'[y] = r
  OBVIOUS
<1> QED
  BY <1>2, <1>4, <1>5, <1>6

LEMMA RefuseInv ==
  ASSUME InventoryInv, NEW s \in Session, Refuse(s)
  PROVE  InventoryInv'
<1>1. TypeOK'
  BY LeaveFacts DEF Refuse, InventoryInv, TypeOK, types, sales
<1> QED
  BY <1>1, LeaveFacts, DeskStepInv DEF Refuse, InventoryInv

LEMMA OrderStartInv ==
  ASSUME InventoryInv, NEW s \in Session, NEW b \in Buyer, NEW y \in Type,
         NEW n \in 1 .. MaxPerOrder, NEW k \in Key, OrderStart(s, b, y, n, k)
  PROVE  InventoryInv'
<1> DEFINE new == [AtRest EXCEPT !.at = "o_lock", !.type = y, !.buyer = b, !.key = k, !.n = n]
<1>1. new \in DeskState
  <2>1. n \in Nat /\ AtRest \in DeskState
    BY InventoryAssumption DEF AtRest, DeskState
  <2> QED
    BY <2>1 DEF DeskState
<1> USE DEF OrderStart, InventoryInv
<1>2. TypeOK' /\ desk'[s] = new /\ \A r \in Session \ {s} : desk'[r] = desk[r]
  BY <1>1 DEF TypeOK, types, sales
<1>3. DeskInv(s)'
  BY <1>2 DEF DeskInv, Relies, AtRest, Locked
<1> QED
  BY <1>2, <1>3, DeskStepInv

\* A lock is taken by the session that finds it free.
LEMMA TakeTypeFacts ==
  ASSUME TypeOK, NEW s \in Session, NEW y \in Type, NEW new \in DeskState,
         TakeType(s, y, [desk EXCEPT ![s] = new]), UNCHANGED <<types, sales>>
  PROVE  /\ TypeOK'
         /\ desk'[s] = new /\ lock'[y] = s
         /\ \A r \in Session \ {s} :
              desk'[r] = desk[r] /\ \A x \in Type : lock[x] = r => lock'[x] = r
BY InventoryAssumption DEF TakeType, TypeOK, types, sales

LEMMA OrderLockInv ==
  ASSUME InventoryInv, NEW s \in Session, OrderLock(s)
  PROVE  InventoryInv'
<1> DEFINE new == [desk[s] EXCEPT !.at = "o_count"]
<1>1. DeskInv(s) /\ desk[s].at = "o_lock" /\ desk[s] \in DeskState /\ TypeOK
  BY DEF InventoryInv, OrderLock, TypeOK
<1>2. desk[s].type \in Type
  BY <1>1 DEF DeskInv
<1>3. new \in DeskState /\ TakeType(s, desk[s].type, [desk EXCEPT ![s] = new])
  BY <1>1 DEF OrderLock, DeskState
<1>4. UNCHANGED <<types, sales>>
  BY DEF OrderLock
<1> HIDE DEF new
<1>5. /\ TypeOK'
      /\ desk'[s] = new /\ lock'[desk[s].type] = s
      /\ \A r \in Session \ {s} :
              desk'[r] = desk[r] /\ \A x \in Type : lock[x] = r => lock'[x] = r
  BY <1>1, <1>2, <1>3, <1>4, TakeTypeFacts
<1>6. DeskInv(s)'
  BY <1>1, <1>2, <1>5 DEF DeskInv, Relies, Locked, new, DeskState
<1> QED
  BY <1>4, <1>5, <1>6, DeskStepInv

LEMMA EditLockInv ==
  ASSUME InventoryInv, NEW s \in Session, NEW y \in Type, EditLock(s, y)
  PROVE  InventoryInv'
<1> DEFINE new == [AtRest EXCEPT !.at = "e_count", !.type = y]
<1>1. new \in DeskState
  BY InventoryAssumption DEF AtRest, DeskState
<1>2. TypeOK /\ TakeType(s, y, [desk EXCEPT ![s] = new]) /\ UNCHANGED <<types, sales>>
  BY DEF EditLock, InventoryInv
<1> HIDE DEF new
<1>3. /\ TypeOK'
      /\ desk'[s] = new /\ lock'[y] = s
      /\ \A r \in Session \ {s} :
              desk'[r] = desk[r] /\ \A x \in Type : lock[x] = r => lock'[x] = r
  BY <1>1, <1>2, TakeTypeFacts
<1>4. DeskInv(s)'
  BY <1>3 DEF DeskInv, Relies, AtRest, Locked, new
<1> QED
  BY <1>2, <1>3, <1>4, DeskStepInv

\* What is counted under the lock includes every ticket that holds a place by
\* right.
LEMMA KeptIsIssued ==
  ASSUME NEW y \in Type
  PROVE  /\ Cardinality(Issued(y)) \in Nat /\ Cardinality(Kept(y)) \in Nat
         /\ Cardinality(Kept(y)) <= Cardinality(Issued(y))
         /\ Cardinality(Issued(y)) = 0 => Kept(y) = {}
<1>1. Kept(y) \subseteq Issued(y) /\ Issued(y) \subseteq Ticket
  BY DEF Kept, Issued
<1>2. Cardinality(Issued(y)) = 0 => Issued(y) = {}
  BY <1>1, FS_EmptySet, FS_Subset, InventoryAssumption
<1> QED
  BY <1>1, <1>2, Counting

\* A session goes on, and nothing else changes.
LEMMA DeskMoves ==
  ASSUME TypeOK, NEW s \in Session, NEW new \in DeskState,
         desk' = [desk EXCEPT ![s] = new], UNCHANGED <<types, sales, lock>>
  PROVE  /\ TypeOK' /\ desk'[s] = new
         /\ \A r \in Session \ {s} : desk'[r] = desk[r]
         /\ \A y \in Type :
              /\ Kept(y)' = Kept(y)
              /\ \A b \in Buyer : Reservation(b, y)' = Reservation(b, y)
              /\ quantity'[y] = quantity[y] /\ price'[y] = price[y] /\ lock'[y] = lock[y]
<1>1. TypeOK' /\ desk'[s] = new /\ \A r \in Session \ {s} : desk'[r] = desk[r]
  BY DEF TypeOK, types, sales
<1>2. \A y \in Type : Kept(y)' = Kept(y)
  BY DEF Kept, Issued, sales
<1>3. \A y \in Type, b \in Buyer : Reservation(b, y)' = Reservation(b, y)
  BY DEF Reservation, TicketsOf, sales
<1> QED
  BY <1>1, <1>2, <1>3 DEF types

LEMMA OrderCountInv ==
  ASSUME InventoryInv, NEW s \in Session, OrderCount(s)
  PROVE  InventoryInv'
<1> DEFINE y == desk[s].type
           new == [desk[s] EXCEPT !.at = "o_insert", !.price = price[y]]
<1>1. DeskInv(s) /\ TypeOK /\ desk[s].at = "o_count" /\ desk[s] \in DeskState
  BY DEF InventoryInv, OrderCount, TypeOK
<1>2. y \in Type /\ desk[s].buyer \in Buyer /\ desk[s].key \in Key /\ lock[y] = s
  BY <1>1 DEF DeskInv, Relies, Locked
<1>3. /\ Reservation(desk[s].buyer, y) = {}
      /\ Cardinality(Issued(y)) + desk[s].n <= quantity[y]
      /\ UNCHANGED <<types, sales, lock>>
  BY DEF OrderCount
<1>4. desk' = [desk EXCEPT ![s] = new]
  BY <1>1 DEF OrderCount, TypeOK, DeskState
<1>5. price[y] \in Price
  BY <1>1, <1>2 DEF TypeOK
<1>6. new \in DeskState
  BY <1>1, <1>2, <1>5 DEF DeskState
<1>7. /\ new.at = "o_insert" /\ new.type = y /\ new.buyer = desk[s].buyer
      /\ new.key = desk[s].key /\ new.n = desk[s].n /\ new.price = price[y]
  BY <1>1 DEF DeskState
<1> HIDE DEF new, y
<1>8. /\ TypeOK' /\ desk'[s] = new
      /\ \A r \in Session \ {s} : desk'[r] = desk[r]
      /\ \A x \in Type :
           /\ Kept(x)' = Kept(x)
           /\ \A b \in Buyer : Reservation(b, x)' = Reservation(b, x)
           /\ quantity'[x] = quantity[x] /\ price'[x] = price[x] /\ lock'[x] = lock[x]
  BY <1>1, <1>3, <1>4, <1>6, DeskMoves
<1>9. Cardinality(Kept(y)) + desk[s].n <= quantity[y]
  BY <1>1, <1>2, <1>3, NatFields, KeptIsIssued
<1>10. ASSUME NEW x \in Type, x = y PROVE Relies(s, x)'
  BY <1>2, <1>3, <1>7, <1>8, <1>9, <1>10 DEF Relies
<1>11. DeskInv(s)'
  BY <1>2, <1>7, <1>8, <1>10 DEF DeskInv
<1>12. \A r \in Session \ {s}, x \in Type : lock[x] = r => lock'[x] = r
  BY <1>8
<1> QED
  BY <1>3, <1>8, <1>11, <1>12, DeskStepInv

LEMMA EditCountInv ==
  ASSUME InventoryInv, NEW s \in Session, NEW q \in 0 .. MaxQuantity, NEW p \in Price,
         EditCount(s, q, p)
  PROVE  InventoryInv'
<1> DEFINE y == desk[s].type
           new == [desk[s] EXCEPT !.at = "e_save", !.n = q, !.price = p]
<1>1. DeskInv(s) /\ TypeOK /\ desk[s].at = "e_count" /\ desk[s] \in DeskState
  BY DEF InventoryInv, EditCount, TypeOK
<1>2. y \in Type /\ lock[y] = s
  BY <1>1 DEF DeskInv, Relies, Locked
<1>3. /\ p # price[y] => Cardinality(Issued(y)) = 0
      /\ q # quantity[y] => Cardinality(Issued(y)) <= q
      /\ UNCHANGED <<types, sales, lock>>
  BY DEF EditCount
<1>4. desk' = [desk EXCEPT ![s] = new]
  BY <1>1 DEF EditCount, TypeOK, DeskState
<1>5. q \in Nat
  BY InventoryAssumption
<1>6. new \in DeskState
  BY <1>1, <1>5 DEF DeskState
<1>7. new.at = "e_save" /\ new.type = y /\ new.n = q /\ new.price = p
  BY <1>1 DEF DeskState
<1> HIDE DEF new, y
<1>8. /\ TypeOK' /\ desk'[s] = new
      /\ \A r \in Session \ {s} : desk'[r] = desk[r]
      /\ \A x \in Type :
           /\ Kept(x)' = Kept(x)
           /\ \A b \in Buyer : Reservation(b, x)' = Reservation(b, x)
           /\ quantity'[x] = quantity[x] /\ price'[x] = price[x] /\ lock'[x] = lock[x]
  BY <1>1, <1>3, <1>4, <1>6, DeskMoves
<1>9. Cardinality(Kept(y)) <= quantity[y]
  BY <1>2 DEF InventoryInv, CapacityIsKept, Kept
<1>10. Cardinality(Kept(y)) <= q
  BY <1>1, <1>2, <1>3, <1>5, <1>9, NatFields, KeptIsIssued
<1>11. p # price[y] => Kept(y) = {}
  BY <1>2, <1>3, KeptIsIssued
<1>12. ASSUME NEW x \in Type, x = y PROVE Relies(s, x)'
  BY <1>2, <1>7, <1>8, <1>10, <1>11, <1>12 DEF Relies
<1>13. DeskInv(s)'
  BY <1>2, <1>7, <1>8, <1>12 DEF DeskInv
<1>14. \A r \in Session \ {s}, x \in Type : lock[x] = r => lock'[x] = r
  BY <1>8
<1> QED
  BY <1>3, <1>8, <1>13, <1>14, DeskStepInv

-----------------------------------------------------------------------------
\* The other modules' commits make no ticket count that did not, and open no
\* reservation: they disturb no session.
LEMMA OutsideStepInv ==
  ASSUME InventoryInv, UNCHANGED <<types, lock, desk>>, TypeOK', TicketInv', PriceIsKept',
         \A y \in Type :
           /\ Kept(y)' \subseteq Kept(y)
           /\ \A b \in Buyer : Reservation(b, y)' \subseteq Reservation(b, y)
  PROVE  InventoryInv'
<1>1. \A r \in Session : DeskInv(r)'
  <2>1. ASSUME NEW r \in Session PROVE DeskInv(r)'
    BY UndisturbedDesk DEF types
  <2> QED
    BY <2>1
<1>2. ASSUME NEW y \in Type PROVE Cardinality(Kept(y)') <= quantity'[y]
  <2>1. Cardinality(Kept(y)) <= quantity[y] /\ TypeOK
    BY DEF InventoryInv, CapacityIsKept, Kept
  <2>2. /\ Cardinality(Kept(y)) \in Nat /\ Cardinality(Kept(y)') \in Nat
        /\ Cardinality(Kept(y)') <= Cardinality(Kept(y))
    BY KeptType, Counting
  <2> QED
    BY <2>1, <2>2, NatFields DEF types
<1>3. CapacityIsKept'
  BY <1>2 DEF CapacityIsKept, Kept
<1>4. OneReservationPerBuyer'
  BY DEF InventoryInv, OneReservationPerBuyer
<1> QED
  BY <1>1, <1>3, <1>4 DEF InventoryInv

\* A ticket that moves changes its status only.
LEMMA Moved ==
  ASSUME TypeOK, NEW ts, NEW from, NEW to \in TicketStatus, MoveTickets(ts, from, to)
  PROVE  /\ ticket' \in [Ticket -> [status : TicketStatus, type : Type \cup {NoType},
                                    order : Key \cup {NoKey}, cost : Price]]
         /\ \A t \in Ticket :
              /\ ticket'[t].type = ticket[t].type
              /\ ticket'[t].order = ticket[t].order
              /\ ticket'[t].cost = ticket[t].cost
              /\ ticket'[t].status =
                   IF t \in ts /\ ticket[t].status \in from THEN to ELSE ticket[t].status
BY DEF MoveTickets, TypeOK

LEMMA ConcludeInv ==
  ASSUME InventoryInv, NEW k \in Key, Conclude(k)
  PROVE  InventoryInv'
<1>1. TypeOK /\ TicketInv /\ PriceIsKept
  BY DEF InventoryInv
<1>2. PICK os \in {"confirmed", "ended"}, to \in {"active", "released"} :
        order' = [order EXCEPT ![k].status = os] /\ MoveTickets(TicketsOf(k), {"held"}, to)
  BY DEF Conclude
<1>3. to \in TicketStatus /\ os \in OrderStatus
  BY DEF TicketStatus, HoldsCapacity, OrderStatus
<1>4. order[k].status = "pending" /\ UNCHANGED <<types, revived, lock, desk>>
  BY DEF Conclude
<1>5. order' \in [Key -> [status : OrderStatus, buyer : Buyer \cup {NoBuyer}]]
  BY <1>1, <1>2, <1>3 DEF TypeOK
<1>6. \A j \in Key : /\ order'[j].buyer = order[j].buyer
                     /\ order'[j].status = IF j = k THEN os ELSE order[j].status
  BY <1>1, <1>2 DEF TypeOK
<1>7. /\ ticket' \in [Ticket -> [status : TicketStatus, type : Type \cup {NoType},
                                    order : Key \cup {NoKey}, cost : Price]]
      /\ \A t \in Ticket :
              /\ ticket'[t].type = ticket[t].type
              /\ ticket'[t].order = ticket[t].order
              /\ ticket'[t].cost = ticket[t].cost
              /\ ticket'[t].status =
                   IF t \in TicketsOf(k) /\ ticket[t].status \in {"held"} THEN to ELSE ticket[t].status
  BY <1>1, <1>2, <1>3, Moved
<1>8. TypeOK'
  BY <1>1, <1>4, <1>5, <1>7 DEF TypeOK, types
<1>9. TicketInv'
  BY <1>1, <1>6, <1>7 DEF TicketInv
<1>10. PriceIsKept'
  BY <1>1, <1>4, <1>7 DEF PriceIsKept, HoldsCapacity, types
<1>11. ASSUME NEW y \in Type PROVE Kept(y)' \subseteq Kept(y)
  BY <1>4, <1>7 DEF Kept, Issued, HoldsCapacity
<1>12. ASSUME NEW y \in Type, NEW b \in Buyer PROVE Reservation(b, y)' \subseteq Reservation(b, y)
  BY <1>2, <1>6, <1>7 DEF Reservation, TicketsOf
<1> QED
  BY <1>4, <1>8, <1>9, <1>10, <1>11, <1>12, OutsideStepInv

LEMMA ReturnTicketInv ==
  ASSUME InventoryInv, NEW t \in Ticket, ReturnTicket(t)
  PROVE  InventoryInv'
<1> DEFINE k == ticket[t].order
<1>1. TypeOK /\ TicketInv /\ PriceIsKept
  BY DEF InventoryInv
<1>2. PICK to \in {"released", "returned"} : MoveTickets({t}, HoldsCapacity, to)
  BY DEF ReturnTicket
<1>3. to \in TicketStatus
  BY DEF TicketStatus
<1>4. /\ ticket[t].status \in HoldsCapacity /\ revived' = revived \ {t}
      /\ UNCHANGED <<types, lock, desk>>
      /\ order' = order \/ order' = [order EXCEPT ![k].status = "ended"]
  BY DEF ReturnTicket
<1>5. k \in Key
  BY <1>1, <1>4 DEF TicketInv, HoldsCapacity
<1> HIDE DEF k
<1>6. order' \in [Key -> [status : OrderStatus, buyer : Buyer \cup {NoBuyer}]]
  BY <1>1, <1>4, <1>5 DEF TypeOK, OrderStatus
<1>7. \A j \in Key : /\ order'[j].buyer = order[j].buyer
                     /\ order'[j].status \in {"ended", order[j].status}
  BY <1>1, <1>4, <1>5 DEF TypeOK
<1>8. /\ ticket' \in [Ticket -> [status : TicketStatus, type : Type \cup {NoType},
                                    order : Key \cup {NoKey}, cost : Price]]
      /\ \A u \in Ticket :
              /\ ticket'[u].type = ticket[u].type
              /\ ticket'[u].order = ticket[u].order
              /\ ticket'[u].cost = ticket[u].cost
              /\ ticket'[u].status =
                   IF u \in {t} /\ ticket[u].status \in HoldsCapacity THEN to ELSE ticket[u].status
  BY <1>1, <1>2, <1>3, Moved
<1>9. TypeOK'
  BY <1>1, <1>4, <1>6, <1>8 DEF TypeOK, types
<1>10. TicketInv'
  BY <1>1, <1>4, <1>7, <1>8 DEF TicketInv, HoldsCapacity
<1>11. PriceIsKept'
  BY <1>1, <1>2, <1>4, <1>8 DEF PriceIsKept, HoldsCapacity, types
<1>12. ASSUME NEW y \in Type PROVE Kept(y)' \subseteq Kept(y)
  BY <1>2, <1>4, <1>8 DEF Kept, Issued, HoldsCapacity
<1>13. ASSUME NEW y \in Type, NEW b \in Buyer PROVE Reservation(b, y)' \subseteq Reservation(b, y)
  BY <1>2, <1>7, <1>8 DEF Reservation, TicketsOf
<1> QED
  BY <1>4, <1>9, <1>10, <1>11, <1>12, <1>13, OutsideStepInv

LEMMA AdmitInv ==
  ASSUME InventoryInv, NEW t \in Ticket, Admit(t)
  PROVE  InventoryInv'
<1>1. TypeOK /\ TicketInv /\ PriceIsKept
  BY DEF InventoryInv
<1>2. "used" \in TicketStatus
  BY DEF TicketStatus, HoldsCapacity
<1>3. /\ MoveTickets({t}, {"active", "returned"}, "used")
      /\ UNCHANGED <<types, order, lock, desk>>
      /\ \/ ticket[t].status = "active" /\ revived' = revived
         \/ ticket[t].status = "returned" /\ revived' = revived \cup {t}
  BY DEF Admit
<1>4. /\ ticket' \in [Ticket -> [status : TicketStatus, type : Type \cup {NoType},
                                    order : Key \cup {NoKey}, cost : Price]]
      /\ \A u \in Ticket :
              /\ ticket'[u].type = ticket[u].type
              /\ ticket'[u].order = ticket[u].order
              /\ ticket'[u].cost = ticket[u].cost
              /\ ticket'[u].status =
                   IF u \in {t} /\ ticket[u].status \in {"active", "returned"} THEN "used" ELSE ticket[u].status
  BY <1>1, <1>2, <1>3, Moved
<1>5. TypeOK'
  BY <1>1, <1>3, <1>4 DEF TypeOK, types
<1>6. TicketInv'
  BY <1>1, <1>3, <1>4 DEF TicketInv
<1>7. PriceIsKept'
  BY <1>1, <1>3, <1>4 DEF PriceIsKept, HoldsCapacity, types
<1>8. ASSUME NEW y \in Type PROVE Kept(y)' \subseteq Kept(y)
  BY <1>3, <1>4 DEF Kept, Issued, HoldsCapacity
<1>9. ASSUME NEW y \in Type, NEW b \in Buyer PROVE Reservation(b, y)' \subseteq Reservation(b, y)
  BY <1>3, <1>4 DEF Reservation, TicketsOf
<1> QED
  BY <1>3, <1>5, <1>6, <1>7, <1>8, <1>9, OutsideStepInv

-----------------------------------------------------------------------------
\* The new tickets fit, because the counted ones have only become fewer.
LEMMA OrderInsertInv ==
  ASSUME InventoryInv, NEW s \in Session, OrderInsert(s)
  PROVE  InventoryInv'
<1> DEFINE me == desk[s]
           y  == me.type
           st == IF me.price = Free THEN "active" ELSE "held"
           os == IF me.price = Free THEN "confirmed" ELSE "pending"
<1>1. TypeOK /\ TicketInv /\ PriceIsKept /\ CapacityIsKept /\ OneReservationPerBuyer /\ DeskInv(s)
  BY DEF InventoryInv
<1>2. /\ me.at = "o_insert" /\ order[me.key].status = "none" /\ Leave(s)
      /\ UNCHANGED <<types, revived>>
      /\ order' = [order EXCEPT ![me.key] = [status |-> os, buyer |-> me.buyer]]
  BY DEF OrderInsert
<1>3. PICK new \in SUBSET Unused :
        /\ Cardinality(new) = me.n
        /\ ticket' = [t \in Ticket |->
             IF t \in new THEN [status |-> st, type |-> me.type, order |-> me.key, cost |-> me.price]
             ELSE ticket[t]]
  BY DEF OrderInsert
<1>4. y \in Type /\ me.buyer \in Buyer /\ me.key \in Key
  BY <1>1, <1>2 DEF DeskInv
<1>5. Relies(s, y)
  BY <1>1, <1>4 DEF DeskInv
<1>6. /\ lock[y] = s /\ me.price = price[y]
      /\ Cardinality(Kept(y)) + me.n <= quantity[y]
      /\ Reservation(me.buyer, y) = {}
  BY <1>2, <1>4, <1>5 DEF Relies, Locked
<1>7. me.price \in Price
  BY <1>1, <1>4, <1>6 DEF TypeOK
<1>8. st \in {"active", "held"} /\ os \in {"confirmed", "pending"} /\ (os = "pending" => st = "held")
  OBVIOUS
<1> HIDE DEF me, y, st, os
<1>9. /\ desk' \in [Session -> DeskState]
      /\ lock' \in [Type -> Session \cup {NoSession}]
      /\ DeskInv(s)'
      /\ \A r \in Session \ {s} :
           desk'[r] = desk[r] /\ \A x \in Type : lock[x] = r => lock'[x] = r
  BY <1>1, <1>2, LeaveFacts
<1>10. /\ order' \in [Key -> [status : OrderStatus, buyer : Buyer \cup {NoBuyer}]]
       /\ order'[me.key].status = os /\ order'[me.key].buyer = me.buyer
       /\ \A k \in Key \ {me.key} : order'[k] = order[k]
  BY <1>1, <1>2, <1>4, <1>8 DEF TypeOK, OrderStatus, y
<1>11. new \subseteq Ticket /\ \A t \in new : ticket[t].status = "none"
  BY DEF Unused
<1>12. /\ ticket' \in [Ticket -> [status : TicketStatus, type : Type \cup {NoType},
                                    order : Key \cup {NoKey}, cost : Price]]
       /\ \A t \in Ticket \ new : ticket'[t] = ticket[t]
       /\ \A t \in new : /\ ticket'[t].status = st /\ ticket'[t].type = y
                         /\ ticket'[t].order = me.key /\ ticket'[t].cost = me.price
  BY <1>1, <1>3, <1>4, <1>7, <1>8, <1>11 DEF TypeOK, TicketStatus, HoldsCapacity, y
<1>13. TypeOK'
  BY <1>1, <1>2, <1>9, <1>10, <1>12 DEF TypeOK, types
<1>14. TicketInv'
  BY <1>1, <1>4, <1>8, <1>10, <1>12 DEF TicketInv
<1>15. PriceIsKept'
  BY <1>1, <1>2, <1>6, <1>12 DEF PriceIsKept, types
<1>16. ASSUME NEW x \in Type, x # y PROVE Kept(x)' \subseteq Kept(x)
  BY <1>2, <1>12, <1>16 DEF Kept, Issued
<1>17. ASSUME NEW x \in Type, NEW b \in Buyer
       PROVE  Reservation(b, x)' \subseteq Reservation(b, x) \/ (b = me.buyer /\ x = y)
  <2>1. ASSUME NEW k \in Reservation(b, x)', b # me.buyer \/ x # y PROVE k \in Reservation(b, x)
    <3>1. k \in Key /\ order'[k].status = "pending" /\ order'[k].buyer = b
      BY DEF Reservation
    <3>2. PICK t \in Ticket : ticket'[t].order = k /\ ticket'[t].type = x /\ ticket'[t].status = "held"
      BY DEF Reservation, TicketsOf
    <3>3. k # me.key
      <4>1. SUFFICES ASSUME k = me.key PROVE FALSE
        OBVIOUS
      <4>2. b = me.buyer
        BY <3>1, <4>1, <1>10
      <4>3. t \notin new
        BY <2>1, <4>2, <3>2, <1>12
      <4> QED
        BY <4>1, <4>3, <3>2, <1>12, <1>1, <1>2 DEF TicketInv
    <3>4. t \notin new
      BY <3>2, <3>3, <1>12
    <3> QED
      BY <3>1, <3>2, <3>3, <3>4, <1>10, <1>12 DEF Reservation, TicketsOf
  <2> QED
    BY <2>1
<1>18. ASSUME NEW x \in Type, x = y, NEW b \in Buyer, b = me.buyer
       PROVE  Reservation(b, x)' \subseteq {me.key}
  <2>1. Reservation(b, x) = {}
    BY <1>6, <1>18
  <2>2. ASSUME NEW k \in Reservation(b, x)', k # me.key PROVE k \in Reservation(b, x)
    BY <2>2, <1>10, <1>12 DEF Reservation, TicketsOf
  <2> QED
    BY <2>1, <2>2
<1>19. OneReservationPerBuyer'
  <2>1. ASSUME NEW x \in Type, NEW b \in Buyer, NEW k1 \in Reservation(b, x)', NEW k2 \in Reservation(b, x)'
        PROVE  k1 = k2
    <3>1. CASE b = me.buyer /\ x = y
      BY <3>1, <1>18
    <3>2. CASE ~(b = me.buyer /\ x = y)
      BY <3>2, <1>1, <1>17 DEF OneReservationPerBuyer
    <3> QED
      BY <3>1, <3>2
  <2> QED
    BY <2>1 DEF OneReservationPerBuyer
<1>20. ASSUME NEW x \in Type PROVE Cardinality(Kept(x)') <= quantity'[x]
  <2>1. /\ quantity'[x] = quantity[x] /\ quantity[x] \in Nat /\ me.n \in Nat
        /\ Cardinality(Kept(x)) \in Nat /\ Cardinality(Kept(x)') \in Nat
        /\ Cardinality(Kept(x)) <= quantity[x]
    BY <1>1, <1>2, NatFields, KeptType, Counting DEF types, me, CapacityIsKept, Kept
  <2>2. CASE x # y
    <3>1. Cardinality(Kept(x)') <= Cardinality(Kept(x))
      BY <2>2, <1>16, KeptType, Counting
    <3> QED
      BY <2>1, <3>1
  <2>3. CASE x = y
    <3>1. Kept(x)' \subseteq Kept(x) \cup new
      BY <1>2, <1>12 DEF Kept, Issued
    <3>2. /\ Cardinality(Kept(x)') <= Cardinality(Kept(x) \cup new)
          /\ Cardinality(Kept(x) \cup new) <= Cardinality(Kept(x)) + Cardinality(new)
          /\ Cardinality(Kept(x) \cup new) \in Nat
      <4>1. Kept(x) \cup new \subseteq Ticket
        BY <1>11, KeptType
      <4> QED
        BY <3>1, <4>1, <1>11, KeptType, Counting
    <3> QED
      BY <2>1, <2>3, <3>2, <1>3, <1>6
  <2> QED
    BY <2>2, <2>3
<1>21. CapacityIsKept'
  BY <1>20 DEF CapacityIsKept, Kept
<1>22. ASSUME NEW r \in Session, r # s PROVE DeskInv(r)'
  <2>1. \A x \in Type : lock[x] = r => x # y
    BY <1>6, <1>22
  <2> QED
    BY <2>1, <1>2, <1>9, <1>16, <1>17, <1>22, UndisturbedDesk DEF types
<1> QED
  BY <1>9, <1>13, <1>14, <1>15, <1>19, <1>21, <1>22 DEF InventoryInv

LEMMA EditSaveInv ==
  ASSUME InventoryInv, NEW s \in Session, EditSave(s)
  PROVE  InventoryInv'
<1> DEFINE me == desk[s]
           y  == me.type
<1>1. TypeOK /\ TicketInv /\ PriceIsKept /\ CapacityIsKept /\ OneReservationPerBuyer /\ DeskInv(s)
  BY DEF InventoryInv
<1>2. /\ me.at = "e_save" /\ Leave(s) /\ UNCHANGED sales
      /\ quantity' = [quantity EXCEPT ![y] = me.n]
      /\ price' = [price EXCEPT ![y] = me.price]
  BY DEF EditSave
<1>3. y \in Type /\ me.price \in Price
  BY <1>1, <1>2 DEF DeskInv, TypeOK, DeskState
<1>4. Relies(s, y)
  BY <1>1, <1>3 DEF DeskInv
<1>5. /\ lock[y] = s /\ me.n \in 0 .. MaxQuantity
      /\ Cardinality(Kept(y)) <= me.n
      /\ me.price # price[y] => Kept(y) = {}
  BY <1>2, <1>4 DEF Relies, Locked
<1> HIDE DEF me, y
<1>6. /\ desk' \in [Session -> DeskState]
      /\ lock' \in [Type -> Session \cup {NoSession}]
      /\ DeskInv(s)'
      /\ \A r \in Session \ {s} :
           desk'[r] = desk[r] /\ \A x \in Type : lock[x] = r => lock'[x] = r
  BY <1>1, <1>2, LeaveFacts
<1>7. /\ quantity'[y] = me.n /\ price'[y] = me.price
      /\ \A x \in Type \ {y} : quantity'[x] = quantity[x] /\ price'[x] = price[x]
  BY <1>1, <1>2, <1>3 DEF TypeOK
<1>8. TypeOK'
  BY <1>1, <1>2, <1>3, <1>5, <1>6 DEF TypeOK, sales
<1>9. \A x \in Type : /\ Kept(x)' = Kept(x)
                      /\ \A b \in Buyer : Reservation(b, x)' = Reservation(b, x)
  BY <1>2 DEF Kept, Issued, Reservation, TicketsOf, sales
<1>10. TicketInv' /\ OneReservationPerBuyer'
  BY <1>1, <1>2, <1>9 DEF TicketInv, OneReservationPerBuyer, sales
<1>11. \A x \in Type : Cardinality(Kept(x)') <= quantity'[x]
  BY <1>1, <1>5, <1>7, <1>9 DEF CapacityIsKept, Kept
<1>12. CapacityIsKept'
  BY <1>11 DEF CapacityIsKept, Kept
<1>13. ASSUME NEW t \in Ticket, ticket[t].status \in HoldsCapacity, t \notin revived
       PROVE  ticket[t].cost = price'[ticket[t].type]
  <2>1. ticket[t].type \in Type /\ t \in Kept(ticket[t].type) /\ ticket[t].cost = price[ticket[t].type]
    BY <1>1, <1>13 DEF TicketInv, PriceIsKept, HoldsCapacity, Kept, Issued
  <2> QED
    BY <2>1, <1>5, <1>7
<1>14. PriceIsKept'
  BY <1>2, <1>13 DEF PriceIsKept, sales
<1>15. ASSUME NEW r \in Session, r # s PROVE DeskInv(r)'
  <2>1. \A x \in Type : lock[x] = r => x # y
    BY <1>5, <1>15
  <2> QED
    BY <2>1, <1>6, <1>7, <1>9, <1>15, UndisturbedDesk
<1> QED
  BY <1>6, <1>8, <1>10, <1>12, <1>14, <1>15 DEF InventoryInv

-----------------------------------------------------------------------------
LEMMA NextInv == InventoryInv /\ [Next]_vars => InventoryInv'
<1> SUFFICES ASSUME InventoryInv, [Next]_vars PROVE InventoryInv'
  OBVIOUS
<1>1. ASSUME NEW s \in Session, Serve(s) PROVE InventoryInv'
  <2>1. ASSUME NEW b \in Buyer, NEW y \in Type, NEW n \in 1 .. MaxPerOrder, NEW k \in Key,
               OrderStart(s, b, y, n, k)
        PROVE  InventoryInv'
    BY <2>1, OrderStartInv
  <2>2. ASSUME OrderLock(s) PROVE InventoryInv'
    BY <2>2, OrderLockInv
  <2>3. ASSUME OrderCount(s) PROVE InventoryInv'
    BY <2>3, OrderCountInv
  <2>4. ASSUME OrderInsert(s) PROVE InventoryInv'
    BY <2>4, OrderInsertInv
  <2>5. ASSUME NEW y \in Type, EditLock(s, y) PROVE InventoryInv'
    BY <2>5, EditLockInv
  <2>6. ASSUME NEW q \in 0 .. MaxQuantity, NEW p \in Price, EditCount(s, q, p) PROVE InventoryInv'
    BY <2>6, EditCountInv
  <2>7. ASSUME EditSave(s) PROVE InventoryInv'
    BY <2>7, EditSaveInv
  <2>8. ASSUME Refuse(s) PROVE InventoryInv'
    BY <2>8, RefuseInv
  <2> QED
    BY <1>1, <2>1, <2>2, <2>3, <2>4, <2>5, <2>6, <2>7, <2>8 DEF Serve
<1>2. ASSUME NEW k \in Key, Conclude(k) PROVE InventoryInv'
  BY <1>2, ConcludeInv
<1>3. ASSUME NEW t \in Ticket, ReturnTicket(t) PROVE InventoryInv'
  BY <1>3, ReturnTicketInv
<1>4. ASSUME NEW t \in Ticket, Admit(t) PROVE InventoryInv'
  BY <1>4, AdmitInv
<1>5. CASE UNCHANGED vars
  <2>1. TypeOK'
    BY <1>5 DEF vars, InventoryInv, TypeOK
  <2>2. TicketInv' /\ PriceIsKept'
    BY <1>5 DEF vars, InventoryInv, TicketInv, PriceIsKept
  <2>3. \A y \in Type : /\ Kept(y)' = Kept(y)
                        /\ \A b \in Buyer : Reservation(b, y)' = Reservation(b, y)
    BY <1>5 DEF vars, Kept, Issued, Reservation, TicketsOf
  <2> QED
    BY <1>5, <2>1, <2>2, <2>3, OutsideStepInv DEF vars, types
<1> QED
  BY <1>1, <1>2, <1>3, <1>4, <1>5 DEF Next

\* create_order, update_ticket_type and everything that ends or admits a ticket
\* preserve what sessions rely on.
THEOREM InventoryInvariance == Spec => []InventoryInv
<1>1. InventoryInv /\ [Next]_vars => InventoryInv'
  BY NextInv
<1> QED
  BY <1>1, InitInv, PTL DEF Spec

\* The rows of the types, orders, tickets and sessions keep their types.
THEOREM InventoryTypeCorrect == Spec => []TypeOK
<1>1. InventoryInv => TypeOK
  BY DEF InventoryInv
<1> QED
  BY <1>1, InventoryInvariance, PTL

\* However many sessions order and edit together, a type is never oversold, by
\* the count create_order and update_ticket_type make under its lock.
THEOREM TypesAreNotOversold == Spec => []CapacityIsKept
<1>1. InventoryInv => CapacityIsKept
  BY DEF InventoryInv
<1> QED
  BY <1>1, InventoryInvariance, PTL

\* No edit changes the price a ticket that holds a place was bought at.
THEOREM PricesStand == Spec => []PriceIsKept
<1>1. InventoryInv => PriceIsKept
  BY DEF InventoryInv
<1> QED
  BY <1>1, InventoryInvariance, PTL

\* Concurrent create_orders give a buyer one open reservation of a type.
THEOREM ReservationsAreReused == Spec => []OneReservationPerBuyer
<1>1. InventoryInv => OneReservationPerBuyer
  BY DEF InventoryInv
<1> QED
  BY <1>1, InventoryInvariance, PTL


-----------------------------------------------------------------------------
(* Inventory implements BoxOffice.  What this needs of the rows beside       *)
(* InventoryInv: they agree with each other.                                 *)

\* A ticket to be paid is of an order to be paid, and an order of one type.
SalesInv ==
  /\ \A t \in Ticket : /\ ticket[t].status = "none" => ticket[t] = NoTicket
                       /\ ticket[t].status = "held" => order[ticket[t].order].status = "pending"
                       /\ t \in revived => ticket[t].status = "used"
  /\ \A t, u \in Ticket : ticket[t].order = ticket[u].order => ticket[t].type = ticket[u].type
  /\ \A k \in Key : order[k].status # "none" => order[k].buyer \in Buyer

LEMMA SalesInit == Init => SalesInv /\ Promise!Init
<1> SUFFICES ASSUME Init PROVE SalesInv /\ Promise!Init
  OBVIOUS
<1>1. /\ \A t \in Ticket : ticket[t] = NoTicket
      /\ \A k \in Key : order[k].status = "none"
      /\ revived = {}
  BY DEF Init, NoOrder
<1>2. SalesInv
  BY <1>1 DEF SalesInv, NoTicket
<1>3. \A t \in Ticket : Place(t) = [state |-> "vacant", type |-> NoType, cost |-> Free, buyer |-> NoBuyer]
  BY <1>1 DEF Place, PlaceState, NoTicket
<1>4. Promise!Init
  BY <1>3 DEF Init, Promise!Init, Promise!Vacant
<1> QED
  BY <1>2, <1>4

\* What a commit of another module writes: statuses, and those of one order.
Writes(t, status) ==
  /\ ticket'[t].type = ticket[t].type /\ ticket'[t].order = ticket[t].order
  /\ ticket'[t].cost = ticket[t].cost /\ ticket'[t].status = status

LEMMA ConcludeWrites ==
  ASSUME TypeOK, NEW k \in Key, Conclude(k)
  PROVE  \E os \in {"confirmed", "ended"}, to \in {"active", "released"} :
           /\ \A j \in Key : /\ order'[j].buyer = order[j].buyer
                             /\ order'[j].status = IF j = k THEN os ELSE order[j].status
           /\ \A t \in Ticket :
                Writes(t, IF ticket[t].order = k /\ ticket[t].status = "held" THEN to ELSE ticket[t].status)
<1>1. PICK os \in {"confirmed", "ended"}, to \in {"active", "released"} :
        order' = [order EXCEPT ![k].status = os] /\ MoveTickets(TicketsOf(k), {"held"}, to)
  BY DEF Conclude
<1>2. to \in TicketStatus
  BY DEF TicketStatus, HoldsCapacity
<1>3. \A t \in Ticket :
        Writes(t, IF ticket[t].order = k /\ ticket[t].status = "held" THEN to ELSE ticket[t].status)
  BY <1>1, <1>2, Moved DEF TicketsOf, Writes
<1>4. \A j \in Key : /\ order'[j].buyer = order[j].buyer
                     /\ order'[j].status = IF j = k THEN os ELSE order[j].status
  BY <1>1 DEF TypeOK
<1> QED
  BY <1>3, <1>4

LEMMA ReturnWrites ==
  ASSUME InventoryInv, NEW t \in Ticket, ReturnTicket(t)
  PROVE  /\ ticket[t].status \in HoldsCapacity /\ ticket[t].order \in Key
         /\ \E to \in {"released", "returned"} :
              \A u \in Ticket : Writes(u, IF u = t THEN to ELSE ticket[u].status)
         /\ \A j \in Key :
              /\ order'[j].buyer = order[j].buyer
              /\ \/ order'[j].status = order[j].status
                 \/ /\ j = ticket[t].order /\ order'[j].status = "ended"
                    /\ \/ order[j].status = "confirmed"
                       \/ \A u \in TicketsOf(j) \ {t} : ticket[u].status \notin HoldsCapacity
<1>1. TypeOK /\ TicketInv
  BY DEF InventoryInv
<1>2. ticket[t].status \in HoldsCapacity
  BY DEF ReturnTicket
<1>3. PICK k \in Key : k = ticket[t].order
  BY <1>1, <1>2 DEF TicketInv, HoldsCapacity
<1>4. PICK to \in {"released", "returned"} : MoveTickets({t}, HoldsCapacity, to)
  BY DEF ReturnTicket
<1>5. to \in TicketStatus
  BY DEF TicketStatus
<1>6. \A u \in Ticket : Writes(u, IF u = t THEN to ELSE ticket[u].status)
  BY <1>1, <1>2, <1>4, <1>5, Moved DEF Writes
<1>7. \/ order' = order
      \/ /\ order' = [order EXCEPT ![k].status = "ended"]
         /\ \/ order[k].status = "confirmed"
            \/ \A u \in TicketsOf(k) \ {t} : ticket[u].status \notin HoldsCapacity
  BY <1>3 DEF ReturnTicket
<1>8. \A j \in Key :
        /\ order'[j].buyer = order[j].buyer
        /\ \/ order'[j].status = order[j].status
           \/ /\ j = k /\ order'[j].status = "ended"
              /\ \/ order[j].status = "confirmed"
                 \/ \A u \in TicketsOf(j) \ {t} : ticket[u].status \notin HoldsCapacity
  BY <1>1, <1>7 DEF TypeOK
<1> QED
  BY <1>2, <1>3, <1>6, <1>8

LEMMA AdmitWrites ==
  ASSUME TypeOK, NEW t \in Ticket, Admit(t)
  PROVE  /\ \A u \in Ticket : Writes(u, IF u = t THEN "used" ELSE ticket[u].status)
         /\ \/ ticket[t].status = "active" /\ revived' = revived
            \/ ticket[t].status = "returned" /\ revived' = revived \cup {t}
         /\ order' = order /\ types' = types
<1>1. "used" \in TicketStatus
  BY DEF TicketStatus, HoldsCapacity
<1>2. MoveTickets({t}, {"active", "returned"}, "used") /\ ticket[t].status \in {"active", "returned"}
  BY DEF Admit
<1>3. \A u \in Ticket : Writes(u, IF u = t THEN "used" ELSE ticket[u].status)
  BY <1>1, <1>2, Moved DEF Writes
<1> QED
  BY <1>3 DEF Admit

\* The rows of a new order.
LEMMA InsertWrites ==
  ASSUME InventoryInv, NEW s \in Session, OrderInsert(s)
  PROVE  \E y \in Type, b \in Buyer, k \in Key, new \in SUBSET Unused :
           /\ order[k].status = "none" /\ Reservation(b, y) = {}
           /\ Cardinality(Kept(y)) + Cardinality(new) <= quantity[y]
           /\ \A t \in Ticket \ new : ticket'[t] = ticket[t]
           /\ \A t \in new : ticket'[t] = [status |-> IF price[y] = Free THEN "active" ELSE "held",
                                           type |-> y, order |-> k, cost |-> price[y]]
           /\ \A j \in Key \ {k} : order'[j] = order[j]
           /\ order'[k] = [status |-> IF price[y] = Free THEN "confirmed" ELSE "pending", buyer |-> b]
           /\ types' = types /\ revived' = revived
<1>1. TypeOK /\ DeskInv(s) /\ desk[s].at = "o_insert"
  BY DEF InventoryInv, OrderInsert
<1>2. PICK y \in Type, b \in Buyer, k \in Key : y = desk[s].type /\ b = desk[s].buyer /\ k = desk[s].key
  BY <1>1 DEF DeskInv
<1>3. Relies(s, y)
  BY <1>1, <1>2 DEF DeskInv
<1>4. /\ desk[s].price = price[y] /\ Reservation(b, y) = {}
      /\ Cardinality(Kept(y)) + desk[s].n <= quantity[y]
  BY <1>1, <1>2, <1>3 DEF Relies
<1>5. PICK new \in SUBSET Unused :
        /\ Cardinality(new) = desk[s].n
        /\ ticket' = [t \in Ticket |->
             IF t \in new THEN [status |-> IF price[y] = Free THEN "active" ELSE "held",
                                type |-> y, order |-> k, cost |-> price[y]]
             ELSE ticket[t]]
  BY <1>2, <1>4 DEF OrderInsert
<1>6. new \subseteq Ticket
  BY DEF Unused
<1>7. /\ order[k].status = "none" /\ types' = types /\ revived' = revived
      /\ order' = [order EXCEPT ![k] = [status |-> IF price[y] = Free THEN "confirmed" ELSE "pending",
                                        buyer |-> b]]
  BY <1>2, <1>4 DEF OrderInsert
<1>8. /\ \A j \in Key \ {k} : order'[j] = order[j]
      /\ order'[k] = [status |-> IF price[y] = Free THEN "confirmed" ELSE "pending", buyer |-> b]
  BY <1>1, <1>7 DEF TypeOK
<1>9. /\ \A t \in Ticket \ new : ticket'[t] = ticket[t]
      /\ \A t \in new : ticket'[t] = [status |-> IF price[y] = Free THEN "active" ELSE "held",
                                      type |-> y, order |-> k, cost |-> price[y]]
  BY <1>5, <1>6
<1> QED
  BY <1>4, <1>5, <1>7, <1>8, <1>9

\* The rows stay in agreement.
LEMMA SalesNext == InventoryInv /\ SalesInv /\ [Next]_vars => SalesInv'
<1> SUFFICES ASSUME InventoryInv, SalesInv, [Next]_vars PROVE SalesInv'
  OBVIOUS
<1>1. TypeOK /\ TicketInv
  BY DEF InventoryInv
<1>2. CASE UNCHANGED sales
  BY <1>2 DEF sales, SalesInv
<1>3. ASSUME NEW k \in Key, Conclude(k) PROVE SalesInv'
  <2>1. PICK os \in {"confirmed", "ended"}, to \in {"active", "released"} :
           /\ \A j \in Key : /\ order'[j].buyer = order[j].buyer
                             /\ order'[j].status = IF j = k THEN os ELSE order[j].status
           /\ \A t \in Ticket :
                Writes(t, IF ticket[t].order = k /\ ticket[t].status = "held" THEN to ELSE ticket[t].status)
    BY <1>1, <1>3, ConcludeWrites
  <2>2. revived' = revived /\ order[k].status = "pending"
    BY <1>3 DEF Conclude
  <2>3. ASSUME NEW t \in Ticket
        PROVE  /\ ticket'[t].status = "none" => ticket'[t] = NoTicket
               /\ ticket'[t].status = "held" => order'[ticket'[t].order].status = "pending"
               /\ t \in revived' => ticket'[t].status = "used"
    <3>1. /\ ticket[t].status = "none" => ticket[t] = NoTicket
          /\ ticket[t].status = "held" => order[ticket[t].order].status = "pending"
          /\ t \in revived => ticket[t].status = "used"
      BY DEF SalesInv
    <3>2. ticket[t].status # "none" => ticket[t].order \in Key
      BY <1>1 DEF TicketInv
    <3>3. ticket'[t].status = "none" => ticket'[t] = ticket[t]
      BY <1>3, <2>1 DEF Writes, Conclude, MoveTickets
    <3> QED
      BY <2>1, <2>2, <3>1, <3>2, <3>3 DEF Writes
  <2> QED
    BY <2>1, <2>2, <2>3 DEF SalesInv, Writes
<1>4. ASSUME NEW t \in Ticket, ReturnTicket(t) PROVE SalesInv'
  <2> DEFINE o == ticket[t].order
  <2>1. PICK to \in {"released", "returned"} :
          \A u \in Ticket : Writes(u, IF u = t THEN to ELSE ticket[u].status)
    BY <1>4, ReturnWrites
  <2>2. \A j \in Key :
              /\ order'[j].buyer = order[j].buyer
              /\ \/ order'[j].status = order[j].status
                 \/ /\ j = ticket[t].order /\ order'[j].status = "ended"
                    /\ \/ order[j].status = "confirmed"
                       \/ \A u \in TicketsOf(j) \ {t} : ticket[u].status \notin HoldsCapacity
    BY <1>4, ReturnWrites
  <2>3. revived' = revived \ {t}
    BY <1>4 DEF ReturnTicket
  <2>4. ASSUME NEW u \in Ticket \ {t}
        PROVE  /\ ticket'[u].status = "none" => ticket'[u] = NoTicket
               /\ ticket'[u].status = "held" => order'[ticket'[u].order].status = "pending"
               /\ u \in revived' => ticket'[u].status = "used"
    <3>1. /\ ticket[u].status = "none" => ticket[u] = NoTicket
          /\ ticket[u].status = "held" => order[ticket[u].order].status = "pending"
          /\ u \in revived => ticket[u].status = "used"
      BY DEF SalesInv
    <3>2. ticket'[u] = ticket[u]
      BY <1>4 DEF ReturnTicket, MoveTickets
    <3>3. ASSUME ticket[u].status = "held" PROVE order'[ticket[u].order].status = "pending"
      <4>1. PICK j \in Key : j = ticket[u].order
        BY <1>1, <3>3 DEF TicketInv
      <4>2. u \in TicketsOf(j) /\ ticket[u].status \in HoldsCapacity
        BY <3>3, <4>1 DEF TicketsOf, HoldsCapacity
      <4> QED
        BY <2>2, <3>1, <3>3, <4>1, <4>2
    <3> QED
      BY <2>3, <3>1, <3>2, <3>3
  <2>5. ticket'[t].status = to /\ t \notin revived'
    BY <2>1, <2>3 DEF Writes
  <2>6. \A u \in Ticket : /\ ticket'[u].status = "none" => ticket'[u] = NoTicket
                          /\ ticket'[u].status = "held" => order'[ticket'[u].order].status = "pending"
                          /\ u \in revived' => ticket'[u].status = "used"
    BY <2>4, <2>5
  <2>7. \A u, v \in Ticket : ticket'[u].order = ticket'[v].order => ticket'[u].type = ticket'[v].type
    BY <2>1 DEF SalesInv, Writes
  <2>8. \A j \in Key : order'[j].status # "none" => order'[j].buyer \in Buyer
    <3> SUFFICES ASSUME NEW j \in Key, order'[j].status # "none" PROVE order'[j].buyer \in Buyer
      OBVIOUS
    <3>1. order[j].status # "none"
      <4>1. ticket[t].status # "none"
        BY <1>4, ReturnWrites DEF HoldsCapacity
      <4> QED
        BY <1>1, <2>2, <4>1 DEF TicketInv
    <3> QED
      BY <2>2, <3>1 DEF SalesInv
  <2> QED
    BY <2>6, <2>7, <2>8 DEF SalesInv
<1>5. ASSUME NEW t \in Ticket, Admit(t) PROVE SalesInv'
  <2>1. /\ \A u \in Ticket : Writes(u, IF u = t THEN "used" ELSE ticket[u].status)
        /\ revived' = revived \/ revived' = revived \cup {t}
        /\ order' = order
    BY <1>1, <1>5, AdmitWrites
  <2>2. \A u \in Ticket \ {t} : ticket'[u] = ticket[u]
    BY <1>5 DEF Admit, MoveTickets
  <2>3. ticket'[t].status = "used"
    BY <2>1 DEF Writes
  <2>4. \A u \in Ticket : /\ ticket'[u].status = "none" => ticket'[u] = NoTicket
                          /\ ticket'[u].status = "held" => order'[ticket'[u].order].status = "pending"
                          /\ u \in revived' => ticket'[u].status = "used"
    BY <2>1, <2>2, <2>3 DEF SalesInv
  <2>5. \A u, v \in Ticket : ticket'[u].order = ticket'[v].order => ticket'[u].type = ticket'[v].type
    BY <2>1 DEF SalesInv, Writes
  <2> QED
    BY <2>1, <2>4, <2>5 DEF SalesInv
<1>6. ASSUME NEW s \in Session, OrderInsert(s) PROVE SalesInv'
  <2>1. PICK y \in Type, b \in Buyer, k \in Key, new \in SUBSET Unused :
           /\ order[k].status = "none" /\ Reservation(b, y) = {}
           /\ Cardinality(Kept(y)) + Cardinality(new) <= quantity[y]
           /\ \A t \in Ticket \ new : ticket'[t] = ticket[t]
           /\ \A t \in new : ticket'[t] = [status |-> IF price[y] = Free THEN "active" ELSE "held",
                                           type |-> y, order |-> k, cost |-> price[y]]
           /\ \A j \in Key \ {k} : order'[j] = order[j]
           /\ order'[k] = [status |-> IF price[y] = Free THEN "confirmed" ELSE "pending", buyer |-> b]
           /\ types' = types /\ revived' = revived
    BY <1>6, InsertWrites, Zenon
  <2>2. \A t \in new : ticket[t].status = "none" /\ t \notin revived
    BY DEF Unused, SalesInv
  <2>3. \A t \in Ticket : ticket[t].order # k
    BY <1>1, <2>1, InventoryAssumption DEF TicketInv, SalesInv, NoTicket
  <2>4. ASSUME NEW t \in Ticket
        PROVE  /\ ticket'[t].status = "none" => ticket'[t] = NoTicket
               /\ ticket'[t].status = "held" => order'[ticket'[t].order].status = "pending"
               /\ t \in revived' => ticket'[t].status = "used"
    <3>1. CASE t \in new
      BY <2>1, <2>2, <3>1
    <3>2. CASE t \notin new
      <4>1. ticket[t].status # "none" => ticket[t].order \in Key \ {k}
        BY <1>1, <2>3 DEF TicketInv
      <4> QED
        BY <2>1, <3>2, <4>1 DEF SalesInv
    <3> QED
      BY <3>1, <3>2
  <2>5. \A t, u \in Ticket : ticket'[t].order = ticket'[u].order => ticket'[t].type = ticket'[u].type
    BY <2>1, <2>3 DEF SalesInv
  <2>6. \A j \in Key : order'[j].status # "none" => order'[j].buyer \in Buyer
    BY <2>1 DEF SalesInv
  <2> QED
    BY <2>4, <2>5, <2>6 DEF SalesInv
<1>7. ASSUME NEW s \in Session, Serve(s) PROVE UNCHANGED sales \/ OrderInsert(s)
  <2>1. ASSUME NEW b, NEW y, NEW n, NEW k, OrderStart(s, b, y, n, k) PROVE UNCHANGED sales
    BY <2>1 DEF OrderStart
  <2>2. ASSUME NEW q, NEW p, EditCount(s, q, p) PROVE UNCHANGED sales
    BY <2>2 DEF EditCount
  <2>3. ASSUME NEW y, EditLock(s, y) PROVE UNCHANGED sales
    BY <2>3 DEF EditLock
  <2>4. OrderLock(s) \/ OrderCount(s) \/ EditSave(s) \/ Refuse(s) => UNCHANGED sales
    BY DEF OrderLock, OrderCount, EditSave, Refuse
  <2> QED
    BY <1>7, <2>1, <2>2, <2>3, <2>4 DEF Serve
<1>8. CASE UNCHANGED vars
  BY <1>2, <1>8 DEF vars, sales
<1> QED
  BY <1>2, <1>3, <1>4, <1>5, <1>6, <1>7, <1>8 DEF Next

\* Every step is one of BoxOffice, or changes nothing a buyer sees.
LEMMA SeenThrough ==
  ASSUME \A t \in Ticket : Place(t)' = Place(t), types' = types
  PROVE  UNCHANGED Promise!vars
<1>1. [t \in Ticket |-> Place(t)]' = [t \in Ticket |-> Place(t)]
  OBVIOUS
<1> QED
  BY <1>1 DEF types, Promise!vars

LEMMA PlacesBecome ==
  ASSUME NEW ts \in SUBSET Ticket, NEW state, types' = types,
         \A t \in Ticket : Place(t)' = IF t \in ts THEN [Place(t) EXCEPT !.state = state] ELSE Place(t)
  PROVE  Promise!Become(ts, state)
  BY DEF Promise!Become, types

\* The places taken are the tickets that are kept.
LEMMA TakenIsKept ==
  ASSUME SalesInv, NEW y
  PROVE  Promise!Taken(y) = Kept(y)
<1>1. ASSUME NEW t \in Ticket
      PROVE  /\ Place(t).type = ticket[t].type
             /\ Place(t).state \in {"reserved", "sold"} <=>
                  ticket[t].status \in HoldsCapacity /\ t \notin revived
  <2>1. Place(t).type = ticket[t].type /\ Place(t).state = PlaceState(t)
    BY DEF Place
  <2>2. t \in revived => ticket[t].status = "used"
    BY DEF SalesInv
  <2> QED
    BY <2>1, <2>2 DEF PlaceState, HoldsCapacity
<1>2. Promise!Taken(y) = {t \in Ticket : Place(t).type = y /\ Place(t).state \in {"reserved", "sold"}}
  BY DEF Promise!Taken
<1> QED
  BY ONLY <1>1, <1>2 DEF Kept, Issued

LEMMA CountsAgree == \A S : Promise!Cardinality(S) = Cardinality(S)
  BY DEF Promise!Cardinality, Cardinality

\* The places reserved for a buyer are the tickets of the reservation.
LEMMA ReservedAreHeld ==
  ASSUME InventoryInv, NEW b, NEW y
  PROVE  Promise!ReservedBy(b, y) =
           {t \in Ticket : ticket[t].status = "held" /\ ticket[t].type = y /\ order[ticket[t].order].buyer = b}
<1>1. ASSUME NEW t \in Ticket
      PROVE  /\ Place(t).type = ticket[t].type
             /\ Place(t).state = "reserved" <=> ticket[t].status = "held"
             /\ ticket[t].status = "held" => Place(t).buyer = order[ticket[t].order].buyer
  <2>1. ticket[t].status = "held" => ticket[t].order # NoKey
    BY InventoryAssumption DEF InventoryInv, TicketInv
  <2>2. /\ Place(t).type = ticket[t].type /\ Place(t).state = PlaceState(t)
        /\ ticket[t].order # NoKey => Place(t).buyer = order[ticket[t].order].buyer
    BY DEF Place
  <2> QED
    BY <2>1, <2>2 DEF PlaceState
<1>2. Promise!ReservedBy(b, y) =
        {t \in Ticket : Place(t).type = y /\ Place(t).buyer = b /\ Place(t).state = "reserved"}
  BY DEF Promise!ReservedBy
<1> QED
  BY ONLY <1>1, <1>2

\* A status is written, and what the orders say of their buyers stays.
LEMMA PlaceAfterWrite ==
  ASSUME InventoryInv, SalesInv, NEW t \in Ticket, NEW status, Writes(t, status),
         \A j \in Key : order'[j].buyer = order[j].buyer
  PROVE  /\ Place(t)' = [Place(t) EXCEPT !.state = PlaceState(t)']
         /\ PlaceState(t)' = PlaceState(t) => Place(t)' = Place(t)
<1>1. ticket[t].order = NoKey \/ ticket[t].order \in Key
  BY DEF InventoryInv, TypeOK
<1>2. /\ ticket'[t].type = ticket[t].type /\ ticket'[t].order = ticket[t].order
      /\ ticket'[t].cost = ticket[t].cost
  BY DEF Writes
<1>3. PICK by : by = IF ticket[t].order = NoKey THEN NoBuyer ELSE order[ticket[t].order].buyer
  OBVIOUS
<1>4. by = IF ticket'[t].order = NoKey THEN NoBuyer ELSE order'[ticket'[t].order].buyer
  BY <1>1, <1>2, <1>3
<1>5. Place(t) = [state |-> PlaceState(t), type |-> ticket[t].type, cost |-> ticket[t].cost, buyer |-> by]
  BY <1>3 DEF Place
<1>6. Place(t)' = [state |-> PlaceState(t)', type |-> ticket[t].type, cost |-> ticket[t].cost, buyer |-> by]
  BY <1>2, <1>4 DEF Place
<1> QED
  BY ONLY <1>5, <1>6

\* A reservation is paid, cancelled or released as a whole, because the buyer has
\* no other of the type.
LEMMA ConcludesOne ==
  ASSUME InventoryInv, SalesInv, NEW k \in Key, Conclude(k)
  PROVE  [Promise!Next]_Promise!vars
<1>1. TypeOK /\ TicketInv /\ OneReservationPerBuyer
  BY DEF InventoryInv
<1>2. PICK os \in {"confirmed", "ended"}, to \in {"active", "released"} :
         /\ \A j \in Key : /\ order'[j].buyer = order[j].buyer
                           /\ order'[j].status = IF j = k THEN os ELSE order[j].status
         /\ \A t \in Ticket :
              Writes(t, IF ticket[t].order = k /\ ticket[t].status = "held" THEN to ELSE ticket[t].status)
  BY <1>1, ConcludeWrites
<1>3. revived' = revived /\ types' = types /\ order[k].status = "pending"
  BY DEF Conclude
<1> DEFINE ts == {t \in Ticket : ticket[t].order = k /\ ticket[t].status = "held"}
<1>4. PICK state \in {"sold", "gone"} : state = IF to = "active" THEN "sold" ELSE "gone"
  OBVIOUS
<1>5. \A t \in Ticket : PlaceState(t)' = IF t \in ts THEN state ELSE PlaceState(t)
  <2> SUFFICES ASSUME NEW t \in Ticket PROVE PlaceState(t)' = IF t \in ts THEN state ELSE PlaceState(t)
    OBVIOUS
  <2>1. ticket'[t].status = IF t \in ts THEN to ELSE ticket[t].status
    BY <1>2 DEF Writes
  <2>2. t \in revived => ticket[t].status = "used"
    BY DEF SalesInv
  <2>3. t \in ts => ticket[t].status = "held"
    OBVIOUS
  <2> QED
    BY ONLY <1>3, <1>4, <2>1, <2>2, <2>3, to \in {"active", "released"} DEF PlaceState
<1>6. \A t \in Ticket : Place(t)' = IF t \in ts THEN [Place(t) EXCEPT !.state = state] ELSE Place(t)
  <2> SUFFICES ASSUME NEW t \in Ticket
               PROVE  Place(t)' = IF t \in ts THEN [Place(t) EXCEPT !.state = state] ELSE Place(t)
    OBVIOUS
  <2>1. /\ Place(t)' = [Place(t) EXCEPT !.state = PlaceState(t)']
        /\ PlaceState(t)' = PlaceState(t) => Place(t)' = Place(t)
    BY <1>2, PlaceAfterWrite
  <2> QED
    BY ONLY <1>5, <2>1, t \in Ticket
<1>7. CASE ts = {}
  BY <1>3, <1>6, <1>7, SeenThrough
<1>8. ASSUME NEW u \in ts PROVE Promise!Next
  <2>1. PICK y \in Type, b \in Buyer : y = ticket[u].type /\ b = order[k].buyer
    BY <1>1, <1>3, <1>8 DEF TicketInv, SalesInv
  <2>2. Promise!ReservedBy(b, y) = ts
    <3>1. ASSUME NEW t \in ts PROVE ticket[t].type = y /\ order[ticket[t].order].buyer = b
      BY <1>8, <2>1, <3>1 DEF SalesInv
    <3>2. ASSUME NEW t \in Ticket, ticket[t].status = "held", ticket[t].type = y,
                 order[ticket[t].order].buyer = b
          PROVE  ticket[t].order = k
      <4>1. ticket[t].order \in Key /\ order[ticket[t].order].status = "pending"
        BY <1>1, <3>2 DEF TicketInv, SalesInv
      <4>2. ticket[t].order \in Reservation(b, y)
        BY <3>2, <4>1 DEF Reservation, TicketsOf
      <4>3. k \in Reservation(b, y)
        BY <1>3, <1>8, <2>1 DEF Reservation, TicketsOf
      <4> QED
        BY <1>1, <4>2, <4>3 DEF OneReservationPerBuyer
    <3> QED
      BY <3>1, <3>2, ReservedAreHeld
  <2>3. Promise!Become(ts, state)
    BY <1>3, <1>6, PlacesBecome
  <2> QED
    BY <1>4, <2>1, <2>2, <2>3 DEF Promise!Next, Promise!Conclude
<1> QED
  BY <1>7, <1>8

LEMMA ReturnsOne ==
  ASSUME InventoryInv, SalesInv, NEW t \in Ticket, ReturnTicket(t)
  PROVE  [Promise!Next]_Promise!vars
<1>1. PICK to \in {"released", "returned"} :
        \A u \in Ticket : Writes(u, IF u = t THEN to ELSE ticket[u].status)
  BY ReturnWrites
<1>2. ticket[t].status \in HoldsCapacity /\ \A j \in Key : order'[j].buyer = order[j].buyer
  BY ReturnWrites
<1>3. revived' = revived \ {t} /\ types' = types
  BY DEF ReturnTicket
<1>4. \A u \in Ticket : PlaceState(u)' = IF u = t THEN "gone" ELSE PlaceState(u)
  <2> SUFFICES ASSUME NEW u \in Ticket PROVE PlaceState(u)' = IF u = t THEN "gone" ELSE PlaceState(u)
    OBVIOUS
  <2>1. ticket'[u].status = IF u = t THEN to ELSE ticket[u].status
    BY <1>1 DEF Writes
  <2> QED
    BY ONLY <1>3, <2>1, to \in {"released", "returned"} DEF PlaceState
<1>5. \A u \in Ticket : Place(u)' = IF u \in {t} THEN [Place(u) EXCEPT !.state = "gone"] ELSE Place(u)
  <2> SUFFICES ASSUME NEW u \in Ticket
               PROVE  Place(u)' = IF u \in {t} THEN [Place(u) EXCEPT !.state = "gone"] ELSE Place(u)
    OBVIOUS
  <2>1. /\ Place(u)' = [Place(u) EXCEPT !.state = PlaceState(u)']
        /\ PlaceState(u)' = PlaceState(u) => Place(u)' = Place(u)
    BY <1>1, <1>2, PlaceAfterWrite
  <2> QED
    BY ONLY <1>4, <2>1, u \in Ticket
<1>6. CASE t \in revived
  <2>1. PlaceState(t) = "gone"
    BY <1>6 DEF SalesInv, PlaceState
  <2>2. Place(t)' = Place(t)
    BY <1>1, <1>2, <1>4, <2>1, PlaceAfterWrite
  <2> QED
    BY <1>3, <1>5, <2>2, SeenThrough
<1>7. CASE t \notin revived
  <2>1. Place(t).state \in {"reserved", "sold"}
    BY <1>2, <1>7 DEF Place, PlaceState, HoldsCapacity
  <2>2. Promise!Become({t}, "gone")
    BY <1>3, <1>5, PlacesBecome
  <2>3. Promise!Return(t)
    BY <2>1, <2>2 DEF Promise!Return
  <2> QED
    BY <2>3 DEF Promise!Next
<1> QED
  BY <1>6, <1>7

\* An admission, timely or late, is no sale.
LEMMA AdmissionIsNoSale ==
  ASSUME InventoryInv, SalesInv, NEW t \in Ticket, Admit(t)
  PROVE  UNCHANGED Promise!vars
<1>1. /\ \A u \in Ticket : Writes(u, IF u = t THEN "used" ELSE ticket[u].status)
      /\ \/ ticket[t].status = "active" /\ revived' = revived
         \/ ticket[t].status = "returned" /\ revived' = revived \cup {t}
      /\ order' = order /\ types' = types
  BY AdmitWrites DEF InventoryInv
<1>2. ASSUME NEW u \in Ticket PROVE Place(u)' = Place(u)
  <2>1. ticket'[u].status = IF u = t THEN "used" ELSE ticket[u].status
    BY <1>1 DEF Writes
  <2>2. u \in revived => ticket[u].status = "used"
    BY DEF SalesInv
  <2>3. PlaceState(u)' = PlaceState(u)
    BY ONLY <1>1, <2>1, <2>2 DEF PlaceState
  <2> QED
    BY <1>1, <2>3, PlaceAfterWrite
<1> QED
  BY <1>1, <1>2, SeenThrough

\* An order reserves what was counted as free under the lock.
LEMMA OrderReserves ==
  ASSUME InventoryInv, SalesInv, NEW s \in Session, OrderInsert(s)
  PROVE  Promise!Next
<1>1. PICK y \in Type, b \in Buyer, k \in Key, new \in SUBSET Unused :
         /\ order[k].status = "none" /\ Reservation(b, y) = {}
         /\ Cardinality(Kept(y)) + Cardinality(new) <= quantity[y]
         /\ \A t \in Ticket \ new : ticket'[t] = ticket[t]
         /\ \A t \in new : ticket'[t] = [status |-> IF price[y] = Free THEN "active" ELSE "held",
                                         type |-> y, order |-> k, cost |-> price[y]]
         /\ \A j \in Key \ {k} : order'[j] = order[j]
         /\ order'[k] = [status |-> IF price[y] = Free THEN "confirmed" ELSE "pending", buyer |-> b]
         /\ types' = types /\ revived' = revived
  BY InsertWrites, Zenon
<1>2. new \in SUBSET Ticket /\ \A t \in new : ticket[t].status = "none" /\ t \notin revived
  BY DEF Unused, SalesInv
<1>3. \A t \in new : Place(t).state = "vacant"
  BY <1>2 DEF Place, PlaceState
<1>4. Cardinality(Promise!Taken(y)) + Cardinality(new) <= quantity[y]
  BY <1>1, TakenIsKept
<1>5. Promise!ReservedBy(b, y) = {}
  <2> SUFFICES ASSUME NEW t \in Ticket, ticket[t].status = "held", ticket[t].type = y,
                      order[ticket[t].order].buyer = b
               PROVE  FALSE
    BY ReservedAreHeld
  <2>1. ticket[t].order \in Key /\ order[ticket[t].order].status = "pending"
    BY DEF InventoryInv, TicketInv, SalesInv
  <2>2. ticket[t].order \in Reservation(b, y)
    BY <2>1 DEF Reservation, TicketsOf
  <2> QED
    BY <1>1, <2>2
<1>6. ASSUME NEW t \in new
      PROVE  Place(t)' = [state |-> IF price[y] = Free THEN "sold" ELSE "reserved",
                          type |-> y, cost |-> price[y], buyer |-> b]
  <2>1. ticket'[t] = [status |-> IF price[y] = Free THEN "active" ELSE "held",
                      type |-> y, order |-> k, cost |-> price[y]]
    BY <1>1
  <2>2. k # NoKey /\ order'[k].buyer = b /\ t \notin revived'
    BY <1>1, <1>2, InventoryAssumption
  <2>3. PlaceState(t)' = IF price[y] = Free THEN "sold" ELSE "reserved"
    BY ONLY <2>1, <2>2 DEF PlaceState
  <2> QED
    BY <2>1, <2>2, <2>3 DEF Place
<1>7. ASSUME NEW t \in Ticket \ new PROVE Place(t)' = Place(t)
  <2>1. ticket'[t] = ticket[t] /\ revived' = revived
    BY <1>1
  <2>2. ticket[t].order = NoKey \/ ticket[t].order \in Key \ {k}
    BY <1>1 DEF InventoryInv, TicketInv, SalesInv, NoTicket
  <2>3. PlaceState(t)' = PlaceState(t)
    BY <2>1 DEF PlaceState
  <2> QED
    BY <1>1, <2>1, <2>2, <2>3 DEF Place
<1>8. Promise!Reserve(b, y, new)
  BY <1>1, <1>2, <1>3, <1>4, <1>5, <1>6, <1>7, CountsAgree DEF Promise!Reserve, types
<1> QED
  BY <1>2, <1>8 DEF Promise!Next

\* What an edit counted under the lock still suffices when it is saved.
LEMMA EditEdits ==
  ASSUME InventoryInv, SalesInv, NEW s \in Session, EditSave(s)
  PROVE  Promise!Next
<1>1. TypeOK /\ DeskInv(s) /\ desk[s].at = "e_save"
  BY DEF InventoryInv, EditSave
<1>2. PICK y \in Type, p \in Price, q \in Nat : y = desk[s].type /\ p = desk[s].price /\ q = desk[s].n
  BY <1>1 DEF DeskInv, TypeOK, DeskState
<1>3. Relies(s, y)
  BY <1>1, <1>2 DEF DeskInv
<1>4. /\ q \in 0 .. MaxQuantity /\ Cardinality(Kept(y)) <= q
      /\ p # price[y] => Kept(y) = {}
  BY <1>1, <1>2, <1>3 DEF Relies
<1>5. /\ quantity' = [quantity EXCEPT ![y] = q] /\ price' = [price EXCEPT ![y] = p]
      /\ UNCHANGED sales
  BY <1>2 DEF EditSave
<1>6. [t \in Ticket |-> Place(t)]' = [t \in Ticket |-> Place(t)]
  BY <1>5 DEF Place, PlaceState, sales
<1>7. Promise!Edit(y, q, p)
  BY <1>4, <1>5, <1>6, TakenIsKept, CountsAgree DEF Promise!Edit
<1> QED
  BY <1>4, <1>7 DEF Promise!Next

LEMMA BoxOfficeNext == InventoryInv /\ SalesInv /\ [Next]_vars => [Promise!Next]_Promise!vars
<1> SUFFICES ASSUME InventoryInv, SalesInv, [Next]_vars PROVE [Promise!Next]_Promise!vars
  OBVIOUS
<1>1. CASE UNCHANGED <<types, sales>>
  <2>1. \A t \in Ticket : Place(t)' = Place(t)
    BY <1>1 DEF Place, PlaceState, sales
  <2> QED
    BY <1>1, <2>1, SeenThrough
<1>2. ASSUME NEW s \in Session, Serve(s)
      PROVE  UNCHANGED <<types, sales>> \/ OrderInsert(s) \/ EditSave(s)
  <2>1. ASSUME NEW b, NEW y, NEW n, NEW k, OrderStart(s, b, y, n, k) PROVE UNCHANGED <<types, sales>>
    BY <2>1 DEF OrderStart
  <2>2. ASSUME NEW q, NEW p, EditCount(s, q, p) PROVE UNCHANGED <<types, sales>>
    BY <2>2 DEF EditCount
  <2>3. ASSUME NEW y, EditLock(s, y) PROVE UNCHANGED <<types, sales>>
    BY <2>3 DEF EditLock
  <2>4. OrderLock(s) \/ OrderCount(s) \/ Refuse(s) => UNCHANGED <<types, sales>>
    BY DEF OrderLock, OrderCount, Refuse
  <2> QED
    BY <1>2, <2>1, <2>2, <2>3, <2>4 DEF Serve
<1>3. ASSUME NEW s \in Session, Serve(s) PROVE [Promise!Next]_Promise!vars
  BY <1>1, <1>2, <1>3, OrderReserves, EditEdits
<1>4. ASSUME NEW t \in Ticket, ReturnTicket(t) \/ Admit(t) PROVE [Promise!Next]_Promise!vars
  BY <1>4, ReturnsOne, AdmissionIsNoSale
<1>5. ASSUME NEW k \in Key, Conclude(k) PROVE [Promise!Next]_Promise!vars
  BY <1>5, ConcludesOne
<1>6. CASE UNCHANGED vars
  BY <1>1, <1>6 DEF vars, types, sales
<1> QED
  BY <1>3, <1>4, <1>5, <1>6 DEF Next

\* However orders, edits and the commits that pay, end and admit tickets
\* interleave, each of them sells, concludes, returns or edits as if it were
\* alone: what create_order and update_ticket_type count under the type's lock
\* is enough for what they write later.
THEOREM PlacesAreSold == Spec => SellsPlaces
<1>1. Init => SalesInv /\ Promise!Init
  BY SalesInit
<1>2. InventoryInv /\ SalesInv /\ [Next]_vars => SalesInv'
  BY SalesNext
<1>3. InventoryInv /\ SalesInv /\ [Next]_vars => [Promise!Next]_Promise!vars
  BY BoxOfficeNext
<1> QED
  BY <1>1, <1>2, <1>3, InventoryInvariance, PTL DEF Spec, SellsPlaces, Promise!Spec

-----------------------------------------------------------------------------
(* Events, beside the sales: what EventsProofs shows of it. *)

LEMMA EventRuns == VenueSpec => Held!Spec
<1>1. VenueInit => Held!Init
  BY DEF VenueInit
<1>2. [VenueNext]_<<part, vars, eventVars>> => [Held!Next]_Held!vars
  BY DEF VenueNext, eventVars, Held!vars, Held!Next
<1> QED
  BY <1>1, <1>2, PTL DEF VenueSpec, Held!Spec

\* Beside the sales, an event shows only covers that are stored, unless an edit
\* brought one back, or its upload took its commit for failed (ShownCoversAreStored).
THEOREM VenueCoversAreStored == VenueSpec => []CoverIsStored
<1>1. Held!Spec => []Held!CoverIsStored
  BY EventAssumption, Held!ShownCoversAreStored
<1>2. Held!CoverIsStored => CoverIsStored
  BY DEF CoverIsStored
<1> QED
  BY <1>1, <1>2, EventRuns, PTL

\* Nor does a revoked appointment become active by an assignment that had read it
\* as active (RevocationsStand).
THEOREM VenueRevocationsStand == VenueSpec => RevocationStands
<1>1. Held!Spec => Held!RevocationStands
  BY Held!RevocationsStand
<1> QED
  BY <1>1, EventRuns, PTL DEF RevocationStands
=============================================================================
