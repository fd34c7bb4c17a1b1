---------------------------- MODULE Reservation ----------------------------
(***************************************************************************)
(* What a paid reservation promises, without sessions, rows or locks: its  *)
(* place is held, then sold or given back, once; money is received at most *)
(* once, and money that comes for a place given back is owed to the buyer. *)
(***************************************************************************)
CONSTANT Order

VARIABLES
  place,  \* "held", "sold" or "free"
  money   \* "none", "kept" for a sale, or "owed" after a late confirmation

Init ==
  /\ place = [o \in Order |-> "held"]
  /\ money = [o \in Order |-> "none"]

\* The charge is confirmed in time.
Sell(o) ==
  /\ place[o] = "held"
  /\ money[o] = "none"
  /\ place' = [place EXCEPT ![o] = "sold"]
  /\ money' = [money EXCEPT ![o] = "kept"]

\* Cancelled by the buyer, released after a failed start, or swept: a sweep
\* gives several places back at once.
GiveBack(os) ==
  /\ \A o \in os : place[o] = "held"
  /\ place' = [o \in Order |-> IF o \in os THEN "free" ELSE place[o]]
  /\ UNCHANGED money

\* The charge is confirmed after the place was given back.
OweLateMoney(o) ==
  /\ place[o] = "free"
  /\ money[o] = "none"
  /\ money' = [money EXCEPT ![o] = "owed"]
  /\ UNCHANGED place

Next ==
  \/ \E o \in Order : Sell(o) \/ OweLateMoney(o)
  \/ \E os \in SUBSET Order : GiveBack(os)

Spec == Init /\ [][Next]_<<place, money>>
=============================================================================
