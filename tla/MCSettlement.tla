---------------------------- MODULE MCSettlement ----------------------------
(***************************************************************************)
(* Small instances of Settlement for TLC, two in one: all desks race for   *)
(* the last ticket of an order whose other ticket has been cancelled, with *)
(* the services of ticket.py; or one desk at a time serves everything, the *)
(* verifications of attendance.py included, to both tickets of an order.   *)
(***************************************************************************)
EXTENDS Settlement, TLC

CONSTANTS o1, t1, t2, r1, w, d1, d2

OneOrderOf == t1 :> o1 @@ t2 :> o1
OneScope   == {{o1}}

VARIABLE instance

OneTicketLeft ==
  /\ order = [o \in Order |-> "pending"]
  /\ overdue = {}
  /\ payment = [o \in Order |-> "none"]
  /\ review = {}
  /\ \E gone \in Ticket :
       ticket = [t \in Ticket |-> IF t = gone THEN "cancelled" ELSE "pending_payment"]
  /\ charge = [o \in Order |-> "none"]
  /\ lock = [r \in Row |-> NoSession]
  /\ pc = [s \in Session |-> "idle"]
  /\ on = [s \in Session |-> NoOrder]
  /\ todo = [s \in Session |-> {}]

DesksInit == \/ instance = "race" /\ OneTicketLeft /\ NothingAsked
             \/ instance = "siblings" /\ SettlementInit

Busy == {d \in Desk : desk[d].at # "rest"}

DesksNext ==
  /\ SettlementNext
  /\ UNCHANGED instance
  /\ instance = "race" => \A d \in Desk : desk'[d].service # "verify"
  /\ instance = "siblings" => Cardinality(Busy') <= 1

DesksSpec == DesksInit /\ [][DesksNext]_<<allVars, instance>>

Interchangeable == Permutations({t1, t2}) \cup Permutations({d1, d2})

=============================================================================
