------------------------------- MODULE Venue -------------------------------
(***************************************************************************)
(* An event: its row and cover, its staff (Events), and what it sells       *)
(* (Inventory).  Orders take the event's status as a reason to be refused,  *)
(* and refusing is possible in every state; the handlers of the staff ask   *)
(* whether the event is available, which suspensions change in either part. *)
(* So that one part moves in a behaviour and the others stay in an initial  *)
(* state.                                                                  *)
(***************************************************************************)
EXTENDS Inventory

CONSTANTS Candidates, Objects

VARIABLES part, event, object, member, staff, session, doubtful

eventVars == <<event, object, member, staff, session, doubtful>>

Held == INSTANCE EventsProofs WITH Sessions <- Session

ASSUME EventAssumption == Held!EventsAssumption

VenueInit ==
  /\ part \in {"sales", "event", "staff"}
  /\ Held!Init
  /\ part # "event" => event.cover = "none"
  /\ IF part = "sales" THEN Init ELSE
       /\ quantity = [y \in Type |-> 0] /\ price = [y \in Type |-> Free]
       /\ order = [k \in Key |-> NoOrder] /\ ticket = [t \in Ticket |-> NoTicket]
       /\ revived = {} /\ lock = [y \in Type |-> NoSession] /\ desk = [s \in Session |-> AtRest]

VenueNext ==
  /\ \/ part = "sales" /\ Next /\ UNCHANGED eventVars
     \/ part = "event" /\ Held!EventNext /\ UNCHANGED vars
     \/ part = "staff" /\ Held!StaffNext /\ UNCHANGED vars
  /\ UNCHANGED part

VenueSpec == VenueInit /\ [][VenueNext]_<<part, vars, eventVars>>

\* Events: the cover shown is stored, and a revoked appointment stays revoked.
CoverIsStored == Held!CoverIsStored
RevocationStands == Held!RevocationStands
=============================================================================
