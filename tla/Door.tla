-------------------------------- MODULE Door --------------------------------
(***************************************************************************)
(* What happens to a ticket that was sold: its transfers and admission     *)
(* (TicketHolder) and the benefits given for it (Redemption).              *)
(*                                                                         *)
(* The two share no state; what one needs of the other it takes as a choice *)
(* of its own.  So nothing is lost where only one of them moves in a        *)
(* behaviour: "part" says which, and the other stays in an initial state.   *)
(***************************************************************************)
EXTENDS TicketHolder

CONSTANTS
    Entitled,           \* the tickets a benefit is given for
    Codes, MaxRedemptions

VARIABLES part, benefit, row, credential, eligible, given, desk

benefitVars == <<benefit, row, credential, eligible, given, desk>>

Benefits == INSTANCE Redemption WITH
    Tickets <- Entitled, SwitchesUnderWay <- FALSE, session <- desk

ASSUME BenefitsAssumption == Benefits!RedemptionAssumption

DoorInit ==
    /\ part \in {"holder", "benefits"}
    /\ Init /\ Benefits!Init
    /\ part = "holder" => benefit.staffed

DoorNext ==
    /\ \/ part = "holder" /\ Next /\ UNCHANGED benefitVars
       \/ part = "benefits" /\ Benefits!Next /\ UNCHANGED vars
    /\ UNCHANGED part

DoorSpec == DoorInit /\ [][DoorNext]_<<part, vars, benefitVars>>

-----------------------------------------------------------------------------
(* The properties of Redemption; those of TicketHolder go by their names. *)

\* Every gift is counted, one credential is live, and nothing is given once the
\* ticket's row of the benefit is revoked.
EveryGiftIsCounted == part = "benefits" => Benefits!EveryGiftIsCounted
OneLiveCredential == part = "benefits" => Benefits!OneLiveCredential
NothingGivenOnceRevoked == Benefits!NothingGivenOnceRevoked
=============================================================================
