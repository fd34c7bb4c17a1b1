----------------------------- MODULE Redemption -----------------------------
(***************************************************************************)
(* A benefit of a ticket type handed out against tickets                   *)
(* (services/entitlement.py): credentials the holder asks for, their       *)
(* validation by staff, self-service redemption, and the organizer's edits *)
(* of the benefit.                                                         *)
(*                                                                         *)
(* redeem_entitlement locks ticket, then the ticket's row of the benefit,  *)
(* then the credentials it replaces; validate_redemption locks the         *)
(* credential and then the row.  A row read before it is locked keeps its  *)
(* old fields (no populate_existing).                                      *)
(***************************************************************************)
EXTENDS Naturals, FiniteSets

CONSTANTS
    Tickets, Codes, Sessions,
    MaxRedemptions,     \* Entitlement.max_redemptions_per_ticket
    SwitchesUnderWay    \* bound: may requires_staff_validation be switched
                        \* while credentials are out or being asked for?

\* assumed by the modules that instantiate this one
RedemptionAssumption ==
    MaxRedemptions \in Nat \ {0} /\ SwitchesUnderWay \in BOOLEAN

VARIABLES
    benefit,    \* the Entitlement row: active, staffed (requires_staff_validation)
    row,        \* per ticket its TicketEntitlement, or none
    credential, \* per code its EntitlementRedemption, or none
    eligible,   \* tickets that are valid and whose holder fulfils the conditions
    given,      \* per ticket, how often the benefit was handed out
    session

vars == <<benefit, row, credential, eligible, given, session>>

BenefitRow == [active : BOOLEAN, staffed : BOOLEAN]
StateRow == [status : {"available", "redeemed", "revoked"}, redeemed : Nat]
CredentialRow == [of : Tickets, status : {"issued", "redeemed", "expired", "cancelled"},
                  overdue : BOOLEAN]
None == [status |-> "none"]
Idle == [pc |-> "idle"]
NewRow == [status |-> "available", redeemed |-> 0]

At(s, pc) == session[s].pc = pc
Goes(s, step) == session' = [session EXCEPT ![s] = step]
Issued(t) == {c \in Codes : credential[c].status = "issued" /\ credential[c].of = t}

\* Mutant: the ticket is selected without with_for_update.
TicketNeverLocked(t) == FALSE

TicketLocked(t)     == \E s \in Sessions : session[s].pc \in {"asked", "issuing"} /\ session[s].on = t
RowLocked(t)        == \E s \in Sessions : At(s, "issuing") /\ session[s].on = t
CredentialLocked(c) == \E s \in Sessions : At(s, "validating") /\ session[s].code = c

\* evaluate_eligibility, by the copies of benefit and row the handler has; the
\* conditions on attendance, time and place are what eligible stands for
Available(t, benefitCopy, rowCopy) ==
    /\ rowCopy.status # "revoked"
    /\ benefitCopy.active
    /\ rowCopy.redeemed < MaxRedemptions
    /\ t \in eligible

\* _apply_redemption counts on the copy, and writes the status at the last one
Applied(t, rowCopy) ==
    LET n == rowCopy.redeemed + 1 IN
    [row EXCEPT ![t] = [status   |-> IF n >= MaxRedemptions THEN "redeemed" ELSE @.status,
                        redeemed |-> n]]

Init ==
    /\ benefit \in [active : {TRUE}, staffed : BOOLEAN]
    /\ row = [t \in Tickets |-> None]
    /\ credential = [c \in Codes |-> None]
    /\ eligible = {}
    /\ given = [t \in Tickets |-> 0]
    /\ session = [s \in Sessions |-> Idle]

-----------------------------------------------------------------------------
\* sync_ticket_entitlements, on ticket creation, on the detail page and by the
\* request for a credential: the unique (ticket, benefit) keeps it at one row
Sync(t) ==
    /\ row[t] = None /\ benefit.active
    /\ row' = [row EXCEPT ![t] = NewRow]
    /\ UNCHANGED <<benefit, credential, eligible, given, session>>

(* redeem_entitlement.  Its sync reads benefit and row after the ticket is  *)
(* locked and before the row is: these copies are what it decides by.       *)
LockTicket(s, t) ==
    /\ At(s, "idle") /\ ~TicketLocked(t) /\ row[t] # None
    /\ Goes(s, [pc |-> "asked", on |-> t, benefit |-> benefit, row |-> row[t]])
    /\ UNCHANGED <<benefit, row, credential, eligible, given>>

\* self-service: the benefit is handed out in this transaction
RedeemSelf(s) ==
    LET t == session[s].on IN
    /\ At(s, "asked") /\ ~RowLocked(t) /\ ~session[s].benefit.staffed
    /\ IF Available(t, session[s].benefit, session[s].row)
       THEN /\ row' = Applied(t, session[s].row)
            /\ given' = [given EXCEPT ![t] = @ + 1]
       ELSE UNCHANGED <<row, given>>
    /\ Goes(s, Idle)
    /\ UNCHANGED <<benefit, credential, eligible>>

LockRow(s) ==
    LET t == session[s].on IN
    /\ At(s, "asked") /\ ~RowLocked(t) /\ session[s].benefit.staffed
    /\ Goes(s, IF Available(t, session[s].benefit, session[s].row)
               THEN [session[s] EXCEPT !.pc = "issuing"] ELSE Idle)
    /\ UNCHANGED <<benefit, row, credential, eligible, given>>

\* Mutant: the new credential joins the old ones.
IssueKeepsOldOnes(s) ==
    /\ At(s, "issuing")
    /\ \E new \in Codes :
          /\ credential[new] = None
          /\ credential' = [credential EXCEPT ![new] =
                               [of |-> session[s].on, status |-> "issued", overdue |-> FALSE]]
    /\ Goes(s, Idle)
    /\ UNCHANGED <<benefit, row, eligible, given>>

\* _cancel_pending waits for the credentials, then the new one is inserted; a
\* code that was ever issued collides (code_hash is unique)
CommitIssue(s) ==
    LET t == session[s].on IN
    /\ At(s, "issuing") /\ \A c \in Issued(t) : ~CredentialLocked(c)
    /\ \E new \in Codes :
          /\ credential[new] = None
          /\ credential' = [c \in Codes |->
                CASE c = new        -> [of |-> t, status |-> "issued", overdue |-> FALSE]
                  [] c \in Issued(t) -> [credential[c] EXCEPT !.status =
                                           IF credential[c].overdue THEN "expired" ELSE "cancelled"]
                  [] OTHER          -> credential[c]]
    /\ Goes(s, Idle)
    /\ UNCHANGED <<benefit, row, eligible, given>>

(* validate_redemption: _resolve_credential locks the credential.  The row  *)
(* is first read when it is locked; benefit is read unlocked.               *)
Resolve(s, c) ==
    /\ At(s, "idle") /\ ~CredentialLocked(c)
    /\ credential[c].status \in {"issued", "expired"}
    /\ IF credential[c].overdue
       THEN /\ credential' = [credential EXCEPT ![c].status = "expired"]
            /\ UNCHANGED session
       ELSE /\ Goes(s, [pc |-> "validating", code |-> c, on |-> credential[c].of,
                        row |-> row[credential[c].of]])
            /\ UNCHANGED credential
    /\ UNCHANGED <<benefit, row, eligible, given>>

\* Mutant: the row read with the credential, before it is locked.
RowWhenResolved(s) == session[s].row

RowWhenLocked(s) == row[session[s].on]

CommitRedeem(s) ==
    LET t == session[s].on IN
    /\ At(s, "validating") /\ ~RowLocked(t)
    /\ IF Available(t, benefit, RowWhenLocked(s))
       THEN /\ credential' = [credential EXCEPT ![session[s].code].status = "redeemed"]
            /\ row' = Applied(t, RowWhenLocked(s))
            /\ given' = [given EXCEPT ![t] = @ + 1]
       ELSE UNCHANGED <<credential, row, given>>
    /\ Goes(s, Idle)
    /\ UNCHANGED <<benefit, eligible>>

-----------------------------------------------------------------------------
(* update_entitlement: the edit commits, then the rows found available are  *)
(* revoked in a transaction of their own.  Switching it on revives no row.  *)
Deactivate(s) ==
    /\ At(s, "idle") /\ benefit.active
    /\ benefit' = [benefit EXCEPT !.active = FALSE]
    /\ Goes(s, [pc |-> "deactivated"])
    /\ UNCHANGED <<row, credential, eligible, given>>

FindAvailable(s) ==
    /\ At(s, "deactivated")
    /\ Goes(s, [pc |-> "revoking", rows |-> {t \in Tickets : row[t].status = "available"}])
    /\ UNCHANGED <<benefit, row, credential, eligible, given>>

CommitRevoke(s) ==
    /\ At(s, "revoking") /\ \A t \in session[s].rows : ~RowLocked(t)
    /\ row' = [t \in Tickets |-> IF t \in session[s].rows
                                 THEN [row[t] EXCEPT !.status = "revoked"] ELSE row[t]]
    /\ Goes(s, Idle)
    /\ UNCHANGED <<benefit, credential, eligible, given>>

Reactivate ==
    /\ ~benefit.active
    /\ benefit' = [benefit EXCEPT !.active = TRUE]
    /\ UNCHANGED <<row, credential, eligible, given, session>>

SwitchValidation ==
    /\ \/ SwitchesUnderWay
       \/ /\ \A s \in Sessions : session[s] = Idle
          /\ \A c \in Codes : credential[c].status # "issued"
    /\ benefit' = [benefit EXCEPT !.staffed = ~@]
    /\ UNCHANGED <<row, credential, eligible, given, session>>

\* check-in, checkout, rejection, refund, the window of redemption: see
\* TicketHolder, Attendance and Settlement
ConditionsChange(t) ==
    /\ eligible' = IF t \in eligible THEN eligible \ {t} ELSE eligible \cup {t}
    /\ UNCHANGED <<benefit, row, credential, given, session>>

\* REDEMPTION_TTL passes
CredentialRunsOut(c) ==
    /\ credential[c].status = "issued" /\ ~credential[c].overdue
    /\ credential' = [credential EXCEPT ![c].overdue = TRUE]
    /\ UNCHANGED <<benefit, row, eligible, given, session>>

\* a request is rolled back: a failure, a collision of codes, or the database
\* ending one of two that wait for each other
Abort(s) ==
    /\ session[s] # Idle
    /\ Goes(s, Idle)
    /\ UNCHANGED <<benefit, row, credential, eligible, given>>

Next ==
    \/ \E t \in Tickets : Sync(t) \/ ConditionsChange(t)
    \/ \E c \in Codes : CredentialRunsOut(c)
    \/ \E s \in Sessions :
          \/ \E t \in Tickets : LockTicket(s, t)
          \/ RedeemSelf(s) \/ LockRow(s) \/ CommitIssue(s)
          \/ \E c \in Codes : Resolve(s, c)
          \/ CommitRedeem(s)
          \/ Deactivate(s) \/ FindAvailable(s) \/ CommitRevoke(s)
          \/ Abort(s)
    \/ Reactivate \/ SwitchValidation

Spec == Init /\ [][Next]_vars

-----------------------------------------------------------------------------
(* Types of the rows. *)
TypeOK ==
    /\ benefit \in BenefitRow
    /\ \A t \in Tickets : row[t] \in StateRow \cup {None}
    /\ \A c \in Codes : credential[c] \in CredentialRow \cup {None}
    /\ eligible \subseteq Tickets

(* A ticket's row counts every time the benefit was handed out and no more  *)
(* than is allowed: no redemption is lost to another one that counted from  *)
(* an older copy ("two staff devices cannot redeem one perk twice").        *)
EveryGiftIsCounted ==
    \A t \in Tickets :
        /\ given[t] <= MaxRedemptions
        /\ row[t] = None \/ row[t].redeemed = given[t]

(* A ticket has at most one credential that staff would still accept,       *)
(* however often and from how many devices its holder asks for one          *)
(* (redeem_entitlement replaces under the ticket's lock).                   *)
OneLiveCredential == \A t \in Tickets : \A b, c \in Issued(t) : b = c

(* A credential hands out a benefit only while the ticket's row is not      *)
(* revoked: staff who resolved it before the organizer withdrew the benefit *)
(* from the ticket give nothing.                                            *)
NothingGivenOnceRevoked ==
    [][\A c \in Codes :
          credential[c].status # "redeemed" /\ credential'[c].status = "redeemed" =>
              row[credential[c].of].status = "available"]_vars
=============================================================================
