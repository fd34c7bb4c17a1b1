---------------------------- MODULE TicketHolder ----------------------------
(***************************************************************************)
(* Who holds a ticket, and who is let in with it: the transfer links of    *)
(* services/ticket_transfer.py against the two admissions, self_check_in   *)
(* (services/ticket_attendance.py) and validate_ticket                     *)
(* (services/ticket.py).  All tickets are of one type of one event.        *)
(*                                                                         *)
(* A handler that locks a ticket holds it from its lock step to its commit *)
(* step.  What it read before (the route's copy of the ticket) or without  *)
(* a lock (attendance, other tickets) may be out of date when it commits.  *)
(***************************************************************************)
EXTENDS Naturals, FiniteSets

CONSTANTS
    Tickets, Users, Links, Sessions,
    Buyer,          \* the user the order was placed by
    MaxPerUser      \* TicketType.max_per_user

ASSUME HolderAssumption ==
    /\ Buyer \in Users
    /\ MaxPerUser \in Nat \ {0}

VARIABLES
    ticket,     \* the row: holder (attendee_id), assignment_state, status
    link,       \* the ticket_transfers rows
    attended,   \* users with an attendance row of the event (all are checked in)
    session     \* the requests under way

vars == <<ticket, link, attended, session>>

TicketRow == [holder : Users, state : {"unassigned", "invited", "claimed"},
              status : {"active", "used", "ended"}, admittedBy : {"nobody", "self", "staff"}]
TransferStatus == {"pending", "claimed", "cancelled", "expired"}
\* overdue: a pending link past its expires_at
TransferRow == [of : Tickets, status : TransferStatus, overdue : BOOLEAN]
Unsent == [status |-> "unsent"]
Idle == [pc |-> "idle"]
LockHolding == {"creating", "cancelling", "claiming", "checking_in", "scanning"}

Pending(t) == {l \in Links : link[l].status = "pending" /\ link[l].of = t}
\* Mutant: the select without with_for_update.
NeverLocked(t) == FALSE

Locked(t)  == \E s \in Sessions : session[s].pc \in LockHolding /\ session[s].on = t
Goes(s, step) == session' = [session EXCEPT ![s] = step]
At(s, pc) == session[s].pc = pc
Over(row, as) == [of |-> row.of, status |-> as, overdue |-> FALSE]
EndLinks(ls, as) == [l \in Links |-> IF l \in ls THEN Over(link[l], as) ELSE link[l]]

\* _claimable, on the copy of the ticket the handler decides by
Claimable(copy) == copy.status = "active" /\ copy.holder \notin attended

\* redemption_limit_reached counts the holder's other used tickets, without locks
LimitReached(t, u) ==
    Cardinality({o \in Tickets \ {t} : ticket[o].holder = u /\ ticket[o].status = "used"})
        >= MaxPerUser

\* create_order: the buyer holds every ticket, the first is assigned to the buyer
Init ==
    /\ \E own \in Tickets :
          ticket = [t \in Tickets |-> [holder |-> Buyer, status |-> "active", admittedBy |-> "nobody",
                                       state |-> IF t = own THEN "claimed" ELSE "unassigned"]]
    /\ link = [l \in Links |-> Unsent]
    /\ attended = {}
    /\ session = [s \in Sessions |-> Idle]

-----------------------------------------------------------------------------
(* start_transfer and stop_transfer: _owned_ticket reads the ticket without *)
(* a lock, and the locking select of the service keeps that copy: who asks  *)
(* was the holder then.  A copy has the columns the handler goes by.        *)

Seen(t, columns) == [c \in columns |-> ticket[t][c]]

ReadOwned(s, t) ==
    /\ At(s, "idle")
    /\ \/ Goes(s, [pc |-> "create", on |-> t, copy |-> Seen(t, {"holder", "status", "state"})])
       \/ Goes(s, [pc |-> "cancel", on |-> t, copy |-> Seen(t, {"state"})])
    /\ UNCHANGED <<ticket, link, attended>>

LockToCreate(s) ==
    /\ At(s, "create") /\ ~Locked(session[s].on)
    /\ Goes(s, IF Claimable(session[s].copy)
               THEN [session[s] EXCEPT !.pc = "creating"] ELSE Idle)
    /\ UNCHANGED <<ticket, link, attended>>

\* a field is written when it differs from the copy
WriteState(t, copy, state) ==
    ticket' = IF copy.state = state THEN ticket ELSE [ticket EXCEPT ![t].state = state]

\* Mutant: older links stay open.
CreateKeepsOldLinks(s) ==
    /\ At(s, "creating")
    /\ \E l \in Links :
          /\ link[l] = Unsent
          /\ link' = [link EXCEPT ![l] = [of |-> session[s].on, status |-> "pending",
                                           overdue |-> FALSE]]
          /\ WriteState(session[s].on, session[s].copy, "invited")
    /\ Goes(s, Idle)
    /\ UNCHANGED attended

CommitCreate(s) ==
    /\ At(s, "creating")
    /\ LET t == session[s].on IN
       \E l \in Links :
          /\ link[l] = Unsent
          /\ link' = [EndLinks(Pending(t), "cancelled") EXCEPT
                         ![l] = [of |-> t, status |-> "pending", overdue |-> FALSE]]
          /\ WriteState(t, session[s].copy, "invited")
    /\ Goes(s, Idle)
    /\ UNCHANGED attended

LockToCancel(s) ==
    /\ At(s, "cancel") /\ ~Locked(session[s].on)
    /\ Goes(s, IF Pending(session[s].on) # {}
               THEN [session[s] EXCEPT !.pc = "cancelling"] ELSE Idle)
    /\ UNCHANGED <<ticket, link, attended>>

\* the select ends one pending link; which, is not stated
CommitCancel(s) ==
    /\ At(s, "cancelling")
    /\ \E l \in Pending(session[s].on) : link' = EndLinks({l}, "cancelled")
    /\ WriteState(session[s].on, session[s].copy, "claimed")
    /\ Goes(s, Idle)
    /\ UNCHANGED attended

-----------------------------------------------------------------------------
(* transfer_preview: reads link and ticket without locks, and expires an    *)
(* overdue link.  Its update waits for a handler that holds the ticket.     *)

ReadPreview(s, l) ==
    /\ At(s, "idle")
    /\ link[l].status = "pending" /\ link[l].overdue
    /\ Goes(s, [pc |-> "expiring", link |-> l, on |-> link[l].of,
                copy |-> Seen(link[l].of, {"state"})])
    /\ UNCHANGED <<ticket, link, attended>>

Expire(l, t, copy) ==
    /\ link' = EndLinks({l}, "expired")
    /\ ticket' = IF copy.state = "invited" THEN [ticket EXCEPT ![t].state = "claimed"] ELSE ticket

CommitExpire(s) ==
    /\ At(s, "expiring") /\ ~Locked(session[s].on)
    /\ Expire(session[s].link, session[s].on, session[s].copy)
    /\ Goes(s, Idle)
    /\ UNCHANGED attended

-----------------------------------------------------------------------------
(* claim_transfer: looks the token up, locks the ticket, then reads the link *)
(* again under its own lock (populate_existing).                             *)

FindLink(s, u, l) ==
    /\ At(s, "idle") /\ link[l] # Unsent
    /\ Goes(s, [pc |-> "claim", user |-> u, link |-> l, on |-> link[l].of])
    /\ UNCHANGED <<ticket, link, attended>>

\* Mutant: the link is taken to be as it was when it was looked up, pending.
KeepsFoundLink(s) == [link[session[s].link] EXCEPT !.status = "pending"]

ReadAgain(s) == link[session[s].link]

LockToClaim(s) ==
    LET l == session[s].link  t == session[s].on  row == ReadAgain(s) IN
    /\ At(s, "claim") /\ ~Locked(t)
    /\ \/ /\ row.status = "pending" /\ row.overdue
          /\ Expire(l, t, ticket[t])
          /\ Goes(s, Idle)
       \/ /\ row.status = "pending" /\ ~row.overdue
          /\ ticket[t].holder # session[s].user /\ Claimable(ticket[t])
          /\ Goes(s, [session[s] EXCEPT !.pc = "claiming"])
          /\ UNCHANGED <<ticket, link>>
       \/ /\ \/ row.status # "pending"
             \/ ~row.overdue /\ (ticket[t].holder = session[s].user \/ ~Claimable(ticket[t]))
          /\ Goes(s, Idle)
          /\ UNCHANGED <<ticket, link>>
    /\ UNCHANGED attended

CommitClaim(s) ==
    LET t == session[s].on IN
    /\ At(s, "claiming")
    /\ ticket' = [ticket EXCEPT ![t].holder = session[s].user, ![t].state = "claimed"]
    /\ link' = [EndLinks(Pending(t), "cancelled") EXCEPT
                   ![session[s].link] = Over(link[session[s].link], "claimed")]
    /\ Goes(s, Idle)
    /\ UNCHANGED attended

-----------------------------------------------------------------------------
(* The two admissions.  Both lock the ticket first, and lock the attendance *)
(* row when there is one; when there is none, both insert it and the unique *)
(* (event, user) refuses the second.                                        *)

\* self_check_in; a repeated one returns what is recorded and changes nothing
LockToCheckIn(s, t) ==
    LET u == ticket[t].holder IN
    /\ At(s, "idle") /\ ~Locked(t)
    /\ ticket[t].status \in {"active", "used"} /\ ticket[t].state = "claimed"
    /\ u \notin attended /\ ~LimitReached(t, u)
    /\ Goes(s, [pc |-> "checking_in", on |-> t, user |-> u, inserts |-> TRUE])
    /\ UNCHANGED <<ticket, link, attended>>

\* Mutant: no unique (event, user).
NoUniqueAttendance(s) == FALSE

InsertCollides(s) == session[s].inserts /\ session[s].user \in attended

\* a location that cannot be verified leaves the ticket unused, for review
CommitCheckIn(s, verified) ==
    /\ At(s, "checking_in") /\ ~InsertCollides(s)
    /\ attended' = attended \cup {session[s].user}
    /\ ticket' = IF verified
                 THEN [ticket EXCEPT ![session[s].on].status = "used",
                                     ![session[s].on].admittedBy = "self"]
                 ELSE ticket
    /\ Goes(s, Idle)
    /\ UNCHANGED link

\* validate_ticket; an organizer may switch event.qr_attendance_enabled any time
LockToScan(s, t, qr) ==
    LET u == ticket[t].holder IN
    /\ At(s, "idle") /\ ~Locked(t)
    /\ ticket[t].status = "active" /\ ticket[t].state = "claimed"
    /\ ~LimitReached(t, u)
    /\ Goes(s, [pc |-> "scanning", on |-> t, user |-> u, qr |-> qr,
                inserts |-> qr /\ u \notin attended])
    /\ UNCHANGED <<ticket, link, attended>>

CommitScan(s) ==
    /\ At(s, "scanning") /\ ~InsertCollides(s)
    /\ attended' = IF session[s].qr THEN attended \cup {session[s].user} ELSE attended
    /\ ticket' = [ticket EXCEPT ![session[s].on].status = "used",
                                ![session[s].on].admittedBy = "staff"]
    /\ Goes(s, Idle)
    /\ UNCHANGED link

-----------------------------------------------------------------------------
\* a request that fails, is cut off or collides: get_db rolls it back
Abort(s) ==
    /\ session[s] # Idle
    /\ Goes(s, Idle)
    /\ UNCHANGED <<ticket, link, attended>>

\* cancel_single_ticket and refund_single_ticket, which may act on an old copy
\* and so end a used ticket too: see Settlement
EndTicket(t) ==
    /\ ticket[t].status \in {"active", "used"} /\ ~Locked(t)
    /\ ticket' = [ticket EXCEPT ![t].status = "ended"]
    /\ UNCHANGED <<link, attended, session>>

\* TRANSFER_TTL passes
LinkRunsOut(l) ==
    /\ link[l].status = "pending" /\ ~link[l].overdue
    /\ link' = [link EXCEPT ![l].overdue = TRUE]
    /\ UNCHANGED <<ticket, attended, session>>

Request(s) ==
    \/ \E t \in Tickets : ReadOwned(s, t)
    \/ \E l \in Links : ReadPreview(s, l)
    \/ \E u \in Users, l \in Links : FindLink(s, u, l)
    \/ \E t \in Tickets : LockToCheckIn(s, t) \/ \E qr \in BOOLEAN : LockToScan(s, t, qr)

Continue(s) ==
    \/ LockToCreate(s) \/ CommitCreate(s)
    \/ LockToCancel(s) \/ CommitCancel(s)
    \/ CommitExpire(s)
    \/ LockToClaim(s) \/ CommitClaim(s)
    \/ \E verified \in BOOLEAN : CommitCheckIn(s, verified)
    \/ CommitScan(s)
    \/ Abort(s)

Next ==
    \/ \E s \in Sessions : Request(s) \/ Continue(s)
    \/ \E t \in Tickets : EndTicket(t)
    \/ \E l \in Links : LinkRunsOut(l)

Spec == Init /\ [][Next]_vars

-----------------------------------------------------------------------------
(* Types of the rows; a link once sent stays a row. *)
TypeOK ==
    /\ ticket \in [Tickets -> TicketRow]
    /\ \A l \in Links : link[l] \in TransferRow \cup {Unsent}
    /\ attended \subseteq Users

(* A ticket changes hands exactly by one link that was pending and is now  *)
(* claimed, and no other link to it survives: two claims of one link, or of *)
(* two links to one ticket, never both succeed (claim_transfer re-reads the *)
(* link under both locks).                                                  *)
ChangesHandsByOneLink ==
    [][\A t \in Tickets : ticket'[t].holder # ticket[t].holder =>
          /\ \E l \in Links : /\ link[l].status = "pending" /\ link[l].of = t
                              /\ link'[l].status = "claimed"
          /\ Pending(t)' = {}]_vars

(* Of all that requests do at once, by old copies and old links, every step *)
(* is one of what a ticket promises, or nothing to its holders: an offer is *)
(* taken once and by one person, an admission is of the holder and stays    *)
(* his, and nobody enters by two tickets.                                   *)
Promise == INSTANCE Possession WITH
    holder  <- [t \in Tickets |-> ticket[t].holder],
    offered <- {t \in Tickets : Pending(t) # {}},
    state   <- [t \in Tickets |-> ticket[t].status],
    entered <- {t \in Tickets : ticket[t].admittedBy = "self"}
KeepsPossession == Promise!Spec

(* At most one link to a ticket can be claimed, whoever started transfers   *)
(* of it at once (create_transfer cancels the pending ones it locks).       *)
OneLinkPerTicket == \A t \in Tickets : \A k, l \in Pending(t) : k = l

(* Nobody admits himself twice, however many tickets he holds and opens at  *)
(* once: the count of redeemed tickets is read without a lock, and only the *)
(* unique attendance row of event and user decides.                         *)
SelfAdmissionIsOnce ==
    \A u \in Users :
        Cardinality({t \in Tickets : ticket[t].holder = u /\ ticket[t].admittedBy = "self"}) <= 1

=============================================================================
