----------------------------- MODULE DoorProofs -----------------------------
(***************************************************************************)
(* Proofs about Door, for every number of tickets, holders, links, codes   *)
(* and requests.                                                           *)
(*                                                                         *)
(* Both parts rest on the same argument.  A request that holds a row's lock *)
(* relies on what it has read under it; nobody else writes those fields     *)
(* until it commits; and what it decides by without a lock it either does   *)
(* not need, or a unique key decides again at the commit.                   *)
(***************************************************************************)
EXTENDS Door, FiniteSetTheorems, TLAPS

-----------------------------------------------------------------------------
(* TicketHolder. *)

Sent(l) == link[l] # Unsent

\* What a request knows of the rows while it is at the step it is at.
Knows(s) ==
    /\ session[s].pc \in LockHolding \cup {"create", "cancel", "expiring", "claim"} => session[s].on \in Tickets
    /\ session[s].pc \in {"claim", "claiming"} => session[s].user \in Users
    /\ session[s].pc \in {"expiring", "claim", "claiming"} =>
          /\ session[s].link \in Links /\ Sent(session[s].link)
          /\ link[session[s].link].of = session[s].on
    /\ At(s, "claiming") => /\ link[session[s].link].status = "pending"
                            /\ ticket[session[s].on].status = "active"
                            /\ session[s].user # ticket[session[s].on].holder
    /\ At(s, "checking_in") => session[s].inserts /\ ticket[session[s].on].status \in {"active", "used"}
    /\ At(s, "scanning") => ticket[session[s].on].status = "active"
    /\ session[s].pc \in {"checking_in", "scanning"} => session[s].user = ticket[session[s].on].holder

\* No two requests hold one ticket's lock.
Excludes(s, r) ==
    session[s].pc \in LockHolding /\ session[r].pc \in LockHolding /\ session[s].on = session[r].on => s = r

HolderInv ==
    /\ ticket \in [Tickets -> TicketRow]
    /\ link \in [Links -> TransferRow \cup {Unsent}]
    /\ session = [s \in Sessions |-> session[s]]
    /\ \A s \in Sessions : Knows(s)
    /\ \A s, r \in Sessions : Excludes(s, r)
    /\ attended \subseteq Users
    /\ OneLinkPerTicket
    /\ \A t \in Tickets : ticket[t].admittedBy = "self" =>
          ticket[t].status # "active" /\ ticket[t].holder \in attended
    /\ \A t, o \in Tickets :
          ticket[t].holder = ticket[o].holder /\ ticket[t].admittedBy = "self" /\ ticket[o].admittedBy = "self" => t = o

LEMMA HolderInit == Init => HolderInv
<1> SUFFICES ASSUME Init PROVE HolderInv
  OBVIOUS
<1>1. \A s \in Sessions : session[s] = Idle
  BY DEF Init
<1>2. \A t \in Tickets : ticket[t].admittedBy = "nobody"
  BY DEF Init
<1>3. ticket \in [Tickets -> TicketRow] /\ link \in [Links -> TransferRow \cup {Unsent}]
  BY HolderAssumption DEF Init, TicketRow
<1>4. OneLinkPerTicket
  BY DEF Init, OneLinkPerTicket, Pending, Unsent
<1>5. (\A s \in Sessions : Knows(s)) /\ (\A s, r \in Sessions : Excludes(s, r))
  BY <1>1 DEF Knows, Excludes, Idle, LockHolding, At
<1> QED
  BY <1>1, <1>2, <1>3, <1>4, <1>5 DEF HolderInv, Init

\* A step that reads or locks changes what one request knows, and nothing else.
LEMMA HolderReads ==
  ASSUME HolderInv, NEW s \in Sessions, NEW step, Goes(s, step),
         UNCHANGED <<ticket, link, attended>>,
         Knows(s)', \A r \in Sessions \ {s} : Excludes(s, r)'
  PROVE  HolderInv'
<1>1. /\ session' = [r \in Sessions |-> session'[r]]
      /\ \A r \in Sessions \ {s} : session'[r] = session[r]
  BY DEF HolderInv, Goes
<1>2. \A r \in Sessions : Knows(r)'
  <2> SUFFICES ASSUME NEW r \in Sessions \ {s} PROVE Knows(r)'
    OBVIOUS
  <2>1. Knows(r)
    BY DEF HolderInv
  <2> QED
    BY <1>1, <2>1 DEF Knows, At, Sent
<1>3. \A r, q \in Sessions : Excludes(r, q)'
  <2> SUFFICES ASSUME NEW r \in Sessions \ {s}, NEW q \in Sessions \ {s} PROVE Excludes(r, q)'
    BY DEF Excludes
  <2>1. Excludes(r, q)
    BY DEF HolderInv
  <2> QED
    BY <1>1, <2>1 DEF Excludes
<1> QED
  BY <1>1, <1>2, <1>3 DEF HolderInv, OneLinkPerTicket, Pending

\* A commit disturbs no other request, if all it changes is a ticket that no
\* other request has locked, and the links to it.
LEMMA OthersUndisturbed ==
  ASSUME HolderInv, NEW s \in Sessions, Goes(s, Idle), NEW t \in Tickets,
         \A r \in Sessions \ {s} : session[r].pc \in LockHolding => session[r].on # t,
         \A o \in Tickets \ {t} : ticket'[o].status = ticket[o].status /\ ticket'[o].holder = ticket[o].holder,
         \A l \in Links : Sent(l) => /\ Sent(l)' /\ link'[l].of = link[l].of
                                     /\ link[l].of # t => link'[l].status = link[l].status
  PROVE  /\ session' = [r \in Sessions |-> session'[r]]
         /\ \A r \in Sessions : Knows(r)'
         /\ \A r, q \in Sessions : Excludes(r, q)'
<1>1. /\ session' = [r \in Sessions |-> session'[r]]
      /\ session'[s] = Idle
      /\ \A r \in Sessions \ {s} : session'[r] = session[r]
  BY DEF HolderInv, Goes
<1>2. Knows(s)' /\ \A r \in Sessions : Excludes(s, r)' /\ Excludes(r, s)'
  BY <1>1 DEF Knows, Excludes, Idle, LockHolding, At
<1>3. ASSUME NEW r \in Sessions \ {s} PROVE Knows(r)'
  <2>1. Knows(r)
    BY DEF HolderInv
  <2>2. session[r].pc \in LockHolding => session[r].on \in Tickets \ {t}
    BY <2>1 DEF Knows
  <2>3. session'[r] = session[r]
    BY <1>1
  <2> QED
    BY <2>1, <2>2, <2>3 DEF Knows, At, Sent, LockHolding
<1>4. ASSUME NEW r \in Sessions \ {s}, NEW q \in Sessions \ {s} PROVE Excludes(r, q)'
  <2>1. Excludes(r, q)
    BY DEF HolderInv
  <2> QED
    BY <1>1, <2>1 DEF Excludes
<1> QED
  BY <1>1, <1>2, <1>3, <1>4

LEMMA TransferRows ==
  /\ \A tr \in TransferRow : tr # Unsent /\ tr.of \in Tickets /\ tr.status \in TransferStatus
  /\ \A tr \in TransferRow, as \in TransferStatus :
        /\ Over(tr, as) \in TransferRow
        /\ Over(tr, as).of = tr.of
        /\ Over(tr, as).status = as
BY DEF TransferRow, Unsent, Over

\* Whose status says that it was sent, and where it goes to.
LEMMA PendingAreSent ==
  ASSUME link \in [Links -> TransferRow \cup {Unsent}], NEW l \in Links
  PROVE  /\ link[l].status = "pending" => Sent(l)
         /\ Sent(l) => link[l].of \in Tickets
  BY DEF Sent, Unsent, TransferRow

-----------------------------------------------------------------------------
(* Requests that read, lock, give up or end. *)

LEMMA HolderReadSteps ==
  ASSUME HolderInv, NEW s \in Sessions,
         \/ \E t \in Tickets : ReadOwned(s, t)
         \/ \E l \in Links : ReadPreview(s, l)
         \/ \E u \in Users, l \in Links : FindLink(s, u, l)
  PROVE  HolderInv'
<1>1. ASSUME NEW step, Goes(s, step), UNCHANGED <<ticket, link, attended>>,
             step.pc \in {"create", "cancel", "expiring", "claim"},
             step.on \in Tickets,
             step.pc = "claim" => step.user \in Users,
             step.pc \in {"expiring", "claim"} => step.link \in Links /\ Sent(step.link) /\ link[step.link].of = step.on
      PROVE  HolderInv'
  <2>1. session'[s] = step
    BY <1>1 DEF HolderInv, Goes
  <2>2. Knows(s)' /\ \A r \in Sessions : Excludes(s, r)'
    BY <1>1, <2>1 DEF Knows, Excludes, LockHolding, At, Sent
  <2> QED
    BY <1>1, <2>2, HolderReads
<1>2. CASE \E t \in Tickets : ReadOwned(s, t)
  BY <1>1, <1>2 DEF ReadOwned
<1>3. CASE \E l \in Links : ReadPreview(s, l)
  BY <1>1, <1>3, PendingAreSent DEF ReadPreview, HolderInv
<1>4. CASE \E u \in Users, l \in Links : FindLink(s, u, l)
  BY <1>1, <1>4, PendingAreSent DEF FindLink, HolderInv, Sent
<1> QED
  BY <1>2, <1>3, <1>4

LEMMA HolderEnds ==
  ASSUME HolderInv, NEW s \in Sessions, Goes(s, Idle), UNCHANGED <<ticket, link, attended>>
  PROVE  HolderInv'
<1>1. session'[s] = Idle
  BY DEF HolderInv, Goes
<1>2. Knows(s)' /\ \A r \in Sessions : Excludes(s, r)'
  BY <1>1 DEF Knows, Excludes, Idle, LockHolding, At
<1> QED
  BY <1>2, HolderReads

\* A request that takes the lock of a ticket nobody holds.
LEMMA HolderLocks ==
  ASSUME HolderInv, NEW s \in Sessions, NEW step, Goes(s, step), UNCHANGED <<ticket, link, attended>>,
         step.pc \in LockHolding, ~Locked(step.on), Knows(s)'
  PROVE  HolderInv'
<1>1. /\ session'[s] = step
      /\ \A r \in Sessions \ {s} : session'[r] = session[r]
  BY DEF HolderInv, Goes
<1>2. \A r \in Sessions \ {s} : Excludes(s, r)'
  BY <1>1 DEF Excludes, Locked
<1> QED
  BY <1>2, HolderReads

LEMMA HolderLockSteps ==
  ASSUME HolderInv, NEW s \in Sessions,
         \/ LockToCreate(s) \/ LockToCancel(s)
         \/ \E t \in Tickets : LockToCheckIn(s, t) \/ \E qr \in BOOLEAN : LockToScan(s, t, qr)
  PROVE  HolderInv'
<1> USE DEF LockHolding, At
<1>1. Knows(s)
  BY DEF HolderInv
<1>2. CASE LockToCreate(s)
  <2>1. CASE Goes(s, Idle)
    BY <1>2, <2>1, HolderEnds DEF LockToCreate
  <2>2. CASE Goes(s, [session[s] EXCEPT !.pc = "creating"])
    <3> DEFINE step == [session[s] EXCEPT !.pc = "creating"]
    <3>1. step.pc = "creating" /\ step.on = session[s].on
      BY <1>2 DEF LockToCreate
    <3>2. session'[s] = step
      BY <2>2 DEF HolderInv, Goes
    <3>3. Knows(s)'
      BY <1>1, <1>2, <3>1, <3>2 DEF Knows, LockToCreate
    <3> HIDE DEF step
    <3> QED
      BY <1>2, <2>2, <3>1, <3>3, HolderLocks DEF LockToCreate, step
  <2> QED
    BY <1>2, <2>1, <2>2 DEF LockToCreate
<1>3. CASE LockToCancel(s)
  <2>1. CASE Goes(s, Idle)
    BY <1>3, <2>1, HolderEnds DEF LockToCancel
  <2>2. CASE Goes(s, [session[s] EXCEPT !.pc = "cancelling"])
    <3> DEFINE step == [session[s] EXCEPT !.pc = "cancelling"]
    <3>1. step.pc = "cancelling" /\ step.on = session[s].on
      BY <1>3 DEF LockToCancel
    <3>2. session'[s] = step
      BY <2>2 DEF HolderInv, Goes
    <3>3. Knows(s)'
      BY <1>1, <1>3, <3>1, <3>2 DEF Knows, LockToCancel
    <3> HIDE DEF step
    <3> QED
      BY <1>3, <2>2, <3>1, <3>3, HolderLocks DEF LockToCancel, step
  <2> QED
    BY <1>3, <2>1, <2>2 DEF LockToCancel
<1>4. ASSUME NEW t \in Tickets, LockToCheckIn(s, t) PROVE HolderInv'
  <2> DEFINE step == [pc |-> "checking_in", on |-> t, user |-> ticket[t].holder, inserts |-> TRUE]
  <2>1. session'[s] = step
    BY <1>4 DEF HolderInv, Goes, LockToCheckIn
  <2>2. Knows(s)'
    BY <1>4, <2>1 DEF Knows, LockToCheckIn
  <2> QED
    BY <1>4, <2>2, HolderLocks DEF LockToCheckIn
<1>5. ASSUME NEW t \in Tickets, NEW qr \in BOOLEAN, LockToScan(s, t, qr) PROVE HolderInv'
  <2> DEFINE step == [pc |-> "scanning", on |-> t, user |-> ticket[t].holder, qr |-> qr,
                      inserts |-> qr /\ ticket[t].holder \notin attended]
  <2>1. session'[s] = step
    BY <1>5 DEF HolderInv, Goes, LockToScan
  <2>2. Knows(s)'
    BY <1>5, <2>1 DEF Knows, LockToScan
  <2> QED
    BY <1>5, <2>2, HolderLocks DEF LockToScan
<1> QED
  BY <1>2, <1>3, <1>4, <1>5

-----------------------------------------------------------------------------
(* Commits. *)

\* What is to be shown of a commit beside OthersUndisturbed.
RowsStayRight ==
    /\ ticket' \in [Tickets -> TicketRow]
    /\ link' \in [Links -> TransferRow \cup {Unsent}]
    /\ attended' \subseteq Users
    /\ OneLinkPerTicket'
    /\ \A t \in Tickets : ticket'[t].admittedBy = "self" =>
          ticket'[t].status # "active" /\ ticket'[t].holder \in attended'
    /\ \A t, o \in Tickets : ticket'[t].holder = ticket'[o].holder /\ ticket'[t].admittedBy = "self"
                             /\ ticket'[o].admittedBy = "self" => t = o

LEMMA HolderCommits ==
  ASSUME HolderInv, RowsStayRight, NEW s \in Sessions, Goes(s, Idle), NEW t \in Tickets,
         \A r \in Sessions \ {s} : session[r].pc \in LockHolding => session[r].on # t,
         \A o \in Tickets \ {t} : ticket'[o].status = ticket[o].status /\ ticket'[o].holder = ticket[o].holder,
         \A l \in Links : Sent(l) => /\ Sent(l)' /\ link'[l].of = link[l].of
                                     /\ link[l].of # t => link'[l].status = link[l].status
  PROVE  HolderInv'
  BY OthersUndisturbed DEF HolderInv, RowsStayRight

\* A commit that ends links and changes a ticket's assignment_state only.
LEMMA LinksEnd ==
  ASSUME HolderInv, NEW t \in Tickets, NEW ls, \A l \in ls : l \in Links /\ Sent(l) /\ link[l].of = t,
         NEW as \in TransferStatus, as # "pending", link' = EndLinks(ls, as),
         UNCHANGED attended,
         NEW state \in {"unassigned", "invited", "claimed"},
         ticket' = ticket \/ ticket' = [ticket EXCEPT ![t].state = state]
  PROVE  /\ RowsStayRight
         /\ \A o \in Tickets : ticket'[o].status = ticket[o].status /\ ticket'[o].holder = ticket[o].holder
         /\ \A l \in Links : Sent(l) => /\ Sent(l)' /\ link'[l].of = link[l].of
                                        /\ link[l].of # t => link'[l].status = link[l].status
<1>1. /\ link' \in [Links -> TransferRow \cup {Unsent}]
      /\ \A l \in Links : /\ link[l] # Unsent => /\ link'[l] # Unsent
                                                 /\ link'[l].of = link[l].of
                                                 /\ link'[l].status = IF l \in ls THEN as ELSE link[l].status
                          /\ link[l] = Unsent => link'[l] = Unsent
  <2>1. \A l \in Links : link[l] # Unsent => link[l] \in TransferRow
    BY DEF HolderInv
  <2>2. \A l \in ls : link[l] # Unsent
    BY DEF Sent
  <2>3. link' = [l \in Links |-> IF l \in ls THEN Over(link[l], as) ELSE link[l]]
    BY DEF EndLinks
  <2> QED
    BY ONLY <2>1, <2>2, <2>3, as \in TransferStatus, TransferRows
<1>2. \A l \in Links : link'[l].status = "pending" => link[l].status = "pending" /\ link'[l].of = link[l].of
  <2>1. Unsent.status # "pending"
    BY DEF Unsent
  <2> QED
    BY <1>1, <2>1
<1>3. OneLinkPerTicket'
  <2>1. OneLinkPerTicket
    BY DEF HolderInv
  <2> QED
    BY ONLY <1>2, <2>1 DEF OneLinkPerTicket, Pending
<1>4. /\ ticket' \in [Tickets -> TicketRow]
      /\ \A o \in Tickets : /\ ticket'[o].status = ticket[o].status /\ ticket'[o].holder = ticket[o].holder
                            /\ ticket'[o].admittedBy = ticket[o].admittedBy
  BY DEF HolderInv, TicketRow
<1>5. RowsStayRight
  <2>1. /\ \A o \in Tickets : ticket[o].admittedBy = "self" =>
             ticket[o].status # "active" /\ ticket[o].holder \in attended
        /\ \A o, q \in Tickets : ticket[o].holder = ticket[q].holder /\ ticket[o].admittedBy = "self"
                                  /\ ticket[q].admittedBy = "self" => o = q
    BY DEF HolderInv
  <2>2. attended' = attended /\ attended \subseteq Users
    BY DEF HolderInv
  <2> QED
    BY ONLY <1>1, <1>3, <1>4, <2>1, <2>2 DEF RowsStayRight
<1> QED
  BY <1>1, <1>4, <1>5 DEF Sent

LEMMA LinksEndWell ==
  ASSUME HolderInv, NEW t \in Tickets, NEW ls, \A l \in ls : l \in Links /\ Sent(l) /\ link[l].of = t,
         NEW as \in TransferStatus, as # "pending", link' = EndLinks(ls, as),
         UNCHANGED attended,
         ticket' = ticket \/ ticket' = [ticket EXCEPT ![t].state = "claimed"],
         NEW s \in Sessions, Goes(s, Idle),
         \A r \in Sessions \ {s} : session[r].pc \in LockHolding => session[r].on # t
  PROVE  HolderInv'
<1>1. /\ RowsStayRight
      /\ \A o \in Tickets : ticket'[o].status = ticket[o].status /\ ticket'[o].holder = ticket[o].holder
      /\ \A l \in Links : Sent(l) => /\ Sent(l)' /\ link'[l].of = link[l].of
                                     /\ link[l].of # t => link'[l].status = link[l].status
  BY LinksEnd
<1>2. \A o \in Tickets \ {t} : ticket'[o].status = ticket[o].status /\ ticket'[o].holder = ticket[o].holder
  BY <1>1
<1> HIDE DEF RowsStayRight
<1> QED
  BY ONLY HolderInv, s \in Sessions, Goes(s, Idle), t \in Tickets,
          \A r \in Sessions \ {s} : session[r].pc \in LockHolding => session[r].on # t,
          <1>1, <1>2, HolderCommits

LEMMA HolderEndsLinks ==
  ASSUME HolderInv, NEW s \in Sessions,
         CommitCancel(s) \/ CommitExpire(s) \/ LockToClaim(s)
  PROVE  HolderInv'
<1> USE DEF LockHolding, At
<1>1. Knows(s) /\ \A r \in Sessions : Excludes(s, r)
  BY DEF HolderInv
<1>2. CASE CommitCancel(s)
  <2>1. PICK l \in Pending(session[s].on) : link' = EndLinks({l}, "cancelled")
    BY <1>2 DEF CommitCancel
  <2>2. Sent(l) /\ l \in Links /\ link[l].of = session[s].on /\ session[s].on \in Tickets
    BY <1>1, <1>2, <2>1, PendingAreSent DEF Pending, HolderInv, Knows, CommitCancel
  <2>3. \A r \in Sessions \ {s} : session[r].pc \in LockHolding => session[r].on # session[s].on
    BY <1>1, <1>2 DEF Excludes, CommitCancel
  <2>4. Goes(s, Idle) /\ UNCHANGED attended
        /\ (ticket' = ticket \/ ticket' = [ticket EXCEPT ![session[s].on].state = "claimed"])
    BY <1>2 DEF CommitCancel, WriteState
  <2> DEFINE ls == {l}
  <2>5. link' = EndLinks(ls, "cancelled") /\ \A k \in ls : k \in Links /\ Sent(k) /\ link[k].of = session[s].on
    BY <2>1, <2>2
  <2>6. "cancelled" \in TransferStatus
    BY DEF TransferStatus
  <2> HIDE DEF ls
  <2> QED
    BY <2>2, <2>3, <2>4, <2>5, <2>6, LinksEndWell
<1>3. ASSUME session[s].pc \in {"expiring", "claim"}, ~Locked(session[s].on), Goes(s, Idle), UNCHANGED attended,
             NEW copy, Expire(session[s].link, session[s].on, copy)
      PROVE  HolderInv'
  <2>1. /\ session[s].link \in Links /\ Sent(session[s].link)
        /\ link[session[s].link].of = session[s].on /\ session[s].on \in Tickets
    BY <1>1, <1>3 DEF Knows
  <2>2. \A r \in Sessions \ {s} : session[r].pc \in LockHolding => session[r].on # session[s].on
    BY <1>3 DEF Locked
  <2>3. /\ link' = EndLinks({session[s].link}, "expired")
        /\ ticket' = ticket \/ ticket' = [ticket EXCEPT ![session[s].on].state = "claimed"]
    BY <1>3 DEF Expire
  <2> DEFINE ls == {session[s].link}
  <2>4. link' = EndLinks(ls, "expired") /\ \A k \in ls : k \in Links /\ Sent(k) /\ link[k].of = session[s].on
    BY <2>1, <2>3
  <2>5. "expired" \in TransferStatus
    BY DEF TransferStatus
  <2> HIDE DEF ls
  <2> QED
    BY <1>3, <2>1, <2>2, <2>3, <2>4, <2>5, LinksEndWell
<1>4. CASE CommitExpire(s)
  BY <1>3, <1>4 DEF CommitExpire
<1>5. CASE LockToClaim(s)
  <2>1. CASE Expire(session[s].link, session[s].on, ticket[session[s].on]) /\ Goes(s, Idle)
    BY <1>3, <1>5, <2>1 DEF LockToClaim
  <2>2. CASE Goes(s, Idle) /\ UNCHANGED <<ticket, link>>
    BY <1>5, <2>2, HolderEnds DEF LockToClaim
  <2>3. CASE /\ ReadAgain(s).status = "pending"
             /\ ticket[session[s].on].holder # session[s].user
             /\ Claimable(ticket[session[s].on])
             /\ Goes(s, [session[s] EXCEPT !.pc = "claiming"])
             /\ UNCHANGED <<ticket, link>>
    <3> DEFINE step == [session[s] EXCEPT !.pc = "claiming"]
    <3>1. /\ step.pc = "claiming" /\ step.on = session[s].on /\ step.user = session[s].user
          /\ step.link = session[s].link
      BY <1>5 DEF LockToClaim
    <3>2. session'[s] = step
      BY <2>3 DEF HolderInv, Goes
    <3>3. Knows(s)'
      BY <1>1, <1>5, <2>3, <3>1, <3>2 DEF Knows, LockToClaim, ReadAgain, Claimable, Sent
    <3> HIDE DEF step
    <3> QED
      BY <1>5, <2>3, <3>1, <3>3, HolderLocks DEF LockToClaim, step
  <2> QED
    BY <1>5, <2>1, <2>2, <2>3 DEF LockToClaim, ReadAgain
<1> QED
  BY <1>2, <1>4, <1>5

LEMMA HolderCreates ==
  ASSUME HolderInv, NEW s \in Sessions, CommitCreate(s)
  PROVE  HolderInv'
<1> DEFINE t == session[s].on
<1> DEFINE tr == [of |-> t, status |-> "pending", overdue |-> FALSE]
<1>1. t \in Tickets /\ \A r \in Sessions \ {s} : session[r].pc \in LockHolding => session[r].on # t
  BY DEF HolderInv, CommitCreate, At, Knows, Excludes, LockHolding
<1>2. PICK l \in Links : /\ link[l] = Unsent
                         /\ link' = [EndLinks(Pending(t), "cancelled") EXCEPT ![l] = tr]
                         /\ WriteState(t, session[s].copy, "invited")
  BY DEF CommitCreate
<1>3. Goes(s, Idle) /\ UNCHANGED attended
  BY DEF CommitCreate
<1>4. tr \in TransferRow /\ tr.of = t /\ tr # Unsent
  BY <1>1 DEF TransferRow, TransferStatus, Unsent
<1> HIDE DEF tr
<1>5. \A k \in Links : k # l => link'[k] = IF link[k].status = "pending" /\ link[k].of = t
                                            THEN Over(link[k], "cancelled") ELSE link[k]
  BY <1>2 DEF EndLinks, Pending
<1>6. link' = [k \in Links |-> link'[k]] /\ link'[l] = tr
  BY <1>2 DEF EndLinks
<1>7. \A k \in Links : link[k] # Unsent => link[k] \in TransferRow
  BY DEF HolderInv
<1>8. "cancelled" \in TransferStatus /\ Unsent.status # "pending"
  BY DEF TransferStatus, Unsent
<1>9. \A k \in Links : k # l /\ link'[k].status = "pending" =>
          link[k].status = "pending" /\ link[k].of # t /\ link'[k].of = link[k].of
  BY <1>5, <1>7, <1>8, TransferRows
<1>10. OneLinkPerTicket'
  <2>1. OneLinkPerTicket
    BY DEF HolderInv
  <2> QED
    BY ONLY <1>4, <1>6, <1>9, <2>1 DEF OneLinkPerTicket, Pending
<1>11. link' \in [Links -> TransferRow \cup {Unsent}]
  BY <1>4, <1>5, <1>6, <1>7, <1>8, TransferRows
<1>12. \A k \in Links : Sent(k) => /\ Sent(k)' /\ link'[k].of = link[k].of
                                   /\ link[k].of # t => link'[k].status = link[k].status
  <2> SUFFICES ASSUME NEW k \in Links, link[k] # Unsent
               PROVE  /\ link'[k] # Unsent /\ link'[k].of = link[k].of
                      /\ link[k].of # t => link'[k].status = link[k].status
    BY DEF Sent
  <2>1. k # l /\ link[k] \in TransferRow
    BY <1>2, <1>7
  <2>2. CASE link'[k] = link[k]
    BY <2>2
  <2>3. CASE link'[k] = Over(link[k], "cancelled") /\ link[k].of = t
    BY <1>8, <2>1, <2>3, TransferRows
  <2> QED
    BY <1>5, <2>1, <2>2, <2>3
<1>13. /\ ticket' \in [Tickets -> TicketRow]
       /\ \A o \in Tickets : /\ ticket'[o].status = ticket[o].status /\ ticket'[o].holder = ticket[o].holder
                             /\ ticket'[o].admittedBy = ticket[o].admittedBy
  BY <1>1, <1>2 DEF HolderInv, TicketRow, WriteState
<1>14. RowsStayRight
  BY <1>3, <1>10, <1>11, <1>13 DEF RowsStayRight, HolderInv
<1> HIDE DEF t
<1> QED
  BY <1>1, <1>3, <1>12, <1>13, <1>14, HolderCommits

LEMMA HolderClaims ==
  ASSUME HolderInv, NEW s \in Sessions, CommitClaim(s)
  PROVE  HolderInv'
<1> DEFINE t == session[s].on  l == session[s].link  tr == Over(link[l], "claimed")
<1>1. /\ t \in Tickets /\ session[s].user \in Users /\ \A r \in Sessions \ {s} : session[r].pc \in LockHolding => session[r].on # t
      /\ l \in Links /\ link[l] # Unsent /\ link[l].of = t /\ ticket[t].status = "active"
  BY DEF HolderInv, CommitClaim, At, Knows, Excludes, LockHolding, Sent
<1>2. /\ link' = [EndLinks(Pending(t), "cancelled") EXCEPT ![l] = tr]
      /\ ticket' = [ticket EXCEPT ![t].holder = session[s].user, ![t].state = "claimed"]
      /\ Goes(s, Idle) /\ UNCHANGED attended
  BY DEF CommitClaim
<1>3. \A k \in Links : link[k] # Unsent => link[k] \in TransferRow
  BY DEF HolderInv
<1>4. "cancelled" \in TransferStatus /\ "claimed" \in TransferStatus /\ Unsent.status # "pending"
  BY DEF TransferStatus, Unsent
<1>5. tr \in TransferRow /\ tr.of = t /\ tr # Unsent /\ tr.status = "claimed"
  BY <1>1, <1>3, <1>4, TransferRows
<1>6. \A k \in Links : k # l => link'[k] = IF link[k].status = "pending" /\ link[k].of = t
                                            THEN Over(link[k], "cancelled") ELSE link[k]
  BY <1>2 DEF EndLinks, Pending
<1> HIDE DEF tr
<1>7. link' = [k \in Links |-> link'[k]] /\ link'[l] = tr
  BY <1>1, <1>2 DEF EndLinks
<1>8. \A k \in Links : link'[k].status = "pending" =>
          link[k].status = "pending" /\ link[k].of # t /\ link'[k].of = link[k].of
  <2> SUFFICES ASSUME NEW k \in Links, link'[k].status = "pending"
               PROVE  link[k].status = "pending" /\ link[k].of # t /\ link'[k].of = link[k].of
    OBVIOUS
  <2>1. k # l
    BY <1>5, <1>7
  <2>2. link[k] = Unsent \/ link[k] \in TransferRow
    BY <1>3
  <2> HIDE DEF t, l
  <2> QED
    BY ONLY <1>4, <1>6, <2>1, <2>2, link'[k].status = "pending", k \in Links, TransferRows
<1>9. OneLinkPerTicket'
  <2>1. OneLinkPerTicket
    BY DEF HolderInv
  <2> QED
    BY ONLY <1>8, <2>1 DEF OneLinkPerTicket, Pending
<1>10. link' \in [Links -> TransferRow \cup {Unsent}]
  BY <1>3, <1>4, <1>5, <1>6, <1>7, TransferRows
<1>11. \A k \in Links : Sent(k) => /\ Sent(k)' /\ link'[k].of = link[k].of
                                   /\ link[k].of # t => link'[k].status = link[k].status
  <2> SUFFICES ASSUME NEW k \in Links, link[k] # Unsent
               PROVE  /\ link'[k] # Unsent /\ link'[k].of = link[k].of
                      /\ link[k].of # t => link'[k].status = link[k].status
    BY DEF Sent
  <2>1. link[k] \in TransferRow
    BY <1>3
  <2>2. CASE k = l
    BY <1>1, <1>5, <1>7, <2>2
  <2>3. CASE link'[k] = link[k]
    BY <2>3
  <2>4. CASE link'[k] = Over(link[k], "cancelled") /\ link[k].of = t
    BY <1>4, <2>1, <2>4, TransferRows
  <2> QED
    BY <1>6, <2>2, <2>3, <2>4
<1>12. /\ ticket' \in [Tickets -> TicketRow]
       /\ \A o \in Tickets : /\ ticket'[o].status = ticket[o].status
                             /\ ticket'[o].admittedBy = ticket[o].admittedBy
                             /\ o # t => ticket'[o].holder = ticket[o].holder
  BY <1>1, <1>2 DEF HolderInv, TicketRow
<1>13. ticket[t].admittedBy # "self"
  BY <1>1 DEF HolderInv
<1>14. RowsStayRight
  BY <1>2, <1>9, <1>10, <1>12, <1>13 DEF RowsStayRight, HolderInv
<1> HIDE DEF t, l
<1> QED
  BY <1>1, <1>2, <1>11, <1>12, <1>14, HolderCommits

\* One unique attendance row: who is admitting himself was not admitted before.
LEMMA HolderAdmits ==
  ASSUME HolderInv, NEW s \in Sessions,
         CommitScan(s) \/ \E verified \in BOOLEAN : CommitCheckIn(s, verified)
  PROVE  HolderInv'
<1> DEFINE t == session[s].on
<1>1. /\ t \in Tickets /\ \A r \in Sessions \ {s} : session[r].pc \in LockHolding => session[r].on # t
      /\ session[s].user = ticket[t].holder
      /\ ticket[t].holder \in Users
      /\ Goes(s, Idle) /\ UNCHANGED link
  BY DEF HolderInv, CommitScan, CommitCheckIn, At, Knows, Excludes, LockHolding, TicketRow
<1>2. OneLinkPerTicket' /\ link' \in [Links -> TransferRow \cup {Unsent}]
      /\ \A k \in Links : Sent(k) => /\ Sent(k)' /\ link'[k].of = link[k].of
                                     /\ link[k].of # t => link'[k].status = link[k].status
  BY <1>1 DEF HolderInv, OneLinkPerTicket, Pending, Sent
<1>3. CASE CommitScan(s)
  <2>1. /\ ticket' \in [Tickets -> TicketRow]
        /\ ticket'[t].status = "used" /\ ticket'[t].admittedBy = "staff"
        /\ \A o \in Tickets : o # t => ticket'[o] = ticket[o]
        /\ ticket'[t].holder = ticket[t].holder
    BY <1>1, <1>3 DEF CommitScan, HolderInv, TicketRow
  <2>2. attended \subseteq attended' /\ attended' \subseteq Users
    BY <1>1, <1>3 DEF CommitScan, HolderInv
  <2>3. RowsStayRight
    BY <1>2, <2>1, <2>2 DEF RowsStayRight, HolderInv
  <2> HIDE DEF t
  <2> QED
    BY <1>1, <1>2, <2>1, <2>3, HolderCommits
<1>4. ASSUME NEW verified \in BOOLEAN, CommitCheckIn(s, verified) PROVE HolderInv'
  <2>1. attended' = attended \cup {ticket[t].holder} /\ ticket[t].holder \notin attended
        /\ ticket[t].status \in {"active", "used"}
    BY <1>1, <1>4 DEF CommitCheckIn, HolderInv, InsertCollides, Knows, At
  <2>2. /\ ticket' \in [Tickets -> TicketRow]
        /\ ticket'[t].holder = ticket[t].holder
        /\ \A o \in Tickets : o # t => ticket'[o] = ticket[o]
        /\ ticket'[t].admittedBy = "self" => ticket'[t].status # "active"
    BY <1>1, <1>4 DEF CommitCheckIn, HolderInv, TicketRow
  <2>3. \A o \in Tickets : ticket[o].admittedBy = "self" => ticket[o].holder \in attended
    BY DEF HolderInv
  <2>4. RowsStayRight
    BY <1>1, <1>2, <2>1, <2>2, <2>3 DEF RowsStayRight, HolderInv
  <2> HIDE DEF t
  <2> QED
    BY <1>1, <1>2, <2>2, <2>4, HolderCommits
<1> QED
  BY <1>3, <1>4

LEMMA HolderOutside ==
  ASSUME HolderInv,
         \/ \E t \in Tickets : EndTicket(t)
         \/ \E l \in Links : LinkRunsOut(l)
  PROVE  HolderInv'
<1>1. ASSUME NEW t \in Tickets, EndTicket(t) PROVE HolderInv'
  <2>1. /\ ticket' \in [Tickets -> TicketRow]
        /\ \A o \in Tickets : ticket'[o].holder = ticket[o].holder /\ ticket'[o].admittedBy = ticket[o].admittedBy
        /\ \A o \in Tickets \ {t} : ticket'[o] = ticket[o]
        /\ ticket'[t].status = "ended"
    BY <1>1 DEF EndTicket, HolderInv, TicketRow
  <2>2. UNCHANGED <<link, attended, session>>
    BY <1>1 DEF EndTicket
  <2>3. ASSUME NEW s \in Sessions PROVE Knows(s)'
    <3>1. Knows(s) /\ (session[s].pc \in LockHolding => session[s].on # t)
      BY <1>1 DEF EndTicket, HolderInv, Locked
    <3> QED
      BY <2>1, <2>2, <3>1 DEF Knows, At, Sent, LockHolding
  <2>4. \A s, r \in Sessions : Excludes(s, r)'
    BY <2>2 DEF HolderInv, Excludes
  <2> QED
    BY <2>1, <2>2, <2>3, <2>4 DEF HolderInv, OneLinkPerTicket, Pending
<1>2. ASSUME NEW l \in Links, LinkRunsOut(l) PROVE HolderInv'
  <2>1. link[l] \in TransferRow /\ UNCHANGED <<ticket, attended, session>>
    BY <1>2 DEF LinkRunsOut, HolderInv, Unsent
  <2>2. /\ link'[l] \in TransferRow /\ link'[l].of = link[l].of /\ link'[l].status = link[l].status
        /\ link' = [k \in Links |-> link'[k]]
        /\ \A k \in Links \ {l} : link'[k] = link[k]
    BY <1>2, <2>1 DEF LinkRunsOut, HolderInv, TransferRow
  <2>3. \A k \in Links : link'[k].of = link[k].of /\ link'[k].status = link[k].status /\ (Sent(k) => Sent(k)')
    BY <2>2, TransferRows DEF Sent
  <2>4. link' \in [Links -> TransferRow \cup {Unsent}]
    BY <2>2 DEF HolderInv
  <2>5. ASSUME NEW s \in Sessions PROVE Knows(s)'
    <3>1. Knows(s)
      BY DEF HolderInv
    <3> QED
      BY <2>1, <2>3, <3>1 DEF Knows, At
  <2>6. \A s, r \in Sessions : Excludes(s, r)'
    BY <2>1 DEF HolderInv, Excludes
  <2> QED
    BY <2>1, <2>3, <2>4, <2>5, <2>6 DEF HolderInv, OneLinkPerTicket, Pending
<1> QED
  BY <1>1, <1>2

-----------------------------------------------------------------------------
(* Every step, and what TicketHolder promises of one. *)

LEMMA HolderNext == HolderInv /\ [Next]_vars => HolderInv'
<1> SUFFICES ASSUME HolderInv, [Next]_vars PROVE HolderInv'
  OBVIOUS
<1>1. ASSUME NEW s \in Sessions, Request(s) PROVE HolderInv'
  BY <1>1, HolderReadSteps, HolderLockSteps DEF Request
<1>2. ASSUME NEW s \in Sessions, Continue(s) PROVE HolderInv'
  <2>1. CASE Abort(s)
    BY <2>1, HolderEnds DEF Abort
  <2> QED
    BY <1>2, <2>1, HolderLockSteps, HolderEndsLinks, HolderCreates, HolderClaims, HolderAdmits DEF Continue
<1>3. CASE (\E t \in Tickets : EndTicket(t)) \/ (\E l \in Links : LinkRunsOut(l))
  BY <1>3, HolderOutside
<1>4. CASE UNCHANGED vars
  BY <1>4 DEF vars, HolderInv, Knows, Excludes, At, Sent, OneLinkPerTicket, Pending
<1> QED
  BY <1>1, <1>2, <1>3, <1>4 DEF Next

LEMMA HolderAlways == DoorSpec => []HolderInv
<1>1. DoorInit => HolderInv
  BY HolderInit DEF DoorInit
<1>2. HolderInv /\ [DoorNext]_<<part, vars, benefitVars>> => HolderInv'
  <2> SUFFICES ASSUME HolderInv, [DoorNext]_<<part, vars, benefitVars>> PROVE HolderInv'
    OBVIOUS
  <2>1. [Next]_vars
    BY DEF DoorNext, vars
  <2> QED
    BY <2>1, HolderNext
<1> QED
  BY <1>1, <1>2, PTL DEF DoorSpec

\* At most one link to a ticket can be claimed (create_transfer cancels the
\* pending ones under the ticket's lock).
THEOREM OneLinkEver == DoorSpec => []OneLinkPerTicket
<1>1. HolderInv => OneLinkPerTicket
  BY DEF HolderInv
<1> QED
  BY <1>1, HolderAlways, PTL

\* Nobody admits himself twice with any number of tickets at once (the unique
\* attendance row of self_check_in).
THEOREM SelfAdmissionEver == DoorSpec => []SelfAdmissionIsOnce
<1>1. HolderInv => SelfAdmissionIsOnce
  <2> SUFFICES ASSUME HolderInv, NEW u \in Users
               PROVE  Cardinality({t \in Tickets : ticket[t].holder = u /\ ticket[t].admittedBy = "self"}) <= 1
    BY DEF SelfAdmissionIsOnce
  <2> DEFINE S == {t \in Tickets : ticket[t].holder = u /\ ticket[t].admittedBy = "self"}
  <2>1. \A t, o \in S : t = o
    BY DEF HolderInv
  <2> HIDE DEF S
  <2>2. CASE S = {}
    BY <2>2, FS_EmptySet DEF S
  <2>3. CASE S # {}
    <3>1. PICK t \in S : S = {t}
      BY <2>1, <2>3
    <3>2. Cardinality(S) = 1
      BY <3>1, FS_Singleton
    <3> QED
      BY <3>2 DEF S
  <2> QED
    BY <2>2, <2>3
<1> QED
  BY <1>1, HolderAlways, PTL

\* A step that writes no ticket row keeps every holder and every status.
LEMMA TicketSteps ==
  ASSUME HolderInv, [Next]_vars, NEW t \in Tickets
  PROVE  \/ ticket'[t].holder = ticket[t].holder /\ ticket'[t].status = ticket[t].status
         \/ ticket'[t].holder = ticket[t].holder /\ ticket'[t].status \in {"used", "ended"}
         \/ \E s \in Sessions : CommitClaim(s) /\ session[s].on = t
<1>1. ticket \in [Tickets -> TicketRow] /\ \A s \in Sessions : Knows(s)
  BY DEF HolderInv
<1>2. ASSUME NEW s \in Sessions, CommitClaim(s), session[s].on # t
      PROVE  ticket'[t].holder = ticket[t].holder /\ ticket'[t].status = ticket[t].status
  BY <1>1, <1>2 DEF CommitClaim
<1>3. ASSUME NEW o \in Tickets, EndTicket(o)
      PROVE  ticket'[t].holder = ticket[t].holder /\ (ticket'[t].status = ticket[t].status \/ ticket'[t].status = "ended")
  BY <1>1, <1>3 DEF EndTicket, TicketRow
<1>4. ASSUME NEW s \in Sessions, CommitScan(s) \/ \E verified \in BOOLEAN : CommitCheckIn(s, verified)
      PROVE  ticket'[t].holder = ticket[t].holder /\ (ticket'[t].status = ticket[t].status \/ ticket'[t].status = "used")
  BY <1>1, <1>4 DEF CommitScan, CommitCheckIn, TicketRow
<1>5. ASSUME NEW o, NEW state, \/ ticket' = ticket
                               \/ ticket' = [ticket EXCEPT ![o].state = state]
      PROVE  ticket'[t].holder = ticket[t].holder /\ ticket'[t].status = ticket[t].status
  BY <1>1, <1>5 DEF TicketRow
<1>6. ASSUME NEW s \in Sessions, \/ CommitCreate(s) \/ CommitCancel(s) \/ CommitExpire(s) \/ LockToClaim(s)
      PROVE  ticket'[t].holder = ticket[t].holder /\ ticket'[t].status = ticket[t].status
  BY <1>5, <1>6 DEF CommitCreate, CommitCancel, CommitExpire, LockToClaim, Expire, WriteState
<1>7. CASE ticket' = ticket
  BY <1>7
<1>8. CASE \E s \in Sessions : Request(s) \/ LockToCreate(s) \/ LockToCancel(s) \/ Abort(s)
  BY <1>7, <1>8 DEF Request, LockToCreate, LockToCancel, Abort, ReadOwned, ReadPreview, FindLink,
                    LockToCheckIn, LockToScan
<1>9. CASE \E l \in Links : LinkRunsOut(l)
  BY <1>7, <1>9 DEF LinkRunsOut
<1>10. CASE UNCHANGED vars
  BY <1>7, <1>10 DEF vars
<1> QED
  BY <1>2, <1>3, <1>4, <1>6, <1>8, <1>9, <1>10 DEF Next, Continue

\* A ticket changes hands by exactly one pending link, and none survives it
\* (claim_transfer reads the link again under both locks).
THEOREM HandsChangeByOneLink == DoorSpec => ChangesHandsByOneLink
<1> DEFINE Changes == \A t \in Tickets : ticket'[t].holder # ticket[t].holder =>
                          /\ \E l \in Links : /\ link[l].status = "pending" /\ link[l].of = t
                                              /\ link'[l].status = "claimed"
                          /\ Pending(t)' = {}
<1>1. HolderInv /\ [Next]_vars => Changes
  <2> SUFFICES ASSUME HolderInv, [Next]_vars, NEW t \in Tickets, ticket'[t].holder # ticket[t].holder
               PROVE  /\ \E l \in Links : /\ link[l].status = "pending" /\ link[l].of = t
                                          /\ link'[l].status = "claimed"
                      /\ \A l \in Links : link'[l].status = "pending" => link'[l].of # t
    BY DEF Pending
  <2>1. PICK s \in Sessions : CommitClaim(s) /\ session[s].on = t
    BY TicketSteps
  <2> DEFINE l == session[s].link  tr == Over(link[l], "claimed")
  <2>2. l \in Links /\ link[l].of = t /\ link[l].status = "pending" /\ link[l] # Unsent
    BY <2>1 DEF HolderInv, Knows, CommitClaim, At, Sent
  <2>3. \A k \in Links : link[k] # Unsent => link[k] \in TransferRow
    BY DEF HolderInv
  <2>4. "claimed" \in TransferStatus /\ "cancelled" \in TransferStatus /\ Unsent.status # "pending"
    BY DEF TransferStatus, Unsent
  <2>5. tr.status = "claimed"
    BY <2>2, <2>3, <2>4, TransferRows
  <2>6. link' = [EndLinks(Pending(t), "cancelled") EXCEPT ![l] = tr]
    BY <2>1 DEF CommitClaim
  <2> HIDE DEF tr
  <2>7. link'[l] = tr
    BY <2>2, <2>6 DEF EndLinks
  <2>8. ASSUME NEW k \in Links, link'[k].status = "pending" PROVE link'[k].of # t
    <3>1. k # l
      BY <2>5, <2>7, <2>8
    <3>2. link'[k] = IF link[k].status = "pending" /\ link[k].of = t
                     THEN Over(link[k], "cancelled") ELSE link[k]
      BY <2>6, <3>1 DEF EndLinks, Pending
    <3>3. CASE link[k] = Unsent
      BY <2>4, <2>8, <3>2, <3>3
    <3>4. CASE link[k] \in TransferRow
      BY <2>4, <2>8, <3>2, <3>4, TransferRows
    <3> QED
      BY <2>3, <3>3, <3>4
  <2> QED
    BY <2>2, <2>5, <2>7, <2>8
<1>2. [DoorNext]_<<part, vars, benefitVars>> => [Next]_vars
  BY DEF DoorNext, vars
<1>3. HolderInv /\ [DoorNext]_<<part, vars, benefitVars>> => [Changes]_vars
  BY <1>1, <1>2
<1> QED
  BY <1>3, HolderAlways, PTL DEF DoorSpec, ChangesHandsByOneLink

StaysHis(t) == ticket[t].status = "used" =>
    /\ ticket'[t].holder = ticket[t].holder
    /\ ticket'[t].status # "active"

\* A ticket that let somebody in stays his and never becomes active again (the
\* admissions hold the ticket's lock, and claim_transfer asks for an active one).
THEOREM AdmissionStaysTheHolders == DoorSpec => [][\A t \in Tickets : StaysHis(t)]_vars
<1> DEFINE Stays == \A t \in Tickets : StaysHis(t)
<1>1. HolderInv /\ [Next]_vars => Stays
  <2> SUFFICES ASSUME HolderInv, [Next]_vars, NEW t \in Tickets, ticket[t].status = "used"
               PROVE  ticket'[t].holder = ticket[t].holder /\ ticket'[t].status # "active"
    BY DEF StaysHis
  <2>1. ~\E s \in Sessions : CommitClaim(s) /\ session[s].on = t
    BY DEF HolderInv, Knows, CommitClaim, At
  <2> QED
    BY <2>1, TicketSteps
<1>2. [DoorNext]_<<part, vars, benefitVars>> => [Next]_vars
  BY DEF DoorNext, vars
<1>3. HolderInv /\ [DoorNext]_<<part, vars, benefitVars>> => [Stays]_vars
  BY <1>1, <1>2
<1> QED
  BY <1>3, HolderAlways, PTL DEF DoorSpec

-----------------------------------------------------------------------------
(* TicketHolder implements Possession, step by step. *)

LEMMA PossessionInit == Init => Promise!Init
<1> SUFFICES ASSUME Init PROVE Promise!Init
  OBVIOUS
<1>1. \A t \in Tickets : /\ ticket[t].holder = Buyer /\ ticket[t].status = "active"
                         /\ ticket[t].admittedBy = "nobody"
  BY DEF Init
<1>2. \A t \in Tickets : Pending(t) = {}
  BY DEF Init, Pending, Unsent
<1> QED
  BY <1>1, <1>2 DEF Promise!Init

\* One link ends.
LEMMA OneLinkEnds ==
  ASSUME HolderInv, NEW l \in Links, Sent(l), NEW as \in TransferStatus, as # "pending",
         link' = EndLinks({l}, as), NEW o \in Tickets
  PROVE  Pending(o)' = Pending(o) \ {l}
<1>1. \A k \in Links \ {l} : link'[k] = link[k]
  BY DEF EndLinks
<1>2. link[l] \in TransferRow
  BY DEF HolderInv, Sent
<1>3. link'[l] = Over(link[l], as)
  BY DEF EndLinks
<1>4. link'[l].status # "pending"
  <2>1. Over(link[l], as).status = as
    BY <1>2, TransferRows, Zenon
  <2> QED
    BY ONLY <1>3, <2>1, as # "pending"
<1> QED
  BY ONLY <1>1, <1>4 DEF Pending

\* Every pending link to a ticket ends, and one link to it is written.
LEMMA ItsLinksEnd ==
  ASSUME HolderInv, NEW t \in Tickets, NEW l \in Links, NEW tr, tr.of = t,
         link[l] = Unsent \/ link[l].of = t,
         link' = [EndLinks(Pending(t), "cancelled") EXCEPT ![l] = tr]
  PROVE  /\ \A o \in Tickets \ {t} : Pending(o)' = Pending(o)
         /\ Pending(t)' = IF tr.status = "pending" THEN {l} ELSE {}
<1>1. \A k \in Links : k # l => link'[k] = IF link[k].status = "pending" /\ link[k].of = t
                                            THEN Over(link[k], "cancelled") ELSE link[k]
  BY DEF EndLinks, Pending
<1>2. link'[l] = tr
  BY DEF EndLinks
<1>3. "cancelled" \in TransferStatus /\ Unsent.status # "pending"
  BY DEF TransferStatus, Unsent
<1>4. ASSUME NEW k \in Links, k # l
      PROVE  /\ link'[k].status = "pending" <=> link[k].status = "pending" /\ link[k].of # t
             /\ link'[k].status = "pending" => link'[k].of = link[k].of
  <2>1. link[k] = Unsent \/ link[k] \in TransferRow
    BY DEF HolderInv
  <2>2. CASE link'[k] = link[k] /\ ~(link[k].status = "pending" /\ link[k].of = t)
    BY <2>2
  <2>3. CASE link'[k] = Over(link[k], "cancelled") /\ link[k].status = "pending" /\ link[k].of = t
    BY <1>3, <2>1, <2>3, TransferRows
  <2> QED
    BY <1>1, <1>4, <2>2, <2>3
<1>5. ASSUME NEW o \in Tickets \ {t} PROVE Pending(o)' = Pending(o)
  BY ONLY <1>2, <1>3, <1>4, <1>5, tr.of = t, link[l] = Unsent \/ link[l].of = t DEF Pending
<1>6. Pending(t)' = IF tr.status = "pending" THEN {l} ELSE {}
  BY ONLY <1>2, <1>4, tr.of = t, l \in Links DEF Pending
<1> QED
  BY <1>5, <1>6

\* What Possession sees of the ticket rows does not change.
RowsLookTheSame ==
    \A t \in Tickets : /\ ticket'[t].holder = ticket[t].holder
                       /\ ticket'[t].status = ticket[t].status
                       /\ ticket'[t].admittedBy = ticket[t].admittedBy

LEMMA StateIsNotSeen ==
  ASSUME HolderInv, NEW t, NEW state,
         ticket' = ticket \/ ticket' = [ticket EXCEPT ![t].state = state]
  PROVE  RowsLookTheSame
  BY DEF HolderInv, RowsLookTheSame, TicketRow

LEMMA SeesNothing ==
  ASSUME RowsLookTheSame, \A o \in Tickets : Pending(o)' = Pending(o)
  PROVE  UNCHANGED Promise!vars
  BY DEF RowsLookTheSame, Promise!vars

\* Offers: a transfer is started, called off or expires.
LEMMA CreateOffers ==
  ASSUME HolderInv, NEW s \in Sessions, CommitCreate(s)
  PROVE  Promise!Next
<1>1. PICK t \in Tickets : t = session[s].on
  BY DEF HolderInv, CommitCreate, At, Knows, LockHolding
<1> DEFINE tr == [of |-> t, status |-> "pending", overdue |-> FALSE]
<1>2. PICK l \in Links : /\ link[l] = Unsent
                         /\ link' = [EndLinks(Pending(t), "cancelled") EXCEPT ![l] = tr]
                         /\ WriteState(t, session[s].copy, "invited")
  BY <1>1 DEF CommitCreate
<1>3. tr.of = t /\ tr.status = "pending"
  OBVIOUS
<1>4. RowsLookTheSame
  BY <1>2, StateIsNotSeen DEF WriteState
<1> HIDE DEF tr
<1>5. (\A o \in Tickets \ {t} : Pending(o)' = Pending(o)) /\ Pending(t)' = {l}
  BY <1>1, <1>2, <1>3, ItsLinksEnd
<1>6. Promise!Offer(t)
  BY <1>1, <1>4, <1>5 DEF Promise!Offer, RowsLookTheSame
<1> QED
  BY <1>1, <1>6 DEF Promise!Next

LEMMA EndingWithdraws ==
  ASSUME HolderInv, NEW t \in Tickets, NEW l \in Links, Sent(l), link[l].of = t,
         NEW as \in TransferStatus, as # "pending", link' = EndLinks({l}, as),
         RowsLookTheSame
  PROVE  [Promise!Next]_Promise!vars
<1>1. \A o \in Tickets : Pending(o)' = Pending(o) \ {l}
  BY OneLinkEnds
<1>2. \A o \in Tickets \ {t} : Pending(o)' = Pending(o)
  BY <1>1 DEF Pending
<1>3. CASE Pending(t)' = Pending(t)
  BY <1>2, <1>3, SeesNothing
<1>4. CASE Pending(t)' # Pending(t)
  <2>1. l \in Pending(t)
    BY <1>1, <1>4
  <2>2. Pending(t) = {l}
    BY <2>1 DEF HolderInv, OneLinkPerTicket
  <2>3. Pending(t)' = {}
    BY <1>1, <2>2
  <2>4. Promise!Withdraw(t)
    BY <1>2, <2>3 DEF Promise!Withdraw, RowsLookTheSame
  <2> QED
    BY <2>4 DEF Promise!Next
<1> QED
  BY <1>3, <1>4

LEMMA EndsWithdraw ==
  ASSUME HolderInv, NEW s \in Sessions, CommitCancel(s) \/ CommitExpire(s) \/ LockToClaim(s)
  PROVE  [Promise!Next]_Promise!vars
<1> USE DEF LockHolding, At
<1>1. Knows(s)
  BY DEF HolderInv
<1>2. CASE CommitCancel(s)
  <2>1. PICK l \in Pending(session[s].on) : link' = EndLinks({l}, "cancelled")
    BY <1>2 DEF CommitCancel
  <2>2. Sent(l) /\ l \in Links /\ link[l].of = session[s].on /\ session[s].on \in Tickets
    BY <1>1, <1>2, <2>1, PendingAreSent DEF Pending, HolderInv, Knows, CommitCancel
  <2>3. RowsLookTheSame
    BY <1>2, StateIsNotSeen DEF CommitCancel, WriteState
  <2>4. "cancelled" \in TransferStatus
    BY DEF TransferStatus
  <2> QED
    BY <2>1, <2>2, <2>3, <2>4, EndingWithdraws
<1>3. ASSUME session[s].pc \in {"expiring", "claim"}, NEW copy, Expire(session[s].link, session[s].on, copy)
      PROVE  [Promise!Next]_Promise!vars
  <2>1. /\ session[s].link \in Links /\ Sent(session[s].link)
        /\ link[session[s].link].of = session[s].on /\ session[s].on \in Tickets
    BY <1>1, <1>3 DEF Knows
  <2>2. RowsLookTheSame /\ link' = EndLinks({session[s].link}, "expired")
    BY <1>3, StateIsNotSeen DEF Expire
  <2>3. "expired" \in TransferStatus
    BY DEF TransferStatus
  <2> QED
    BY <2>1, <2>2, <2>3, EndingWithdraws
<1>4. CASE UNCHANGED <<ticket, link>>
  <2>1. RowsLookTheSame /\ \A o \in Tickets : Pending(o)' = Pending(o)
    BY <1>4 DEF RowsLookTheSame, Pending
  <2> QED
    BY <2>1, SeesNothing
<1> QED
  BY <1>2, <1>3, <1>4 DEF CommitExpire, LockToClaim

\* A claim takes the offer: under the ticket's lock the link is still pending,
\* the ticket still good, and its holder still another.
LEMMA ClaimTakes ==
  ASSUME HolderInv, NEW s \in Sessions, CommitClaim(s)
  PROVE  Promise!Next
<1>1. PICK t \in Tickets, u \in Users, l \in Links :
         /\ t = session[s].on /\ u = session[s].user /\ l = session[s].link
         /\ u # ticket[t].holder /\ ticket[t].status = "active"
         /\ link[l] # Unsent /\ link[l].of = t /\ link[l].status = "pending"
  BY DEF HolderInv, CommitClaim, At, Knows, LockHolding, Sent
<1>2. PICK tr : tr = Over(link[l], "claimed")
  OBVIOUS
<1>3. /\ link' = [EndLinks(Pending(t), "cancelled") EXCEPT ![l] = tr]
      /\ ticket' = [ticket EXCEPT ![t].holder = u, ![t].state = "claimed"]
  BY <1>1, <1>2 DEF CommitClaim
<1>4. link[l] \in TransferRow /\ "claimed" \in TransferStatus
  BY <1>1 DEF HolderInv, TransferStatus
<1>5. tr.of = t /\ tr.status = "claimed"
  BY <1>1, <1>2, <1>4, TransferRows
<1>6. (\A o \in Tickets \ {t} : Pending(o)' = Pending(o)) /\ Pending(t)' = {}
  BY <1>1, <1>3, <1>5, ItsLinksEnd
<1>7. Pending(t) # {}
  BY <1>1 DEF Pending
<1>8. /\ \A o \in Tickets : /\ ticket'[o].status = ticket[o].status
                            /\ ticket'[o].admittedBy = ticket[o].admittedBy
                            /\ o # t => ticket'[o].holder = ticket[o].holder
      /\ ticket'[t].holder = u
  BY <1>1, <1>3 DEF HolderInv, TicketRow
<1>9. Promise!Take(t, u)
  BY <1>1, <1>6, <1>7, <1>8 DEF Promise!Take
<1> QED
  BY <1>1, <1>9 DEF Promise!Next

\* An admission by the holder is his first: the unique attendance row decides.
LEMMA CheckInEnters ==
  ASSUME HolderInv, NEW s \in Sessions, NEW verified \in BOOLEAN, CommitCheckIn(s, verified)
  PROVE  [Promise!Next]_Promise!vars
<1>1. PICK t \in Tickets :
         /\ t = session[s].on /\ session[s].user = ticket[t].holder /\ ticket[t].holder \notin attended
         /\ ticket[t].status \in {"active", "used"} /\ link' = link
  BY DEF HolderInv, CommitCheckIn, At, Knows, LockHolding, InsertCollides
<1>2. \A o \in Tickets : Pending(o)' = Pending(o)
  BY <1>1 DEF Pending
<1>3. CASE ~verified
  <2>1. RowsLookTheSame
    BY <1>3 DEF CommitCheckIn, RowsLookTheSame
  <2> QED
    BY <1>2, <2>1, SeesNothing
<1>4. CASE verified
  <2>1. ticket' = [ticket EXCEPT ![t].status = "used", ![t].admittedBy = "self"]
    BY <1>1, <1>4 DEF CommitCheckIn
  <2>2. /\ \A o \in Tickets : /\ ticket'[o].holder = ticket[o].holder
                              /\ o # t => /\ ticket'[o].status = ticket[o].status
                                          /\ ticket'[o].admittedBy = ticket[o].admittedBy
        /\ ticket'[t].status = "used" /\ ticket'[t].admittedBy = "self"
    BY <1>1, <2>1 DEF HolderInv, TicketRow
  <2>3. \A o \in Tickets : ticket[o].admittedBy = "self" => ticket[o].holder # ticket[t].holder
    BY <1>1 DEF HolderInv
  <2>4. Promise!Enter(t)
    BY <1>1, <1>2, <2>2, <2>3 DEF Promise!Enter
  <2> QED
    BY <1>1, <2>4 DEF Promise!Next
<1> QED
  BY <1>3, <1>4

LEMMA ScanAdmits ==
  ASSUME HolderInv, NEW s \in Sessions, CommitScan(s)
  PROVE  Promise!Next
<1>1. PICK t \in Tickets :
         /\ t = session[s].on /\ ticket[t].status = "active" /\ ticket[t].admittedBy # "self" /\ link' = link
  BY DEF HolderInv, CommitScan, At, Knows, LockHolding
<1>2. \A o \in Tickets : Pending(o)' = Pending(o)
  BY <1>1 DEF Pending
<1>3. ticket' = [ticket EXCEPT ![t].status = "used", ![t].admittedBy = "staff"]
  BY <1>1 DEF CommitScan
<1>4. /\ \A o \in Tickets : /\ ticket'[o].holder = ticket[o].holder
                            /\ o # t => /\ ticket'[o].status = ticket[o].status
                                        /\ ticket'[o].admittedBy = ticket[o].admittedBy
      /\ ticket'[t].status = "used" /\ ticket'[t].admittedBy = "staff"
  BY <1>1, <1>3 DEF HolderInv, TicketRow
<1>5. Promise!Admit(t)
  BY <1>1, <1>2, <1>4 DEF Promise!Admit
<1> QED
  BY <1>1, <1>5 DEF Promise!Next

\* What happens outside of the requests.
LEMMA OutsideEnds ==
  ASSUME HolderInv, (\E t \in Tickets : EndTicket(t)) \/ (\E l \in Links : LinkRunsOut(l))
  PROVE  [Promise!Next]_Promise!vars
<1>1. ASSUME NEW t \in Tickets, EndTicket(t) PROVE Promise!Next
  <2>1. /\ \A o \in Tickets : /\ ticket'[o].holder = ticket[o].holder
                              /\ ticket'[o].admittedBy = ticket[o].admittedBy
                              /\ o # t => ticket'[o].status = ticket[o].status
        /\ ticket'[t].status = "ended" /\ ticket[t].status \in {"active", "used"}
    BY <1>1 DEF HolderInv, TicketRow, EndTicket
  <2>2. \A o \in Tickets : Pending(o)' = Pending(o)
    BY <1>1 DEF Pending, EndTicket
  <2>3. Promise!End(t)
    BY <2>1, <2>2 DEF Promise!End
  <2> QED
    BY <2>3 DEF Promise!Next
<1>2. ASSUME NEW l \in Links, LinkRunsOut(l) PROVE UNCHANGED Promise!vars
  <2>1. link[l] \in TransferRow /\ link' = [link EXCEPT ![l].overdue = TRUE] /\ ticket' = ticket
    BY <1>2 DEF LinkRunsOut, HolderInv, Unsent
  <2>2. \A k \in Links : link'[k].of = link[k].of /\ link'[k].status = link[k].status
    BY <2>1 DEF HolderInv, TransferRow
  <2>3. RowsLookTheSame /\ \A o \in Tickets : Pending(o)' = Pending(o)
    BY <2>1, <2>2 DEF RowsLookTheSame, Pending
  <2> QED
    BY <2>3, SeesNothing
<1> QED
  BY <1>1, <1>2

LEMMA PossessionNext == HolderInv /\ [Next]_vars => [Promise!Next]_Promise!vars
<1> SUFFICES ASSUME HolderInv, [Next]_vars PROVE [Promise!Next]_Promise!vars
  OBVIOUS
<1>1. CASE UNCHANGED <<ticket, link>>
  <2>1. RowsLookTheSame /\ \A o \in Tickets : Pending(o)' = Pending(o)
    BY <1>1 DEF RowsLookTheSame, Pending
  <2> QED
    BY <2>1, SeesNothing
<1>2. CASE \E s \in Sessions : Request(s) \/ LockToCreate(s) \/ LockToCancel(s) \/ Abort(s)
  BY <1>1, <1>2 DEF Request, LockToCreate, LockToCancel, Abort, ReadOwned, ReadPreview, FindLink,
                    LockToCheckIn, LockToScan
<1>3. ASSUME NEW s \in Sessions, Continue(s) PROVE [Promise!Next]_Promise!vars
  BY <1>2, <1>3, CreateOffers, EndsWithdraw, ClaimTakes, CheckInEnters, ScanAdmits DEF Continue
<1>4. CASE (\E t \in Tickets : EndTicket(t)) \/ (\E l \in Links : LinkRunsOut(l))
  BY <1>4, OutsideEnds
<1>5. CASE UNCHANGED vars
  BY <1>1, <1>5 DEF vars
<1> QED
  BY <1>2, <1>3, <1>4, <1>5 DEF Next

\* Whatever requests do at once, by old copies and old links, a ticket keeps
\* what it promises: an offer is taken once and for the taker alone, who was
\* let in keeps his ticket, and nobody lets himself in by two of them.
THEOREM PossessionIsKept == DoorSpec => KeepsPossession
<1>1. DoorInit => Promise!Init
  BY PossessionInit DEF DoorInit
<1>2. [DoorNext]_<<part, vars, benefitVars>> => [Next]_vars
  BY DEF DoorNext, vars
<1>3. HolderInv /\ [DoorNext]_<<part, vars, benefitVars>> => [Promise!Next]_Promise!vars
  BY <1>2, PossessionNext
<1> QED
  BY <1>1, <1>3, HolderAlways, PTL DEF DoorSpec, KeepsPossession, Promise!Spec

-----------------------------------------------------------------------------
(* Redemption.  requires_staff_validation does not change while a credential *)
(* is out or a request is under way (SwitchesUnderWay is FALSE), so a ticket *)
(* is served either by its holder, who counts on a copy under the ticket's   *)
(* lock, or by staff, who count on the row.                                  *)

\* What a request knows of the rows while it is at the step it is at.
DeskKnows(s) ==
    /\ desk[s].pc \in {"asked", "issuing", "validating"} =>
          desk[s].on \in Entitled /\ row[desk[s].on] # Benefits!None
    /\ Benefits!At(s, "asked") =>
          /\ desk[s].benefit.staffed <=> benefit.staffed
          /\ ~benefit.staffed => desk[s].row.redeemed = row[desk[s].on].redeemed
    /\ Benefits!At(s, "issuing") => benefit.staffed
    /\ Benefits!At(s, "validating") => /\ desk[s].code \in Codes
                                       /\ credential[desk[s].code].status = "issued"
                                       /\ credential[desk[s].code].of = desk[s].on
    /\ Benefits!At(s, "revoking") => \A t \in desk[s].rows : t \in Entitled /\ row[t] # Benefits!None

\* No two requests hold one ticket's lock, nor one credential's.
DeskExcludes(s, r) ==
    /\ desk[s].pc \in {"asked", "issuing"} /\ desk[r].pc \in {"asked", "issuing"} /\ desk[s].on = desk[r].on => s = r
    /\ Benefits!At(s, "validating") /\ Benefits!At(r, "validating") /\ desk[s].code = desk[r].code => s = r

\* A ticket's row counts what was given, and says so at the last one.
RowCounts(t) ==
    /\ given[t] \in Nat /\ given[t] <= MaxRedemptions
    /\ \/ row[t] = Benefits!None /\ given[t] = 0
       \/ /\ row[t] \in Benefits!StateRow
          /\ row[t].redeemed = given[t]
          /\ row[t].status = "redeemed" => given[t] = MaxRedemptions

\* A credential staff would accept was issued for a ticket that has a row.
CredentialServes(c) ==
    /\ credential[c] \in Benefits!CredentialRow \cup {Benefits!None}
    /\ credential[c].status = "issued" => benefit.staffed /\ row[credential[c].of] # Benefits!None
    /\ credential[c].status = "expired" => credential[c].overdue

BenefitsInv ==
    /\ benefit \in Benefits!BenefitRow
    /\ row = [t \in Entitled |-> row[t]] /\ given = [t \in Entitled |-> given[t]]
    /\ credential = [c \in Codes |-> credential[c]]
    /\ desk = [s \in Sessions |-> desk[s]]
    /\ \A t \in Entitled : RowCounts(t)
    /\ \A c \in Codes : CredentialServes(c)
    /\ \A s \in Sessions : DeskKnows(s)
    /\ \A s, r \in Sessions : DeskExcludes(s, r)
    /\ Benefits!OneLiveCredential

LEMMA BenefitsInit == Benefits!Init => BenefitsInv
<1> SUFFICES ASSUME Benefits!Init PROVE BenefitsInv
  OBVIOUS
<1>1. /\ \A s \in Sessions : desk[s].pc = "idle"
      /\ \A c \in Codes : credential[c] = Benefits!None /\ credential[c].status = "none"
      /\ \A t \in Entitled : row[t] = Benefits!None /\ given[t] = 0
  BY DEF Benefits!Init, Benefits!Idle, Benefits!None
<1>2. \A t \in Entitled : RowCounts(t)
  BY <1>1, BenefitsAssumption DEF RowCounts, Benefits!RedemptionAssumption
<1>3. \A c \in Codes : CredentialServes(c)
  BY <1>1 DEF CredentialServes
<1>4. (\A s \in Sessions : DeskKnows(s)) /\ (\A s, r \in Sessions : DeskExcludes(s, r))
  BY <1>1 DEF DeskKnows, DeskExcludes, Benefits!At
<1>5. Benefits!OneLiveCredential
  BY <1>1 DEF Benefits!OneLiveCredential, Benefits!Issued
<1>6. benefit \in Benefits!BenefitRow
  BY DEF Benefits!Init, Benefits!BenefitRow
<1> QED
  BY <1>2, <1>3, <1>4, <1>5, <1>6 DEF BenefitsInv, Benefits!Init

\* A step that reads, locks, or edits the benefit but not who serves it.
LEMMA DeskReads ==
  ASSUME BenefitsInv, NEW s \in Sessions, NEW step, Benefits!Goes(s, step),
         UNCHANGED <<row, credential, given>>,
         benefit' \in Benefits!BenefitRow, benefit'.staffed <=> benefit.staffed,
         DeskKnows(s)', \A r \in Sessions \ {s} : DeskExcludes(s, r)'
  PROVE  BenefitsInv'
<1>1. /\ desk' = [r \in Sessions |-> desk'[r]]
      /\ \A r \in Sessions \ {s} : desk'[r] = desk[r]
  BY DEF BenefitsInv, Benefits!Goes
<1>2. \A r \in Sessions : DeskKnows(r)'
  <2> SUFFICES ASSUME NEW r \in Sessions \ {s} PROVE DeskKnows(r)'
    OBVIOUS
  <2>1. DeskKnows(r)
    BY DEF BenefitsInv
  <2> QED
    BY <1>1, <2>1 DEF DeskKnows, Benefits!At
<1>3. \A r, q \in Sessions : DeskExcludes(r, q)'
  <2> SUFFICES ASSUME NEW r \in Sessions \ {s}, NEW q \in Sessions \ {s} PROVE DeskExcludes(r, q)'
    BY DEF DeskExcludes, Benefits!At
  <2>1. DeskExcludes(r, q)
    BY DEF BenefitsInv
  <2> QED
    BY <1>1, <2>1 DEF DeskExcludes, Benefits!At
<1>4. \A t \in Entitled : RowCounts(t)'
  BY DEF BenefitsInv, RowCounts
<1>5. \A c \in Codes : CredentialServes(c)'
  BY DEF BenefitsInv, CredentialServes
<1> QED
  BY <1>1, <1>2, <1>3, <1>4, <1>5 DEF BenefitsInv, Benefits!OneLiveCredential, Benefits!Issued

\* A step disturbs no request that goes on, if what that request knows stays so.
LEMMA DeskUndisturbed ==
  ASSUME BenefitsInv, desk' = [s \in Sessions |-> desk'[s]],
         \A s \in Sessions : desk'[s] = Benefits!Idle \/ desk'[s] = desk[s],
         \A t \in Entitled : row[t] # Benefits!None => row'[t] # Benefits!None,
         \A s \in Sessions : desk'[s] = desk[s] =>
            /\ desk[s].pc # "idle" => (benefit'.staffed <=> benefit.staffed)
            /\ Benefits!At(s, "asked") /\ ~benefit.staffed => row'[desk[s].on].redeemed = row[desk[s].on].redeemed
            /\ Benefits!At(s, "validating") => /\ credential'[desk[s].code].status = "issued"
                                               /\ credential'[desk[s].code].of = credential[desk[s].code].of
  PROVE  /\ \A s \in Sessions : DeskKnows(s)'
         /\ \A s, r \in Sessions : DeskExcludes(s, r)'
<1>1. Benefits!Idle.pc = "idle"
  BY DEF Benefits!Idle
<1>2. ASSUME NEW s \in Sessions PROVE DeskKnows(s)'
  <2>1. CASE desk'[s] = Benefits!Idle
    BY <1>1, <2>1 DEF DeskKnows, Benefits!At
  <2>2. CASE desk'[s] = desk[s]
    <3>1. DeskKnows(s)
      BY DEF BenefitsInv
    <3> QED
      BY <2>2, <3>1 DEF DeskKnows, Benefits!At
  <2> QED
    BY <2>1, <2>2
<1>3. ASSUME NEW s \in Sessions, NEW r \in Sessions PROVE DeskExcludes(s, r)'
  <2>1. DeskExcludes(s, r)
    BY DEF BenefitsInv
  <2> QED
    BY <1>1, <2>1 DEF DeskExcludes, Benefits!At
<1> QED
  BY <1>2, <1>3

LEMMA DeskReadSteps ==
  ASSUME BenefitsInv, NEW s \in Sessions,
         \/ \E t \in Entitled : Benefits!LockTicket(s, t)
         \/ Benefits!LockRow(s)
         \/ \E c \in Codes : Benefits!Resolve(s, c) /\ ~credential[c].overdue
         \/ Benefits!Deactivate(s) \/ Benefits!FindAvailable(s) \/ Benefits!Abort(s)
  PROVE  BenefitsInv'
<1>1. DeskKnows(s) /\ \A r \in Sessions : DeskExcludes(s, r)
  BY DEF BenefitsInv
<1>2. ASSUME NEW step, Benefits!Goes(s, step)
      PROVE  desk'[s] = step /\ \A r \in Sessions \ {s} : desk'[r] = desk[r]
  BY <1>2 DEF BenefitsInv, Benefits!Goes
<1>3. ASSUME NEW step, Benefits!Goes(s, step), step.pc \in {"idle", "deactivated"},
             UNCHANGED <<row, credential, given>>,
             benefit' \in Benefits!BenefitRow, benefit'.staffed <=> benefit.staffed
      PROVE  BenefitsInv'
  <2>1. DeskKnows(s)' /\ \A r \in Sessions \ {s} : DeskExcludes(s, r)'
    BY <1>2, <1>3 DEF DeskKnows, DeskExcludes, Benefits!At
  <2> QED
    BY <1>3, <2>1, DeskReads
<1>4. benefit \in Benefits!BenefitRow
  BY DEF BenefitsInv
<1>5. ASSUME NEW t \in Entitled, Benefits!LockTicket(s, t) PROVE BenefitsInv'
  <2> DEFINE step == [pc |-> "asked", on |-> t, benefit |-> benefit, row |-> row[t]]
  <2>1. Benefits!Goes(s, step) /\ UNCHANGED <<benefit, row, credential, given>>
        /\ row[t] # Benefits!None /\ ~Benefits!TicketLocked(t)
    BY <1>5 DEF Benefits!LockTicket
  <2>2. DeskKnows(s)'
    BY <1>2, <2>1 DEF DeskKnows, Benefits!At
  <2>3. \A r \in Sessions \ {s} : DeskExcludes(s, r)'
    BY <1>2, <2>1 DEF DeskExcludes, Benefits!At, Benefits!TicketLocked
  <2> QED
    BY <1>4, <2>1, <2>2, <2>3, DeskReads
<1>6. CASE Benefits!LockRow(s)
  <2>1. CASE Benefits!Goes(s, Benefits!Idle)
    BY <1>3, <1>4, <1>6, <2>1 DEF Benefits!LockRow, Benefits!Idle
  <2>2. CASE Benefits!Goes(s, [desk[s] EXCEPT !.pc = "issuing"])
    <3> DEFINE step == [desk[s] EXCEPT !.pc = "issuing"]
    <3>1. step.pc = "issuing" /\ step.on = desk[s].on /\ Benefits!At(s, "asked") /\ desk[s].benefit.staffed
          /\ UNCHANGED <<benefit, row, credential, given>>
      BY <1>6 DEF Benefits!LockRow, Benefits!At
    <3>2. Benefits!Goes(s, step)
      BY <2>2
    <3> HIDE DEF step
    <3>3. DeskKnows(s)'
      BY <1>1, <1>2, <3>1, <3>2 DEF DeskKnows, Benefits!At
    <3>4. \A r \in Sessions \ {s} : DeskExcludes(s, r)'
      BY <1>1, <1>2, <3>1, <3>2 DEF DeskExcludes, Benefits!At
    <3> QED
      BY <1>4, <3>1, <3>2, <3>3, <3>4, DeskReads
  <2> QED
    BY <1>6, <2>1, <2>2 DEF Benefits!LockRow
<1>7. ASSUME NEW c \in Codes, Benefits!Resolve(s, c), ~credential[c].overdue PROVE BenefitsInv'
  <2> DEFINE step == [pc |-> "validating", code |-> c, on |-> credential[c].of, row |-> row[credential[c].of]]
  <2>1. Benefits!Goes(s, step) /\ UNCHANGED <<benefit, row, credential, given>>
        /\ credential[c].status \in {"issued", "expired"} /\ ~Benefits!CredentialLocked(c)
    BY <1>7 DEF Benefits!Resolve
  <2>2. CredentialServes(c)
    BY DEF BenefitsInv
  <2>3. credential[c].status = "issued"
    BY <1>7, <2>1, <2>2 DEF CredentialServes
  <2>4. credential[c].of \in Entitled /\ row[credential[c].of] # Benefits!None
    BY <2>2, <2>3 DEF CredentialServes, Benefits!CredentialRow, Benefits!None
  <2>5. DeskKnows(s)'
    BY <1>2, <2>1, <2>3, <2>4 DEF DeskKnows, Benefits!At
  <2>6. \A r \in Sessions \ {s} : DeskExcludes(s, r)'
    BY <1>2, <2>1 DEF DeskExcludes, Benefits!At, Benefits!CredentialLocked
  <2> QED
    BY <1>4, <2>1, <2>5, <2>6, DeskReads
<1>8. CASE Benefits!Deactivate(s)
  <2>1. benefit' \in Benefits!BenefitRow /\ (benefit'.staffed <=> benefit.staffed)
    BY <1>4, <1>8 DEF Benefits!Deactivate, Benefits!BenefitRow
  <2> QED
    BY <1>3, <1>8, <2>1 DEF Benefits!Deactivate
<1>9. CASE Benefits!FindAvailable(s)
  <2> DEFINE step == [pc |-> "revoking", rows |-> {t \in Entitled : row[t].status = "available"}]
  <2>1. Benefits!Goes(s, step) /\ UNCHANGED <<benefit, row, credential, given>>
    BY <1>9 DEF Benefits!FindAvailable
  <2>2. DeskKnows(s)'
    BY <1>2, <2>1 DEF DeskKnows, Benefits!At, Benefits!None
  <2>3. \A r \in Sessions \ {s} : DeskExcludes(s, r)'
    BY <1>2, <2>1 DEF DeskExcludes, Benefits!At
  <2> QED
    BY <1>4, <2>1, <2>2, <2>3, DeskReads
<1>10. CASE Benefits!Abort(s)
  BY <1>3, <1>4, <1>10 DEF Benefits!Abort, Benefits!Idle
<1> QED
  BY <1>5, <1>6, <1>7, <1>8, <1>9, <1>10

-----------------------------------------------------------------------------
(* The steps that write rows and credentials. *)

\* A gift is counted on the ticket's row, whatever copy the count is from, if
\* the copy has the row's count.
LEMMA GiftCounts ==
  ASSUME BenefitsInv, NEW t \in Entitled, row[t] # Benefits!None,
         NEW copy, copy.redeemed = row[t].redeemed, copy.redeemed < MaxRedemptions,
         row' = Benefits!Applied(t, copy), given' = [given EXCEPT ![t] = @ + 1]
  PROVE  /\ row' = [o \in Entitled |-> row'[o]] /\ given' = [o \in Entitled |-> given'[o]]
         /\ \A o \in Entitled : RowCounts(o)'
         /\ \A o \in Entitled \ {t} : row'[o] = row[o]
         /\ \A o \in Entitled : row[o] # Benefits!None => row'[o] # Benefits!None
<1> DEFINE n == given[t] + 1  status == IF n >= MaxRedemptions THEN "redeemed" ELSE row[t].status
<1>1. /\ RowCounts(t) /\ MaxRedemptions \in Nat
      /\ row = [o \in Entitled |-> row[o]] /\ given = [o \in Entitled |-> given[o]]
  BY BenefitsAssumption DEF BenefitsInv, Benefits!RedemptionAssumption
<1>2. row[t] \in Benefits!StateRow /\ row[t].redeemed = given[t]
      /\ given[t] \in Nat /\ n <= MaxRedemptions /\ n \in Nat
      /\ (row[t].status = "redeemed" => given[t] = MaxRedemptions)
  BY <1>1 DEF RowCounts
<1>3. /\ row' = [o \in Entitled |-> row'[o]] /\ given' = [o \in Entitled |-> given'[o]]
      /\ \A o \in Entitled \ {t} : row'[o] = row[o] /\ given'[o] = given[o]
      /\ given'[t] = n
      /\ row'[t] = [status |-> status, redeemed |-> n]
  BY <1>1, <1>2 DEF Benefits!Applied
<1>4. status \in {"available", "redeemed", "revoked"} /\ (status = "redeemed" => n = MaxRedemptions)
  BY <1>1, <1>2 DEF Benefits!StateRow
<1> HIDE DEF n, status
<1>5. row'[t] \in Benefits!StateRow /\ row'[t].redeemed = n /\ row'[t].status = status
  BY <1>2, <1>3, <1>4 DEF Benefits!StateRow
<1>6. row'[t] # Benefits!None
  BY <1>5 DEF Benefits!StateRow, Benefits!None
<1>7. RowCounts(t)'
  BY <1>2, <1>3, <1>4, <1>5 DEF RowCounts
<1>8. ASSUME NEW o \in Entitled \ {t} PROVE RowCounts(o)'
  BY <1>3 DEF BenefitsInv, RowCounts
<1> QED
  BY <1>3, <1>6, <1>7, <1>8

LEMMA SelfRedeems ==
  ASSUME BenefitsInv, NEW s \in Sessions, Benefits!RedeemSelf(s)
  PROVE  BenefitsInv'
<1> DEFINE t == desk[s].on
<1>1. /\ t \in Entitled /\ row[t] # Benefits!None /\ ~benefit.staffed
      /\ desk[s].row.redeemed = row[t].redeemed /\ desk[s].pc = "asked"
  BY DEF BenefitsInv, Benefits!RedeemSelf, DeskKnows, Benefits!At
<1>2. /\ desk' = [r \in Sessions |-> desk'[r]] /\ desk'[s] = Benefits!Idle /\ Benefits!Idle.pc = "idle"
      /\ \A r \in Sessions \ {s} : desk'[r] = desk[r]
      /\ UNCHANGED <<benefit, credential>>
  BY DEF BenefitsInv, Benefits!RedeemSelf, Benefits!Goes, Benefits!Idle
<1>3. CASE UNCHANGED <<row, given>>
  <2>1. (\A r \in Sessions : DeskKnows(r)') /\ (\A r, q \in Sessions : DeskExcludes(r, q)')
    <3>1. \A r \in Sessions : desk'[r] = Benefits!Idle \/ desk'[r] = desk[r]
      BY <1>2
    <3> QED
      BY <1>2, <1>3, <3>1, DeskUndisturbed DEF BenefitsInv, DeskKnows, Benefits!At
  <2>2. (\A o \in Entitled : RowCounts(o)') /\ (\A c \in Codes : CredentialServes(c)')
    BY <1>2, <1>3 DEF BenefitsInv, RowCounts, CredentialServes
  <2> QED
    BY <1>2, <1>3, <2>1, <2>2 DEF BenefitsInv, Benefits!OneLiveCredential, Benefits!Issued
<1>4. CASE /\ Benefits!Available(t, desk[s].benefit, desk[s].row)
           /\ row' = Benefits!Applied(t, desk[s].row) /\ given' = [given EXCEPT ![t] = @ + 1]
  <2>1. /\ row' = [o \in Entitled |-> row'[o]] /\ given' = [o \in Entitled |-> given'[o]]
        /\ \A o \in Entitled : RowCounts(o)'
        /\ \A o \in Entitled \ {t} : row'[o] = row[o]
        /\ \A o \in Entitled : row[o] # Benefits!None => row'[o] # Benefits!None
    BY <1>1, <1>4, GiftCounts DEF Benefits!Available
  <2>2. \A r \in Sessions \ {s} : Benefits!At(r, "asked") => desk[r].on \in Entitled \ {t}
    BY <1>1 DEF BenefitsInv, DeskKnows, DeskExcludes, Benefits!At
  <2>3. \A r \in Sessions : desk'[r] = Benefits!Idle \/ desk'[r] = desk[r]
    BY <1>2
  <2>4. \A r \in Sessions : desk'[r] = desk[r] =>
            /\ desk[r].pc # "idle" => (benefit'.staffed <=> benefit.staffed)
            /\ Benefits!At(r, "asked") /\ ~benefit.staffed => row'[desk[r].on].redeemed = row[desk[r].on].redeemed
            /\ Benefits!At(r, "validating") => /\ credential'[desk[r].code].status = "issued"
                                               /\ credential'[desk[r].code].of = credential[desk[r].code].of
    BY <1>1, <1>2, <2>1, <2>2 DEF BenefitsInv, DeskKnows, Benefits!At
  <2>5. (\A r \in Sessions : DeskKnows(r)') /\ (\A r, q \in Sessions : DeskExcludes(r, q)')
    BY <1>2, <2>1, <2>3, <2>4, DeskUndisturbed
  <2>6. \A c \in Codes : CredentialServes(c)'
    BY <1>2, <2>1 DEF BenefitsInv, CredentialServes, Benefits!CredentialRow, Benefits!None
  <2> QED
    BY <1>2, <2>1, <2>5, <2>6 DEF BenefitsInv, Benefits!OneLiveCredential, Benefits!Issued
<1> QED
  BY <1>3, <1>4 DEF Benefits!RedeemSelf

LEMMA CredentialsAreIssued ==
  ASSUME BenefitsInv, NEW s \in Sessions, Benefits!CommitIssue(s)
  PROVE  BenefitsInv'
<1> DEFINE t == desk[s].on
<1>1. t \in Entitled /\ row[t] # Benefits!None /\ benefit.staffed /\ desk[s].pc = "issuing"
  BY DEF BenefitsInv, Benefits!CommitIssue, DeskKnows, Benefits!At
<1>2. /\ desk' = [r \in Sessions |-> desk'[r]] /\ desk'[s] = Benefits!Idle /\ Benefits!Idle.pc = "idle"
      /\ \A r \in Sessions \ {s} : desk'[r] = desk[r]
      /\ UNCHANGED <<benefit, row, given>>
  BY DEF BenefitsInv, Benefits!CommitIssue, Benefits!Goes, Benefits!Idle
<1>3. PICK new \in Codes :
        /\ credential[new] = Benefits!None
        /\ credential' = [c \in Codes |->
                CASE c = new        -> [of |-> t, status |-> "issued", overdue |-> FALSE]
                  [] c \in Benefits!Issued(t) -> [credential[c] EXCEPT !.status =
                                           IF credential[c].overdue THEN "expired" ELSE "cancelled"]
                  [] OTHER          -> credential[c]]
  BY DEF Benefits!CommitIssue
<1>4. /\ credential' = [c \in Codes |-> credential'[c]]
      /\ credential'[new] = [of |-> t, status |-> "issued", overdue |-> FALSE]
      /\ \A c \in Codes \ {new} : credential'[c] =
            IF credential[c].status = "issued" /\ credential[c].of = t
            THEN [credential[c] EXCEPT !.status = IF credential[c].overdue THEN "expired" ELSE "cancelled"]
            ELSE credential[c]
  <2> DEFINE issued == Benefits!Issued(t)
  <2>1. \A c \in Codes : c \in issued <=> credential[c].status = "issued" /\ credential[c].of = t
    BY DEF Benefits!Issued
  <2> HIDE DEF issued
  <2>2. credential' = [c \in Codes |->
                CASE c = new     -> [of |-> t, status |-> "issued", overdue |-> FALSE]
                  [] c \in issued -> [credential[c] EXCEPT !.status =
                                        IF credential[c].overdue THEN "expired" ELSE "cancelled"]
                  [] OTHER       -> credential[c]]
    BY <1>3 DEF issued
  <2>3. new \notin issued
    BY <1>3, <2>1 DEF Benefits!None
  <2> HIDE DEF t
  <2> QED
    BY ONLY <2>1, <2>2, <2>3, new \in Codes
<1>5. \A c \in Codes \ {new} :
        /\ CredentialServes(c)'
        /\ credential'[c].status = "issued" =>
              credential[c].status = "issued" /\ credential[c].of # t /\ credential'[c].of = credential[c].of
  <2> SUFFICES ASSUME NEW c \in Codes \ {new}
               PROVE  /\ CredentialServes(c)'
                      /\ credential'[c].status = "issued" =>
                            credential[c].status = "issued" /\ credential[c].of # t /\ credential'[c].of = credential[c].of
    OBVIOUS
  <2>1. CredentialServes(c)
    BY DEF BenefitsInv
  <2>2. CASE credential[c].status = "issued" /\ credential[c].of = t
    <3>1. credential[c] \in Benefits!CredentialRow
      BY <2>1, <2>2 DEF CredentialServes, Benefits!None
    <3>2. credential'[c] = [credential[c] EXCEPT !.status = IF credential[c].overdue THEN "expired" ELSE "cancelled"]
      BY <1>4, <2>2
    <3> QED
      BY <3>1, <3>2 DEF CredentialServes, Benefits!CredentialRow
  <2>3. CASE credential'[c] = credential[c] /\ ~(credential[c].status = "issued" /\ credential[c].of = t)
    BY <1>2, <2>1, <2>3 DEF CredentialServes
  <2> QED
    BY <1>4, <2>2, <2>3
<1>6. CredentialServes(new)'
  BY <1>1, <1>2, <1>4 DEF CredentialServes, Benefits!CredentialRow
<1>7. Benefits!OneLiveCredential'
  <2>1. Benefits!OneLiveCredential
    BY DEF BenefitsInv
  <2> QED
    BY <1>4, <1>5, <2>1 DEF Benefits!OneLiveCredential, Benefits!Issued
<1>8. \A r \in Sessions : Benefits!At(r, "validating") =>
         /\ credential'[desk[r].code].status = "issued"
         /\ credential'[desk[r].code].of = credential[desk[r].code].of
  <2> SUFFICES ASSUME NEW r \in Sessions, Benefits!At(r, "validating")
               PROVE  credential'[desk[r].code] = credential[desk[r].code]
    BY DEF BenefitsInv, DeskKnows
  <2>1. desk[r].code \in Codes /\ credential[desk[r].code].status = "issued"
    BY DEF BenefitsInv, DeskKnows
  <2>2. desk[r].code \notin Benefits!Issued(t)
    BY DEF Benefits!CommitIssue, Benefits!CredentialLocked
  <2>3. desk[r].code # new
    BY <1>3, <2>1 DEF Benefits!None
  <2> QED
    BY <1>4, <2>1, <2>2, <2>3 DEF Benefits!Issued
<1>9. (\A r \in Sessions : DeskKnows(r)') /\ (\A r, q \in Sessions : DeskExcludes(r, q)')
  <2>1. \A r \in Sessions : desk'[r] = Benefits!Idle \/ desk'[r] = desk[r]
    BY <1>2
  <2> QED
    BY <1>2, <1>8, <2>1, DeskUndisturbed
<1>10. \A o \in Entitled : RowCounts(o)'
  BY <1>2 DEF BenefitsInv, RowCounts
<1> QED
  BY <1>2, <1>4, <1>5, <1>6, <1>7, <1>9, <1>10 DEF BenefitsInv

LEMMA StaffRedeem ==
  ASSUME BenefitsInv, NEW s \in Sessions, Benefits!CommitRedeem(s)
  PROVE  BenefitsInv'
<1> DEFINE t == desk[s].on  c == desk[s].code
<1>1. /\ t \in Entitled /\ row[t] # Benefits!None /\ c \in Codes
      /\ credential[c].status = "issued" /\ credential[c].of = t
      /\ CredentialServes(c) /\ desk[s].pc = "validating" /\ benefit.staffed
  BY DEF BenefitsInv, Benefits!CommitRedeem, DeskKnows, Benefits!At, CredentialServes
<1>2. /\ desk' = [r \in Sessions |-> desk'[r]] /\ desk'[s] = Benefits!Idle /\ Benefits!Idle.pc = "idle"
      /\ \A r \in Sessions \ {s} : desk'[r] = desk[r]
      /\ \A r \in Sessions : desk'[r] = Benefits!Idle \/ desk'[r] = desk[r]
      /\ UNCHANGED benefit
  BY DEF BenefitsInv, Benefits!CommitRedeem, Benefits!Goes, Benefits!Idle
<1>3. CASE UNCHANGED <<credential, row, given>>
  <2>1. (\A r \in Sessions : DeskKnows(r)') /\ (\A r, q \in Sessions : DeskExcludes(r, q)')
    BY <1>2, <1>3, DeskUndisturbed DEF BenefitsInv, DeskKnows, Benefits!At
  <2>2. (\A o \in Entitled : RowCounts(o)') /\ (\A k \in Codes : CredentialServes(k)')
    BY <1>2, <1>3 DEF BenefitsInv, RowCounts, CredentialServes
  <2> QED
    BY <1>2, <1>3, <2>1, <2>2 DEF BenefitsInv, Benefits!OneLiveCredential, Benefits!Issued
<1>4. CASE /\ Benefits!Available(t, benefit, Benefits!RowWhenLocked(s))
           /\ credential' = [credential EXCEPT ![c].status = "redeemed"]
           /\ row' = Benefits!Applied(t, Benefits!RowWhenLocked(s))
           /\ given' = [given EXCEPT ![t] = @ + 1]
  <2>1. /\ row' = [o \in Entitled |-> row'[o]] /\ given' = [o \in Entitled |-> given'[o]]
        /\ \A o \in Entitled : RowCounts(o)'
        /\ \A o \in Entitled \ {t} : row'[o] = row[o]
        /\ \A o \in Entitled : row[o] # Benefits!None => row'[o] # Benefits!None
    BY <1>1, <1>4, GiftCounts DEF Benefits!Available, Benefits!RowWhenLocked
  <2>2. credential[c] \in Benefits!CredentialRow
    BY <1>1 DEF CredentialServes, Benefits!None
  <2>3. /\ credential' = [k \in Codes |-> credential'[k]]
        /\ credential'[c] \in Benefits!CredentialRow /\ credential'[c].status = "redeemed"
        /\ \A k \in Codes \ {c} : credential'[k] = credential[k]
    BY <1>1, <1>4, <2>2 DEF BenefitsInv, Benefits!CredentialRow
  <2>4. ASSUME NEW k \in Codes PROVE CredentialServes(k)'
    <3>1. CASE k = c
      BY <2>3, <3>1 DEF CredentialServes
    <3>2. CASE k # c
      <4>1. CredentialServes(k) /\ credential'[k] = credential[k]
        BY <2>3, <3>2 DEF BenefitsInv
      <4> QED
        BY <1>2, <2>1, <4>1 DEF CredentialServes, Benefits!CredentialRow, Benefits!None
    <3> QED
      BY <3>1, <3>2
  <2>5. Benefits!OneLiveCredential'
    BY <2>3 DEF BenefitsInv, Benefits!OneLiveCredential, Benefits!Issued
  <2>6. \A r \in Sessions \ {s} : Benefits!At(r, "validating") => desk[r].code \in Codes \ {c}
    BY <1>1 DEF BenefitsInv, DeskKnows, DeskExcludes, Benefits!At
  <2>7. \A r \in Sessions : desk'[r] = desk[r] =>
            /\ desk[r].pc # "idle" => (benefit'.staffed <=> benefit.staffed)
            /\ Benefits!At(r, "asked") /\ ~benefit.staffed => row'[desk[r].on].redeemed = row[desk[r].on].redeemed
            /\ Benefits!At(r, "validating") => /\ credential'[desk[r].code].status = "issued"
                                               /\ credential'[desk[r].code].of = credential[desk[r].code].of
    BY <1>1, <1>2, <2>3, <2>6 DEF BenefitsInv, DeskKnows, Benefits!At
  <2>8. (\A r \in Sessions : DeskKnows(r)') /\ (\A r, q \in Sessions : DeskExcludes(r, q)')
    BY <1>2, <2>1, <2>7, DeskUndisturbed
  <2> QED
    BY <1>2, <2>1, <2>3, <2>4, <2>5, <2>8 DEF BenefitsInv
<1> QED
  BY <1>3, <1>4 DEF Benefits!CommitRedeem

LEMMA RowsAreRevoked ==
  ASSUME BenefitsInv, NEW s \in Sessions, Benefits!CommitRevoke(s)
  PROVE  BenefitsInv'
<1>1. \A t \in desk[s].rows : t \in Entitled /\ row[t] # Benefits!None
  BY DEF BenefitsInv, Benefits!CommitRevoke, DeskKnows
<1>2. /\ desk' = [r \in Sessions |-> desk'[r]]
      /\ \A r \in Sessions : desk'[r] = Benefits!Idle \/ desk'[r] = desk[r]
      /\ UNCHANGED <<benefit, credential, given>>
  BY DEF BenefitsInv, Benefits!CommitRevoke, Benefits!Goes
<1>3. /\ row' = [t \in Entitled |-> row'[t]]
      /\ \A t \in Entitled : row'[t] = IF t \in desk[s].rows THEN [row[t] EXCEPT !.status = "revoked"] ELSE row[t]
  BY DEF Benefits!CommitRevoke
<1>4. ASSUME NEW t \in Entitled
      PROVE  RowCounts(t)' /\ (row[t] # Benefits!None => row'[t] # Benefits!None /\ row'[t].redeemed = row[t].redeemed)
  <2>1. RowCounts(t)
    BY DEF BenefitsInv
  <2>2. CASE row'[t] = row[t]
    BY <1>2, <2>1, <2>2 DEF RowCounts
  <2>3. CASE row'[t] = [row[t] EXCEPT !.status = "revoked"] /\ row[t] # Benefits!None
    <3>1. row[t] \in Benefits!StateRow /\ row[t].redeemed = given[t]
      BY <2>1, <2>3 DEF RowCounts
    <3>2. row'[t] \in Benefits!StateRow /\ row'[t].redeemed = row[t].redeemed /\ row'[t].status = "revoked"
      BY <2>3, <3>1 DEF Benefits!StateRow
    <3>3. row'[t] # Benefits!None
      BY <3>2 DEF Benefits!None, Benefits!StateRow
    <3> QED
      BY <1>2, <2>1, <3>1, <3>2, <3>3 DEF RowCounts
  <2> QED
    BY <1>1, <1>3, <2>2, <2>3
<1>5. (\A r \in Sessions : DeskKnows(r)') /\ (\A r, q \in Sessions : DeskExcludes(r, q)')
  <2>1. \A t \in Entitled : row[t] # Benefits!None => row'[t] # Benefits!None
    BY <1>4
  <2> QED
    BY <1>2, <1>4, <2>1, DeskUndisturbed DEF BenefitsInv, DeskKnows, Benefits!At
<1>6. \A c \in Codes : CredentialServes(c)'
  BY <1>2, <1>4 DEF BenefitsInv, CredentialServes, Benefits!CredentialRow, Benefits!None
<1> QED
  BY <1>2, <1>3, <1>4, <1>5, <1>6 DEF BenefitsInv, Benefits!OneLiveCredential, Benefits!Issued

\* A credential that runs out, or is found to have.
LEMMA CredentialsRunOut ==
  ASSUME BenefitsInv,
         \/ \E c \in Codes : Benefits!CredentialRunsOut(c)
         \/ \E s \in Sessions, c \in Codes : Benefits!Resolve(s, c) /\ credential[c].overdue
  PROVE  BenefitsInv'
<1>1. PICK c \in Codes :
        \/ Benefits!CredentialRunsOut(c)
        \/ \E s \in Sessions : Benefits!Resolve(s, c) /\ credential[c].overdue
  OBVIOUS
<1>2. UNCHANGED <<benefit, row, given, desk>>
  BY <1>1 DEF Benefits!CredentialRunsOut, Benefits!Resolve
<1>3. CredentialServes(c) /\ credential[c].status \in {"issued", "expired"}
  BY <1>1 DEF BenefitsInv, Benefits!CredentialRunsOut, Benefits!Resolve
<1>4. credential[c] \in Benefits!CredentialRow
  BY <1>3 DEF CredentialServes, Benefits!None
<1>5. /\ credential' = [k \in Codes |-> credential'[k]]
      /\ credential'[c] \in Benefits!CredentialRow
      /\ credential'[c].of = credential[c].of
      /\ \/ credential'[c].status = "expired" /\ credential'[c].overdue
         \/ credential'[c].status = "issued" /\ credential[c].status = "issued"
      /\ \A k \in Codes \ {c} : credential'[k] = credential[k]
  <2>1. CASE Benefits!CredentialRunsOut(c)
    BY <1>4, <2>1 DEF BenefitsInv, Benefits!CredentialRunsOut, Benefits!CredentialRow
  <2>2. ASSUME NEW s \in Sessions, Benefits!Resolve(s, c), credential[c].overdue
        PROVE  /\ credential' = [credential EXCEPT ![c].status = "expired"]
               /\ credential[c].overdue
    BY <2>2 DEF Benefits!Resolve
  <2>3. CASE credential' = [credential EXCEPT ![c].status = "expired"] /\ credential[c].overdue
    BY <1>4, <2>3 DEF BenefitsInv, Benefits!CredentialRow
  <2> QED
    BY <1>1, <2>1, <2>2, <2>3
<1>6. \A r \in Sessions : Benefits!At(r, "validating") =>
          /\ credential'[desk[r].code].status = "issued"
          /\ credential'[desk[r].code].of = credential[desk[r].code].of
  <2> SUFFICES ASSUME NEW r \in Sessions, Benefits!At(r, "validating")
               PROVE  /\ credential'[desk[r].code].status = "issued"
                      /\ credential'[desk[r].code].of = credential[desk[r].code].of
    OBVIOUS
  <2>1. desk[r].code \in Codes /\ credential[desk[r].code].status = "issued"
    BY DEF BenefitsInv, DeskKnows
  <2>2. CASE Benefits!CredentialRunsOut(c)
    BY <1>4, <2>1, <2>2 DEF BenefitsInv, Benefits!CredentialRunsOut, Benefits!CredentialRow
  <2>3. CASE \E s \in Sessions : Benefits!Resolve(s, c) /\ credential[c].overdue
    <3>1. desk[r].code # c
      BY <2>3 DEF Benefits!Resolve, Benefits!CredentialLocked
    <3> QED
      BY <1>5, <2>1, <3>1
  <2> QED
    BY <1>1, <2>2, <2>3
<1>7. (\A r \in Sessions : DeskKnows(r)') /\ (\A r, q \in Sessions : DeskExcludes(r, q)')
  <2>1. desk' = [r \in Sessions |-> desk'[r]]
    BY <1>2 DEF BenefitsInv
  <2> QED
    BY <1>2, <1>6, <2>1, DeskUndisturbed
<1>8. \A k \in Codes : CredentialServes(k)'
  BY <1>2, <1>3, <1>5 DEF BenefitsInv, CredentialServes
<1>9. \A o \in Entitled : RowCounts(o)'
  BY <1>2 DEF BenefitsInv, RowCounts
<1>10. Benefits!OneLiveCredential'
  BY <1>5 DEF BenefitsInv, Benefits!OneLiveCredential, Benefits!Issued
<1> QED
  BY <1>2, <1>5, <1>7, <1>8, <1>9, <1>10 DEF BenefitsInv

LEMMA BenefitsAreEdited ==
  ASSUME BenefitsInv,
         \/ \E t \in Entitled : Benefits!Sync(t) \/ Benefits!ConditionsChange(t)
         \/ Benefits!Reactivate \/ Benefits!SwitchValidation
  PROVE  BenefitsInv'
<1>1. ASSUME UNCHANGED <<credential, given, desk>>, benefit' \in Benefits!BenefitRow,
             row' = [t \in Entitled |-> row'[t]],
             \A t \in Entitled : row'[t] = row[t] \/ (row[t] = Benefits!None /\ row'[t] = Benefits!NewRow),
             \/ benefit'.staffed <=> benefit.staffed
             \/ /\ \A s \in Sessions : desk[s] = Benefits!Idle
                /\ \A c \in Codes : credential[c].status # "issued"
      PROVE  BenefitsInv'
  <2>1. /\ Benefits!NewRow \in Benefits!StateRow /\ Benefits!NewRow # Benefits!None
        /\ Benefits!NewRow.status = "available" /\ Benefits!NewRow.redeemed = 0 /\ Benefits!Idle.pc = "idle"
    BY DEF Benefits!NewRow, Benefits!StateRow, Benefits!None, Benefits!Idle
  <2>2. \A t \in Entitled : RowCounts(t)' /\ (row[t] # Benefits!None => row'[t] = row[t])
    <3> SUFFICES ASSUME NEW t \in Entitled PROVE RowCounts(t)' /\ (row[t] # Benefits!None => row'[t] = row[t])
      OBVIOUS
    <3>1. RowCounts(t) /\ MaxRedemptions \in Nat
      BY BenefitsAssumption DEF BenefitsInv, Benefits!RedemptionAssumption
    <3>2. CASE row'[t] = row[t]
      BY <1>1, <3>1, <3>2 DEF RowCounts
    <3>3. CASE row[t] = Benefits!None /\ row'[t] = Benefits!NewRow
      BY <1>1, <2>1, <3>1, <3>3 DEF RowCounts, Benefits!StateRow, Benefits!None
    <3> QED
      BY <1>1, <3>2, <3>3
  <2>3. \A t \in Entitled : row[t] # Benefits!None => row'[t] # Benefits!None
    BY <2>2
  <2>4. \A r \in Sessions : desk'[r] = desk[r] =>
            /\ desk[r].pc # "idle" => (benefit'.staffed <=> benefit.staffed)
            /\ Benefits!At(r, "asked") /\ ~benefit.staffed => row'[desk[r].on].redeemed = row[desk[r].on].redeemed
            /\ Benefits!At(r, "validating") => /\ credential'[desk[r].code].status = "issued"
                                               /\ credential'[desk[r].code].of = credential[desk[r].code].of
    BY <1>1, <2>1, <2>2 DEF BenefitsInv, DeskKnows, Benefits!At
  <2>5. (\A r \in Sessions : DeskKnows(r)') /\ (\A r, q \in Sessions : DeskExcludes(r, q)')
    <3>1. desk' = [r \in Sessions |-> desk'[r]] /\ \A r \in Sessions : desk'[r] = desk[r]
      BY <1>1 DEF BenefitsInv
    <3> QED
      BY <2>3, <2>4, <3>1, DeskUndisturbed
  <2>6. \A c \in Codes : CredentialServes(c)'
    BY <1>1, <2>3 DEF BenefitsInv, CredentialServes, Benefits!CredentialRow, Benefits!None
  <2> QED
    BY <1>1, <2>2, <2>5, <2>6 DEF BenefitsInv, Benefits!OneLiveCredential, Benefits!Issued
<1>2. benefit \in Benefits!BenefitRow /\ row = [t \in Entitled |-> row[t]]
  BY DEF BenefitsInv
<1>3. ASSUME NEW t \in Entitled, Benefits!Sync(t) PROVE BenefitsInv'
  <2>1. /\ row' = [o \in Entitled |-> row'[o]]
        /\ \A o \in Entitled : row'[o] = row[o] \/ (row[o] = Benefits!None /\ row'[o] = Benefits!NewRow)
    BY <1>2, <1>3 DEF Benefits!Sync
  <2> QED
    BY <1>1, <1>2, <1>3, <2>1 DEF Benefits!Sync
<1>4. ASSUME NEW t \in Entitled, Benefits!ConditionsChange(t) PROVE BenefitsInv'
  BY <1>1, <1>2, <1>4 DEF Benefits!ConditionsChange
<1>5. CASE Benefits!Reactivate
  <2>1. benefit' \in Benefits!BenefitRow /\ (benefit'.staffed <=> benefit.staffed)
    BY <1>2, <1>5 DEF Benefits!Reactivate, Benefits!BenefitRow
  <2> QED
    BY <1>1, <1>2, <1>5, <2>1 DEF Benefits!Reactivate
<1>6. CASE Benefits!SwitchValidation
  <2>1. benefit' \in Benefits!BenefitRow
    BY <1>2, <1>6 DEF Benefits!SwitchValidation, Benefits!BenefitRow
  <2> QED
    BY <1>1, <1>2, <1>6, <2>1 DEF Benefits!SwitchValidation
<1> QED
  BY <1>3, <1>4, <1>5, <1>6

LEMMA BenefitsNext == BenefitsInv /\ [Benefits!Next]_benefitVars => BenefitsInv'
<1> SUFFICES ASSUME BenefitsInv, [Benefits!Next]_benefitVars PROVE BenefitsInv'
  OBVIOUS
<1>1. CASE UNCHANGED benefitVars
  <2>1. (\A s \in Sessions : DeskKnows(s)') /\ (\A s, r \in Sessions : DeskExcludes(s, r)')
    BY <1>1 DEF benefitVars, BenefitsInv, DeskKnows, DeskExcludes, Benefits!At
  <2>2. (\A t \in Entitled : RowCounts(t)') /\ (\A c \in Codes : CredentialServes(c)')
    BY <1>1 DEF benefitVars, BenefitsInv, RowCounts, CredentialServes
  <2> QED
    BY <1>1, <2>1, <2>2 DEF benefitVars, BenefitsInv, Benefits!OneLiveCredential, Benefits!Issued
<1>2. ASSUME NEW s \in Sessions, NEW c \in Codes, Benefits!Resolve(s, c) PROVE BenefitsInv'
  BY <1>2, DeskReadSteps, CredentialsRunOut
<1>3. ASSUME NEW s \in Sessions,
             \/ \E t \in Entitled : Benefits!LockTicket(s, t)
             \/ Benefits!RedeemSelf(s) \/ Benefits!LockRow(s) \/ Benefits!CommitIssue(s)
             \/ Benefits!CommitRedeem(s)
             \/ Benefits!Deactivate(s) \/ Benefits!FindAvailable(s) \/ Benefits!CommitRevoke(s)
             \/ Benefits!Abort(s)
      PROVE  BenefitsInv'
  BY <1>3, DeskReadSteps, SelfRedeems, CredentialsAreIssued, StaffRedeem, RowsAreRevoked
<1>4. CASE \/ \E t \in Entitled : Benefits!Sync(t) \/ Benefits!ConditionsChange(t)
           \/ Benefits!Reactivate \/ Benefits!SwitchValidation
  BY <1>4, BenefitsAreEdited
<1>5. CASE \E c \in Codes : Benefits!CredentialRunsOut(c)
  BY <1>5, CredentialsRunOut
<1> QED
  BY <1>1, <1>2, <1>3, <1>4, <1>5 DEF Benefits!Next

LEMMA BenefitsAlways == DoorSpec => []BenefitsInv
<1>1. DoorInit => BenefitsInv
  BY BenefitsInit DEF DoorInit
<1>2. BenefitsInv /\ [DoorNext]_<<part, vars, benefitVars>> => BenefitsInv'
  <2> SUFFICES ASSUME BenefitsInv, [DoorNext]_<<part, vars, benefitVars>> PROVE BenefitsInv'
    OBVIOUS
  <2>1. [Benefits!Next]_benefitVars
    BY DEF DoorNext, benefitVars
  <2> QED
    BY <2>1, BenefitsNext
<1> QED
  BY <1>1, <1>2, PTL DEF DoorSpec

\* No redemption is lost or given twice: the row counts each, up to the limit.
THEOREM GiftsAreCounted == DoorSpec => []EveryGiftIsCounted
<1>1. BenefitsInv => EveryGiftIsCounted
  BY DEF BenefitsInv, EveryGiftIsCounted, Benefits!EveryGiftIsCounted, RowCounts
<1> QED
  BY <1>1, BenefitsAlways, PTL

\* A ticket never has two credentials that staff would accept.
THEOREM CredentialsAreSingle == DoorSpec => []OneLiveCredential
<1>1. BenefitsInv => OneLiveCredential
  BY DEF BenefitsInv, OneLiveCredential
<1> QED
  BY <1>1, BenefitsAlways, PTL

\* A credential resolved before the benefit was withdrawn gives nothing after.
THEOREM RevokedGivesNothing == DoorSpec => NothingGivenOnceRevoked
<1> DEFINE Gives == \A c \in Codes :
                       credential[c].status # "redeemed" /\ credential'[c].status = "redeemed" =>
                           row[credential[c].of].status = "available"
<1>1. BenefitsInv /\ [Benefits!Next]_benefitVars => Gives
  <2> SUFFICES ASSUME BenefitsInv, [Benefits!Next]_benefitVars, NEW c \in Codes,
                      credential[c].status # "redeemed", credential'[c].status = "redeemed"
               PROVE  row[credential[c].of].status = "available"
    OBVIOUS
  <2>1. credential[c] \in Benefits!CredentialRow \cup {Benefits!None} /\ credential = [k \in Codes |-> credential[k]]
    BY DEF BenefitsInv, CredentialServes
  <2>2. ASSUME NEW s \in Sessions, Benefits!CommitRedeem(s) PROVE row[credential[c].of].status = "available"
    <3> DEFINE t == desk[s].on
    <3>1. /\ credential' = [credential EXCEPT ![desk[s].code].status = "redeemed"]
          /\ Benefits!Available(t, benefit, row[t])
      BY <2>2 DEF Benefits!CommitRedeem, Benefits!RowWhenLocked
    <3>2. c = desk[s].code
      BY <2>1, <3>1
    <3>3. t \in Entitled /\ row[t] # Benefits!None /\ credential[c].of = t
      BY <2>2, <3>2 DEF BenefitsInv, DeskKnows, Benefits!CommitRedeem, Benefits!At
    <3>4. RowCounts(t) /\ MaxRedemptions \in Nat
      BY <3>3, BenefitsAssumption DEF BenefitsInv, Benefits!RedemptionAssumption
    <3> QED
      BY <3>1, <3>3, <3>4 DEF RowCounts, Benefits!Available, Benefits!StateRow
  <2>3. ASSUME NEW s \in Sessions, Benefits!CommitIssue(s) PROVE FALSE
    BY <2>1, <2>3 DEF Benefits!CommitIssue
  <2>4. ASSUME NEW s \in Sessions, NEW k \in Codes, Benefits!Resolve(s, k) PROVE FALSE
    BY <2>1, <2>4 DEF Benefits!Resolve, Benefits!CredentialRow, Benefits!None
  <2>5. ASSUME NEW k \in Codes, Benefits!CredentialRunsOut(k) PROVE FALSE
    BY <2>1, <2>5 DEF Benefits!CredentialRunsOut, Benefits!CredentialRow, Benefits!None
  <2>6. CASE credential' = credential
    BY <2>6
  <2>7. ASSUME NEW s \in Sessions,
               \/ \E t \in Entitled : Benefits!LockTicket(s, t)
               \/ Benefits!RedeemSelf(s) \/ Benefits!LockRow(s)
               \/ Benefits!Deactivate(s) \/ Benefits!FindAvailable(s) \/ Benefits!CommitRevoke(s)
               \/ Benefits!Abort(s)
        PROVE  credential' = credential
    BY <2>7 DEF Benefits!LockTicket, Benefits!RedeemSelf, Benefits!LockRow, Benefits!Deactivate,
                Benefits!FindAvailable, Benefits!CommitRevoke, Benefits!Abort
  <2>8. CASE \/ \E t \in Entitled : Benefits!Sync(t) \/ Benefits!ConditionsChange(t)
             \/ Benefits!Reactivate \/ Benefits!SwitchValidation \/ UNCHANGED benefitVars
    BY <2>6, <2>8 DEF Benefits!Sync, Benefits!ConditionsChange, Benefits!Reactivate,
                      Benefits!SwitchValidation, benefitVars
  <2> QED
    BY <2>2, <2>3, <2>4, <2>5, <2>6, <2>7, <2>8 DEF Benefits!Next
<1>2. [DoorNext]_<<part, vars, benefitVars>> => [Benefits!Next]_benefitVars
  BY DEF DoorNext, benefitVars
<1>3. BenefitsInv /\ [DoorNext]_<<part, vars, benefitVars>> => [Gives]_(Benefits!vars)
  BY <1>1, <1>2
<1> QED
  BY <1>3, BenefitsAlways, PTL DEF DoorSpec, NothingGivenOnceRevoked, Benefits!NothingGivenOnceRevoked
=============================================================================
