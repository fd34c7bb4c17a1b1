----------------------------- MODULE Possession -----------------------------
(***************************************************************************)
(* What a sold ticket promises, without requests, links, copies or locks.  *)
(* It is on offer or not; an offer is taken once, while the ticket is good, *)
(* and the taker has the ticket for himself; who was let in with it keeps   *)
(* it for good; and nobody lets himself in by two of his tickets.           *)
(***************************************************************************)
CONSTANTS Tickets, Users, Buyer

VARIABLES
    holder,
    offered,    \* tickets on offer
    state,      \* "active", "used" or "ended"
    entered     \* tickets by which their holder let himself in

vars == <<holder, offered, state, entered>>

Init ==
    /\ holder = [t \in Tickets |-> Buyer]
    /\ state = [t \in Tickets |-> "active"]
    /\ offered = {} /\ entered = {}

\* Whoever held a ticket may think that he still does, and offer it.
Offer(t) ==
    /\ offered' = offered \cup {t}
    /\ UNCHANGED <<holder, state, entered>>

\* Called off, or nobody took it in time.
Withdraw(t) ==
    /\ offered' = offered \ {t}
    /\ UNCHANGED <<holder, state, entered>>

Take(t, u) ==
    /\ t \in offered /\ state[t] = "active" /\ u # holder[t]
    /\ holder' = [holder EXCEPT ![t] = u]
    /\ offered' = offered \ {t}
    /\ UNCHANGED <<state, entered>>

\* The holder lets himself in, by the first of his tickets only.
Enter(t) ==
    /\ state[t] \in {"active", "used"} /\ \A o \in entered : holder[o] # holder[t]
    /\ state' = [state EXCEPT ![t] = "used"]
    /\ entered' = entered \cup {t}
    /\ UNCHANGED <<holder, offered>>

\* The staff let him in.
Admit(t) ==
    /\ state[t] = "active"
    /\ state' = [state EXCEPT ![t] = "used"]
    /\ UNCHANGED <<holder, offered, entered>>

\* Cancelled or refunded.
End(t) ==
    /\ state[t] \in {"active", "used"}
    /\ state' = [state EXCEPT ![t] = "ended"]
    /\ UNCHANGED <<holder, offered, entered>>

Next ==
    \E t \in Tickets :
        \/ Offer(t) \/ Withdraw(t) \/ Enter(t) \/ Admit(t) \/ End(t)
        \/ \E u \in Users : Take(t, u)

Spec == Init /\ [][Next]_vars
=============================================================================
