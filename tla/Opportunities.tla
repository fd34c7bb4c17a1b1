--------------------------- MODULE Opportunities ---------------------------
(***************************************************************************)
(* One activity opportunity (services/opportunity.py): it is drafted and    *)
(* published, participants register and complete it, and an administrator's *)
(* decision is taken over by the activity each completion has recorded,     *)
(* which pays (services/activity.py).                                      *)
(*                                                                         *)
(* No handler locks a row: each reads, checks, and commits what it read.    *)
(***************************************************************************)
EXTENDS Integers, Sequences, FiniteSets, FiniteSetsExt

CONSTANTS
    Participants,
    Capacities,     \* the capacities an administrator sets
    Sessions

\* a capacity is at least one, and there is a largest that anybody sets
ASSUME OpportunityAssumption ==
    /\ Capacities \subseteq Nat \ {0}
    /\ \E c \in Capacities : \A d \in Capacities : d <= c
    /\ IsFiniteSet(Sessions)

OpportunityRow == [status : {"draft", "published"}, capacity : Capacities, ahead : BOOLEAN]
RegistrationStatus == {"none", "registered", "completed", "verified", "rejected"}

VARIABLES
    opportunity,    \* the row: status, capacity, and whether ends_at is ahead
    registration,   \* status of each participant's registration, or "none"
    activities,     \* each participant's activities in the order they were created
    session,
    contested,      \* participants of whom a handler overwrote another's status
    cutOff          \* and for whom the process died between a decision and its award

vars == <<opportunity, registration, activities, session, contested, cutOff>>

Idle == [pc |-> "idle"]
At(s, pc) == session[s].pc = pc
Goes(s, step) == session' = [session EXCEPT ![s] = step]
Who(s) == session[s].who
Registered == {p \in Participants : registration[p] = "registered"}

Open == opportunity.status = "published" /\ opportunity.ahead
Notes(p, read) == contested' = IF registration[p] = read THEN contested ELSE contested \cup {p}

Init ==
    /\ opportunity \in {o \in OpportunityRow : o.status = "draft" /\ o.ahead}
    /\ registration = [p \in Participants |-> "none"]
    /\ activities = [p \in Participants |-> <<>>]
    /\ session = [s \in Sessions |-> Idle]
    /\ contested = {} /\ cutOff = {}

-----------------------------------------------------------------------------
(* The opportunity: only a draft is edited or published. *)

ReadDraft(s, work) ==
    /\ At(s, "idle") /\ opportunity.status = "draft"
    /\ work.pc = "publish" => opportunity.ahead
    /\ Goes(s, work)
    /\ UNCHANGED <<opportunity, registration, activities, contested, cutOff>>

Publish(s) ==
    /\ At(s, "publish")
    /\ opportunity' = [opportunity EXCEPT !.status = "published"]
    /\ Goes(s, Idle)
    /\ UNCHANGED <<registration, activities, contested, cutOff>>

\* the edit of what was a draft may meet a published opportunity
Update(s) ==
    /\ At(s, "edit")
    /\ opportunity' = [opportunity EXCEPT !.capacity = session[s].capacity]
    /\ Goes(s, Idle)
    /\ UNCHANGED <<registration, activities, contested, cutOff>>

Ends ==
    /\ opportunity.ahead /\ opportunity' = [opportunity EXCEPT !.ahead = FALSE]
    /\ UNCHANGED <<registration, activities, session, contested, cutOff>>

-----------------------------------------------------------------------------
(* Participants. *)

HasPlace == Cardinality(Registered) < opportunity.capacity

ReadJoin(s, p) ==
    /\ At(s, "idle") /\ Open /\ registration[p] = "none" /\ HasPlace
    /\ Goes(s, [pc |-> "join", who |-> p])
    /\ UNCHANGED <<opportunity, registration, activities, contested, cutOff>>

\* uq_opportunity_registration_participant fails the second of two
Join(s) ==
    /\ At(s, "join") /\ registration[Who(s)] = "none"
    /\ registration' = [registration EXCEPT ![Who(s)] = "registered"]
    /\ Goes(s, Idle)
    /\ UNCHANGED <<opportunity, activities, contested, cutOff>>

\* Mutant: what was completed may be completed again.
MayCompleteAgain(p) == registration[p] \in {"registered", "completed"}

MayComplete(p) == registration[p] = "registered"

ReadComplete(s, p) ==
    /\ At(s, "idle") /\ MayComplete(p)
    /\ Goes(s, [pc |-> "complete", who |-> p])
    /\ UNCHANGED <<opportunity, registration, activities, contested, cutOff>>

Recorded == [status |-> "pending", paid |-> FALSE]

Complete(s) ==
    /\ At(s, "complete")
    /\ registration' = [registration EXCEPT ![Who(s)] = "completed"]
    /\ activities' = [activities EXCEPT ![Who(s)] = Append(@, Recorded)]
    /\ Notes(Who(s), "registered")
    /\ Goes(s, Idle)
    /\ UNCHANGED <<opportunity, cutOff>>

-----------------------------------------------------------------------------
(* Administrators. *)

ReadDecision(s, p, approve) ==
    /\ At(s, "idle") /\ registration[p] = "completed"
    /\ Goes(s, [pc |-> "pick", who |-> p, approve |-> approve])
    /\ UNCHANGED <<opportunity, registration, activities, contested, cutOff>>

Pending(p) == {i \in DOMAIN activities[p] : activities[p][i].status = "pending"}

\* the latest pending activity, or 0: a decision in between leaves none
PickActivity(s) ==
    /\ At(s, "pick")
    /\ Goes(s, [pc |-> "decide", who |-> Who(s), approve |-> session[s].approve,
                activity |-> Max(Pending(Who(s)) \cup {0})])
    /\ UNCHANGED <<opportunity, registration, activities, contested, cutOff>>

Decision(s) == IF session[s].approve THEN "verified" ELSE "rejected"

\* Mutant: a rejection is awarded too.
DecideAndAward(s) ==
    LET p == Who(s)  i == session[s].activity IN
    /\ At(s, "decide")
    /\ registration' = [registration EXCEPT ![p] = Decision(s)]
    /\ activities' = IF i = 0 THEN activities ELSE [activities EXCEPT ![p][i].status = Decision(s)]
    /\ Notes(p, "completed")
    /\ Goes(s, IF i # 0 THEN [session[s] EXCEPT !.pc = "award"] ELSE Idle)
    /\ UNCHANGED <<opportunity, cutOff>>

\* the first commit of verify_activity takes the registration along
Decide(s) ==
    LET p == Who(s)  i == session[s].activity IN
    /\ At(s, "decide")
    /\ registration' = [registration EXCEPT ![p] = Decision(s)]
    /\ activities' = IF i = 0 THEN activities ELSE [activities EXCEPT ![p][i].status = Decision(s)]
    /\ Notes(p, "completed")
    /\ Goes(s, IF i # 0 /\ session[s].approve THEN [session[s] EXCEPT !.pc = "award"] ELSE Idle)
    /\ UNCHANGED <<opportunity, cutOff>>

\* by the activity's key, so once for each activity
AwardActivity(s) ==
    /\ At(s, "award")
    /\ activities' = [activities EXCEPT ![Who(s)][session[s].activity].paid = TRUE]
    /\ Goes(s, Idle)
    /\ UNCHANGED <<opportunity, registration, contested, cutOff>>

Abort(s) ==
    /\ session[s] # Idle
    /\ cutOff' = IF At(s, "award") THEN cutOff \cup {Who(s)} ELSE cutOff
    /\ Goes(s, Idle)
    /\ UNCHANGED <<opportunity, registration, activities, contested>>

Next ==
    \/ \E s \in Sessions :
         \/ ReadDraft(s, [pc |-> "publish"])
         \/ \E c \in Capacities : ReadDraft(s, [pc |-> "edit", capacity |-> c])
         \/ Publish(s) \/ Update(s)
         \/ \E p \in Participants : ReadJoin(s, p) \/ ReadComplete(s, p)
         \/ Join(s) \/ Complete(s)
         \/ \E p \in Participants, approve \in BOOLEAN : ReadDecision(s, p, approve)
         \/ PickActivity(s) \/ Decide(s) \/ AwardActivity(s) \/ Abort(s)
    \/ Ends

Spec == Init /\ [][Next]_vars

-----------------------------------------------------------------------------
(* Properties. *)

\* Nobody registers for, or completes, a draft, and only what was decided pays.
TypeOK ==
    /\ opportunity \in OpportunityRow
    /\ registration \in [Participants -> RegistrationStatus]
    /\ \A p \in Participants :
         /\ opportunity.status = "draft" => registration[p] = "none"
         /\ registration[p] \in {"none", "registered"} => activities[p] = <<>>
         /\ \A i \in DOMAIN activities[p] : activities[p][i].paid => activities[p][i].status # "pending"

\* Joins that overlap may overrun the capacity, and completions that overlap may
\* record, and be paid for, several activities of one participant: by no more
\* than the other requests served at once, and no sequence of calls repeats it.
OverrunsAreBounded ==
    /\ Cardinality(Registered) <= Max(Capacities) + Cardinality(Sessions) - 1
    /\ \A p \in Participants : Len(activities[p]) <= Cardinality(Sessions)

\* Unless handlers overlapped, a registration has the one activity it recorded,
\* with the same decision; and it is paid if it is verified, or will be, or the
\* process died on the way.
DecisionIsTheActivitys ==
    \A p \in Participants \ contested : registration[p] \in {"completed", "verified", "rejected"} =>
        /\ Len(activities[p]) = 1
        /\ LET activity == activities[p][1] IN
           /\ activity.status = IF registration[p] = "completed" THEN "pending" ELSE registration[p]
           /\ activity.paid => registration[p] = "verified"
           /\ registration[p] = "verified" =>
                \/ activity.paid \/ p \in cutOff
                \/ \E s \in Sessions : At(s, "award") /\ Who(s) = p
=============================================================================
