---------------------------- MODULE ImpactPoints ----------------------------
(***************************************************************************)
(* The points of one member in one community (services/impact.py,          *)
(* activity.py, contribution.py, admin.py, recognition.py).                *)
(*                                                                         *)
(* A reviewer verifies or rejects an activity or a contribution; a         *)
(* verified one is posted as points, and then recognition is evaluated:    *)
(* milestones, badges, achievement rules and the rank, each award with     *)
(* points of its own.  Nearly every step is a transaction; only unique     *)
(* keys, and a shared lock on the platform's ceiling, order the sessions.  *)
(***************************************************************************)
EXTENDS Integers, FiniteSetsExt

CONSTANTS
    Items,          \* activities and contributions of the member
    Capped,         \* those that are contributions in a band with a period cap
    Worth, Cap,     \* what an item brings, and the cap
    Ceilings,       \* maxima the platform may set for a source of points
    Milestones, Badges, Rules,
    RuleBadge,      \* the badge an achievement rule gives
    Reward,         \* points of each award
    Threshold,      \* points from which each award is due
    Ranks,          \* ranks, by their minimum_points, which order them
    Adjustments,    \* amounts an administrator may post, one key each
    Sessions

ItemStatus == {"pending", "verified", "rejected"}
Awards == Milestones \cup Badges \cup Rules

\* assumed by the modules that instantiate this one
ImpactAssumption ==
    /\ Capped \subseteq Items /\ IsFiniteSet(Capped) /\ Items \cap Awards = {}
    /\ IsFiniteSet(Sessions) /\ Sessions # {}
    /\ Rules \cap (Milestones \cup Badges) = {}
    /\ Worth \in Nat \ {0} /\ Cap \in Nat
    /\ Ceilings \subseteq Nat /\ Ranks \subseteq Nat /\ Adjustments \subseteq Int
    /\ RuleBadge \in [Rules -> Badges]
    /\ Reward \in [Awards -> Nat \ {0}] /\ Threshold \in [Awards -> Nat]

VARIABLES
    item,       \* status of each activity and contribution
    points,     \* posted transactions by their key's source; 0 is none
    adjusted,   \* adjustments posted
    held,       \* awards that have a row
    revoked,    \* badges whose row is revoked
    ranks,      \* ranks recorded as achieved
    ceiling,    \* point_ceilings.maximum_points of the items' source
    session,
    cutOff      \* awards whose session ended before it paid them

record == <<item, points, adjusted, held, revoked, ranks>>
vars == <<record, ceiling, session, cutOff>>

Idle == [pc |-> "idle"]
At(s, pc) == session[s].pc = pc
Goes(s, step) == session' = [session EXCEPT ![s] = step]
SumOf(f, S) == MapThenSumSet(LAMBDA x : f[x], S)
Least(a, b) == IF a <= b THEN a ELSE b
TotalOf(posted, adjustments) ==
    SumOf(posted, Items \cup Awards) + SumOf([n \in adjustments |-> n], adjustments)
Total == TotalOf(points, adjusted)
Due(S) == {a \in S : Threshold[a] <= Total}

Init ==
    /\ item = [i \in Items |-> "pending"]
    /\ points = [k \in Items \cup Awards |-> 0]
    /\ adjusted = {} /\ held = {} /\ revoked = {} /\ ranks = {}
    /\ ceiling \in Ceilings
    /\ session = [s \in Sessions |-> Idle]
    /\ cutOff = {}

\* award_points: a key is posted once; who comes second finds it
Posted(key, amount) ==
    points' = [points EXCEPT ![key] = IF @ = 0 THEN amount ELSE @]

-----------------------------------------------------------------------------
(* verify_activity and verify_contribution. *)

Review(s, i, approve) ==
    /\ At(s, "idle") /\ item[i] = "pending"
    /\ Goes(s, [pc |-> "decide", item |-> i, approve |-> approve])
    /\ UNCHANGED <<record, ceiling, cutOff>>

Decide(s) ==
    LET step == session[s] IN
    /\ At(s, "decide")
    /\ item' = [item EXCEPT ![step.item] = IF step.approve THEN "verified" ELSE "rejected"]
    /\ Goes(s, IF step.approve THEN [pc |-> "sum", item |-> step.item] ELSE Idle)
    /\ UNCHANGED <<points, adjusted, held, revoked, ranks, ceiling, cutOff>>

\* Mutant: the cap limits each contribution, not their sum.
AmountOfOne(i) == IF i \in Capped THEN Least(Worth, Cap) ELSE Worth

\* what the cap of the contributor's band leaves; nothing ends the handler
Amount(i) ==
    IF i \in Capped THEN Least(Worth, Cap - SumOf(points, Capped)) ELSE Worth

SumAwarded(s) ==
    LET i == session[s].item IN
    /\ At(s, "sum")
    /\ Goes(s, IF Amount(i) > 0 THEN [pc |-> "limit", item |-> i, amount |-> Amount(i)] ELSE Idle)
    /\ UNCHANGED <<record, ceiling, cutOff>>

\* ceiling() locks the row it reads, shared, until the transaction ends
ReadCeiling(s) ==
    /\ At(s, "limit")
    /\ Goes(s, [session[s] EXCEPT !.pc = "post", !.amount = Least(@, ceiling)])
    /\ UNCHANGED <<record, ceiling, cutOff>>

PostItem(s) ==
    /\ At(s, "post")
    /\ Posted(session[s].item, session[s].amount)
    /\ Goes(s, [pc |-> "milestones"])
    /\ UNCHANGED <<item, adjusted, held, revoked, ranks, ceiling, cutOff>>

\* Mutant: the ceiling is read without the shared lock.
CeilingIsNeverLocked == FALSE

CeilingIsLocked == \E s \in Sessions : At(s, "post")

\* save_ceiling, of a row that exists
SaveCeiling(n) ==
    /\ ~CeilingIsLocked /\ n # ceiling
    /\ ceiling' = n
    /\ UNCHANGED <<record, session, cutOff>>

-----------------------------------------------------------------------------
(* evaluate_recognition: milestones, then badges, each by its own view of   *)
(* the total; whoever inserts an award pays for it in the next transaction. *)

FindDue(s) ==
    /\ \/ /\ At(s, "milestones")
          /\ Goes(s, [pc |-> "award", todo |-> Due(Milestones), next |-> "badges"])
       \/ /\ At(s, "badges")
          /\ Goes(s, [pc |-> "award", todo |-> Due(Badges), next |-> "rules"])
    /\ UNCHANGED <<record, ceiling, cutOff>>

\* Mutant: the award is inserted and its points are left to the next evaluation.
GrantUnpaid(s, a) ==
    /\ At(s, "award") /\ a \in session[s].todo \ held
    /\ held' = held \cup {a}
    /\ UNCHANGED <<item, points, adjusted, revoked, ranks, ceiling, session, cutOff>>

\* award_milestone, award_badge; a row that exists, revoked or not, is passed over
Grant(s, a) ==
    /\ At(s, "award") /\ a \in session[s].todo \ held
    /\ held' = held \cup {a}
    /\ Goes(s, [pc |-> "pay", todo |-> session[s].todo \ {a}, next |-> session[s].next, award |-> a])
    /\ UNCHANGED <<item, points, adjusted, revoked, ranks, ceiling, cutOff>>

Pay(s) ==
    LET a == session[s].award IN
    /\ At(s, "pay")
    /\ Posted(a, Reward[a])
    /\ Goes(s, [pc |-> "award", todo |-> session[s].todo, next |-> session[s].next])
    /\ UNCHANGED <<item, adjusted, held, revoked, ranks, ceiling, cutOff>>

NothingDue(s) ==
    /\ At(s, "award") /\ session[s].todo \subseteq held
    /\ Goes(s, [pc |-> session[s].next])
    /\ UNCHANGED <<record, ceiling, cutOff>>

\* evaluate_achievement_rules: one transaction for all of them.  A revoked badge
\* collides with its unique key: nothing is awarded, and the handler fails.
EvaluateRules(s) ==
    LET due == Due(Rules) \ held IN
    /\ At(s, "rules")
    /\ IF \E r \in due : RuleBadge[r] \in revoked
       THEN /\ Goes(s, Idle)
            /\ UNCHANGED record
       ELSE /\ held' = held \cup due \cup {RuleBadge[r] : r \in due}
            /\ points' = [k \in DOMAIN points |-> IF k \in due THEN Reward[k] ELSE points[k]]
            /\ Goes(s, [pc |-> "rank"])
            /\ UNCHANGED <<item, adjusted, revoked, ranks>>
    /\ UNCHANGED <<ceiling, cutOff>>

\* evaluate_rank_progression: the highest rank due, unless one as high is known
ReadRank(s) ==
    LET due == {r \in Ranks : r <= Total} IN
    /\ At(s, "rank")
    /\ Goes(s, IF due # {} /\ \A q \in ranks : q < Max(due)
               THEN [pc |-> "ranked", rank |-> Max(due)] ELSE Idle)
    /\ UNCHANGED <<record, ceiling, cutOff>>

CommitRank(s) ==
    /\ At(s, "ranked") /\ session[s].rank \notin ranks
    /\ ranks' = ranks \cup {session[s].rank}
    /\ Goes(s, Idle)
    /\ UNCHANGED <<item, points, adjusted, held, revoked, ceiling, cutOff>>

-----------------------------------------------------------------------------

\* adjust_points; recognition is not evaluated
Adjust(n) ==
    /\ n \notin adjusted
    /\ adjusted' = adjusted \cup {n}
    /\ UNCHANGED <<item, points, held, revoked, ranks, ceiling, session, cutOff>>

\* revoke_badge_award
Revoke(b) ==
    /\ b \in held \ revoked
    /\ revoked' = revoked \cup {b}
    /\ UNCHANGED <<item, points, adjusted, held, ranks, ceiling, session, cutOff>>

\* a collision of unique keys, a failed commit, or the process dies
Abort(s) ==
    /\ session[s] # Idle
    /\ Goes(s, Idle)
    /\ cutOff' = IF At(s, "pay") THEN cutOff \cup {session[s].award} ELSE cutOff
    /\ UNCHANGED <<record, ceiling>>

Next ==
    \/ \E s \in Sessions :
         \/ \E i \in Items, approve \in BOOLEAN : Review(s, i, approve)
         \/ Decide(s) \/ SumAwarded(s) \/ ReadCeiling(s) \/ PostItem(s)
         \/ FindDue(s) \/ Pay(s) \/ NothingDue(s)
         \/ \E a \in Milestones \cup Badges : Grant(s, a)
         \/ EvaluateRules(s) \/ ReadRank(s) \/ CommitRank(s) \/ Abort(s)
    \/ \E n \in Ceilings : SaveCeiling(n)
    \/ \E n \in Adjustments : Adjust(n)
    \/ \E b \in Badges : Revoke(b)

Spec == Init /\ [][Next]_vars

-----------------------------------------------------------------------------
(* Properties. *)

\* The record keeps its types, and only an award that is held is paid.
TypeOK ==
    /\ item \in [Items -> ItemStatus]
    /\ points \in [Items \cup Awards -> Nat]
    /\ adjusted \subseteq Adjustments /\ ranks \subseteq Ranks /\ ceiling \in Ceilings
    /\ held \subseteq Awards /\ revoked \subseteq Badges \cap held
    /\ \A a \in Awards : points[a] > 0 => a \in held

\* An award and its points are two transactions, and later evaluations pass over
\* an award that is held.  Still every award is paid, unless the very session
\* that inserted it was cut off, or a rule gave it and has points of its own; a
\* rule's badge is never left out.
AwardIsPaid ==
    /\ \A a \in held \ cutOff :
        \/ points[a] = Reward[a]
        \/ \E s \in Sessions : At(s, "pay") /\ session[s].award = a
        \/ \E r \in Rules \cap held : RuleBadge[r] = a
    /\ \A r \in Rules \cap held : RuleBadge[r] \in held

\* The cap is summed before the award and without a lock: sessions that approve
\* at once overrun it, by one contribution for each other session and no more.
CapOverrunIsBounded ==
    SumOf(points, Capped) <= Cap + (Cardinality(Sessions) - 1) * Worth

\* Nothing is posted above a ceiling that was saved before, however old the
\* reward that was read: "cap changes wait for in-flight awards"
\* (point_policy.py:18).
KeepsCeiling == \A i \in Items : points'[i] # points[i] => points'[i] <= ceiling
CeilingIsKept == [][KeepsCeiling]_vars

=============================================================================
