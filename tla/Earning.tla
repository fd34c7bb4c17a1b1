------------------------------ MODULE Earning -------------------------------
(***************************************************************************)
(* How a member earns points: the registration for an opportunity and the   *)
(* activities it records (Opportunities), the verification of an attendance *)
(* (Attendance), and the review of activities and contributions with the    *)
(* recognition that follows (ImpactPoints).                                *)
(*                                                                         *)
(* The three share no state but the list of transactions, to which each     *)
(* adds by keys of its own.  So nothing is lost where only one of them      *)
(* moves in a behaviour: "part" says which, and the others are absent or    *)
(* stay in an initial state.                                               *)
(***************************************************************************)
EXTENDS Opportunities

CONSTANTS
    Required, Peers, ConfirmationsRequired, Geofenced, MaxNet,
    Items, Capped, Worth, Cap, Ceilings, Milestones, Badges, Rules, RuleBadge,
    Reward, Threshold, Ranks, Adjustments

VARIABLES
    part,
    status, checkedOut, signal, confirmed, awarded, net, request, undisturbed,
    item, points, adjusted, held, revoked, ranks, ceiling, reviewer, unpaid

presenceVars == <<status, checkedOut, signal, confirmed, awarded, net, request, undisturbed>>
pointsVars == <<item, points, adjusted, held, revoked, ranks, ceiling, reviewer, unpaid>>

Presence == INSTANCE Attendance WITH session <- request

Points == INSTANCE ImpactPoints WITH session <- reviewer, cutOff <- unpaid

ASSUME PresenceAssumption == Presence!AttendanceAssumption
ASSUME PointsAssumption == Points!ImpactAssumption

Absent == "absent"

EarningInit ==
    /\ part \in {"work", "presence", "points"}
    /\ Init
    /\ IF part = "presence" THEN Presence!Init
       ELSE /\ status = Absent /\ checkedOut = Absent /\ signal = Absent /\ confirmed = Absent
            /\ awarded = Absent /\ net = Absent /\ request = Absent /\ undisturbed = Absent
    /\ IF part = "points" THEN Points!Init
       ELSE /\ item = Absent /\ points = Absent /\ adjusted = Absent /\ held = Absent
            /\ revoked = Absent /\ ranks = Absent /\ ceiling = Absent
            /\ reviewer = Absent /\ unpaid = Absent

EarningNext ==
    /\ \/ part = "work" /\ Next /\ UNCHANGED <<presenceVars, pointsVars>>
       \/ part = "presence" /\ Presence!Next /\ UNCHANGED <<vars, pointsVars>>
       \/ part = "points" /\ Points!Next /\ UNCHANGED <<vars, presenceVars>>
    /\ UNCHANGED part

EarningSpec == EarningInit /\ [][EarningNext]_<<part, vars, presenceVars, pointsVars>>

-----------------------------------------------------------------------------
(* The properties of the parts; those of Opportunities go by their names. *)

\* Attendance: points and statuses are earned by verification, confirmations are
\* noticed, and the organizer's decision stands.
EarnedIsVerified == part = "presence" => Presence!EarnedIsVerified
ConfirmationsAreNoticed == part = "presence" => Presence!ConfirmationsAreNoticed
DecisionStands == part = "presence" => Presence!DecisionStands

\* ImpactPoints: awards are paid, overruns of a cap are bounded, and a ceiling
\* holds.
AwardIsPaid == part = "points" => Points!AwardIsPaid
CapOverrunIsBounded == part = "points" => Points!CapOverrunIsBounded
CeilingIsKept == [][part = "points" => Points!KeepsCeiling]_pointsVars
=============================================================================
