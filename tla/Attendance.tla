----------------------------- MODULE Attendance -----------------------------
(***************************************************************************)
(* One attendee's attendance of one event (services/attendance.py,         *)
(* services/ticket_attendance.py): check-in and checkout, door scans, peer *)
(* confirmations and the organizer's decision each leave a signal; after   *)
(* that has committed, the status is computed from all signals, points are *)
(* awarded, and a decision compensates the points posted so far.           *)
(*                                                                         *)
(* Each of these is a transaction of its own.  A handler goes by the copy  *)
(* of the status it read first or has computed.                         *)
(***************************************************************************)
EXTENDS Integers, FiniteSets

CONSTANTS
    Required,               \* event.required_verification_methods
    Peers,                  \* other attendees who may confirm this one
    ConfirmationsRequired,  \* event.confirmations_required
    Sessions,
    Geofenced,              \* event.geofence_enabled
    MaxNet                  \* bound: no decision is taken further off than this

Methods == {"gps", "gps_checkout", "qr", "peer", "organizer"}

\* assumed by the modules that instantiate this one
AttendanceAssumption ==
    /\ Required \subseteq Methods \ {"gps_checkout"}
    /\ ConfirmationsRequired \in Nat \ {0}
    /\ Geofenced \in BOOLEAN
    /\ MaxNet \in Nat
    /\ IsFiniteSet(Sessions) /\ Sessions # {}

\* what becomes of a position; an event without a geofence asks for none
Positions == IF Geofenced THEN {"valid", "invalid"} ELSE {"none"}

VARIABLES
    status,     \* attendances.status; "absent" while there is no row
    checkedOut, \* checked_out_at is set
    signal,     \* per method its AttendanceVerification
    confirmed,  \* peers whose PeerConfirmation is CONFIRMED
    awarded,    \* the transaction with the key attendance:<id>:verified exists
    net,        \* sum of posted transactions, in multiples of the rule's points
    session,    \* per session: where it is, and its copy of the status
    undisturbed \* the last decision was new, ran with no other handler and was not cut off;
                \* if an approval, it found no points that were reversed twice

rows == <<status, checkedOut, signal, confirmed, awarded, net>>
vars == <<rows, session, undisturbed>>

AttendanceStatus == {"checked_in", "gps_verified", "qr_verified", "peer_verified",
                     "organizer_verified", "rejected"}
Evidence == {"none", "valid", "invalid"}
Idle == [pc |-> "idle"]
At(s, pc) == session[s].pc = pc
Goes(s, step) == session' = [session EXCEPT ![s] = step]
Then(s, pc) == Goes(s, [session[s] EXCEPT !.pc = pc])
Valid(signals) == {m \in Methods : signals[m] = "valid"}
Deciding(s) == session[s] # Idle /\ session[s].by = "organizer"

\* calculate_attendance_confidence
StatusFrom(signals) ==
    LET valid == Valid(signals) IN
    IF signals["organizer"] = "invalid" THEN "rejected"
    ELSE IF "organizer" \in valid THEN "organizer_verified"
    ELSE IF ~(Required \subseteq valid) THEN "checked_in"
    ELSE IF "qr" \in valid THEN "qr_verified"
    ELSE IF "gps" \in valid THEN "gps_verified"
    ELSE IF "peer" \in valid THEN "peer_verified"
    ELSE "checked_in"

\* its weights name no gps_checkout: a valid one fails the sum (KeyError)
Computable(signals) ==
    signals["organizer"] = "invalid" \/ "gps_checkout" \notin Valid(signals)

Init ==
    /\ status = "absent" /\ checkedOut = FALSE
    /\ signal = [m \in Methods |-> "none"]
    /\ confirmed = {}
    /\ awarded = FALSE /\ net = 0
    /\ session = [s \in Sessions |-> Idle]
    /\ undisturbed = FALSE

\* a handler that is no decision begins, or does all its work at once
Starts == undisturbed' = (undisturbed /\ ~\E r \in Sessions : Deciding(r))

-----------------------------------------------------------------------------
(* The signals. *)

\* self_check_in and check_in of the attendance routes: one transaction.  The
\* event may ask for a position, which verifies or is left to review.  A second
\* row of this user collides.
CheckIn(s, position) ==
    /\ At(s, "idle") /\ status = "absent"
    /\ status' = IF position = "valid" THEN "gps_verified" ELSE "checked_in"
    /\ signal' = [signal EXCEPT !["gps"] = position]
    /\ Goes(s, [pc |-> IF position = "none" THEN "award" ELSE "score",
                by |-> "gps", copy |-> status'])
    /\ Starts
    /\ UNCHANGED <<checkedOut, confirmed, awarded, net>>

\* self_check_out, under the row's lock; no score is computed
CheckOut(s, position) ==
    /\ At(s, "idle") /\ status \notin {"absent", "rejected"} /\ ~checkedOut
    /\ checkedOut' = TRUE
    /\ signal' = [signal EXCEPT !["gps_checkout"] = position]
    /\ Starts
    /\ UNCHANGED <<status, confirmed, awarded, net, session>>

\* the route of qr_verify has loaded the attendance; validate_ticket has not
ReadScan(s) ==
    /\ At(s, "idle")
    /\ \E copy \in {"absent", status} : Goes(s, [pc |-> "scan", by |-> "qr", copy |-> copy])
    /\ Starts
    /\ UNCHANGED rows

\* record_qr_attendance, under the row's lock: what is loaded first stays
Scan(s) ==
    /\ At(s, "scan") /\ signal["qr"] = "none"
    /\ status' = IF status = "absent" THEN "checked_in" ELSE status
    /\ signal' = [signal EXCEPT !["qr"] = "valid"]
    /\ Goes(s, [session[s] EXCEPT !.pc = "score", !.copy = IF @ = "absent" THEN status' ELSE @])
    /\ UNCHANGED <<checkedOut, confirmed, awarded, net, undisturbed>>

\* uq_peer_confirmation_pair: p has not confirmed and is not about to
Unconfirmed(p) ==
    /\ p \notin confirmed
    /\ \A r \in Sessions : At(r, "confirm") => session[r].peer # p

\* Mutant: the count is taken before the confirmation is inserted
CountsEarly(s, p) ==
    /\ At(s, "idle") /\ p \notin confirmed
    /\ status \notin {"absent", "rejected"}
    /\ Goes(s, [pc |-> "confirm", by |-> "peer", copy |-> status, peer |-> p, seen |-> signal["peer"],
                enough |-> Cardinality(confirmed) >= ConfirmationsRequired])
    /\ Starts
    /\ UNCHANGED rows

\* confirm_peer inserts its confirmation and counts: its own and the committed
ReadConfirm(s, p) ==
    /\ At(s, "idle") /\ Unconfirmed(p)
    /\ status \notin {"absent", "rejected"}
    /\ Goes(s, [pc |-> "confirm", by |-> "peer", copy |-> status, peer |-> p, seen |-> signal["peer"],
                enough |-> Cardinality(confirmed) + 1 >= ConfirmationsRequired])
    /\ Starts
    /\ UNCHANGED rows

\* the second of two first PEER signals collides
CommitConfirm(s) ==
    /\ At(s, "confirm")
    /\ session[s].enough /\ session[s].seen = "none" => signal["peer"] = "none"
    /\ confirmed' = confirmed \cup {session[s].peer}
    /\ signal' = IF session[s].enough THEN [signal EXCEPT !["peer"] = "valid"] ELSE signal
    /\ Goes(s, IF session[s].enough THEN [pc |-> "score", by |-> session[s].by, copy |-> session[s].copy] ELSE Idle)
    /\ UNCHANGED <<status, checkedOut, awarded, net, undisturbed>>

-----------------------------------------------------------------------------
(* organizer_verify, called by its route or by resolve_review. *)

ReadDecision(s, decision) ==
    /\ At(s, "idle") /\ status # "absent" /\ net \in (0 - MaxNet)..MaxNet
    /\ Goes(s, [pc |-> "decide", by |-> "organizer", copy |-> status,
                seen |-> signal["organizer"], decision |-> decision])
    /\ undisturbed' = ((\A r \in Sessions \ {s} : session[r] = Idle) /\ (decision = "valid" => net >= 0))
    /\ UNCHANGED rows

Decided(s, new) ==
    [pc |-> "score", by |-> session[s].by, copy |-> session[s].copy, decision |-> session[s].decision, new |-> new]

\* a decision made again for the same reason only scores and awards again (points
\* that a rejection was cut off before reversing stay); a first one inserts, and
\* collides with another; any other one is written over the row, where it differs
\* from what was read
CommitDecision(s) ==
    LET seen == session[s].seen  decision == session[s].decision IN
    /\ At(s, "decide")
    /\ \/ /\ seen = decision
          /\ Goes(s, Decided(s, FALSE))
          /\ undisturbed' = FALSE
          /\ UNCHANGED signal
       \/ /\ seen = "none" => signal["organizer"] = "none"
          /\ signal' = IF seen = decision THEN signal ELSE [signal EXCEPT !["organizer"] = decision]
          /\ Goes(s, Decided(s, TRUE))
          /\ UNCHANGED undisturbed
    /\ UNCHANGED <<status, checkedOut, confirmed, awarded, net>>

-----------------------------------------------------------------------------
(* What follows a signal. *)

\* an organizer's session has its own decision loaded
Loaded(s) ==
    IF Deciding(s) THEN [signal EXCEPT !["organizer"] = session[s].decision] ELSE signal

\* calculate_attendance_confidence reads; where the sum fails, the handler ends
ReadSignals(s) ==
    /\ At(s, "score")
    /\ IF Computable(Loaded(s))
       THEN Goes(s, [session[s] EXCEPT !.pc = StatusFrom(Loaded(s))])
       ELSE Goes(s, Idle)
    /\ UNCHANGED <<rows, undisturbed>>

\* and writes; a status equal to the copy is not written
WriteStatus(s) ==
    LET new == session[s].pc IN
    /\ new \in AttendanceStatus
    /\ status' = IF new = session[s].copy THEN status ELSE new
    /\ Goes(s, [session[s] EXCEPT !.copy = new,
                  !.pc = IF Deciding(s) /\ session[s].new /\ session[s].decision = "invalid"
                         THEN "compensate" ELSE "award"])
    /\ UNCHANGED <<checkedOut, signal, confirmed, awarded, net, undisturbed>>

\* Mutant: one method is enough for points
QualifiedByAny(s) == session[s].copy # "rejected" /\ Valid(signal) # {}

Qualified(s) ==
    /\ session[s].copy # "rejected"
    /\ "organizer" \in Valid(signal) \/ Required \subseteq Valid(signal)

\* award_qualified_attendance: award_points by a unique key
Award(s) ==
    /\ At(s, "award")
    /\ awarded' = (awarded \/ Qualified(s))
    /\ net' = IF awarded' /\ ~awarded THEN net + 1 ELSE net
    /\ IF Deciding(s) /\ session[s].new THEN Then(s, "compensate") ELSE Goes(s, Idle)
    /\ UNCHANGED <<status, checkedOut, signal, confirmed, undisturbed>>

\* Mutant: an approval relies on the award, which was made before.
OwedToRejection(decision) == IF decision = "invalid" /\ net > 0 THEN 0 - net ELSE 0

\* _compensate_attendance_points: what it adds, by the transactions it finds
Owed(decision) ==
    CASE decision = "valid" /\ net <= 0 /\ awarded -> 1
      [] decision = "invalid" /\ net > 0           -> 0 - net
      [] OTHER                                     -> 0

ReadPosted(s) ==
    /\ At(s, "compensate")
    /\ Goes(s, [pc |-> "post", by |-> "organizer", owed |-> Owed(session[s].decision)])
    /\ UNCHANGED <<rows, undisturbed>>

Compensate(s) ==
    /\ At(s, "post")
    /\ net' = net + session[s].owed
    /\ Goes(s, Idle)
    /\ UNCHANGED <<status, checkedOut, signal, confirmed, awarded, undisturbed>>

\* a refusal, a duplicate scan, a failed commit, or the process dies
Abort(s) ==
    /\ session[s] # Idle
    /\ Goes(s, Idle)
    /\ undisturbed' = (undisturbed /\ ~Deciding(s))
    /\ UNCHANGED rows

Next == \E s \in Sessions :
    \/ \E position \in Positions : CheckIn(s, position) \/ CheckOut(s, position)
    \/ ReadScan(s) \/ Scan(s)
    \/ \E p \in Peers : ReadConfirm(s, p)
    \/ CommitConfirm(s)
    \/ \E decision \in {"valid", "invalid"} : ReadDecision(s, decision)
    \/ CommitDecision(s)
    \/ ReadSignals(s) \/ WriteStatus(s)
    \/ Award(s) \/ ReadPosted(s) \/ Compensate(s)
    \/ Abort(s)

Spec == Init /\ [][Next]_vars

-----------------------------------------------------------------------------
(* Properties. *)

\* Rows and copies keep their types, and no row of the attendance exists before
\* the attendance itself.
TypeOK ==
    /\ status \in AttendanceStatus \cup {"absent"}
    /\ signal \in [Methods -> Evidence]
    /\ confirmed \subseteq Peers
    /\ checkedOut \in BOOLEAN /\ awarded \in BOOLEAN /\ net \in Int
    /\ DOMAIN session = Sessions
    /\ status = "absent" =>
           ~checkedOut /\ ~awarded /\ net = 0 /\ Valid(signal) = {} /\ confirmed = {}

\* Points and a verified status are only ever earned by the required methods or
\* by an organizer's word, in whatever order signals, scores and awards commit.
\* An award that is late goes by the signals there are then; a score that is
\* late may write an old status, but never one without its signal.
EarnedIsVerified ==
    /\ awarded => Required \subseteq Valid(signal) \/ signal["organizer"] # "none"
    /\ status = "gps_verified" => signal["gps"] = "valid"
    /\ status \in {"qr_verified", "peer_verified"} => Required \subseteq Valid(signal)
    /\ status \in {"rejected", "organizer_verified"} => signal["organizer"] # "none"

\* The confirmations are counted without a lock: peers who confirm at once miss
\* each other, and the signal may wait for further ones, one for each other
\* session and no more.
ConfirmationsAreNoticed ==
    signal["peer"] = "none" =>
        Cardinality(confirmed) <= ConfirmationsRequired - 1 + Cardinality(Sessions) - 1

\* Between two decisions the organizer's word is final: after a decision that
\* ran alone, scans, confirmations and checkouts, interleaved and interrupted as
\* they may be, neither restore a rejected attendance or its points nor take an
\* approved one or its points back, however often it was decided before.  (An
\* approval after a verified checkout: see below.  Points that two rejections
\* at once have both reversed stay lost, as the original is restored once.)
Quiet == \A s \in Sessions : ~Deciding(s)
DecisionStands ==
    undisturbed /\ Quiet =>
        /\ signal["organizer"] = "invalid" => status = "rejected" /\ net <= 0
        /\ signal["organizer"] = "valid" /\ signal["gps_checkout"] # "valid" =>
               status = "organizer_verified" /\ awarded /\ net > 0

\* "An explicit organizer approval is the configured human fallback for
\* uncertain device GPS" (attendance.py:69): an approval that ran alone and
\* uninterrupted shows in the status.
ApprovedIsVerified ==
    undisturbed /\ Quiet /\ signal["organizer"] = "valid" => status = "organizer_verified"
=============================================================================
