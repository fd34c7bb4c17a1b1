---------------------------- MODULE EarningProofs ----------------------------
(***************************************************************************)
(* Proofs about Earning, for every number of participants, peers, items,    *)
(* awards and sessions.                                                    *)
(*                                                                         *)
(* Hardly a handler of these parts locks anything, so the invariants say    *)
(* what a session may still rely on after others have overtaken it: that    *)
(* evidence is never withdrawn (Attendance), that a key is posted once      *)
(* (ImpactPoints), and who counts for whose overrun (Opportunities).        *)
(***************************************************************************)
EXTENDS Earning, FiniteSetTheorems, SequenceTheorems, WellFoundedInduction, TLAPS

-----------------------------------------------------------------------------
(* Opportunities: the invariant. *)

ActivityRow == [status : {"pending", "verified", "rejected"}, paid : BOOLEAN]
Begun == {"completed", "verified", "rejected"}

Joining == {s \in Sessions : At(s, "join")}
Completing(p) == {s \in Sessions : At(s, "complete") /\ Who(s) = p}

WorkTypes ==
    /\ opportunity \in OpportunityRow
    /\ registration \in [Participants -> RegistrationStatus]
    /\ activities \in [Participants -> Seq(ActivityRow)]
    /\ session = [s \in Sessions |-> session[s]]

\* Who has joined, or has seen a place and will join, is within the overrun.
PlacesAreBounded ==
    /\ IsFiniteSet(Registered)
    /\ Cardinality(Registered) + Cardinality(Joining) <= Max(Capacities) + Cardinality(Sessions) - 1

\* Of a registration that was begun no session thinks otherwise; and where nobody
\* has overwritten another's status, the activity decided is the only one.
WorkKnows(s) ==
    /\ session[s].pc \in {"join", "complete", "pick", "decide", "award"} => Who(s) \in Participants
    /\ At(s, "edit") => session[s].capacity \in Capacities
    /\ session[s].pc \in {"pick", "decide"} => session[s].approve \in BOOLEAN
    /\ At(s, "complete") => registration[Who(s)] # "none"
    /\ session[s].pc \in {"pick", "decide", "award"} => registration[Who(s)] \in Begun
    /\ At(s, "decide") /\ Who(s) \notin contested /\ registration[Who(s)] = "completed"
          => session[s].activity = 1
    /\ At(s, "award") /\ Who(s) \notin contested
          => registration[Who(s)] = "verified" /\ session[s].activity = 1

\* DecisionIsTheActivitys, of one participant
ActivityFollows(p) ==
    /\ Len(activities[p]) = 1
    /\ activities[p][1].status = IF registration[p] = "completed" THEN "pending" ELSE registration[p]
    /\ activities[p][1].paid => registration[p] = "verified"
    /\ registration[p] = "verified" =>
         \/ activities[p][1].paid \/ p \in cutOff
         \/ \E s \in Sessions : At(s, "award") /\ Who(s) = p

ParticipantIsRight(p) ==
    /\ registration[p] \in {"none", "registered"} => activities[p] = <<>>
    /\ Len(activities[p]) + Cardinality(Completing(p)) <= Cardinality(Sessions)
    /\ p \notin contested /\ registration[p] \in Begun => ActivityFollows(p)

WorkInv ==
    /\ WorkTypes
    /\ PlacesAreBounded
    /\ \A s \in Sessions : WorkKnows(s)
    /\ \A p \in Participants : ParticipantIsRight(p)

-----------------------------------------------------------------------------
(* Opportunities: what one session's step leaves of the others. *)

LEMMA LargestCapacity ==
  /\ Max(Capacities) \in Capacities /\ Max(Capacities) \in Nat \ {0}
  /\ \A c \in Capacities : c \in Nat /\ c <= Max(Capacities)
<1>1. PICK c \in Capacities : \A d \in Capacities : d <= c
  BY OpportunityAssumption
<1>2. \E x \in Capacities : \A y \in Capacities : x >= y
  BY <1>1, OpportunityAssumption
<1>3. Max(Capacities) \in Capacities /\ \A y \in Capacities : Max(Capacities) >= y
  BY <1>2 DEF Max
<1> QED
  BY <1>3, OpportunityAssumption

\* Nobody is unregistered, and an uncontested status only moves forward.
Forward(p) ==
    /\ registration[p] # "none" => registration'[p] # "none"
    /\ registration[p] \in Begun => registration'[p] \in Begun
    /\ p \in contested => p \in contested'
    /\ p \notin contested' /\ registration'[p] = "completed" => registration[p] \in {"completed", "registered"}
    /\ p \notin contested' /\ registration[p] = "verified" => registration'[p] = "verified"

\* s leaves the rows of p alone and does not go on to complete for p.
Untouched(s, p) ==
    /\ registration'[p] = registration[p] /\ activities'[p] = activities[p]
    /\ p \in contested <=> p \in contested'
    /\ p \in cutOff => p \in cutOff'
    /\ At(s, "award") /\ Who(s) = p => p \in cutOff'
    /\ At(s, "complete")' /\ Who(s)' = p => At(s, "complete") /\ Who(s) = p

LEMMA SessionsMove ==
  ASSUME WorkTypes, NEW s \in Sessions, NEW step, Goes(s, step)
  PROVE  /\ session' = [r \in Sessions |-> session'[r]] /\ session'[s] = step
         /\ \A r \in Sessions \ {s} : session'[r] = session[r]
BY DEF WorkTypes, Goes

LEMMA CompletingShrinks ==
  ASSUME WorkInv, NEW s \in Sessions, NEW step, Goes(s, step), NEW p \in Participants,
         At(s, "complete")' /\ Who(s)' = p => At(s, "complete") /\ Who(s) = p
  PROVE  /\ Cardinality(Completing(p)') <= Cardinality(Completing(p))
         /\ Cardinality(Completing(p)) \in Nat /\ Cardinality(Completing(p)') \in Nat
<1>1. Completing(p)' \subseteq Completing(p)
  BY SessionsMove DEF WorkInv, Completing, At, Who
<1>2. IsFiniteSet(Completing(p))
  BY FS_Subset, OpportunityAssumption DEF Completing
<1> HIDE DEF Completing
<1> QED
  BY <1>1, <1>2, FS_Subset, FS_CardinalityType

LEMMA WorkMoves ==
  ASSUME WorkInv, NEW s \in Sessions, NEW step, Goes(s, step),
         WorkTypes', PlacesAreBounded', WorkKnows(s)',
         \A p \in Participants : Forward(p),
         \A p \in Participants : Untouched(s, p) \/ ParticipantIsRight(p)'
  PROVE  WorkInv'
<1>1. session'[s] = step /\ \A r \in Sessions \ {s} : session'[r] = session[r]
  BY SessionsMove DEF WorkInv
<1>2. ASSUME NEW r \in Sessions, r # s PROVE WorkKnows(r)'
  <2>1. session'[r] = session[r] /\ WorkKnows(r)
    BY <1>1, <1>2 DEF WorkInv
  <2>2. CASE Who(r) \in Participants
    <3>1. Forward(Who(r))
      BY <2>2
    <3> QED
      BY <2>1, <3>1 DEF WorkKnows, Forward, At, Who, Begun
  <2>3. CASE Who(r) \notin Participants
    BY <2>1, <2>3 DEF WorkKnows, At, Who
  <2> QED
    BY <2>2, <2>3
<1>3. ASSUME NEW p \in Participants, Untouched(s, p) PROVE ParticipantIsRight(p)'
  <2>1. ParticipantIsRight(p) /\ Len(activities[p]) \in Nat /\ Cardinality(Sessions) \in Nat
    BY OpportunityAssumption, FS_CardinalityType DEF WorkInv, WorkTypes
  <2>2. /\ Cardinality(Completing(p)') <= Cardinality(Completing(p))
        /\ Cardinality(Completing(p)) \in Nat /\ Cardinality(Completing(p)') \in Nat
    BY <1>3, CompletingShrinks DEF Untouched
  <2>3. Len(activities'[p]) + Cardinality(Completing(p)') <= Cardinality(Sessions)
    BY <1>3, <2>1, <2>2 DEF ParticipantIsRight, Untouched
  <2>4. ASSUME p \notin contested', registration'[p] \in Begun PROVE ActivityFollows(p)'
    <3>1. ActivityFollows(p)
      BY <1>3, <2>1, <2>4 DEF ParticipantIsRight, Untouched
    <3>2. ASSUME NEW r \in Sessions, At(r, "award"), Who(r) = p
          PROVE  \/ p \in cutOff'
                 \/ At(r, "award")' /\ Who(r)' = p
      <4>1. CASE r = s
        BY <1>3, <3>2, <4>1 DEF Untouched
      <4>2. CASE r # s
        BY <1>1, <3>2, <4>2 DEF At, Who
      <4> QED
        BY <4>1, <4>2
    <3> QED
      BY <1>3, <3>1, <3>2 DEF ActivityFollows, Untouched
  <2> QED
    BY <1>3, <2>1, <2>3, <2>4 DEF ParticipantIsRight, Untouched
<1> QED
  BY <1>2, <1>3 DEF WorkInv

\* The steps that write no registration and no activity, and complete nothing.
LEMMA WorkReads ==
  ASSUME WorkInv, NEW s \in Sessions, NEW step, Goes(s, step),
         opportunity' \in OpportunityRow, UNCHANGED <<registration, activities, contested>>,
         cutOff \subseteq cutOff', At(s, "award") => Who(s) \in cutOff',
         WorkKnows(s)', step.pc \notin {"join", "complete"}
  PROVE  WorkInv'
<1>1. session' = [r \in Sessions |-> session'[r]] /\ session'[s] = step
      /\ \A r \in Sessions \ {s} : session'[r] = session[r]
  BY SessionsMove DEF WorkInv
<1>2. WorkTypes'
  BY <1>1 DEF WorkInv, WorkTypes
<1>3. Joining' \subseteq Joining /\ Registered' = Registered
  BY <1>1 DEF Joining, Registered, At
<1>4. IsFiniteSet(Joining)
  BY FS_Subset, OpportunityAssumption DEF Joining
<1>5. PlacesAreBounded'
  <2>1. /\ Cardinality(Joining)' <= Cardinality(Joining) /\ Cardinality(Registered)' = Cardinality(Registered)
        /\ Cardinality(Joining) \in Nat /\ Cardinality(Joining)' \in Nat
    <3> HIDE DEF Joining, Registered
    <3> QED BY <1>3, <1>4, FS_Subset, FS_CardinalityType
  <2>2. Cardinality(Sessions) \in Nat /\ Cardinality(Registered) \in Nat
    BY FS_CardinalityType, OpportunityAssumption DEF WorkInv, PlacesAreBounded
  <2> QED
    BY <1>3, <2>1, <2>2, LargestCapacity DEF WorkInv, PlacesAreBounded
<1>6. \A p \in Participants : Forward(p)
  BY DEF Forward, WorkInv, WorkTypes, RegistrationStatus
<1>7. \A p \in Participants : Untouched(s, p)
  BY <1>1 DEF Untouched, At
<1> QED
  BY <1>2, <1>5, <1>6, <1>7, WorkMoves

LEMMA WorkReadSteps ==
  ASSUME WorkInv, NEW s \in Sessions,
         \/ ReadDraft(s, [pc |-> "publish"])
         \/ \E c \in Capacities : ReadDraft(s, [pc |-> "edit", capacity |-> c])
         \/ Publish(s) \/ Update(s)
         \/ \E p \in Participants, approve \in BOOLEAN : ReadDecision(s, p, approve)
         \/ Abort(s)
  PROVE  WorkInv'
<1>1. ASSUME NEW step, Goes(s, step) PROVE session'[s] = step
  BY <1>1, SessionsMove DEF WorkInv
<1>2. WorkKnows(s) /\ opportunity \in OpportunityRow
  BY DEF WorkInv, WorkTypes
<1>3. ASSUME NEW step, Goes(s, step), step.pc = "idle" \/ step.pc = "publish", At(s, "award") => Who(s) \in cutOff',
             opportunity' \in OpportunityRow, UNCHANGED <<registration, activities, contested>>, cutOff \subseteq cutOff'
      PROVE  WorkInv'
  <2>1. WorkKnows(s)'
    BY <1>1, <1>3 DEF WorkKnows, At
  <2> QED
    BY <1>3, <2>1, WorkReads
<1>4. CASE ReadDraft(s, [pc |-> "publish"])
  BY <1>2, <1>3, <1>4 DEF ReadDraft, At
<1>5. ASSUME NEW c \in Capacities, ReadDraft(s, [pc |-> "edit", capacity |-> c]) PROVE WorkInv'
  <2>1. WorkKnows(s)'
    BY <1>1, <1>5 DEF WorkKnows, ReadDraft, At
  <2> QED
    BY <1>2, <1>5, <2>1, WorkReads DEF ReadDraft, At
<1>6. CASE Publish(s)
  <2>1. opportunity' \in OpportunityRow
    BY <1>2, <1>6 DEF Publish, OpportunityRow
  <2> QED
    BY <1>3, <1>6, <2>1 DEF Publish, At, Idle
<1>7. CASE Update(s)
  <2>1. opportunity' \in OpportunityRow
    BY <1>2, <1>7 DEF Update, OpportunityRow, WorkKnows
  <2> QED
    BY <1>3, <1>7, <2>1 DEF Update, At, Idle
<1>8. ASSUME NEW p \in Participants, NEW approve \in BOOLEAN, ReadDecision(s, p, approve) PROVE WorkInv'
  <2>1. WorkKnows(s)'
    BY <1>1, <1>8 DEF WorkKnows, ReadDecision, At, Who, Begun
  <2> QED
    BY <1>2, <1>8, <2>1, WorkReads DEF ReadDecision, At
<1>9. CASE Abort(s)
  <2>1. cutOff \subseteq cutOff' /\ (At(s, "award") => Who(s) \in cutOff')
    BY <1>9 DEF Abort
  <2> QED
    BY <1>2, <1>3, <1>9, <2>1 DEF Abort, Idle
<1> QED
  BY <1>4, <1>5, <1>6, <1>7, <1>8, <1>9

\* A place is seen before it is taken.
LEMMA WorkJoins ==
  ASSUME WorkInv, NEW s \in Sessions,
         \/ \E p \in Participants : ReadJoin(s, p)
         \/ Join(s)
  PROVE  WorkInv'
<1>0. PICK step : Goes(s, step)
  BY DEF ReadJoin, Join
<1>1. session' = [r \in Sessions |-> session'[r]] /\ session'[s] = step
      /\ \A r \in Sessions \ {s} : session'[r] = session[r]
  BY <1>0, SessionsMove DEF WorkInv
<1>2. /\ IsFiniteSet(Joining) /\ IsFiniteSet(Sessions) /\ IsFiniteSet(Registered)
      /\ Cardinality(Joining) \in Nat /\ Cardinality(Sessions) \in Nat /\ Cardinality(Registered) \in Nat
      /\ Cardinality(Registered) + Cardinality(Joining) <= Max(Capacities) + Cardinality(Sessions) - 1
      /\ Max(Capacities) \in Nat
  <2>1. IsFiniteSet(Joining)
    BY FS_Subset, OpportunityAssumption DEF Joining
  <2> QED
    BY <2>1, FS_CardinalityType, OpportunityAssumption, LargestCapacity DEF WorkInv, PlacesAreBounded
<1>3. ASSUME NEW q \in Participants, ReadJoin(s, q) PROVE WorkInv'
  <2>1. /\ step = [pc |-> "join", who |-> q] /\ At(s, "idle")
        /\ UNCHANGED <<opportunity, registration, activities, contested, cutOff>>
        /\ Cardinality(Registered) < opportunity.capacity
    BY <1>0, <1>1, <1>3, SessionsMove DEF WorkInv, ReadJoin, HasPlace
  <2>2. WorkTypes'
    BY <1>1, <2>1 DEF WorkInv, WorkTypes
  <2>3. PlacesAreBounded'
    <3>1. Registered' = Registered
      BY <2>1 DEF Registered
    <3>2. Joining' \subseteq Sessions
      BY DEF Joining
    <3>3. Cardinality(Joining') <= Cardinality(Sessions) /\ Cardinality(Joining') \in Nat
      BY <1>2, <3>2, FS_Subset, FS_CardinalityType
    <3>4. opportunity.capacity \in Nat /\ opportunity.capacity <= Max(Capacities)
      BY LargestCapacity DEF WorkInv, WorkTypes, OpportunityRow
    <3> QED
      BY <1>2, <2>1, <3>1, <3>3, <3>4 DEF PlacesAreBounded
  <2>4. WorkKnows(s)'
    BY <1>1, <2>1 DEF WorkKnows, At, Who
  <2>5. \A x \in Participants : Forward(x)
    BY <2>1 DEF Forward, WorkInv, WorkTypes, RegistrationStatus
  <2>6. \A x \in Participants : Untouched(s, x)
    BY <1>1, <2>1 DEF Untouched, At
  <2> QED
    BY <1>0, <2>2, <2>3, <2>4, <2>5, <2>6, WorkMoves
<1>4. CASE Join(s)
  <2>0. PICK q \in Participants : q = Who(s)
    BY <1>4 DEF WorkInv, Join, WorkKnows, At
  <2>1. /\ q \in Participants /\ At(s, "join") /\ registration[q] = "none"
        /\ registration' = [registration EXCEPT ![q] = "registered"]
        /\ step = Idle
        /\ UNCHANGED <<opportunity, activities, contested, cutOff>>
    BY <1>0, <1>1, <1>4, <2>0, SessionsMove DEF WorkInv, Join
  <2>2. /\ registration'[q] = "registered" /\ registration' \in [Participants -> RegistrationStatus]
        /\ \A x \in Participants \ {q} : registration'[x] = registration[x]
    BY <2>1 DEF WorkInv, WorkTypes, RegistrationStatus
  <2>3. WorkTypes'
    BY <1>1, <2>1, <2>2 DEF WorkInv, WorkTypes
  <2>4. PlacesAreBounded'
    <3>1. Registered' = Registered \cup {q} /\ q \notin Registered
      BY <2>1, <2>2 DEF Registered
    <3>2. Joining' = Joining \ {s} /\ s \in Joining
      BY <1>1, <2>1 DEF Joining, At, Idle
    <3>3. IsFiniteSet(Registered') /\ Cardinality(Registered') = Cardinality(Registered) + 1
      BY <1>2, <3>1, FS_AddElement
    <3>4. Cardinality(Joining') = Cardinality(Joining) - 1
      BY <1>2, <3>2, FS_RemoveElement
    <3> QED
      BY <1>2, <3>3, <3>4 DEF PlacesAreBounded
  <2>5. WorkKnows(s)'
    BY <1>1, <2>1 DEF WorkKnows, At, Idle
  <2>6. \A x \in Participants : Forward(x)
    BY <2>1, <2>2 DEF Forward, WorkInv, WorkTypes, RegistrationStatus, Begun
  <2>7. \A x \in Participants \ {q} : Untouched(s, x)
    BY <1>1, <2>1, <2>2 DEF Untouched, At, Idle
  <2>8. ParticipantIsRight(q)'
    <3>1. ParticipantIsRight(q) /\ Len(activities[q]) \in Nat
      BY <2>1 DEF WorkInv, WorkTypes
    <3>2. /\ Cardinality(Completing(q)') <= Cardinality(Completing(q))
          /\ Cardinality(Completing(q)) \in Nat /\ Cardinality(Completing(q)') \in Nat
      BY <1>0, <1>1, <2>1, CompletingShrinks DEF At, Idle
    <3>3. Len(activities[q]) + Cardinality(Completing(q)) <= Cardinality(Sessions)
      BY <3>1 DEF ParticipantIsRight
    <3>4. Len(activities'[q]) = Len(activities[q]) /\ Cardinality(Sessions) \in Nat
      BY <1>2, <2>1
    <3>5. Len(activities'[q]) + Cardinality(Completing(q)') <= Cardinality(Sessions)
      <4> HIDE DEF Completing
      <4> QED BY ONLY <3>1, <3>2, <3>3, <3>4
    <3> QED
      BY <2>1, <2>2, <3>1, <3>5 DEF ParticipantIsRight, Begun
  <2> QED
    BY <1>0, <2>3, <2>4, <2>5, <2>6, <2>7, <2>8, WorkMoves
<1> QED
  BY <1>3, <1>4

LEMMA PlacesKept ==
  ASSUME WorkInv, NEW s \in Sessions, NEW step, Goes(s, step), step.pc # "join", Registered' \subseteq Registered
  PROVE  PlacesAreBounded'
<1>1. session'[s] = step /\ \A r \in Sessions \ {s} : session'[r] = session[r]
  BY SessionsMove DEF WorkInv
<1>2. Joining' \subseteq Joining
  BY <1>1 DEF Joining, At
<1>3. IsFiniteSet(Joining)
  BY FS_Subset, OpportunityAssumption DEF Joining
<1>4. /\ Cardinality(Joining') <= Cardinality(Joining) /\ Cardinality(Registered') <= Cardinality(Registered)
      /\ Cardinality(Joining) \in Nat /\ Cardinality(Joining') \in Nat
      /\ Cardinality(Registered) \in Nat /\ Cardinality(Registered') \in Nat /\ IsFiniteSet(Registered')
  <2> HIDE DEF Joining, Registered
  <2> QED BY <1>2, <1>3, FS_Subset, FS_CardinalityType DEF WorkInv, PlacesAreBounded
<1>5. Cardinality(Sessions) \in Nat
  BY FS_CardinalityType, OpportunityAssumption
<1> QED
  BY <1>4, <1>5, LargestCapacity DEF WorkInv, PlacesAreBounded

\* Each session records at most one activity of a participant, for it has seen
\* the registration before the first was recorded.
LEMMA WorkCompletes ==
  ASSUME WorkInv, NEW s \in Sessions,
         \/ \E p \in Participants : ReadComplete(s, p)
         \/ Complete(s)
  PROVE  WorkInv'
<1>0. PICK step : Goes(s, step)
  BY DEF ReadComplete, Complete
<1>1. session' = [r \in Sessions |-> session'[r]] /\ session'[s] = step
      /\ \A r \in Sessions \ {s} : session'[r] = session[r]
  BY <1>0, SessionsMove DEF WorkInv
<1>2. IsFiniteSet(Sessions) /\ Cardinality(Sessions) \in Nat
  BY FS_CardinalityType, OpportunityAssumption
<1>3. ASSUME NEW q \in Participants, ReadComplete(s, q) PROVE WorkInv'
  <2>1. /\ step = [pc |-> "complete", who |-> q] /\ At(s, "idle") /\ registration[q] = "registered"
        /\ UNCHANGED <<opportunity, registration, activities, contested, cutOff>>
    BY <1>0, <1>1, <1>3, SessionsMove DEF WorkInv, ReadComplete, MayComplete
  <2>2. WorkTypes'
    BY <1>1, <2>1 DEF WorkInv, WorkTypes
  <2>3. PlacesAreBounded'
    BY <1>0, <2>1, PlacesKept DEF Registered
  <2>4. WorkKnows(s)'
    BY <1>1, <2>1 DEF WorkKnows, At, Who
  <2>5. \A x \in Participants : Forward(x)
    BY <2>1 DEF Forward, WorkInv, WorkTypes, RegistrationStatus
  <2>6. \A x \in Participants \ {q} : Untouched(s, x)
    BY <1>1, <2>1 DEF Untouched, At, Who
  <2>7. ParticipantIsRight(q)'
    <3>1. ParticipantIsRight(q)
      BY DEF WorkInv
    <3>2. activities'[q] = <<>> /\ registration'[q] = "registered"
      BY <2>1, <3>1 DEF ParticipantIsRight
    <3>3. Completing(q)' \subseteq Sessions
      BY DEF Completing
    <3>4. Cardinality(Completing(q)') <= Cardinality(Sessions) /\ Cardinality(Completing(q)') \in Nat
      BY <1>2, <3>3, FS_Subset, FS_CardinalityType
    <3>5. Len(activities'[q]) + Cardinality(Completing(q)') <= Cardinality(Sessions)
      BY <1>2, <3>2, <3>4
    <3> QED
      BY <3>2, <3>5 DEF ParticipantIsRight, Begun
  <2> QED
    BY <1>0, <2>2, <2>3, <2>4, <2>5, <2>6, <2>7, WorkMoves
<1>4. CASE Complete(s)
  <2>0. PICK q \in Participants : q = Who(s)
    BY <1>4 DEF WorkInv, Complete, WorkKnows, At
  <2>1. /\ At(s, "complete") /\ registration[q] # "none"
        /\ registration' = [registration EXCEPT ![q] = "completed"]
        /\ activities' = [activities EXCEPT ![q] = Append(@, Recorded)]
        /\ contested' = IF registration[q] = "registered" THEN contested ELSE contested \cup {q}
        /\ step = Idle /\ UNCHANGED <<opportunity, cutOff>>
    BY <1>0, <1>1, <1>4, <2>0, SessionsMove DEF WorkInv, WorkKnows, Complete, Notes
  <2>2. /\ registration'[q] = "completed" /\ registration' \in [Participants -> RegistrationStatus]
        /\ \A x \in Participants \ {q} : registration'[x] = registration[x]
    BY <2>1 DEF WorkInv, WorkTypes, RegistrationStatus
  <2>3. /\ activities[q] \in Seq(ActivityRow) /\ activities'[q] = Append(activities[q], Recorded)
        /\ activities'[q] \in Seq(ActivityRow) /\ activities' \in [Participants -> Seq(ActivityRow)]
        /\ \A x \in Participants \ {q} : activities'[x] = activities[x]
    <3>1. Recorded \in ActivityRow
      BY DEF Recorded, ActivityRow
    <3>2. activities \in [Participants -> Seq(ActivityRow)]
      BY DEF WorkInv, WorkTypes
    <3>3. Append(activities[q], Recorded) \in Seq(ActivityRow)
      BY <3>1, <3>2
    <3> QED
      BY <2>1, <3>2, <3>3
  <2>4. WorkTypes'
    BY <1>1, <2>1, <2>2, <2>3 DEF WorkInv, WorkTypes
  <2>5. PlacesAreBounded'
    <3>1. Registered' \subseteq Registered
      BY <2>2 DEF Registered
    <3> QED
      BY <1>0, <2>1, <3>1, PlacesKept DEF Idle
  <2>6. WorkKnows(s)'
    BY <1>1, <2>1 DEF WorkKnows, At, Idle
  <2>7. \A x \in Participants : Forward(x)
    BY <2>1, <2>2 DEF Forward, WorkInv, WorkTypes, RegistrationStatus, Begun
  <2>8. \A x \in Participants \ {q} : Untouched(s, x)
    BY <1>1, <2>1, <2>2, <2>3 DEF Untouched, At, Idle
  <2>9. ParticipantIsRight(q)'
    <3>1. ParticipantIsRight(q)
      BY DEF WorkInv
    <3>2. Completing(q)' = Completing(q) \ {s} /\ s \in Completing(q) /\ IsFiniteSet(Completing(q))
      <4>1. IsFiniteSet(Completing(q))
        BY FS_Subset, OpportunityAssumption DEF Completing
      <4> QED
        BY <1>1, <2>0, <2>1, <4>1 DEF Completing, At, Idle, Who
    <3>3. Cardinality(Completing(q)') = Cardinality(Completing(q)) - 1 /\ Cardinality(Completing(q)) \in Nat
      BY <3>2, FS_RemoveElement, FS_CardinalityType
    <3>4. Len(activities'[q]) = Len(activities[q]) + 1 /\ Len(activities[q]) \in Nat
      BY <2>3
    <3>5. Len(activities[q]) + Cardinality(Completing(q)) <= Cardinality(Sessions)
      BY <3>1 DEF ParticipantIsRight
    <3>6. Len(activities'[q]) + Cardinality(Completing(q)') <= Cardinality(Sessions)
      BY ONLY <1>2, <3>3, <3>4, <3>5
    <3>7. ASSUME q \notin contested' PROVE ActivityFollows(q)'
      <4>1. activities[q] = <<>>
        BY <2>1, <3>1, <3>7 DEF ParticipantIsRight
      <4>2. Len(activities'[q]) = 1 /\ activities'[q][1] = Recorded
        BY <2>3, <4>1
      <4> QED
        BY <2>2, <4>2 DEF ActivityFollows, Recorded
    <3> QED
      BY <2>2, <3>6, <3>7 DEF ParticipantIsRight
  <2> QED
    BY <1>0, <2>4, <2>5, <2>6, <2>7, <2>8, <2>9, WorkMoves
<1> QED
  BY <1>3, <1>4

\* One activity of a row, changed.
LEMMA ActivityChanges ==
  ASSUME NEW rows \in Seq(ActivityRow), NEW i, NEW row \in ActivityRow
  PROVE  /\ [rows EXCEPT ![i] = row] \in Seq(ActivityRow)
         /\ Len([rows EXCEPT ![i] = row]) = Len(rows)
         /\ Len(rows) = 1 => [rows EXCEPT ![1] = row][1] = row
<1>1. Len(rows) \in Nat /\ rows \in [1 .. Len(rows) -> ActivityRow]
  BY LenProperties
<1>2. [rows EXCEPT ![i] = row] \in [1 .. Len(rows) -> ActivityRow]
  BY <1>1
<1>3. [rows EXCEPT ![i] = row] \in Seq(ActivityRow)
  BY <1>1, <1>2 DEF Seq
<1>4. Len([rows EXCEPT ![i] = row]) = Len(rows)
  BY <1>1, <1>2, <1>3, LenProperties
<1>5. ASSUME Len(rows) = 1 PROVE [rows EXCEPT ![1] = row][1] = row
  BY <1>1, <1>5
<1> QED
  BY <1>3, <1>4, <1>5

LEMMA WorkPicks ==
  ASSUME WorkInv, NEW s \in Sessions, PickActivity(s)
  PROVE  WorkInv'
<1>0. PICK q \in Participants : q = Who(s)
  BY DEF WorkInv, WorkKnows, PickActivity, At
<1> DEFINE step == [pc |-> "decide", who |-> Who(s), approve |-> session[s].approve,
                    activity |-> Max(Pending(Who(s)) \cup {0})]
<1>1. /\ Goes(s, step) /\ At(s, "pick") /\ WorkKnows(s)
      /\ UNCHANGED <<opportunity, registration, activities, contested, cutOff>>
  BY DEF PickActivity, WorkInv
<1>2. ASSUME q \notin contested, registration[q] = "completed" PROVE Max(Pending(q) \cup {0}) = 1
  <2>1. ActivityFollows(q) /\ activities[q] \in Seq(ActivityRow)
    BY <1>2 DEF WorkInv, WorkTypes, ParticipantIsRight, Begun
  <2>2. Pending(q) = {1}
    BY <1>2, <2>1 DEF ActivityFollows, Pending
  <2>3. Pending(q) \cup {0} = {0, 1}
    BY <2>2
  <2>4. Max({0, 1}) \in {0, 1} /\ \A y \in {0, 1} : Max({0, 1}) >= y
    <3>1. 1 \in {0, 1} /\ \A y \in {0, 1} : 1 >= y
      OBVIOUS
    <3> QED
      BY <3>1 DEF Max
  <2> QED
    BY <2>3, <2>4
<1>3. step.pc = "decide" /\ step.who = q /\ step.approve = session[s].approve
      /\ step.activity = Max(Pending(q) \cup {0})
  BY <1>0
<1> HIDE DEF step
<1>4. session'[s] = step
  BY <1>1, SessionsMove DEF WorkInv
<1>5. WorkKnows(s)'
  BY <1>0, <1>1, <1>2, <1>3, <1>4 DEF WorkKnows, At, Who
<1> QED
  BY <1>1, <1>3, <1>5, WorkReads DEF WorkInv, WorkTypes, At

LEMMA WorkDecides ==
  ASSUME WorkInv, NEW s \in Sessions, Decide(s)
  PROVE  WorkInv'
<1>0. PICK q \in Participants : q = Who(s)
  BY DEF WorkInv, WorkKnows, Decide, At
<1> DEFINE i == session[s].activity
           d == Decision(s)
           row == [activities[q][i] EXCEPT !.status = d]
           step == IF i # 0 /\ session[s].approve THEN [session[s] EXCEPT !.pc = "award"] ELSE Idle
<1>1. /\ Goes(s, step) /\ At(s, "decide") /\ WorkKnows(s) /\ ParticipantIsRight(q)
      /\ registration' = [registration EXCEPT ![q] = d]
      /\ activities' = IF i = 0 THEN activities ELSE [activities EXCEPT ![q] = [activities[q] EXCEPT ![i] = row]]
      /\ contested' = IF registration[q] = "completed" THEN contested ELSE contested \cup {q}
      /\ UNCHANGED <<opportunity, cutOff>>
  BY <1>0 DEF Decide, Notes, WorkInv
<1>2. /\ d \in {"verified", "rejected"} /\ (session[s].approve <=> d = "verified")
      /\ registration[q] \in Begun
  BY <1>0, <1>1 DEF Decision, WorkKnows, At
<1>3. \/ step = Idle /\ (i = 0 \/ d = "rejected")
      \/ step.pc = "award" /\ step.who = q /\ step.activity = i /\ d = "verified" /\ i # 0
  BY <1>0, <1>2 DEF Who
<1>4. session' = [r \in Sessions |-> session'[r]] /\ session'[s] = step
      /\ \A r \in Sessions \ {s} : session'[r] = session[r]
  BY <1>1, SessionsMove DEF WorkInv
<1> HIDE DEF step, d
<1>5. /\ registration'[q] = d /\ registration' \in [Participants -> RegistrationStatus]
      /\ \A x \in Participants \ {q} : registration'[x] = registration[x]
  BY <1>1, <1>2 DEF WorkInv, WorkTypes, RegistrationStatus
<1>6. activities \in [Participants -> Seq(ActivityRow)]
  BY DEF WorkInv, WorkTypes
<1>7. /\ activities' \in [Participants -> Seq(ActivityRow)] /\ Len(activities'[q]) = Len(activities[q])
      /\ \A x \in Participants \ {q} : activities'[x] = activities[x]
  <2>1. CASE i = 0
    BY <1>1, <1>6, <2>1
  <2>2. CASE i # 0 /\ i \in DOMAIN activities[q]
    <3>1. activities[q][i] \in ActivityRow
      BY <1>6, <2>2, ElementOfSeq, LenProperties
    <3>2. row \in ActivityRow
      BY <1>2, <3>1 DEF ActivityRow
    <3> HIDE DEF row
    <3>3. [activities[q] EXCEPT ![i] = row] \in Seq(ActivityRow)
          /\ Len([activities[q] EXCEPT ![i] = row]) = Len(activities[q])
      BY <1>6, <3>2, ActivityChanges
    <3> QED
      BY <1>1, <1>6, <2>2, <3>3
  <2>3. CASE i # 0 /\ i \notin DOMAIN activities[q]
    <3>1. activities[q] = [j \in DOMAIN activities[q] |-> activities[q][j]]
      BY <1>6, LenProperties
    <3>2. [activities[q] EXCEPT ![i] = row] = activities[q]
      BY <2>3, <3>1
    <3> HIDE DEF row
    <3> QED
      BY <1>1, <1>6, <2>3, <3>2
  <2> QED
    BY <2>1, <2>2, <2>3
<1>8. WorkTypes'
  BY <1>1, <1>4, <1>5, <1>7 DEF WorkInv, WorkTypes
<1>9. PlacesAreBounded'
  <2>1. Registered' \subseteq Registered
    BY <1>2, <1>5 DEF Registered
  <2>2. step.pc # "join"
    BY <1>3 DEF Idle
  <2> QED
    BY <1>1, <2>1, <2>2, PlacesKept
<1>10. q \notin contested' => q \notin contested /\ registration[q] = "completed" /\ i = 1
  BY <1>0, <1>1 DEF WorkKnows, At
<1>11. WorkKnows(s)'
  BY <1>1, <1>2, <1>3, <1>4, <1>5, <1>10 DEF WorkKnows, At, Idle, Who, Begun
<1>12. \A x \in Participants : Forward(x)
  BY <1>1, <1>2, <1>5 DEF Forward, WorkInv, WorkTypes, RegistrationStatus, Begun
<1>13. \A x \in Participants \ {q} : Untouched(s, x)
  BY <1>1, <1>3, <1>4, <1>5, <1>7 DEF Untouched, At, Idle, Who
<1>14. ParticipantIsRight(q)'
  <2>1. /\ Cardinality(Completing(q)') <= Cardinality(Completing(q))
        /\ Cardinality(Completing(q)) \in Nat /\ Cardinality(Completing(q)') \in Nat
    BY <1>1, <1>3, <1>4, CompletingShrinks DEF At, Idle
  <2>2. Len(activities[q]) + Cardinality(Completing(q)) <= Cardinality(Sessions)
        /\ Cardinality(Sessions) \in Nat /\ Len(activities[q]) \in Nat
    BY <1>1, <1>6, FS_CardinalityType, OpportunityAssumption DEF ParticipantIsRight
  <2>3. Len(activities'[q]) = Len(activities[q])
    BY <1>7
  <2>4. Len(activities'[q]) + Cardinality(Completing(q)') <= Cardinality(Sessions)
    <3> HIDE DEF Completing
    <3> QED BY ONLY <2>1, <2>2, <2>3
  <2>5. ASSUME q \notin contested' PROVE ActivityFollows(q)'
    <3>1. ActivityFollows(q) /\ i = 1 /\ registration[q] = "completed"
      BY <1>1, <1>10, <2>5 DEF ParticipantIsRight, Begun
    <3>2. activities[q][1] \in ActivityRow /\ activities[q][1].status = "pending" /\ ~activities[q][1].paid
      <4>1. 1 \in 1 .. Len(activities[q]) /\ activities[q] \in Seq(ActivityRow)
        BY <1>6, <3>1 DEF ActivityFollows
      <4>2. activities[q][1] \in ActivityRow
        BY <4>1, ElementOfSeq
      <4> QED
        BY <3>1, <4>2 DEF ActivityFollows
    <3>3. row.status = d /\ row.paid = activities[q][1].paid /\ row \in ActivityRow
      BY <1>2, <3>1, <3>2 DEF ActivityRow
    <3> HIDE DEF row
    <3>4. activities'[q][1] = row
      <4>1. activities'[q] = [activities[q] EXCEPT ![1] = row]
        BY <1>1, <1>6, <3>1
      <4> QED
        BY <1>6, <3>1, <3>3, <4>1, ActivityChanges DEF ActivityFollows
    <3>5. d = "verified" => At(s, "award")' /\ Who(s)' = q
      BY <1>3, <1>4, <3>1 DEF At, Who
    <3> QED
      BY <1>2, <1>5, <1>7, <3>1, <3>2, <3>3, <3>4, <3>5 DEF ActivityFollows
  <2> QED
    BY <1>2, <1>5, <2>4, <2>5 DEF ParticipantIsRight, Begun
<1> QED
  BY <1>1, <1>8, <1>9, <1>11, <1>12, <1>13, <1>14, WorkMoves

LEMMA WorkAwards ==
  ASSUME WorkInv, NEW s \in Sessions, AwardActivity(s)
  PROVE  WorkInv'
<1>0. PICK q \in Participants : q = Who(s)
  BY DEF WorkInv, WorkKnows, AwardActivity, At
<1> DEFINE i == session[s].activity
           row == [activities[q][i] EXCEPT !.paid = TRUE]
<1>1. /\ Goes(s, Idle) /\ At(s, "award") /\ WorkKnows(s) /\ ParticipantIsRight(q)
      /\ activities' = [activities EXCEPT ![q] = [activities[q] EXCEPT ![i] = row]]
      /\ UNCHANGED <<opportunity, registration, contested, cutOff>>
  BY <1>0 DEF AwardActivity, WorkInv
<1>2. session' = [r \in Sessions |-> session'[r]] /\ session'[s] = Idle
      /\ \A r \in Sessions \ {s} : session'[r] = session[r]
  BY <1>1, SessionsMove DEF WorkInv
<1>3. activities \in [Participants -> Seq(ActivityRow)] /\ registration[q] \in Begun
  BY <1>0, <1>1 DEF WorkInv, WorkTypes, WorkKnows, At
<1>4. /\ activities' \in [Participants -> Seq(ActivityRow)] /\ Len(activities'[q]) = Len(activities[q])
      /\ \A x \in Participants \ {q} : activities'[x] = activities[x]
  <2>1. CASE i \in DOMAIN activities[q]
    <3>1. activities[q][i] \in ActivityRow
      BY <1>3, <2>1, ElementOfSeq, LenProperties
    <3>2. row \in ActivityRow
      BY <3>1 DEF ActivityRow
    <3> HIDE DEF row
    <3>3. [activities[q] EXCEPT ![i] = row] \in Seq(ActivityRow)
          /\ Len([activities[q] EXCEPT ![i] = row]) = Len(activities[q])
      BY <1>3, <3>2, ActivityChanges
    <3> QED
      BY <1>1, <1>3, <3>3
  <2>2. CASE i \notin DOMAIN activities[q]
    <3>1. activities[q] = [j \in DOMAIN activities[q] |-> activities[q][j]]
      BY <1>3, LenProperties
    <3>2. [activities[q] EXCEPT ![i] = row] = activities[q]
      BY <2>2, <3>1
    <3> HIDE DEF row
    <3> QED
      BY <1>1, <1>3, <3>2
  <2> QED
    BY <2>1, <2>2
<1>5. WorkTypes'
  BY <1>1, <1>2, <1>4 DEF WorkInv, WorkTypes
<1>6. PlacesAreBounded'
  <2>1. Registered' \subseteq Registered
    BY <1>1 DEF Registered
  <2> QED
    BY <1>1, <2>1, PlacesKept DEF Idle
<1>7. WorkKnows(s)'
  BY <1>2 DEF WorkKnows, At, Idle
<1>8. \A x \in Participants : Forward(x)
  BY <1>1 DEF Forward, WorkInv, WorkTypes, RegistrationStatus
<1>9. \A x \in Participants \ {q} : Untouched(s, x)
  BY <1>0, <1>1, <1>2, <1>4 DEF Untouched, At, Idle
<1>10. ParticipantIsRight(q)'
  <2>1. /\ Cardinality(Completing(q)') <= Cardinality(Completing(q))
        /\ Cardinality(Completing(q)) \in Nat /\ Cardinality(Completing(q)') \in Nat
    BY <1>1, <1>2, CompletingShrinks DEF At, Idle
  <2>2. Len(activities[q]) + Cardinality(Completing(q)) <= Cardinality(Sessions)
        /\ Cardinality(Sessions) \in Nat /\ Len(activities[q]) \in Nat
    BY <1>1, <1>3, FS_CardinalityType, OpportunityAssumption DEF ParticipantIsRight
  <2>3. Len(activities'[q]) = Len(activities[q])
    BY <1>4
  <2>4. Len(activities'[q]) + Cardinality(Completing(q)') <= Cardinality(Sessions)
    <3> HIDE DEF Completing
    <3> QED BY ONLY <2>1, <2>2, <2>3
  <2>5. ASSUME q \notin contested' PROVE ActivityFollows(q)'
    <3>1. ActivityFollows(q) /\ i = 1 /\ registration[q] = "verified"
      BY <1>0, <1>1, <1>3, <2>5 DEF ParticipantIsRight, WorkKnows, At
    <3>2. activities[q][1] \in ActivityRow /\ activities[q][1].status = "verified"
      <4>1. 1 \in 1 .. Len(activities[q]) /\ activities[q] \in Seq(ActivityRow)
        BY <1>3, <3>1 DEF ActivityFollows
      <4>2. activities[q][1] \in ActivityRow
        BY <4>1, ElementOfSeq
      <4> QED
        BY <3>1, <4>2 DEF ActivityFollows
    <3>3. row.status = "verified" /\ row.paid = TRUE /\ row \in ActivityRow
      BY <3>1, <3>2 DEF ActivityRow
    <3> HIDE DEF row
    <3>4. activities'[q][1] = row
      <4>1. activities'[q] = [activities[q] EXCEPT ![1] = row]
        BY <1>1, <1>3, <3>1
      <4> QED
        BY <1>3, <3>1, <3>3, <4>1, ActivityChanges DEF ActivityFollows
    <3> QED
      BY <1>1, <1>4, <3>1, <3>3, <3>4 DEF ActivityFollows
  <2> QED
    BY <1>1, <1>3, <2>4, <2>5 DEF ParticipantIsRight, Begun
<1> QED
  BY <1>1, <1>5, <1>6, <1>7, <1>8, <1>9, <1>10, WorkMoves

LEMMA WorkNext ==
  ASSUME WorkInv, [Next]_vars
  PROVE  WorkInv'
<1>1. CASE Ends \/ UNCHANGED vars
  <2>1. opportunity' \in OpportunityRow /\ UNCHANGED <<registration, activities, session, contested, cutOff>>
    BY <1>1 DEF Ends, vars, WorkInv, WorkTypes, OpportunityRow
  <2>2. WorkTypes'
    BY <2>1 DEF WorkInv, WorkTypes
  <2>3. Joining' = Joining /\ Registered' = Registered /\ \A p : Completing(p)' = Completing(p)
    BY <2>1 DEF Joining, Registered, Completing, At, Who
  <2>4. \A s \in Sessions : WorkKnows(s)'
    BY <2>1 DEF WorkInv, WorkKnows, At, Who
  <2>5. \A p \in Participants : ParticipantIsRight(p)'
    BY <2>1, <2>3 DEF WorkInv, ParticipantIsRight, ActivityFollows, At, Who
  <2> QED
    BY <2>2, <2>3, <2>4, <2>5 DEF WorkInv, PlacesAreBounded
<1>2. ASSUME NEW s \in Sessions, NEW p \in Participants, ReadJoin(s, p) \/ ReadComplete(s, p) PROVE WorkInv'
  BY <1>2, WorkJoins, WorkCompletes
<1>3. ASSUME NEW s \in Sessions, Join(s) \/ Complete(s) \/ PickActivity(s) \/ Decide(s) \/ AwardActivity(s)
      PROVE  WorkInv'
  BY <1>3, WorkJoins, WorkCompletes, WorkPicks, WorkDecides, WorkAwards
<1> QED
  BY <1>1, <1>2, <1>3, WorkReadSteps DEF Next

LEMMA WorkStart == Init => WorkInv
<1> SUFFICES ASSUME Init PROVE WorkInv
  OBVIOUS
<1>1. WorkTypes
  BY DEF Init, WorkTypes, RegistrationStatus
<1>2. \A s \in Sessions : session[s].pc = "idle"
  BY DEF Init, Idle
<1>3. Registered = {} /\ Joining = {} /\ \A p : Completing(p) = {}
  BY <1>2 DEF Init, Registered, Joining, Completing, At
<1>4. Cardinality(Sessions) \in Nat
  BY FS_CardinalityType, OpportunityAssumption
<1>5. PlacesAreBounded
  BY <1>3, <1>4, FS_EmptySet, LargestCapacity DEF PlacesAreBounded
<1>6. \A s \in Sessions : WorkKnows(s)
  BY <1>2 DEF WorkKnows, At
<1>7. ASSUME NEW p \in Participants PROVE ParticipantIsRight(p)
  <2>1. Cardinality(Completing(p)) = 0
    BY <1>3, FS_EmptySet
  <2>2. activities[p] = <<>> /\ registration[p] = "none"
    BY DEF Init
  <2>3. Len(activities[p]) + Cardinality(Completing(p)) <= Cardinality(Sessions)
    BY <1>4, <2>1, <2>2
  <2> QED
    BY <2>2, <2>3 DEF ParticipantIsRight, Begun
<1> QED
  BY <1>1, <1>5, <1>6, <1>7 DEF WorkInv

LEMMA WorkAlways == EarningSpec => []WorkInv
<1>1. EarningInit => WorkInv
  BY WorkStart DEF EarningInit
<1>2. WorkInv /\ [EarningNext]_<<part, vars, presenceVars, pointsVars>> => WorkInv'
  <2> SUFFICES ASSUME WorkInv, [EarningNext]_<<part, vars, presenceVars, pointsVars>> PROVE WorkInv'
    OBVIOUS
  <2>1. [Next]_vars
    BY DEF EarningNext
  <2> QED
    BY <2>1, WorkNext
<1> QED
  BY <1>1, <1>2, PTL DEF EarningSpec

\* Whoever joins or completes at once, a capacity is overrun by no more than the
\* other requests served at that moment, and a participant's activities are no
\* more than the requests (opportunity.py counts registrations without a lock).
THEOREM OverrunsStayBounded == EarningSpec => []OverrunsAreBounded
<1>1. WorkInv => OverrunsAreBounded
  <2> SUFFICES ASSUME WorkInv PROVE OverrunsAreBounded
    OBVIOUS
  <2>1. Cardinality(Registered) \in Nat /\ Cardinality(Sessions) \in Nat /\ Cardinality(Joining) \in Nat
    <3>1. IsFiniteSet(Joining)
      BY FS_Subset, OpportunityAssumption DEF Joining
    <3> QED
      BY <3>1, FS_CardinalityType, OpportunityAssumption DEF WorkInv, PlacesAreBounded
  <2>2. Cardinality(Registered) <= Max(Capacities) + Cardinality(Sessions) - 1
    BY <2>1, LargestCapacity DEF WorkInv, PlacesAreBounded
  <2>3. ASSUME NEW p \in Participants PROVE Len(activities[p]) <= Cardinality(Sessions)
    <3>1. IsFiniteSet(Completing(p))
      BY FS_Subset, OpportunityAssumption DEF Completing
    <3>2. Cardinality(Completing(p)) \in Nat /\ Len(activities[p]) \in Nat
      BY <3>1, FS_CardinalityType DEF WorkInv, WorkTypes
    <3>3. Len(activities[p]) + Cardinality(Completing(p)) <= Cardinality(Sessions)
      BY DEF WorkInv, ParticipantIsRight
    <3> QED
      BY ONLY <2>1, <3>2, <3>3
  <2> QED
    BY <2>2, <2>3 DEF OverrunsAreBounded
<1> QED
  BY <1>1, WorkAlways, PTL

\* Unless handlers overlapped on one participant, registration and activity are
\* decided alike, and a verified one is paid (opportunity.py with activity.py, in
\* two transactions).
THEOREM DecisionsAgree == EarningSpec => []DecisionIsTheActivitys
<1>1. WorkInv => DecisionIsTheActivitys
  BY DEF WorkInv, ParticipantIsRight, ActivityFollows, DecisionIsTheActivitys, Begun
<1> QED
  BY <1>1, WorkAlways, PTL

-----------------------------------------------------------------------------
(* ImpactPoints: the invariant. *)

PointsTypes ==
    /\ points = [k \in Items \cup Points!Awards |-> points[k]]
    /\ \A a \in Points!Awards : points[a] \in {0, Reward[a]}
    /\ held \subseteq Points!Awards
    /\ ceiling \in Nat
    /\ reviewer = [s \in Sessions |-> reviewer[s]]

\* What is about to be posted respects the ceiling, whose lock the session has.
ReviewerKnows(s) ==
    /\ reviewer[s].pc \in {"decide", "sum", "limit", "post"} => reviewer[s].item \in Items
    /\ Points!At(s, "post") => reviewer[s].amount <= ceiling
    /\ Points!At(s, "pay") => reviewer[s].award \in Points!Awards
    /\ reviewer[s].pc \in {"award", "pay"} => reviewer[s].next \in {"badges", "rules"}

Paid(a) ==
    \/ points[a] = Reward[a]
    \/ \E s \in Sessions : Points!At(s, "pay") /\ reviewer[s].award = a
    \/ \E r \in Rules \cap held : RuleBadge[r] = a

PointsInv ==
    /\ PointsTypes
    /\ \A s \in Sessions : ReviewerKnows(s)
    /\ \A a \in held \ unpaid : Paid(a)
    /\ \A r \in Rules \cap held : RuleBadge[r] \in held

-----------------------------------------------------------------------------
(* ImpactPoints: what one session's step leaves of the others. *)

LEMMA ReviewersMove ==
  ASSUME PointsTypes, NEW s \in Sessions, NEW step, Points!Goes(s, step)
  PROVE  /\ reviewer' = [r \in Sessions |-> reviewer'[r]] /\ reviewer'[s] = step
         /\ \A r \in Sessions \ {s} : reviewer'[r] = reviewer[r]
BY DEF PointsTypes, Points!Goes

LEMMA PointsMove ==
  ASSUME PointsInv, NEW s \in Sessions, NEW step, Points!Goes(s, step),
         PointsTypes', ReviewerKnows(s)', UNCHANGED ceiling,
         held \subseteq held', unpaid \subseteq unpaid',
         \A a \in held : points'[a] = points[a] \/ points'[a] = Reward[a],
         \A a \in held' \ unpaid' : Paid(a)' \/ a \in held,
         \A a \in held : Points!At(s, "pay") /\ reviewer[s].award = a => a \in unpaid' \/ Paid(a)',
         \A r \in Rules \cap held' : RuleBadge[r] \in held'
  PROVE  PointsInv'
<1>1. reviewer'[s] = step /\ \A r \in Sessions \ {s} : reviewer'[r] = reviewer[r]
  BY ReviewersMove DEF PointsInv
<1>2. ASSUME NEW r \in Sessions \ {s} PROVE ReviewerKnows(r)'
  BY <1>1, <1>2 DEF PointsInv, ReviewerKnows, Points!At
<1>3. ASSUME NEW a \in held, a \notin unpaid' PROVE Paid(a)'
  <2>1. Paid(a)
    BY <1>3 DEF PointsInv
  <2>2. CASE points[a] = Reward[a]
    BY <1>3, <2>2 DEF Paid
  <2>3. ASSUME NEW r \in Sessions, Points!At(r, "pay"), reviewer[r].award = a PROVE Paid(a)'
    <3>1. CASE r = s
      BY <1>3, <2>3, <3>1
    <3>2. CASE r # s
      BY <1>1, <2>3, <3>2 DEF Paid, Points!At
    <3> QED BY <3>1, <3>2
  <2>4. ASSUME NEW r \in Rules \cap held, RuleBadge[r] = a PROVE Paid(a)'
    BY <2>4 DEF Paid
  <2> QED
    BY <2>1, <2>2, <2>3, <2>4 DEF Paid
<1> QED
  BY <1>2, <1>3 DEF PointsInv

\* The steps that post nothing and award nothing.
LEMMA PointsRead ==
  ASSUME PointsInv, NEW s \in Sessions, NEW step, Points!Goes(s, step),
         UNCHANGED <<points, held, ceiling>>, unpaid \subseteq unpaid', ReviewerKnows(s)',
         Points!At(s, "pay") => reviewer[s].award \in unpaid'
  PROVE  PointsInv'
<1>1. reviewer' = [r \in Sessions |-> reviewer'[r]]
  BY ReviewersMove DEF PointsInv
<1>2. PointsTypes'
  BY <1>1 DEF PointsInv, PointsTypes
<1> QED
  BY <1>2, PointsMove DEF PointsInv

LEMMA PointsReadSteps ==
  ASSUME PointsInv, NEW s \in Sessions,
         \/ \E i \in Items, approve \in BOOLEAN : Points!Review(s, i, approve)
         \/ Points!Decide(s) \/ Points!SumAwarded(s) \/ Points!ReadCeiling(s)
         \/ Points!FindDue(s) \/ Points!NothingDue(s)
         \/ Points!ReadRank(s) \/ Points!CommitRank(s) \/ Points!Abort(s)
  PROVE  PointsInv'
<1> USE DEF Points!At
<1>1. ASSUME NEW step, Points!Goes(s, step) PROVE reviewer'[s] = step
  BY <1>1, ReviewersMove DEF PointsInv
<1>2. ReviewerKnows(s) /\ ceiling \in Nat
  BY DEF PointsInv, PointsTypes
<1>3. ASSUME NEW step, Points!Goes(s, step), step.pc \notin {"decide", "sum", "limit", "post", "award", "pay"},
             UNCHANGED <<points, held, ceiling>>, unpaid \subseteq unpaid',
             reviewer[s].pc = "pay" => reviewer[s].award \in unpaid'
      PROVE  PointsInv'
  <2>1. ReviewerKnows(s)'
    BY <1>1, <1>3 DEF ReviewerKnows
  <2> QED
    BY <1>3, <2>1, PointsRead
<1>4. ASSUME NEW i \in Items, NEW approve \in BOOLEAN, Points!Review(s, i, approve) PROVE PointsInv'
  <2>1. ReviewerKnows(s)'
    BY <1>1, <1>4 DEF ReviewerKnows, Points!Review
  <2> QED
    BY <1>4, <2>1, PointsRead DEF Points!Review, Points!record
<1>5. CASE Points!Decide(s)
  <2> DEFINE step == IF reviewer[s].approve THEN [pc |-> "sum", item |-> reviewer[s].item] ELSE Points!Idle
  <2>1. /\ Points!Goes(s, step) /\ reviewer[s].pc = "decide" /\ UNCHANGED <<points, held, ceiling, unpaid>>
        /\ step.pc = "idle" \/ (step.pc = "sum" /\ step.item = reviewer[s].item)
    BY <1>5 DEF Points!Decide, Points!Idle
  <2> HIDE DEF step
  <2>2. ReviewerKnows(s)'
    BY <1>1, <1>2, <2>1 DEF ReviewerKnows
  <2> QED
    BY <2>1, <2>2, PointsRead
<1>6. CASE Points!SumAwarded(s)
  <2> DEFINE i == reviewer[s].item
             step == IF Points!Amount(i) > 0 THEN [pc |-> "limit", item |-> i, amount |-> Points!Amount(i)] ELSE Points!Idle
  <2>1. /\ Points!Goes(s, step) /\ reviewer[s].pc = "sum" /\ UNCHANGED <<points, held, ceiling, unpaid>>
        /\ step.pc = "idle" \/ (step.pc = "limit" /\ step.item = reviewer[s].item)
    BY <1>6 DEF Points!SumAwarded, Points!record, Points!Idle
  <2> HIDE DEF step
  <2>2. ReviewerKnows(s)'
    BY <1>1, <1>2, <2>1 DEF ReviewerKnows
  <2> QED
    BY <2>1, <2>2, PointsRead
<1>7. CASE Points!ReadCeiling(s)
  <2> DEFINE step == [reviewer[s] EXCEPT !.pc = "post", !.amount = Points!Least(@, ceiling)]
  <2>1. /\ Points!Goes(s, step) /\ reviewer[s].pc = "limit" /\ UNCHANGED <<points, held, ceiling, unpaid>>
    BY <1>7 DEF Points!ReadCeiling, Points!record
  <2>2. step.pc = "post" /\ step.item = reviewer[s].item
    OBVIOUS
  <2>3. step.amount <= ceiling
    BY <1>2 DEF Points!Least
  <2> HIDE DEF step
  <2>4. ReviewerKnows(s)'
    BY <1>1, <1>2, <2>1, <2>2, <2>3 DEF ReviewerKnows
  <2> QED
    BY <2>1, <2>4, PointsRead
<1>8. CASE Points!FindDue(s)
  <2>1. PICK step : /\ Points!Goes(s, step) /\ step.pc = "award" /\ step.next \in {"badges", "rules"}
                    /\ UNCHANGED <<points, held, ceiling, unpaid>> /\ reviewer[s].pc # "pay"
    BY <1>8 DEF Points!FindDue, Points!record
  <2>2. ReviewerKnows(s)'
    BY <1>1, <2>1 DEF ReviewerKnows
  <2> QED
    BY <2>1, <2>2, PointsRead
<1>11. CASE Points!NothingDue(s)
  <2>1. reviewer[s].next \in {"badges", "rules"} /\ reviewer[s].pc = "award"
    BY <1>2, <1>11 DEF ReviewerKnows, Points!NothingDue
  <2> QED
    BY <1>3, <1>11, <2>1 DEF Points!NothingDue, Points!record
<1>9. CASE Points!Abort(s)
  <2>1. unpaid \subseteq unpaid' /\ (reviewer[s].pc = "pay" => reviewer[s].award \in unpaid')
    BY <1>9 DEF Points!Abort
  <2> QED
    BY <1>3, <1>9, <2>1 DEF Points!Abort, Points!record, Points!Idle
<1>10. CASE Points!ReadRank(s) \/ Points!CommitRank(s)
  <2>1. PICK step : /\ Points!Goes(s, step) /\ step.pc \in {"idle", "ranked"}
                    /\ UNCHANGED <<points, held, ceiling, unpaid>> /\ reviewer[s].pc # "pay"
    BY <1>10 DEF Points!ReadRank, Points!CommitRank, Points!record, Points!Idle
  <2> QED
    BY <1>3, <2>1
<1> QED
  BY <1>4, <1>5, <1>6, <1>7, <1>8, <1>9, <1>10, <1>11

\* An item's points are no award's; an award is paid by whoever inserted it.
LEMMA PointsPost ==
  ASSUME PointsInv, NEW s \in Sessions, Points!PostItem(s)
  PROVE  PointsInv'
<1> DEFINE i == reviewer[s].item
           step == [pc |-> "milestones"]
<1>1. /\ Points!Goes(s, step) /\ i \in Items /\ reviewer[s].pc = "post"
      /\ points' = [points EXCEPT ![i] = IF @ = 0 THEN reviewer[s].amount ELSE @]
      /\ UNCHANGED <<held, ceiling, unpaid>>
  BY DEF Points!PostItem, Points!Posted, PointsInv, ReviewerKnows, Points!At
<1>2. \A a \in Points!Awards : points'[a] = points[a]
  BY <1>1, PointsAssumption DEF PointsInv, PointsTypes, Points!ImpactAssumption
<1>3. PointsTypes'
  BY <1>1, <1>2, ReviewersMove DEF PointsInv, PointsTypes
<1>4. ReviewerKnows(s)'
  BY <1>1, ReviewersMove DEF PointsInv, ReviewerKnows, Points!At
<1> QED
  BY <1>1, <1>2, <1>3, <1>4, PointsMove DEF PointsInv, PointsTypes, Points!At

LEMMA PointsGrant ==
  ASSUME PointsInv, NEW s \in Sessions, NEW a \in Milestones \cup Badges, Points!Grant(s, a)
  PROVE  PointsInv'
<1> DEFINE step == [pc |-> "pay", todo |-> reviewer[s].todo \ {a}, next |-> reviewer[s].next, award |-> a]
<1>1. /\ Points!Goes(s, step) /\ reviewer[s].pc = "award" /\ a \in Points!Awards
      /\ held' = held \cup {a} /\ UNCHANGED <<points, ceiling, unpaid>>
      /\ reviewer[s].next \in {"badges", "rules"}
  BY DEF Points!Grant, Points!At, Points!Awards, PointsInv, ReviewerKnows
<1>2. step.pc = "pay" /\ step.award = a /\ step.next = reviewer[s].next
  OBVIOUS
<1> HIDE DEF step
<1>3. reviewer' = [r \in Sessions |-> reviewer'[r]] /\ reviewer'[s] = step
  BY <1>1, ReviewersMove DEF PointsInv
<1>4. PointsTypes'
  BY <1>1, <1>3 DEF PointsInv, PointsTypes
<1>5. ReviewerKnows(s)' /\ Paid(a)'
  BY <1>1, <1>2, <1>3 DEF ReviewerKnows, Paid, Points!At
<1>6. \A r \in Rules \cap held' : RuleBadge[r] \in held'
  <2>1. Points!At(s, "award") /\ a \notin held
    BY DEF Points!Grant
  <2>2. a \notin Rules
    BY PointsAssumption DEF Points!ImpactAssumption
  <2> QED
    BY <1>1, <2>1, <2>2 DEF PointsInv
<1> QED
  BY <1>1, <1>4, <1>5, <1>6, PointsMove DEF PointsInv, Points!At

LEMMA PointsPay ==
  ASSUME PointsInv, NEW s \in Sessions, Points!Pay(s)
  PROVE  PointsInv'
<1>0. PICK a \in Points!Awards : a = reviewer[s].award
  BY DEF Points!Pay, PointsInv, ReviewerKnows
<1> DEFINE step == [pc |-> "award", todo |-> reviewer[s].todo, next |-> reviewer[s].next]
<1>1. /\ Points!Goes(s, step) /\ reviewer[s].pc = "pay"
      /\ points' = [points EXCEPT ![a] = IF @ = 0 THEN Reward[a] ELSE @]
      /\ UNCHANGED <<held, ceiling, unpaid>> /\ reviewer[s].next \in {"badges", "rules"}
  BY <1>0 DEF Points!Pay, Points!At, Points!Posted, PointsInv, ReviewerKnows
<1>2. step.pc = "award" /\ step.next = reviewer[s].next
  OBVIOUS
<1> HIDE DEF step
<1>3. reviewer' = [r \in Sessions |-> reviewer'[r]] /\ reviewer'[s] = step
  BY <1>1, ReviewersMove DEF PointsInv
<1>4. points'[a] = Reward[a] /\ \A b \in Points!Awards \ {a} : points'[b] = points[b]
  BY <1>1 DEF PointsInv, PointsTypes
<1>5. PointsTypes'
  BY <1>1, <1>3, <1>4 DEF PointsInv, PointsTypes
<1>6. ReviewerKnows(s)' /\ Paid(a)'
  BY <1>1, <1>2, <1>3, <1>4 DEF ReviewerKnows, Paid, Points!At
<1>7. \A b \in held : b \in Points!Awards /\ (points'[b] = points[b] \/ points'[b] = Reward[b])
  BY <1>4 DEF PointsInv, PointsTypes
<1>8. \A b \in held : reviewer[s].award = b => Paid(b)'
  BY <1>0, <1>6
<1> QED
  BY <1>1, <1>5, <1>6, <1>7, <1>8, PointsMove DEF PointsInv

LEMMA PointsRules ==
  ASSUME PointsInv, NEW s \in Sessions, Points!EvaluateRules(s)
  PROVE  PointsInv'
<1> DEFINE due == Points!Due(Rules) \ held
<1>1. due \subseteq Rules \ held
  BY DEF Points!Due
<1>2. Points!At(s, "rules") /\ UNCHANGED <<ceiling, unpaid>>
  BY DEF Points!EvaluateRules
<1>3. CASE Points!Goes(s, Points!Idle) /\ UNCHANGED Points!record
  <2>1. ReviewerKnows(s)'
    BY <1>3, ReviewersMove DEF PointsInv, ReviewerKnows, Points!At, Points!Idle
  <2> QED
    BY <1>2, <1>3, <2>1, PointsRead DEF Points!record, Points!At
<1>4. CASE /\ held' = held \cup due \cup {RuleBadge[r] : r \in due}
           /\ points' = [k \in DOMAIN points |-> IF k \in due THEN Reward[k] ELSE points[k]]
           /\ Points!Goes(s, [pc |-> "rank"])
  <2> HIDE DEF due
  <2>1. \A r \in Rules : RuleBadge[r] \in Badges /\ r \in Points!Awards /\ RuleBadge[r] \in Points!Awards
    BY PointsAssumption DEF Points!ImpactAssumption, Points!Awards
  <2>2. /\ points' = [k \in Items \cup Points!Awards |-> points'[k]]
        /\ \A a \in Points!Awards : points'[a] = IF a \in due THEN Reward[a] ELSE points[a]
    BY <1>4 DEF PointsInv, PointsTypes
  <2>3. held' \subseteq Points!Awards /\ held \subseteq held'
    BY <1>1, <1>4, <2>1 DEF PointsInv, PointsTypes
  <2>4. PointsTypes'
    BY <1>2, <1>4, <2>2, <2>3, ReviewersMove DEF PointsInv, PointsTypes
  <2>5. ReviewerKnows(s)'
    BY <1>4, ReviewersMove DEF PointsInv, ReviewerKnows, Points!At
  <2>6. ASSUME NEW a \in held', a \notin held PROVE Paid(a)'
    <3>1. CASE a \in due
      BY <1>1, <2>1, <2>2, <3>1 DEF Paid
    <3>2. ASSUME NEW r \in due, a = RuleBadge[r] PROVE Paid(a)'
      BY <1>1, <1>4, <3>2 DEF Paid
    <3> QED
      BY <1>4, <2>6, <3>1, <3>2
  <2>7. \A r \in Rules \cap held' : RuleBadge[r] \in held'
    <3>1. \A q \in Rules : RuleBadge[q] \notin Rules
      BY <2>1, PointsAssumption DEF Points!ImpactAssumption
    <3>2. ASSUME NEW r \in Rules \cap held' PROVE r \in due \/ r \in held
      BY <1>1, <1>4, <3>1, <3>2
    <3> QED
      BY <1>1, <1>4, <3>2 DEF PointsInv
  <2>8. \A a \in held : points'[a] = points[a]
    BY <1>1, <2>2 DEF PointsInv, PointsTypes
  <2> QED
    BY <1>2, <1>4, <2>3, <2>4, <2>5, <2>6, <2>7, <2>8, PointsMove DEF Points!At
<1> QED
  BY <1>3, <1>4 DEF Points!EvaluateRules

LEMMA PointsNext ==
  ASSUME PointsInv, [Points!Next]_pointsVars
  PROVE  PointsInv'
<1>1. ASSUME UNCHANGED <<points, held, reviewer, unpaid>>, ceiling' \in Nat,
             \/ ceiling' = ceiling
             \/ \A s \in Sessions : ~Points!At(s, "post")
      PROVE  PointsInv'
  <2>1. PointsTypes'
    BY <1>1 DEF PointsInv, PointsTypes
  <2>2. \A s \in Sessions : ReviewerKnows(s)'
    BY <1>1 DEF PointsInv, ReviewerKnows, Points!At
  <2>3. \A a \in held' \ unpaid' : Paid(a)'
    BY <1>1 DEF PointsInv, Paid, Points!At
  <2> QED
    BY <1>1, <2>1, <2>2, <2>3 DEF PointsInv
<1>2. ceiling \in Nat
  BY DEF PointsInv, PointsTypes
<1>3. ASSUME NEW n \in Ceilings, Points!SaveCeiling(n) PROVE PointsInv'
  BY <1>1, <1>3, PointsAssumption DEF Points!SaveCeiling, Points!CeilingIsLocked, Points!record, Points!ImpactAssumption
<1>4. ASSUME NEW n \in Adjustments, Points!Adjust(n) PROVE PointsInv'
  BY <1>1, <1>2, <1>4 DEF Points!Adjust
<1>5. ASSUME NEW b \in Badges, Points!Revoke(b) PROVE PointsInv'
  BY <1>1, <1>2, <1>5 DEF Points!Revoke
<1>6. CASE UNCHANGED pointsVars
  BY <1>1, <1>2, <1>6 DEF pointsVars
<1>7. ASSUME NEW s \in Sessions, NEW i \in Items, NEW approve \in BOOLEAN, Points!Review(s, i, approve)
      PROVE  PointsInv'
  BY <1>7, PointsReadSteps
<1>8. ASSUME NEW s \in Sessions,
             \/ Points!Decide(s) \/ Points!SumAwarded(s) \/ Points!ReadCeiling(s)
             \/ Points!FindDue(s) \/ Points!NothingDue(s)
             \/ Points!ReadRank(s) \/ Points!CommitRank(s) \/ Points!Abort(s)
      PROVE  PointsInv'
  BY <1>8, PointsReadSteps
<1> QED
  BY <1>3, <1>4, <1>5, <1>6, <1>7, <1>8, PointsPost, PointsGrant, PointsPay, PointsRules DEF Points!Next

LEMMA PointsStart == Points!Init => PointsInv
<1> SUFFICES ASSUME Points!Init PROVE PointsInv
  OBVIOUS
<1>1. \A s \in Sessions : reviewer[s].pc = "idle"
  BY DEF Points!Init, Points!Idle
<1>2. PointsTypes
  BY PointsAssumption DEF Points!Init, PointsTypes, Points!ImpactAssumption
<1>3. \A s \in Sessions : ReviewerKnows(s)
  BY <1>1 DEF ReviewerKnows, Points!At
<1> QED
  BY <1>2, <1>3 DEF PointsInv, Points!Init

LEMMA PointsAlways == EarningSpec => [](part = "points" => PointsInv)
<1>1. EarningInit => (part = "points" => PointsInv)
  BY PointsStart DEF EarningInit
<1>2. (part = "points" => PointsInv) /\ [EarningNext]_<<part, vars, presenceVars, pointsVars>>
         => (part = "points" => PointsInv)'
  <2> SUFFICES ASSUME part = "points" => PointsInv, [EarningNext]_<<part, vars, presenceVars, pointsVars>>,
                      part' = "points"
               PROVE  PointsInv'
    OBVIOUS
  <2>1. PointsInv /\ [Points!Next]_pointsVars
    BY DEF EarningNext
  <2> QED
    BY <2>1, PointsNext
<1> QED
  BY <1>1, <1>2, PTL DEF EarningSpec

\* An award has its points unless the very session that inserted it was cut off
\* before it paid, whoever evaluates at the same time; a rule's badge comes with
\* it (recognition.py).
THEOREM AwardsArePaid == EarningSpec => []AwardIsPaid
<1>1. PointsInv => Points!AwardIsPaid
  BY DEF PointsInv, Paid, Points!AwardIsPaid
<1>2. (part = "points" => PointsInv) => AwardIsPaid
  BY <1>1 DEF AwardIsPaid
<1> QED
  BY <1>2, PointsAlways, PTL

\* No item is posted above the ceiling in force, however long before its reward
\* was computed (award_points reads it under a shared lock).
THEOREM CeilingsAreKept == EarningSpec => CeilingIsKept
<1>1. ASSUME PointsInv, Points!Next, NEW i \in Items, points'[i] # points[i]
      PROVE  points'[i] <= ceiling
  <2>1. Items \cap Points!Awards = {} /\ points = [k \in Items \cup Points!Awards |-> points[k]]
    BY <1>1, PointsAssumption DEF Points!ImpactAssumption, PointsInv, PointsTypes
  <2>2. ASSUME NEW s \in Sessions, Points!PostItem(s) PROVE points'[i] <= ceiling
    <3>1. reviewer[s].item \in Items /\ reviewer[s].amount <= ceiling
      BY <1>1, <2>2 DEF PointsInv, ReviewerKnows, Points!PostItem, Points!At
    <3>2. points' = [points EXCEPT ![reviewer[s].item] = IF @ = 0 THEN reviewer[s].amount ELSE @]
      BY <2>2 DEF Points!PostItem, Points!Posted
    <3> QED
      BY <1>1, <2>1, <3>1, <3>2
  <2>3. ASSUME NEW s \in Sessions, Points!Pay(s) PROVE points'[i] = points[i]
    <3>1. reviewer[s].award \in Points!Awards
      BY <1>1, <2>3 DEF PointsInv, ReviewerKnows, Points!Pay
    <3>2. points' = [points EXCEPT ![reviewer[s].award] = IF @ = 0 THEN Reward[reviewer[s].award] ELSE @]
      BY <2>3 DEF Points!Pay, Points!Posted
    <3> QED
      BY <2>1, <3>1, <3>2
  <2>4. ASSUME NEW s \in Sessions, Points!EvaluateRules(s) PROVE points'[i] = points[i]
    <3>1. i \notin Rules /\ i \in DOMAIN points
      BY <2>1 DEF Points!Awards
    <3>2. i \notin Points!Due(Rules)
      BY <3>1 DEF Points!Due
    <3> QED
      BY <2>4, <3>1, <3>2 DEF Points!EvaluateRules, Points!record
  <2>5. CASE UNCHANGED points
    BY <1>1, <2>5
  <2>6. ASSUME NEW s \in Sessions,
               \/ \E j \in Items, approve \in BOOLEAN : Points!Review(s, j, approve)
               \/ Points!Decide(s) \/ Points!SumAwarded(s) \/ Points!ReadCeiling(s)
        PROVE  UNCHANGED points
    BY <2>6 DEF Points!Review, Points!Decide, Points!SumAwarded, Points!ReadCeiling, Points!record
  <2>7. ASSUME NEW s \in Sessions,
               \/ Points!FindDue(s) \/ Points!NothingDue(s)
               \/ \E a \in Milestones \cup Badges : Points!Grant(s, a)
               \/ Points!ReadRank(s) \/ Points!CommitRank(s) \/ Points!Abort(s)
        PROVE  UNCHANGED points
    BY <2>7 DEF Points!FindDue, Points!NothingDue, Points!Grant, Points!ReadRank, Points!CommitRank, Points!Abort,
                Points!record
  <2>8. ASSUME \/ \E n \in Ceilings : Points!SaveCeiling(n)
               \/ \E n \in Adjustments : Points!Adjust(n)
               \/ \E b \in Badges : Points!Revoke(b)
        PROVE  UNCHANGED points
    BY <2>8 DEF Points!SaveCeiling, Points!Adjust, Points!Revoke, Points!record
  <2> QED
    BY <1>1, <2>2, <2>3, <2>4, <2>5, <2>6, <2>7, <2>8 DEF Points!Next
<1>2. (part = "points" => PointsInv) /\ [EarningNext]_<<part, vars, presenceVars, pointsVars>>
         => [part = "points" => Points!KeepsCeiling]_pointsVars
  BY <1>1 DEF EarningNext, Points!KeepsCeiling
<1> QED
  BY <1>2, PointsAlways, PTL DEF EarningSpec, CeilingIsKept

-----------------------------------------------------------------------------
(* Sums over finite sets.  The library's induction theorems take an operator *)
(* and cannot be cited; that every set of naturals has a least element can,  *)
(* and a counterexample of least size serves as well.                        *)

LEMMA LeastNatural ==
  ASSUME NEW T, T \subseteq Nat, T # {}
  PROVE  \E m \in T : \A n \in T : m <= n
<1>1. PICK m \in T : \A n \in T : ~(<<n, m>> \in OpToRel(<, Nat))
  BY NatLessThanWellFounded, WFMin, Zenon
<1>2. OpToRel(<, Nat) = {ss \in Nat \X Nat : ss[1] < ss[2]}
  BY Zenon DEF OpToRel
<1>3. ASSUME NEW n \in T PROVE m <= n
  <2>1. ~(<<n, m>> \in {ss \in Nat \X Nat : ss[1] < ss[2]})
    BY <1>1, <1>2, Zenon
  <2>2. m \in Nat /\ n \in Nat
    OBVIOUS
  <2>3. ~(n < m)
    BY ONLY <2>1, <2>2
  <2> QED
    BY ONLY <2>2, <2>3
<1> QED
  BY <1>3


OneOf(s) == CHOOSE x \in s : TRUE

\* g adds f up, on every subset of S, the way the fold does.
Adds(g, f, S) ==
    g = [s \in SUBSET S |-> IF s = {} THEN 0 ELSE f[OneOf(s)] + g[s \ {OneOf(s)}]]

\* Without OneOf, a set gets smaller.
LEMMA OneLess ==
  ASSUME NEW s, IsFiniteSet(s), s # {}
  PROVE  /\ OneOf(s) \in s /\ IsFiniteSet(s \ {OneOf(s)})
         /\ Cardinality(s \ {OneOf(s)}) = Cardinality(s) - 1
         /\ Cardinality(s) \in Nat \ {0} /\ Cardinality(s \ {OneOf(s)}) \in Nat
<1>1. OneOf(s) \in s
  BY DEF OneOf
<1> HIDE DEF OneOf
<1> QED
  BY <1>1, FS_RemoveElement, FS_CardinalityType, FS_EmptySet

\* What holds of the empty set, and of a set where it holds of one element less.
LEMMA BySubsets ==
  ASSUME NEW S, IsFiniteSet(S), NEW P, {} \in P,
         \A s \in SUBSET S : s # {} /\ s \ {OneOf(s)} \in P => s \in P
  PROVE  SUBSET S \subseteq P
<1> DEFINE Bad == {n \in Nat : \E s \in SUBSET S : s \notin P /\ Cardinality(s) = n}
<1>1. ASSUME NEW s \in SUBSET S, s \notin P PROVE FALSE
  <2>1. \A r \in SUBSET S : IsFiniteSet(r) /\ Cardinality(r) \in Nat
    BY FS_Subset, FS_CardinalityType
  <2>2. Cardinality(s) \in Bad
    BY <1>1, <2>1
  <2>3. PICK m \in Bad : \A n \in Bad : m <= n
    <3> HIDE DEF Bad
    <3>1. Bad \subseteq Nat
      BY DEF Bad
    <3> QED
      BY <2>2, <3>1, LeastNatural
  <2>4. PICK r \in SUBSET S : r \notin P /\ Cardinality(r) = m
    BY <2>3
  <2>5. r # {} /\ r \ {OneOf(r)} \in SUBSET S
    BY <2>4
  <2>6. /\ OneOf(r) \in r /\ Cardinality(r \ {OneOf(r)}) = m - 1
        /\ m \in Nat \ {0}
    BY <2>1, <2>4, <2>5, OneLess
  <2>7. r \ {OneOf(r)} \notin P
    BY <2>4, <2>5
  <2>8. m - 1 \in Bad
    BY <2>5, <2>6, <2>7
  <2> QED
    BY <2>3, <2>6, <2>8
<1> QED
  BY <1>1

\* There is such a function: it is built up by the size of the sets.
LEMMA AddsExists ==
  ASSUME NEW S, IsFiniteSet(S), NEW f
  PROVE  \E g : Adds(g, f, S)
<1> DEFINE UpTo(n) == {s \in SUBSET S : Cardinality(s) <= n}
           Step(h, s) == IF s = {} THEN 0 ELSE f[OneOf(s)] + h[s \ {OneOf(s)}]
           Good(n) == \E h : h = [s \in UpTo(n) |-> Step(h, s)]
           Bad == {n \in Nat : ~Good(n)}
<1>1. \A s \in SUBSET S : IsFiniteSet(s) /\ Cardinality(s) \in Nat /\ Cardinality(s) <= Cardinality(S)
  BY FS_Subset, FS_CardinalityType
<1>2. Good(0)
  <2>1. ASSUME NEW s \in UpTo(0) PROVE s = {}
    BY <1>1, FS_EmptySet
  <2>2. [s \in UpTo(0) |-> 0] = [s \in UpTo(0) |-> Step([r \in UpTo(0) |-> 0], s)]
    BY <2>1
  <2> QED
    BY <2>2
<1>3. ASSUME NEW n \in Nat, Good(n) PROVE Good(n + 1)
  <2>1. PICK h : h = [s \in UpTo(n) |-> Step(h, s)]
    BY <1>3
  <2> DEFINE g == [s \in UpTo(n + 1) |-> Step(h, s)]
  <2>2. ASSUME NEW s \in UpTo(n + 1), s # {} PROVE s \ {OneOf(s)} \in UpTo(n)
    <3>1. Cardinality(s) <= n + 1 /\ Cardinality(s) \in Nat
      BY <1>1
    <3>2. Cardinality(s \ {OneOf(s)}) = Cardinality(s) - 1
      BY <1>1, <2>2, OneLess
    <3> QED
      BY <3>1, <3>2
  <2>3. ASSUME NEW s \in UpTo(n) PROVE s \in UpTo(n + 1) /\ g[s] = h[s]
    <3>1. Cardinality(s) <= n /\ Cardinality(s) \in Nat
      BY <1>1
    <3>2. s \in UpTo(n + 1)
      BY <3>1
    <3>3. h[s] = Step(h, s)
      <4> HIDE DEF Step, UpTo
      <4> QED
        BY <2>1
    <3>4. g[s] = Step(h, s)
      BY <3>2
    <3> QED
      BY <3>2, <3>3, <3>4
  <2>4. ASSUME NEW s \in UpTo(n + 1) PROVE Step(h, s) = Step(g, s)
    <3>1. CASE s = {}
      BY <3>1
    <3>2. CASE s # {}
      <4>1. g[s \ {OneOf(s)}] = h[s \ {OneOf(s)}]
        <5> HIDE DEF g, UpTo
        <5> QED
          BY <2>2, <2>3, <3>2
      <4> HIDE DEF g
      <4> QED
        BY <4>1
    <3> QED
      BY <3>1, <3>2
  <2>5. g = [s \in UpTo(n + 1) |-> Step(g, s)]
    <3> HIDE DEF Step, UpTo
    <3> QED
      BY <2>4 DEF g
  <2> HIDE DEF g
  <2> QED
    BY <2>5
<1>4. ASSUME NEW n \in Bad PROVE FALSE
  <2>1. PICK m \in Bad : \A k \in Bad : m <= k
    <3>1. Bad \subseteq Nat
      OBVIOUS
    <3> HIDE DEF Bad
    <3> QED
      BY <1>4, <3>1, LeastNatural
  <2>2. m \in Nat /\ ~Good(m)
    BY <2>1
  <2> HIDE DEF Good
  <2>3. m # 0
    BY <1>2, <2>2
  <2>4. m - 1 \in Nat /\ m - 1 \notin Bad
    BY <2>1, <2>2, <2>3
  <2>5. Good(m - 1)
    BY <2>4
  <2> QED
    BY <1>3, <2>2, <2>4, <2>5
<1>5. Good(Cardinality(S))
  <2>1. Cardinality(S) \in Nat
    BY FS_CardinalityType
  <2> HIDE DEF Good
  <2> QED
    BY <1>4, <2>1
<1>6. UpTo(Cardinality(S)) = SUBSET S
  BY <1>1
<1>7. PICK g : g = [s \in SUBSET S |-> Step(g, s)]
  <2> HIDE DEF UpTo, Step
  <2> QED
    BY <1>5, <1>6
<1> QED
  BY <1>7 DEF Adds

\* g adds f up to its sum.
Sums(g, f, S) ==
    /\ Points!SumOf(f, S) = g[S] /\ g[{}] = 0
    /\ \A s \in SUBSET S : s # {} => g[s] = f[OneOf(s)] + g[s \ {OneOf(s)}]

LEMMA SumAdds ==
  ASSUME NEW S, IsFiniteSet(S), NEW f
  PROVE  \E g : Sums(g, f, S)
<1>1. Points!SumOf(f, S) = (CHOOSE g : Adds(g, f, S))[S]
  BY DEF Points!SumOf, Points!MapThenSumSet, Points!MapThenFoldSet, Adds, OneOf
<1>2. PICK g : Adds(g, f, S) /\ Points!SumOf(f, S) = g[S]
  BY <1>1, AddsExists
<1> HIDE DEF OneOf
<1> DEFINE Step(s) == IF s = {} THEN 0 ELSE f[OneOf(s)] + g[s \ {OneOf(s)}]
<1>3. g = [s \in SUBSET S |-> Step(s)]
  BY <1>2 DEF Adds
<1>4. \A s \in SUBSET S : g[s] = Step(s)
  <2> HIDE DEF Step
  <2> QED
    BY <1>3
<1> QED
  BY <1>2, <1>4 DEF Sums

LEMMA SumAgrees ==
  ASSUME NEW S, IsFiniteSet(S), NEW f, NEW h, \A x \in S : h[x] = f[x]
  PROVE  Points!SumOf(h, S) = Points!SumOf(f, S)
<1>1. PICK gf : Sums(gf, f, S)
  BY SumAdds
<1>2. PICK gh : Sums(gh, h, S)
  BY SumAdds
<1> DEFINE P == {s \in SUBSET S : gh[s] = gf[s]}
<1>3. \A s \in SUBSET S : s # {} => OneOf(s) \in S
  BY DEF OneOf
<1>4. ASSUME NEW s \in SUBSET S, s # {}, s \ {OneOf(s)} \in P PROVE s \in P
  BY <1>1, <1>2, <1>3, <1>4 DEF Sums
<1>5. {} \in P
  BY <1>1, <1>2 DEF Sums
<1>6. SUBSET S \subseteq P
  <2> HIDE DEF P
  <2> QED
    BY <1>4, <1>5, BySubsets
<1> QED
  BY <1>1, <1>2, <1>6 DEF Sums

\* The sum of a function that gets d more at one of the elements.
LEMMA SumChanges ==
  ASSUME NEW S, IsFiniteSet(S), NEW f, \A x \in S : f[x] \in Int,
         NEW k \in S, NEW d \in Int, NEW h,
         h[k] = f[k] + d, \A x \in S \ {k} : h[x] = f[x]
  PROVE  Points!SumOf(f, S) \in Int /\ Points!SumOf(h, S) = Points!SumOf(f, S) + d
<1>1. PICK gf : Sums(gf, f, S)
  BY SumAdds
<1>2. PICK gh : Sums(gh, h, S)
  BY SumAdds
<1> DEFINE P == {s \in SUBSET S : gf[s] \in Int /\ gh[s] = gf[s] + (IF k \in s THEN d ELSE 0)}
<1>3. \A s \in SUBSET S : s # {} => OneOf(s) \in s
  BY DEF OneOf
<1>4. ASSUME NEW s \in SUBSET S, s # {}, s \ {OneOf(s)} \in P PROVE s \in P
  <2> DEFINE x == OneOf(s)
             r == s \ {x}
  <2>1. x \in s /\ x \in S /\ f[x] \in Int
    BY <1>3, <1>4
  <2>2. gf[r] \in Int /\ gh[r] = gf[r] + (IF k \in r THEN d ELSE 0)
    BY <1>4
  <2>3. gf[s] = f[x] + gf[r] /\ gh[s] = h[x] + gh[r]
    BY <1>1, <1>2, <1>4 DEF Sums
  <2>4. CASE x = k
    <3>1. k \in s /\ k \notin r /\ h[x] = f[x] + d
      BY <2>1, <2>4
    <3> HIDE DEF x, r
    <3> QED
      BY <2>1, <2>2, <2>3, <3>1
  <2>5. CASE x # k
    <3>1. (k \in s <=> k \in r) /\ h[x] = f[x]
      BY <2>1, <2>5
    <3> HIDE DEF x, r
    <3> QED
      BY <2>1, <2>2, <2>3, <3>1
  <2> QED
    BY <2>4, <2>5
<1>5. {} \in P
  BY <1>1, <1>2 DEF Sums
<1>6. SUBSET S \subseteq P
  <2> HIDE DEF P
  <2> QED
    BY <1>4, <1>5, BySubsets
<1> QED
  BY <1>1, <1>2, <1>6 DEF Sums

\* A sum is within its greatest addend times their number, less what one of
\* them falls short.
LEMMA SumBounded ==
  ASSUME NEW S, IsFiniteSet(S), NEW f, NEW top \in Nat,
         \A x \in S : f[x] \in Nat /\ f[x] <= top, NEW k \in S
  PROVE  /\ Points!SumOf(f, S) \in Nat
         /\ Points!SumOf(f, S) <= f[k] + (Cardinality(S) - 1) * top
<1>1. PICK g : Sums(g, f, S)
  BY SumAdds
<1> DEFINE Short(s) == IF k \in s THEN top - f[k] ELSE 0
           P == {s \in SUBSET S : g[s] \in Nat /\ g[s] + Short(s) <= Cardinality(s) * top}
<1>3. \A s \in SUBSET S : IsFiniteSet(s)
  BY FS_Subset
<1>4. ASSUME NEW s \in SUBSET S, s # {}, s \ {OneOf(s)} \in P PROVE s \in P
  <2> DEFINE x == OneOf(s)
             r == s \ {x}
             n == Cardinality(r)
  <2>1. x \in s /\ Cardinality(s) = n + 1 /\ n \in Nat
    <3>1. /\ x \in s /\ n = Cardinality(s) - 1
          /\ Cardinality(s) \in Nat \ {0} /\ n \in Nat
      BY <1>3, <1>4, OneLess
    <3> HIDE DEF n, x
    <3> QED
      BY <3>1
  <2>2. f[x] \in Nat /\ f[x] <= top /\ f[k] \in Nat /\ f[k] <= top
    BY <2>1
  <2>3. g[r] \in Nat /\ g[r] + Short(r) <= n * top
    BY <1>4
  <2>4. g[s] = f[x] + g[r]
    BY <1>1, <1>4 DEF Sums
  <2>5. (n + 1) * top = n * top + top /\ n * top \in Nat
    <3> HIDE DEF n
    <3> QED
      BY <2>1
  <2>6. Short(s) <= Short(r) + (top - f[x]) /\ Short(s) \in Nat /\ Short(r) \in Nat
    BY <2>1, <2>2
  <2>7. g[s] \in Nat /\ g[s] + Short(s) <= (n + 1) * top
    <3> DEFINE a == n * top
    <3> HIDE DEF Short, r, x, n, a
    <3>1. a \in Nat /\ (n + 1) * top = a + top /\ g[r] + Short(r) <= a
      BY <2>3, <2>5 DEF a
    <3> QED
      BY <2>2, <2>3, <2>4, <2>6, <3>1
  <2> QED
    BY <2>1, <2>7
<1>5. {} \in P
  BY <1>1, FS_EmptySet DEF Sums
<1>6. S \in P
  <2> HIDE DEF P
  <2> QED
    BY <1>4, <1>5, BySubsets
<1>7. Cardinality(S) \in Nat /\ f[k] \in Nat
  BY FS_CardinalityType
<1>8. g[S] \in Nat /\ g[S] + (top - f[k]) <= Cardinality(S) * top
  BY <1>6
<1>9. (Cardinality(S) - 1) * top = Cardinality(S) * top - top /\ Cardinality(S) * top \in Nat
  BY <1>7
<1> QED
  BY <1>1, <1>7, <1>8, <1>9 DEF Sums

LEMMA SumOfNothing ==
  ASSUME NEW S, IsFiniteSet(S), NEW f, \A x \in S : f[x] = 0
  PROVE  Points!SumOf(f, S) = 0
<1>1. PICK g : Sums(g, f, S)
  BY SumAdds
<1> DEFINE P == {s \in SUBSET S : g[s] = 0}
<1>2. ASSUME NEW s \in SUBSET S, s # {}, s \ {OneOf(s)} \in P PROVE s \in P
  <2>1. OneOf(s) \in S
    BY <1>2 DEF OneOf
  <2> QED
    BY <1>1, <1>2, <2>1 DEF Sums
<1>3. {} \in P
  BY <1>1 DEF Sums
<1>4. SUBSET S \subseteq P
  <2> HIDE DEF P
  <2> QED
    BY <1>2, <1>3, BySubsets
<1> QED
  BY <1>1, <1>4 DEF Sums

LEMMA SumIsInt ==
  ASSUME NEW S, IsFiniteSet(S), NEW f, \A x \in S : f[x] \in Int
  PROVE  Points!SumOf(f, S) \in Int
<1>1. CASE S = {}
  BY <1>1, SumOfNothing
<1>2. ASSUME NEW k \in S PROVE Points!SumOf(f, S) \in Int
  <2>1. f[k] = f[k] + 0 /\ 0 \in Int
    OBVIOUS
  <2> QED
    BY <2>1, SumChanges
<1> QED
  BY <1>1, <1>2

-----------------------------------------------------------------------------
(* ImpactPoints: how far a cap is overrun. *)

\* Capped amounts that a session has computed and not posted yet.
Underway == [s \in Sessions |->
    IF reviewer[s].pc \in {"limit", "post"} /\ reviewer[s].item \in Capped THEN reviewer[s].amount ELSE 0]

\* Whoever computes an amount fits it under the cap as it is then; what the others
\* have under way at that moment is at most one contribution each.
CapInv ==
    /\ \A i \in Capped : points[i] \in Nat
    /\ \A s \in Sessions : Underway[s] \in Nat /\ Underway[s] <= Worth
    /\ Points!SumOf(points, Capped) + Points!SumOf(Underway, Sessions) <= Cap + (Cardinality(Sessions) - 1) * Worth

LEMMA CapConstants ==
  /\ IsFiniteSet(Capped) /\ Capped \subseteq Items /\ Worth \in Nat \ {0} /\ Cap \in Nat
  /\ IsFiniteSet(Sessions) /\ Sessions # {} /\ Cardinality(Sessions) \in Nat \ {0}
  /\ Points!Cardinality(Sessions) = Cardinality(Sessions)
  /\ (Cardinality(Sessions) - 1) * Worth \in Nat
<1>1. /\ Capped \subseteq Items /\ Worth \in Nat \ {0} /\ Cap \in Nat /\ Sessions # {}
      /\ Points!IsFiniteSet(Capped) /\ Points!IsFiniteSet(Sessions)
  BY PointsAssumption DEF Points!ImpactAssumption
<1>2. IsFiniteSet(Capped) /\ IsFiniteSet(Sessions)
  BY <1>1 DEF Points!IsFiniteSet, IsFiniteSet
<1>3. Points!Cardinality(Sessions) = Cardinality(Sessions)
  BY DEF Points!Cardinality, Cardinality, Points!IsFiniteSet, IsFiniteSet
<1>4. Cardinality(Sessions) \in Nat \ {0}
  BY <1>1, <1>2, FS_CardinalityType, FS_EmptySet
<1>5. (Cardinality(Sessions) - 1) * Worth \in Nat
  <2> DEFINE n == Cardinality(Sessions) - 1
  <2>1. n \in Nat /\ Worth \in Nat
    BY <1>1, <1>4
  <2> HIDE DEF n
  <2>2. n * Worth \in Nat
    BY <2>1
  <2> QED
    BY <2>2 DEF n
<1> QED
  BY <1>1, <1>2, <1>3, <1>4, <1>5

LEMMA PostedSum ==
  ASSUME CapInv
  PROVE  /\ Points!SumOf(points, Capped) \in Int
         /\ (\A i \in Capped : points'[i] = points[i])
               => Points!SumOf(points', Capped) = Points!SumOf(points, Capped) + 0
<1>1. Points!SumOf(points, Capped) \in Int
  BY SumIsInt, CapConstants DEF CapInv
<1>2. ASSUME \A i \in Capped : points'[i] = points[i]
      PROVE  Points!SumOf(points', Capped) = Points!SumOf(points, Capped)
  BY <1>2, SumAgrees, CapConstants
<1> QED
  BY <1>1, <1>2

LEMMA UnderwayMoves ==
  ASSUME PointsInv, NEW s \in Sessions, NEW step, Points!Goes(s, step)
  PROVE  /\ Underway'[s] = IF step.pc \in {"limit", "post"} /\ step.item \in Capped THEN step.amount ELSE 0
         /\ \A r \in Sessions \ {s} : Underway'[r] = Underway[r]
BY ReviewersMove DEF PointsInv, Underway

\* A session pays at most what it has under way, or gives it up.
LEMMA CapMoves ==
  ASSUME PointsInv, CapInv, NEW s \in Sessions, NEW step, Points!Goes(s, step),
         Underway'[s] \in Nat, Underway'[s] <= Worth, NEW paid \in Nat,
         \A i \in Capped : points'[i] \in Nat,
         Points!SumOf(points', Capped) = Points!SumOf(points, Capped) + paid,
         Underway'[s] + paid <= Underway[s]
  PROVE  CapInv'
<1>1. PICK u, v : u = Underway /\ v = Underway'
  OBVIOUS
<1>2. /\ \A r \in Sessions : u[r] \in Nat /\ u[r] <= Worth
      /\ \A r \in Sessions \ {s} : v[r] = u[r]
      /\ v[s] \in Nat /\ v[s] <= Worth /\ v[s] + paid <= u[s]
  BY <1>1, UnderwayMoves DEF CapInv
<1>3. PICK d \in Int : v[s] = u[s] + d /\ d + paid <= 0
  <2>1. v[s] = u[s] + (v[s] - u[s]) /\ v[s] - u[s] \in Int /\ (v[s] - u[s]) + paid <= 0
    BY <1>2
  <2> QED
    BY <2>1
<1>4. Points!SumOf(u, Sessions) \in Int /\ Points!SumOf(v, Sessions) = Points!SumOf(u, Sessions) + d
  BY <1>2, <1>3, SumChanges, CapConstants
<1>5. PICK a \in Int, b \in Int :
        /\ a = Points!SumOf(points, Capped)
        /\ b = Cap + (Cardinality(Sessions) - 1) * Worth
  <2>1. Points!SumOf(points, Capped) \in Int
    BY PostedSum
  <2> QED
    BY <2>1, CapConstants
<1>6. a + Points!SumOf(u, Sessions) <= b
  BY <1>1, <1>5 DEF CapInv
<1>7. (a + paid) + Points!SumOf(v, Sessions) <= b
  <2> HIDE DEF Underway
  <2> QED
    BY ONLY <1>3, <1>4, <1>5, <1>6, paid \in Nat, d \in Int, a \in Int, b \in Int
<1>8. Points!SumOf(points', Capped) + Points!SumOf(Underway', Sessions)
        <= Cap + (Cardinality(Sessions) - 1) * Worth
  BY <1>1, <1>5, <1>7
<1>9. \A r \in Sessions : v[r] \in Nat /\ v[r] <= Worth
  BY <1>2
<1> QED
  BY <1>1, <1>8, <1>9 DEF CapInv

\* Steps that end what the session had under way and pay no item.
LEMMA CapStands ==
  ASSUME PointsInv, CapInv, NEW s \in Sessions, NEW step, Points!Goes(s, step),
         step.pc \notin {"limit", "post"}, \A i \in Capped : points'[i] = points[i]
  PROVE  CapInv'
<1>1. Underway'[s] = 0 /\ Underway[s] \in Nat
  BY UnderwayMoves DEF CapInv
<1>2. Points!SumOf(points', Capped) = Points!SumOf(points, Capped) + 0
  BY PostedSum
<1>3. \A i \in Capped : points'[i] \in Nat
  BY DEF CapInv
<1>4. 0 \in Nat /\ 0 <= Worth /\ 0 + 0 <= Underway[s]
  BY <1>1, CapConstants
<1> HIDE DEF Underway
<1> QED
  BY <1>1, <1>2, <1>3, <1>4, CapMoves

\* What is computed fits under the cap beside all that was posted; each of the
\* others has one contribution at most.
LEMMA CapSums ==
  ASSUME PointsInv, CapInv, NEW s \in Sessions, Points!SumAwarded(s)
  PROVE  CapInv'
<1> DEFINE i == reviewer[s].item
           sum == Points!SumOf(points, Capped)
           limit == [pc |-> "limit", item |-> i, amount |-> Points!Amount(i)]
<1>1. /\ points' = points /\ reviewer[s].pc = "sum"
      /\ \/ Points!Goes(s, limit) /\ Points!Amount(i) > 0
         \/ Points!Goes(s, Points!Idle)
  BY DEF Points!SumAwarded, Points!record, Points!At
<1>2. CASE Points!Goes(s, Points!Idle)
  BY <1>1, <1>2, CapStands DEF Points!Idle
<1>3. limit.pc = "limit" /\ limit.item = i /\ limit.amount = Points!Amount(i)
  OBVIOUS
<1>4. sum \in Int
  BY PostedSum
<1>5. CASE Points!Goes(s, limit) /\ Points!Amount(i) > 0 /\ i \in Capped
  <2> HIDE DEF limit
  <2>1. PICK amount : amount = Points!Amount(i)
    OBVIOUS
  <2>2. amount \in Nat /\ amount <= Worth /\ amount <= Cap - sum
    BY <1>4, <1>5, <2>1, CapConstants DEF Points!Amount, Points!Least
  <2>3. PICK v : v = Underway'
    OBVIOUS
  <2>4. v[s] = amount /\ \A r \in Sessions \ {s} : v[r] = Underway[r]
    BY <1>3, <1>5, <2>1, <2>3, UnderwayMoves
  <2>5. \A r \in Sessions : v[r] \in Nat /\ v[r] <= Worth
    BY <2>2, <2>4 DEF CapInv
  <2>6. /\ Points!SumOf(v, Sessions) \in Nat
        /\ Points!SumOf(v, Sessions) <= amount + (Cardinality(Sessions) - 1) * Worth
    BY <2>4, <2>5, SumBounded, CapConstants
  <2>7. sum + Points!SumOf(v, Sessions) <= Cap + (Cardinality(Sessions) - 1) * Worth
    <3> HIDE DEF sum
    <3> DEFINE rest == (Cardinality(Sessions) - 1) * Worth
               all == Points!SumOf(v, Sessions)
    <3>1. rest \in Nat /\ all \in Nat /\ Cap \in Nat /\ all <= amount + rest
      BY <2>6, CapConstants
    <3> HIDE DEF rest, all
    <3>2. sum + all <= Cap + rest
      BY ONLY <1>4, <2>2, <3>1
    <3> QED
      BY <3>2 DEF rest, all
  <2>8. \A j \in Capped : points'[j] \in Nat
    BY <1>1 DEF CapInv
  <2>9. Points!SumOf(points', Capped) = sum
    BY <1>1
  <2> HIDE DEF sum
  <2> QED
    BY <2>3, <2>5, <2>7, <2>8, <2>9 DEF CapInv
<1>6. CASE Points!Goes(s, limit) /\ i \notin Capped
  <2> HIDE DEF limit
  <2>1. Underway'[s] = 0 /\ Underway[s] = 0
    BY <1>1, <1>3, <1>6, UnderwayMoves DEF Underway
  <2>2. Points!SumOf(points', Capped) = Points!SumOf(points, Capped) + 0
    BY <1>1, PostedSum
  <2>3. \A j \in Capped : points'[j] \in Nat
    BY <1>1 DEF CapInv
  <2>4. 0 \in Nat /\ 0 <= Worth /\ 0 + 0 <= 0
    BY CapConstants
  <2> HIDE DEF Underway
  <2> QED
    BY <1>6, <2>1, <2>2, <2>3, <2>4, CapMoves
<1> QED
  BY <1>1, <1>2, <1>5, <1>6

\* The ceiling only lessens what is under way.
LEMMA CapLimits ==
  ASSUME PointsInv, CapInv, NEW s \in Sessions, Points!ReadCeiling(s)
  PROVE  CapInv'
<1> DEFINE step == [reviewer[s] EXCEPT !.pc = "post", !.amount = Points!Least(@, ceiling)]
<1>1. /\ Points!Goes(s, step) /\ points' = points /\ reviewer[s].pc = "limit"
      /\ ceiling \in Nat
  BY DEF Points!ReadCeiling, Points!record, Points!At, PointsInv, PointsTypes
<1>3. Points!SumOf(points', Capped) = Points!SumOf(points, Capped) + 0
  BY <1>1, PostedSum
<1>4. CASE reviewer[s].item \in Capped
  <2>1. Underway[s] = reviewer[s].amount /\ Underway[s] \in Nat /\ Underway[s] <= Worth
    BY <1>1, <1>4 DEF Underway, CapInv
  <2>2. step.pc = "post" /\ step.item = reviewer[s].item /\ step.amount = Points!Least(reviewer[s].amount, ceiling)
    OBVIOUS
  <2> HIDE DEF step
  <2>3. Underway'[s] = Points!Least(Underway[s], ceiling)
    BY <1>1, <1>4, <2>1, <2>2, UnderwayMoves
  <2>4. Underway'[s] \in Nat /\ Underway'[s] <= Worth /\ Underway'[s] + 0 <= Underway[s]
    BY <1>1, <2>1, <2>3, CapConstants DEF Points!Least
  <2>5. \A i \in Capped : points'[i] \in Nat
    BY <1>1 DEF CapInv
  <2> HIDE DEF Underway
  <2> QED
    BY <1>1, <1>3, <2>4, <2>5, CapMoves
<1>5. CASE reviewer[s].item \notin Capped
  <2>1. step.pc = "post" /\ step.item = reviewer[s].item
    OBVIOUS
  <2> HIDE DEF step
  <2>2. Underway'[s] = 0 /\ Underway[s] = 0
    BY <1>1, <1>5, <2>1, UnderwayMoves DEF Underway
  <2>3. 0 \in Nat /\ 0 <= Worth /\ 0 + 0 <= 0
    BY CapConstants
  <2>5. \A i \in Capped : points'[i] \in Nat
    BY <1>1 DEF CapInv
  <2> HIDE DEF Underway
  <2> QED
    BY <1>1, <1>3, <2>2, <2>3, <2>5, CapMoves
<1> QED
  BY <1>4, <1>5

LEMMA CapPosts ==
  ASSUME PointsInv, CapInv, NEW s \in Sessions, Points!PostItem(s)
  PROVE  CapInv'
<1>1. PICK i \in Items : i = reviewer[s].item
  BY DEF Points!PostItem, Points!At, PointsInv, ReviewerKnows
<1> DEFINE step == [pc |-> "milestones"]
<1>2. /\ Points!Goes(s, step) /\ reviewer[s].pc = "post"
      /\ points' = [points EXCEPT ![i] = IF @ = 0 THEN reviewer[s].amount ELSE @]
  BY <1>1 DEF Points!PostItem, Points!Posted, Points!At
<1>3. \A j \in Items \ {i} : points'[j] = points[j]
  BY <1>2 DEF PointsInv, PointsTypes
<1>4. points'[i] = IF points[i] = 0 THEN reviewer[s].amount ELSE points[i]
  BY <1>2 DEF PointsInv, PointsTypes
<1>5. CASE i \in Capped /\ points[i] = 0
  <2>1. Underway[s] = reviewer[s].amount /\ Underway[s] \in Nat
    BY <1>1, <1>2, <1>5 DEF Underway, CapInv
  <2>2. Underway'[s] = 0
    BY <1>2, UnderwayMoves
  <2>3. PICK paid \in Nat : paid = Underway[s]
    BY <2>1
  <2>4. points'[i] = points[i] + paid /\ \A j \in Capped \ {i} : points'[j] = points[j]
    BY <1>3, <1>4, <1>5, <2>1, <2>3, CapConstants
  <2>5. \A j \in Capped : points[j] \in Int /\ points'[j] \in Nat
    BY <1>5, <2>3, <2>4 DEF CapInv
  <2>6. Points!SumOf(points', Capped) = Points!SumOf(points, Capped) + paid
    BY <1>5, <2>3, <2>4, <2>5, SumChanges, CapConstants, paid \in Int
  <2>7. 0 \in Nat /\ 0 <= Worth /\ 0 + paid <= Underway[s]
    BY <2>1, <2>3, CapConstants
  <2> HIDE DEF Underway
  <2> QED
    BY <1>2, <2>2, <2>3, <2>5, <2>6, <2>7, CapMoves
<1>6. CASE ~(i \in Capped /\ points[i] = 0)
  <2>1. \A j \in Capped : points'[j] = points[j]
    BY <1>3, <1>4, <1>6, CapConstants
  <2> QED
    BY <1>2, <2>1, CapStands
<1> QED
  BY <1>5, <1>6

\* An award's points are no item's.
LEMMA CapAwards ==
  ASSUME PointsInv, CapInv, NEW s \in Sessions, Points!Pay(s) \/ Points!EvaluateRules(s)
  PROVE  CapInv'
<1>1. \A i \in Capped : i \in Items /\ i \notin Points!Awards /\ i \in DOMAIN points
  BY CapConstants, PointsAssumption DEF Points!ImpactAssumption, PointsInv, PointsTypes
<1>2. CASE Points!Pay(s)
  <2>1. PICK a \in Points!Awards : a = reviewer[s].award
    BY <1>2 DEF Points!Pay, PointsInv, ReviewerKnows
  <2> DEFINE step == [pc |-> "award", todo |-> reviewer[s].todo, next |-> reviewer[s].next]
  <2>2. Points!Goes(s, step) /\ points' = [points EXCEPT ![a] = IF @ = 0 THEN Reward[a] ELSE @]
    BY <1>2, <2>1 DEF Points!Pay, Points!Posted
  <2>3. \A i \in Capped : points'[i] = points[i]
    BY <1>1, <2>1, <2>2
  <2>4. step.pc \notin {"limit", "post"}
    OBVIOUS
  <2> HIDE DEF step
  <2> QED
    BY <2>2, <2>3, <2>4, CapStands
<1>3. CASE Points!EvaluateRules(s)
  <2> DEFINE due == Points!Due(Rules) \ held
  <2>1. due \subseteq Points!Awards
    BY DEF Points!Due, Points!Awards
  <2>2. PICK step : /\ Points!Goes(s, step) /\ step.pc \in {"idle", "rank"}
                    /\ \/ points' = points
                       \/ points' = [k \in DOMAIN points |-> IF k \in due THEN Reward[k] ELSE points[k]]
    BY <1>3 DEF Points!EvaluateRules, Points!record, Points!Idle
  <2> HIDE DEF due
  <2>3. \A i \in Capped : points'[i] = points[i]
    BY <1>1, <2>1, <2>2
  <2> QED
    BY <2>2, <2>3, CapStands
<1> QED
  BY <1>2, <1>3

LEMMA CapReads ==
  ASSUME PointsInv, CapInv, NEW s \in Sessions,
         \/ \E i \in Items, approve \in BOOLEAN : Points!Review(s, i, approve)
         \/ \E a \in Milestones \cup Badges : Points!Grant(s, a)
         \/ Points!Decide(s) \/ Points!FindDue(s) \/ Points!NothingDue(s)
         \/ Points!ReadRank(s) \/ Points!CommitRank(s) \/ Points!Abort(s)
  PROVE  CapInv'
<1>1. ASSUME NEW step, Points!Goes(s, step), step.pc \notin {"limit", "post"}, points' = points
      PROVE  CapInv'
  BY <1>1, CapStands
<1>2. ASSUME NEW i \in Items, NEW approve \in BOOLEAN, Points!Review(s, i, approve) PROVE CapInv'
  BY <1>1, <1>2 DEF Points!Review, Points!record
<1>3. ASSUME NEW a \in Milestones \cup Badges, Points!Grant(s, a) PROVE CapInv'
  BY <1>1, <1>3 DEF Points!Grant
<1>4. CASE Points!Decide(s)
  <2>1. PICK step : /\ Points!Goes(s, step) /\ step.pc \in {"sum", "idle"} /\ points' = points
    BY <1>4 DEF Points!Decide, Points!Idle
  <2> QED
    BY <1>1, <2>1
<1>5. CASE Points!FindDue(s)
  <2>1. PICK step : /\ Points!Goes(s, step) /\ step.pc = "award" /\ points' = points
    BY <1>5 DEF Points!FindDue, Points!record
  <2> QED
    BY <1>1, <2>1
<1>6. CASE Points!NothingDue(s)
  <2>1. reviewer[s].next \in {"badges", "rules"}
    BY <1>6 DEF Points!NothingDue, Points!At, PointsInv, ReviewerKnows
  <2>2. PICK step : /\ Points!Goes(s, step) /\ step.pc \in {"badges", "rules"} /\ points' = points
    BY <1>6, <2>1 DEF Points!NothingDue, Points!record
  <2> QED
    BY <1>1, <2>2
<1>7. CASE Points!ReadRank(s) \/ Points!CommitRank(s) \/ Points!Abort(s)
  <2>1. PICK step : /\ Points!Goes(s, step) /\ step.pc \in {"idle", "ranked"} /\ points' = points
    BY <1>7 DEF Points!ReadRank, Points!CommitRank, Points!Abort, Points!record, Points!Idle
  <2> QED
    BY <1>1, <2>1
<1> QED
  BY <1>2, <1>3, <1>4, <1>5, <1>6, <1>7

LEMMA CapNext ==
  ASSUME PointsInv, CapInv, [Points!Next]_pointsVars
  PROVE  CapInv'
<1>1. ASSUME points' = points, reviewer' = reviewer PROVE CapInv'
  <2>1. Underway' = Underway
    BY <1>1 DEF Underway
  <2> QED
    BY <1>1, <2>1 DEF CapInv
<1>2. CASE \/ UNCHANGED pointsVars
           \/ \E n \in Ceilings : Points!SaveCeiling(n)
           \/ \E n \in Adjustments : Points!Adjust(n)
           \/ \E b \in Badges : Points!Revoke(b)
  BY <1>1, <1>2 DEF pointsVars, Points!SaveCeiling, Points!Adjust, Points!Revoke, Points!record
<1> QED
  BY <1>2, CapReads, CapSums, CapLimits, CapPosts, CapAwards DEF Points!Next

LEMMA CapStart == Points!Init => CapInv
<1> SUFFICES ASSUME Points!Init PROVE CapInv
  OBVIOUS
<1>1. /\ \A i \in Capped : points[i] = 0
      /\ \A s \in Sessions : Underway[s] = 0
  BY CapConstants DEF Points!Init, Points!Idle, Underway
<1>2. Points!SumOf(points, Capped) = 0
  BY <1>1, SumOfNothing, CapConstants
<1>3. Points!SumOf(Underway, Sessions) = 0
  <2> HIDE DEF Underway
  <2> QED
    BY <1>1, SumOfNothing, CapConstants
<1>4. 0 + 0 <= Cap + (Cardinality(Sessions) - 1) * Worth
  <2> DEFINE rest == (Cardinality(Sessions) - 1) * Worth
  <2>1. rest \in Nat /\ Cap \in Nat
    BY CapConstants
  <2> HIDE DEF rest
  <2>2. 0 + 0 <= Cap + rest
    BY <2>1
  <2> QED
    BY <2>2 DEF rest
<1> HIDE DEF Underway
<1> QED
  BY <1>1, <1>2, <1>3, <1>4, CapConstants DEF CapInv

\* However many approvals for one contributor overlap, the cap of its period is
\* overrun by at most one contribution for each other session
\* (services/contribution.py sums what was awarded before it awards).
THEOREM CapsAreOverrunBySessions == EarningSpec => []CapOverrunIsBounded
<1>1. EarningInit => (part = "points" => CapInv)
  BY CapStart DEF EarningInit
<1>2. (part = "points" => PointsInv) /\ (part = "points" => CapInv)
         /\ [EarningNext]_<<part, vars, presenceVars, pointsVars>> => (part = "points" => CapInv)'
  <2> SUFFICES ASSUME part = "points" => PointsInv, part = "points" => CapInv,
                      [EarningNext]_<<part, vars, presenceVars, pointsVars>>, part' = "points"
               PROVE  CapInv'
    OBVIOUS
  <2>1. PointsInv /\ CapInv /\ [Points!Next]_pointsVars
    BY DEF EarningNext
  <2> QED
    BY <2>1, CapNext
<1>3. CapInv => Points!CapOverrunIsBounded
  <2> SUFFICES ASSUME CapInv PROVE Points!CapOverrunIsBounded
    OBVIOUS
  <2>1. PICK s \in Sessions : TRUE
    BY CapConstants
  <2>2. PICK u : u = Underway
    OBVIOUS
  <2>3. \A r \in Sessions : u[r] \in Nat /\ u[r] <= Worth
    BY <2>2 DEF CapInv
  <2>4. Points!SumOf(u, Sessions) \in Nat
    BY <2>1, <2>3, SumBounded, CapConstants
  <2>5. Points!SumOf(points, Capped) \in Int
    BY PostedSum
  <2> DEFINE rest == (Cardinality(Sessions) - 1) * Worth
             sum == Points!SumOf(points, Capped)
             all == Points!SumOf(u, Sessions)
  <2>6. rest \in Nat /\ Cap \in Nat /\ sum \in Int /\ all \in Nat /\ sum + all <= Cap + rest
    BY <2>2, <2>4, <2>5, CapConstants DEF CapInv
  <2> HIDE DEF rest, sum, all
  <2>7. sum <= Cap + rest
    BY ONLY <2>6
  <2> QED
    BY <2>7, CapConstants DEF rest, sum, Points!CapOverrunIsBounded
<1>4. (part = "points" => CapInv) => CapOverrunIsBounded
  BY <1>3 DEF CapOverrunIsBounded
<1> QED
  BY <1>1, <1>2, <1>4, PointsAlways, PTL DEF EarningSpec

-----------------------------------------------------------------------------
(* Attendance: what is earned is verified. *)

\* A status that was computed has its signals, and keeps them: an organizer's
\* may change, but only into another, and none of the others depends on it.
Supported(state) ==
    /\ state = "gps_verified" => signal["gps"] = "valid"
    /\ state \in {"qr_verified", "peer_verified"} => "organizer" \notin Required /\ Required \subseteq Presence!Valid(signal)
    /\ state \in {"rejected", "organizer_verified"} => signal["organizer"] # "none"

Earned == Required \subseteq Presence!Valid(signal) \/ signal["organizer"] # "none"

PresenceTypes ==
    /\ status \in Presence!AttendanceStatus \cup {"absent"}
    /\ signal \in [Presence!Methods -> Presence!Evidence]
    /\ awarded \in BOOLEAN /\ net \in Int
    /\ request = [s \in Sessions |-> request[s]]
    /\ signal["gps_checkout"] # "none" => checkedOut
    /\ status = "absent" => \A m \in Presence!Methods : signal[m] = "none"

Verifying == {"score", "award", "compensate", "post"} \cup Presence!AttendanceStatus

RequestKnows(s) ==
    /\ request[s].pc \in {"idle", "scan", "confirm", "decide"} \cup Verifying
    /\ request[s].pc \notin {"idle", "scan"} => status # "absent"
    /\ request[s].pc \in Presence!AttendanceStatus => Supported(request[s].pc)
    /\ request[s].pc \in {"decide", "compensate", "post"} => request[s].by = "organizer"
    /\ request[s].pc \in {"scan", "confirm"} => request[s].by # "organizer"
    /\ request[s].pc = "decide" => request[s].seen = "none" \/ signal["organizer"] # "none"
    /\ request[s].pc \in Verifying /\ request[s].by = "organizer" => signal["organizer"] # "none"
    /\ request[s].pc \in {"decide"} \cup (Verifying \ {"post"}) /\ request[s].by = "organizer"
          => request[s].decision \in {"valid", "invalid"}
    /\ request[s].pc = "post" => request[s].owed \in Int

EvidenceInv ==
    /\ PresenceTypes
    /\ \A s \in Sessions : RequestKnows(s)
    /\ awarded => Earned
    /\ Supported(status)

\* No signal is withdrawn.
SignalsStand ==
    /\ \A m \in Presence!Methods : signal[m] # "none" => signal'[m] # "none"
    /\ \A m \in Presence!Methods \ {"organizer"} : signal[m] = "valid" => signal'[m] = "valid"

LEMMA RequestsMove ==
  ASSUME PresenceTypes, NEW s \in Sessions, NEW step, Presence!Goes(s, step)
  PROVE  /\ request' = [r \in Sessions |-> request'[r]] /\ request'[s] = step
         /\ \A r \in Sessions \ {s} : request'[r] = request[r]
BY DEF PresenceTypes, Presence!Goes

LEMMA SupportStands ==
  ASSUME SignalsStand
  PROVE  /\ \A state : Supported(state) => Supported(state)'
         /\ Earned => Earned'
<1>1. "organizer" \notin Required /\ Required \subseteq Presence!Valid(signal) => Required \subseteq Presence!Valid(signal')
  BY DEF SignalsStand, Presence!Valid
<1>2. "gps" \in Presence!Methods \ {"organizer"} /\ "organizer" \in Presence!Methods
  BY DEF Presence!Methods
<1>3. ASSUME NEW state, Supported(state) PROVE Supported(state)'
  BY <1>1, <1>2, <1>3 DEF Supported, SignalsStand
<1>4. ASSUME Earned PROVE Earned'
  <2>1. CASE signal["organizer"] # "none"
    BY <1>2, <2>1 DEF SignalsStand, Earned
  <2>2. CASE signal["organizer"] = "none" /\ Required \subseteq Presence!Valid(signal)
    <3>1. "organizer" \notin Required
      BY <2>2 DEF Presence!Valid
    <3> QED
      BY <1>1, <2>2, <3>1 DEF Earned
  <2> QED
    BY <1>4, <2>1, <2>2 DEF Earned
<1> QED
  BY <1>3, <1>4

LEMMA EvidenceMoves ==
  ASSUME EvidenceInv, NEW s \in Sessions, NEW step, Presence!Goes(s, step),
         PresenceTypes', RequestKnows(s)', SignalsStand, status # "absent" => status' # "absent",
         awarded' => awarded \/ Earned', status' = status \/ Supported(status)'
  PROVE  EvidenceInv'
<1>1. request'[s] = step /\ \A r \in Sessions \ {s} : request'[r] = request[r]
  BY RequestsMove DEF EvidenceInv
<1>2. ASSUME NEW r \in Sessions \ {s} PROVE RequestKnows(r)'
  <2>1. RequestKnows(r) /\ request'[r] = request[r]
    BY <1>1 DEF EvidenceInv
  <2>2. signal["organizer"] # "none" => signal'["organizer"] # "none"
    BY DEF SignalsStand, Presence!Methods
  <2> QED
    BY <2>1, <2>2, SupportStands DEF RequestKnows
<1>3. awarded' => Earned'
  BY SupportStands DEF EvidenceInv
<1>4. Supported(status)'
  BY SupportStands DEF EvidenceInv
<1> QED
  BY <1>2, <1>3, <1>4 DEF EvidenceInv

\* The steps that write no signal.
LEMMA EvidenceReads ==
  ASSUME EvidenceInv, NEW s \in Sessions, NEW step, Presence!Goes(s, step),
         UNCHANGED <<signal, checkedOut>>, RequestKnows(s)',
         status' = status \/ (status' \in Presence!AttendanceStatus /\ Supported(status)' /\ status # "absent"),
         awarded' \in BOOLEAN, net' \in Int, awarded' => awarded \/ Earned'
  PROVE  EvidenceInv'
<1>1. PresenceTypes'
  BY RequestsMove DEF EvidenceInv, PresenceTypes, Presence!AttendanceStatus
<1>2. SignalsStand
  BY DEF SignalsStand
<1>3. status # "absent" => status' # "absent"
  BY DEF Presence!AttendanceStatus
<1> QED
  BY <1>1, <1>2, <1>3, EvidenceMoves

LEMMA EvidenceReadSteps ==
  ASSUME EvidenceInv, NEW s \in Sessions,
         \/ Presence!ReadScan(s)
         \/ \E p \in Peers : Presence!ReadConfirm(s, p)
         \/ \E decision \in {"valid", "invalid"} : Presence!ReadDecision(s, decision)
         \/ Presence!ReadPosted(s) \/ Presence!Compensate(s) \/ Presence!Abort(s)
  PROVE  EvidenceInv'
<1> USE DEF Presence!At
<1>1. ASSUME NEW step, Presence!Goes(s, step) PROVE request'[s] = step
  BY <1>1, RequestsMove DEF EvidenceInv
<1>2. RequestKnows(s) /\ awarded \in BOOLEAN /\ net \in Int
  BY DEF EvidenceInv, PresenceTypes
<1>3. ASSUME NEW step, Presence!Goes(s, step), UNCHANGED Presence!rows, RequestKnows(s)' PROVE EvidenceInv'
  BY <1>2, <1>3, EvidenceReads DEF Presence!rows
<1>4. CASE Presence!ReadScan(s)
  <2>1. PICK step : Presence!Goes(s, step) /\ step.pc = "scan" /\ step.by = "qr"
    BY <1>4 DEF Presence!ReadScan
  <2>2. RequestKnows(s)'
    BY <1>1, <2>1 DEF RequestKnows, Verifying, Presence!AttendanceStatus
  <2> QED
    BY <1>3, <1>4, <2>1, <2>2 DEF Presence!ReadScan
<1>5. ASSUME NEW p \in Peers, Presence!ReadConfirm(s, p) PROVE EvidenceInv'
  <2>1. PICK step : Presence!Goes(s, step) /\ step.pc = "confirm" /\ step.by = "peer"
    BY <1>5 DEF Presence!ReadConfirm
  <2>2. status' # "absent"
    BY <1>5 DEF Presence!ReadConfirm, Presence!rows
  <2>3. RequestKnows(s)'
    BY <1>1, <2>1, <2>2 DEF RequestKnows, Verifying, Presence!AttendanceStatus
  <2> QED
    BY <1>3, <1>5, <2>1, <2>3 DEF Presence!ReadConfirm
<1>6. ASSUME NEW decision \in {"valid", "invalid"}, Presence!ReadDecision(s, decision) PROVE EvidenceInv'
  <2>1. PICK step : /\ Presence!Goes(s, step) /\ step.pc = "decide" /\ step.by = "organizer"
                    /\ step.decision \in {"valid", "invalid"} /\ step.seen = signal["organizer"]
    BY <1>6 DEF Presence!ReadDecision
  <2>2. status' # "absent" /\ signal' = signal
    BY <1>6 DEF Presence!ReadDecision, Presence!rows
  <2>3. RequestKnows(s)'
    BY <1>1, <2>1, <2>2 DEF RequestKnows, Verifying, Presence!AttendanceStatus
  <2> QED
    BY <1>3, <1>6, <2>1, <2>3 DEF Presence!ReadDecision
<1>7. CASE Presence!ReadPosted(s)
  <2> DEFINE step == [pc |-> "post", by |-> "organizer", owed |-> Presence!Owed(request[s].decision)]
  <2>1. /\ Presence!Goes(s, step) /\ UNCHANGED Presence!rows /\ request[s].pc = "compensate"
        /\ step.pc = "post" /\ step.by = "organizer"
    BY <1>7 DEF Presence!ReadPosted
  <2>2. step.owed \in Int
    BY <1>2 DEF Presence!Owed
  <2> HIDE DEF step
  <2>3. status' # "absent" /\ signal'["organizer"] # "none"
    BY <1>2, <2>1 DEF RequestKnows, Presence!rows, Verifying
  <2>4. RequestKnows(s)'
    BY <1>1, <2>1, <2>2, <2>3 DEF RequestKnows, Verifying, Presence!AttendanceStatus
  <2> QED
    BY <1>3, <2>1, <2>4
<1>8. ASSUME Presence!Goes(s, Presence!Idle) PROVE RequestKnows(s)'
  BY <1>1, <1>8 DEF RequestKnows, Verifying, Presence!AttendanceStatus, Presence!Idle
<1>9. CASE Presence!Compensate(s)
  <2>1. Presence!Goes(s, Presence!Idle) /\ UNCHANGED <<signal, checkedOut, status, awarded>>
        /\ net' = net + request[s].owed /\ request[s].owed \in Int
    BY <1>2, <1>9 DEF Presence!Compensate, RequestKnows
  <2> QED
    BY <1>2, <1>8, <2>1, EvidenceReads
<1>10. CASE Presence!Abort(s)
  BY <1>3, <1>8, <1>10 DEF Presence!Abort
<1> QED
  BY <1>4, <1>5, <1>6, <1>7, <1>9, <1>10

\* What the score of a session's signals asserts has its signals.
LEMMA ScoreIsSupported ==
  ASSUME EvidenceInv, NEW s \in Sessions, Presence!At(s, "score")
  PROVE  /\ Supported(Presence!StatusFrom(Presence!Loaded(s)))
         /\ Presence!StatusFrom(Presence!Loaded(s)) \in Presence!AttendanceStatus
<1> DEFINE loaded == Presence!Loaded(s)
<1>1. /\ signal \in [Presence!Methods -> Presence!Evidence] /\ RequestKnows(s)
  BY DEF EvidenceInv, PresenceTypes
<1>2. /\ \A m \in Presence!Methods \ {"organizer"} : loaded[m] = signal[m]
      /\ Presence!Deciding(s) \/ loaded = signal
  BY <1>1 DEF Presence!Loaded, Presence!Methods
<1>3. Presence!Deciding(s) => signal["organizer"] # "none"
  BY <1>1 DEF Presence!Deciding, RequestKnows, Verifying, Presence!At
<1> HIDE DEF loaded
<1>4. loaded["organizer"] # "none" => signal["organizer"] # "none"
  BY <1>2, <1>3
<1>5. "organizer" \notin Presence!Valid(loaded) /\ Required \subseteq Presence!Valid(loaded)
         => "organizer" \notin Required /\ Required \subseteq Presence!Valid(signal)
  BY <1>2 DEF Presence!Valid
<1>6. "gps" \in Presence!Valid(loaded) => signal["gps"] = "valid"
  BY <1>2 DEF Presence!Valid
<1>7. "organizer" \in Presence!Valid(loaded) => loaded["organizer"] = "valid"
  BY DEF Presence!Valid
<1>8. Supported(Presence!StatusFrom(loaded)) /\ Presence!StatusFrom(loaded) \in Presence!AttendanceStatus
  BY <1>4, <1>5, <1>6, <1>7 DEF Supported, Presence!StatusFrom, Presence!AttendanceStatus
<1> QED
  BY <1>8 DEF loaded

LEMMA EvidenceScores ==
  ASSUME EvidenceInv, NEW s \in Sessions,
         Presence!ReadSignals(s) \/ Presence!WriteStatus(s) \/ Presence!Award(s)
  PROVE  EvidenceInv'
<1> USE DEF Presence!At
<1>1. ASSUME NEW step, Presence!Goes(s, step) PROVE request'[s] = step
  BY <1>1, RequestsMove DEF EvidenceInv
<1>2. RequestKnows(s) /\ awarded \in BOOLEAN /\ net \in Int
  BY DEF EvidenceInv, PresenceTypes
<1>3. ASSUME Presence!Goes(s, Presence!Idle) PROVE RequestKnows(s)'
  BY <1>1, <1>3 DEF RequestKnows, Verifying, Presence!AttendanceStatus, Presence!Idle
<1>4. ASSUME NEW step, Presence!Goes(s, step), step.pc \in {"award", "compensate"} \cup Presence!AttendanceStatus,
             step.pc = "compensate" => step.by = "organizer",
             step.by = request[s].by, step.decision = request[s].decision,
             request[s].pc \in Verifying \ {"post"},
             step.pc \in Presence!AttendanceStatus => Supported(step.pc), UNCHANGED signal, status' # "absent"
      PROVE  RequestKnows(s)'
  <2>1. request'[s] = step
    BY <1>1, <1>4
  <2>2. step.pc \in Presence!AttendanceStatus => Supported(step.pc)'
    BY <1>4 DEF Supported
  <2> QED
    BY <1>2, <1>4, <2>1, <2>2 DEF RequestKnows, Verifying, Presence!AttendanceStatus
<1>5. CASE Presence!ReadSignals(s)
  <2> DEFINE new == Presence!StatusFrom(Presence!Loaded(s))
             step == [request[s] EXCEPT !.pc = new]
  <2>1. /\ UNCHANGED Presence!rows /\ request[s].pc = "score"
        /\ Presence!Goes(s, Presence!Idle) \/ Presence!Goes(s, step)
    BY <1>5 DEF Presence!ReadSignals
  <2>2. Supported(new) /\ new \in Presence!AttendanceStatus
    BY <2>1, ScoreIsSupported
  <2> HIDE DEF new
  <2>3. step.by = request[s].by /\ step.decision = request[s].decision
    OBVIOUS
  <2>4. step.pc = new
    <3>1. request[s].pc = "score"
      BY <2>1
    <3> QED
      BY <3>1
  <2> HIDE DEF step
  <2>5. status' # "absent"
    BY <1>2, <2>1 DEF RequestKnows, Presence!rows, Verifying
  <2>6. CASE Presence!Goes(s, step)
    <3>1. RequestKnows(s)'
      BY <1>4, <2>1, <2>2, <2>3, <2>4, <2>5, <2>6 DEF Presence!rows, Verifying, Presence!AttendanceStatus
    <3> QED
      BY <1>2, <2>1, <2>6, <3>1, EvidenceReads DEF Presence!rows
  <2>7. CASE Presence!Goes(s, Presence!Idle)
    BY <1>2, <1>3, <2>1, <2>7, EvidenceReads DEF Presence!rows
  <2> QED
    BY <2>1, <2>6, <2>7
<1>6. CASE Presence!WriteStatus(s)
  <2>0. PICK new \in Presence!AttendanceStatus : new = request[s].pc
    BY <1>6 DEF Presence!WriteStatus
  <2> DEFINE next == IF Presence!Deciding(s) /\ request[s].new /\ request[s].decision = "invalid"
                     THEN "compensate" ELSE "award"
             step == [request[s] EXCEPT !.copy = new, !.pc = next]
  <2>1. /\ Presence!Goes(s, step) /\ new \in Presence!AttendanceStatus
        /\ status' \in {status, new}
        /\ UNCHANGED <<checkedOut, signal, awarded, net>>
    BY <1>6, <2>0 DEF Presence!WriteStatus
  <2>2. next \in {"award", "compensate"} /\ (next = "compensate" => request[s].by = "organizer")
    BY DEF Presence!Deciding
  <2> HIDE DEF next
  <2>3. step.by = request[s].by /\ step.decision = request[s].decision
    OBVIOUS
  <2>4. step.pc = next
    OBVIOUS
  <2> HIDE DEF step
  <2>5. status # "absent" /\ Supported(new)
    BY <1>2, <2>0 DEF RequestKnows, Presence!AttendanceStatus
  <2>6. status' # "absent"
    BY <2>1, <2>5 DEF Presence!AttendanceStatus
  <2>7. RequestKnows(s)'
    BY <1>4, <2>0, <2>1, <2>2, <2>3, <2>4, <2>6 DEF Verifying, Presence!AttendanceStatus
  <2>8. Supported(new)'
    BY <2>1, <2>5 DEF Supported
  <2>9. status' = status \/ (status' \in Presence!AttendanceStatus /\ Supported(status)' /\ status # "absent")
    BY <1>2, <2>1, <2>5 DEF Supported
  <2> QED
    BY <1>2, <2>1, <2>7, <2>9, EvidenceReads
<1>7. CASE Presence!Award(s)
  <2> DEFINE step == [request[s] EXCEPT !.pc = "compensate"]
  <2>1. /\ awarded' = (awarded \/ Presence!Qualified(s)) /\ net' \in {net, net + 1} /\ request[s].pc = "award"
        /\ UNCHANGED <<status, checkedOut, signal>>
        /\ \/ Presence!Deciding(s) /\ Presence!Goes(s, step)
           \/ Presence!Goes(s, Presence!Idle)
    BY <1>7 DEF Presence!Award, Presence!Then
  <2>2. Presence!Qualified(s) => Earned'
    BY <2>1 DEF Presence!Qualified, Earned, Presence!Valid
  <2>3. step.by = request[s].by /\ step.decision = request[s].decision
    OBVIOUS
  <2>4. step.pc = "compensate"
    OBVIOUS
  <2> HIDE DEF step
  <2>5. Presence!Deciding(s) /\ Presence!Goes(s, step) => RequestKnows(s)'
    BY <1>2, <1>4, <2>1, <2>3, <2>4 DEF Verifying, Presence!AttendanceStatus, Presence!Deciding, RequestKnows
  <2>6. awarded' \in BOOLEAN /\ net' \in Int
    BY <1>2, <2>1
  <2> QED
    BY <1>3, <2>1, <2>2, <2>5, <2>6, EvidenceReads
<1> QED
  BY <1>5, <1>6, <1>7

LEMMA EvidenceWrites ==
  ASSUME EvidenceInv, NEW s \in Sessions,
         \/ \E position \in Presence!Positions : Presence!CheckIn(s, position) \/ Presence!CheckOut(s, position)
         \/ Presence!Scan(s) \/ Presence!CommitConfirm(s) \/ Presence!CommitDecision(s)
  PROVE  EvidenceInv'
<1> USE DEF Presence!At
<1>1. ASSUME NEW step, Presence!Goes(s, step)
      PROVE  /\ request'[s] = step /\ request' = [r \in Sessions |-> request'[r]]
  BY <1>1, RequestsMove DEF EvidenceInv
<1>2. RequestKnows(s) /\ PresenceTypes /\ Supported(status)
  BY DEF EvidenceInv
<1>3. /\ signal \in [Presence!Methods -> Presence!Evidence] /\ awarded \in BOOLEAN /\ net \in Int
      /\ signal["gps_checkout"] # "none" => checkedOut
      /\ status \in Presence!AttendanceStatus \cup {"absent"}
      /\ {"gps", "gps_checkout", "qr", "peer", "organizer"} \subseteq Presence!Methods
  BY <1>2 DEF PresenceTypes, Presence!Methods
<1>4. ASSUME NEW m \in Presence!Methods, NEW e \in Presence!Evidence,
             signal' = [signal EXCEPT ![m] = e],
             signal[m] = "none" \/ e = "valid" \/ (m = "organizer" /\ e # "none")
      PROVE  SignalsStand /\ signal' \in [Presence!Methods -> Presence!Evidence]
  BY <1>3, <1>4 DEF SignalsStand
<1>5. ASSUME Presence!Goes(s, Presence!Idle) PROVE RequestKnows(s)'
  BY <1>1, <1>5 DEF RequestKnows, Verifying, Presence!AttendanceStatus, Presence!Idle
<1>6. ASSUME NEW step, Presence!Goes(s, step), step.pc \in {"score", "award"}, status' # "absent",
             step.by # "organizer" \/ (signal'["organizer"] # "none" /\ step.decision \in {"valid", "invalid"})
      PROVE  RequestKnows(s)'
  BY <1>1, <1>6 DEF RequestKnows, Verifying, Presence!AttendanceStatus
<1>7. ASSUME NEW position \in Presence!Positions, Presence!CheckIn(s, position) PROVE EvidenceInv'
  <2> DEFINE step == [pc |-> IF position = "none" THEN "award" ELSE "score", by |-> "gps", copy |-> status']
  <2>1. /\ Presence!Goes(s, step) /\ step.pc \in {"score", "award"} /\ step.by # "organizer" /\ status = "absent"
        /\ status' = IF position = "valid" THEN "gps_verified" ELSE "checked_in"
        /\ signal' = [signal EXCEPT !["gps"] = position] /\ position \in Presence!Evidence
        /\ UNCHANGED <<checkedOut, awarded, net>>
    BY <1>7 DEF Presence!CheckIn, Presence!Positions, Presence!Evidence
  <2> HIDE DEF step
  <2>2. \A m \in Presence!Methods : signal[m] = "none"
    BY <1>2, <2>1 DEF PresenceTypes
  <2>3. SignalsStand /\ signal' \in [Presence!Methods -> Presence!Evidence]
        /\ signal'["gps_checkout"] = signal["gps_checkout"]
    BY <1>3, <1>4, <2>1, <2>2
  <2>4. status' # "absent" /\ status' \in Presence!AttendanceStatus
    BY <2>1 DEF Presence!AttendanceStatus
  <2>5. Supported(status)'
    BY <1>3, <2>1 DEF Supported
  <2>6. PresenceTypes'
    BY <1>1, <1>3, <2>1, <2>3, <2>4 DEF PresenceTypes
  <2>7. RequestKnows(s)'
    BY <1>6, <2>1, <2>4
  <2> QED
    BY <2>1, <2>3, <2>4, <2>5, <2>6, <2>7, EvidenceMoves
<1>8. ASSUME NEW position \in Presence!Positions, Presence!CheckOut(s, position) PROVE EvidenceInv'
  <2>1. /\ UNCHANGED <<status, awarded, net, request>> /\ checkedOut' = TRUE /\ ~checkedOut
        /\ signal' = [signal EXCEPT !["gps_checkout"] = position] /\ position \in Presence!Evidence
        /\ status # "absent"
    BY <1>8 DEF Presence!CheckOut, Presence!Positions, Presence!Evidence
  <2>2. SignalsStand /\ signal' \in [Presence!Methods -> Presence!Evidence]
    BY <1>3, <1>4, <2>1
  <2>3. PresenceTypes'
    BY <1>2, <1>3, <2>1, <2>2 DEF PresenceTypes
  <2>4. Presence!Goes(s, request[s])
    BY <1>2, <2>1 DEF PresenceTypes, Presence!Goes
  <2>5. RequestKnows(s)'
    <3>1. signal["organizer"] # "none" => signal'["organizer"] # "none"
      BY <1>3, <2>2 DEF SignalsStand
    <3> QED
      BY <1>2, <2>1, <2>2, <3>1, SupportStands DEF RequestKnows
  <2> QED
    BY <2>1, <2>2, <2>3, <2>4, <2>5, EvidenceMoves
<1>9. CASE Presence!Scan(s)
  <2> DEFINE step == [request[s] EXCEPT !.pc = "score", !.copy = IF @ = "absent" THEN status' ELSE @]
  <2>1. /\ Presence!Goes(s, step) /\ request[s].pc = "scan"
        /\ status' = IF status = "absent" THEN "checked_in" ELSE status
        /\ signal' = [signal EXCEPT !["qr"] = "valid"]
        /\ UNCHANGED <<checkedOut, awarded, net>>
    BY <1>9 DEF Presence!Scan
  <2>2. step.pc = "score" /\ step.by = request[s].by
    OBVIOUS
  <2> HIDE DEF step
  <2>3. SignalsStand /\ signal' \in [Presence!Methods -> Presence!Evidence]
        /\ signal'["gps_checkout"] = signal["gps_checkout"]
    <3>1. "valid" \in Presence!Evidence
      BY DEF Presence!Evidence
    <3> QED
      BY <1>3, <1>4, <2>1, <3>1
  <2>4. status' # "absent" /\ status' \in Presence!AttendanceStatus
    BY <1>3, <2>1 DEF Presence!AttendanceStatus
  <2>5. status' = status \/ Supported(status)'
    BY <2>1 DEF Supported
  <2>6. PresenceTypes'
    BY <1>1, <1>3, <2>1, <2>3, <2>4 DEF PresenceTypes
  <2>7. RequestKnows(s)'
    <3>1. request[s].by # "organizer"
      BY <1>2, <2>1 DEF RequestKnows
    <3> QED
      BY <1>6, <2>1, <2>2, <2>4, <3>1
  <2> QED
    BY <2>1, <2>3, <2>4, <2>5, <2>6, <2>7, EvidenceMoves
<1>10. CASE Presence!CommitConfirm(s)
  <2> DEFINE step == [pc |-> "score", by |-> request[s].by, copy |-> request[s].copy]
  <2>1. /\ request[s].pc = "confirm" /\ UNCHANGED <<status, checkedOut, awarded, net>>
        /\ \/ Presence!Goes(s, step) /\ signal' = [signal EXCEPT !["peer"] = "valid"]
           \/ Presence!Goes(s, Presence!Idle) /\ signal' = signal
    BY <1>10 DEF Presence!CommitConfirm
  <2>2. step.pc = "score" /\ step.by = request[s].by
    OBVIOUS
  <2> HIDE DEF step
  <2>3. status # "absent" /\ request[s].by # "organizer"
    BY <1>2, <2>1 DEF RequestKnows, Verifying, Presence!AttendanceStatus
  <2>4. CASE Presence!Goes(s, step) /\ signal' = [signal EXCEPT !["peer"] = "valid"]
    <3>1. "valid" \in Presence!Evidence
      BY DEF Presence!Evidence
    <3>2. SignalsStand /\ signal' \in [Presence!Methods -> Presence!Evidence]
          /\ signal'["gps_checkout"] = signal["gps_checkout"]
      BY <1>3, <1>4, <2>4, <3>1
    <3>3. PresenceTypes'
      BY <1>1, <1>3, <2>1, <2>3, <2>4, <3>2 DEF PresenceTypes
    <3>4. RequestKnows(s)'
      BY <1>6, <2>1, <2>2, <2>3, <2>4
    <3> QED
      BY <2>1, <2>3, <2>4, <3>2, <3>3, <3>4, EvidenceMoves
  <2>5. CASE Presence!Goes(s, Presence!Idle) /\ signal' = signal
    BY <1>3, <1>5, <2>1, <2>5, EvidenceReads
  <2> QED
    BY <2>1, <2>4, <2>5
<1>11. CASE Presence!CommitDecision(s)
  <2>1. PICK step : /\ Presence!Goes(s, step) /\ step.pc = "score"
                    /\ step.by = request[s].by /\ step.decision = request[s].decision
    <3> DEFINE again == Presence!Decided(s, FALSE)
               new == Presence!Decided(s, TRUE)
    <3>1. Presence!Goes(s, again) \/ Presence!Goes(s, new)
      BY <1>11 DEF Presence!CommitDecision
    <3>2. again.pc = "score" /\ again.by = request[s].by /\ again.decision = request[s].decision
      BY DEF Presence!Decided
    <3>3. new.pc = "score" /\ new.by = request[s].by /\ new.decision = request[s].decision
      BY DEF Presence!Decided
    <3> HIDE DEF again, new
    <3> QED
      BY <3>1, <3>2, <3>3
  <2>2. /\ request[s].pc = "decide" /\ UNCHANGED <<status, checkedOut, awarded, net>>
        /\ \/ signal' = signal /\ request[s].seen = request[s].decision
           \/ signal' = [signal EXCEPT !["organizer"] = request[s].decision]
    BY <1>11 DEF Presence!CommitDecision
  <2>3. /\ status # "absent" /\ request[s].by = "organizer" /\ request[s].decision \in {"valid", "invalid"}
        /\ request[s].seen = "none" \/ signal["organizer"] # "none"
    BY <1>2, <2>2 DEF RequestKnows, Verifying, Presence!AttendanceStatus
  <2>4. /\ SignalsStand /\ signal' \in [Presence!Methods -> Presence!Evidence]
        /\ signal'["gps_checkout"] = signal["gps_checkout"] /\ signal'["organizer"] # "none"
    <3>1. CASE signal' = signal /\ request[s].seen = request[s].decision
      BY <1>3, <2>3, <3>1 DEF SignalsStand
    <3>2. CASE signal' = [signal EXCEPT !["organizer"] = request[s].decision]
      <4>1. request[s].decision \in Presence!Evidence /\ request[s].decision # "none"
        BY <2>3 DEF Presence!Evidence
      <4> QED
        BY <1>3, <1>4, <3>2, <4>1
    <3> QED
      BY <2>2, <3>1, <3>2
  <2>5. PresenceTypes'
    BY <1>1, <1>3, <2>1, <2>2, <2>3, <2>4 DEF PresenceTypes
  <2>6. RequestKnows(s)'
    BY <1>6, <2>1, <2>2, <2>3, <2>4
  <2> QED
    BY <2>1, <2>2, <2>4, <2>5, <2>6, EvidenceMoves
<1> QED
  BY <1>7, <1>8, <1>9, <1>10, <1>11

LEMMA EvidenceNext ==
  ASSUME EvidenceInv, [Presence!Next]_presenceVars
  PROVE  EvidenceInv'
<1>1. CASE UNCHANGED presenceVars
  <2>1. \A s \in Sessions : RequestKnows(s)'
    BY <1>1 DEF EvidenceInv, RequestKnows, presenceVars, Supported
  <2>2. PresenceTypes' /\ (awarded' => Earned') /\ Supported(status)'
    BY <1>1 DEF EvidenceInv, PresenceTypes, presenceVars, Earned, Supported
  <2> QED
    BY <2>1, <2>2 DEF EvidenceInv
<1> QED
  BY <1>1, EvidenceReadSteps, EvidenceScores, EvidenceWrites DEF Presence!Next

LEMMA EvidenceStart == Presence!Init => EvidenceInv
<1> SUFFICES ASSUME Presence!Init PROVE EvidenceInv
  OBVIOUS
<1>1. PresenceTypes
  <2>1. \A m \in Presence!Methods : signal[m] = "none"
    BY DEF Presence!Init
  <2>2. signal \in [Presence!Methods -> Presence!Evidence]
    BY DEF Presence!Init, Presence!Evidence
  <2>3. signal["gps_checkout"] = "none"
    BY <2>1 DEF Presence!Methods
  <2>4. request = [s \in Sessions |-> request[s]]
    BY DEF Presence!Init
  <2>5. status = "absent" /\ awarded = FALSE /\ net = 0
    BY DEF Presence!Init
  <2>6. awarded \in BOOLEAN
    BY <2>5
  <2>7. net \in Int
    BY <2>5
  <2> QED
    BY <2>1, <2>2, <2>3, <2>4, <2>5, <2>6, <2>7 DEF PresenceTypes
<1>2. \A s \in Sessions : RequestKnows(s)
  BY DEF Presence!Init, RequestKnows, Presence!Idle, Verifying, Presence!AttendanceStatus
<1>3. ~awarded /\ Supported(status)
  BY DEF Presence!Init, Supported
<1> QED
  BY <1>1, <1>2, <1>3 DEF EvidenceInv

LEMMA EvidenceAlways == EarningSpec => [](part = "presence" => EvidenceInv)
<1>1. EarningInit => (part = "presence" => EvidenceInv)
  BY EvidenceStart DEF EarningInit
<1>2. (part = "presence" => EvidenceInv) /\ [EarningNext]_<<part, vars, presenceVars, pointsVars>>
         => (part = "presence" => EvidenceInv)'
  <2> SUFFICES ASSUME part = "presence" => EvidenceInv, [EarningNext]_<<part, vars, presenceVars, pointsVars>>,
                      part' = "presence"
               PROVE  EvidenceInv'
    OBVIOUS
  <2>1. EvidenceInv /\ [Presence!Next]_presenceVars
    BY DEF EarningNext
  <2> QED
    BY <2>1, EvidenceNext
<1> QED
  BY <1>1, <1>2, PTL DEF EarningSpec

\* Whatever signals, scores and awards overtake one another, points were posted
\* only where the required methods or an organizer had spoken, and no status is
\* without its signals (calculate_attendance_confidence, award_qualified_attendance).
THEOREM PointsAreEarned == EarningSpec => []EarnedIsVerified
<1>1. EvidenceInv => Presence!EarnedIsVerified
  BY DEF EvidenceInv, Presence!EarnedIsVerified, Earned, Supported
<1>2. (part = "presence" => EvidenceInv) => EarnedIsVerified
  BY <1>1 DEF EarnedIsVerified
<1> QED
  BY <1>2, EvidenceAlways, PTL

-----------------------------------------------------------------------------
(* Attendance: how long a confirmation goes unnoticed. *)

\* Peers who have counted too few and are about to confirm: each misses at most
\* the confirmations of the others.
Confirming == {s \in Sessions : Presence!At(s, "confirm") /\ ~request[s].enough}

CountInv ==
    /\ IsFiniteSet(confirmed)
    /\ signal["peer"] = "none" =>
         Cardinality(confirmed) + Cardinality(Confirming) <= ConfirmationsRequired - 1 + Cardinality(Sessions) - 1

LEMMA PresenceCounts ==
  ASSUME NEW S
  PROVE  /\ Presence!IsFiniteSet(S) <=> IsFiniteSet(S)
         /\ Presence!Cardinality(S) = Cardinality(S)
<1>1. Presence!IsFiniteSet(S) <=> IsFiniteSet(S)
  BY DEF Presence!IsFiniteSet, IsFiniteSet
<1>2. Presence!Cardinality(S) = Cardinality(S)
  BY DEF Presence!Cardinality, Cardinality, Presence!IsFiniteSet, IsFiniteSet
<1> QED
  BY <1>1, <1>2

LEMMA ConfirmingIsFinite ==
  /\ IsFiniteSet(Sessions) /\ Cardinality(Sessions) \in Nat /\ Cardinality(Sessions) >= 1
  /\ IsFiniteSet(Confirming) /\ Cardinality(Confirming) \in Nat
  /\ ConfirmationsRequired \in Nat \ {0}
<1>1. IsFiniteSet(Sessions) /\ Sessions # {} /\ ConfirmationsRequired \in Nat \ {0}
  BY PresenceAssumption, PresenceCounts DEF Presence!AttendanceAssumption
<1>2. Cardinality(Sessions) # 0
  BY <1>1, FS_EmptySet
<1>3. IsFiniteSet(Confirming)
  BY <1>1, FS_Subset DEF Confirming
<1> HIDE DEF Confirming
<1> QED
  BY <1>1, <1>2, <1>3, FS_CardinalityType

LEMMA ConfirmingShrinks ==
  ASSUME EvidenceInv, NEW s \in Sessions, NEW step, Presence!Goes(s, step), step.pc # "confirm"
  PROVE  Confirming' \subseteq Confirming \ {s}
BY RequestsMove DEF EvidenceInv, Confirming, Presence!At

LEMMA CountsStand ==
  ASSUME CountInv, UNCHANGED confirmed, signal'["peer"] = "none" => signal["peer"] = "none",
         Confirming' \subseteq Confirming
  PROVE  CountInv'
<1>1. IsFiniteSet(Confirming) /\ IsFiniteSet(confirmed) /\ confirmed' = confirmed
  BY ConfirmingIsFinite DEF CountInv
<1>2. Cardinality(Confirming') <= Cardinality(Confirming) /\ Cardinality(Confirming') \in Nat
  BY <1>1, FS_Subset, FS_CardinalityType
<1>3. Cardinality(confirmed) \in Nat
  BY <1>1, FS_CardinalityType
<1> HIDE DEF Confirming
<1> QED
  BY <1>1, <1>2, <1>3, ConfirmingIsFinite DEF CountInv

LEMMA CountsRead ==
  ASSUME CountInv, EvidenceInv, NEW s \in Sessions, NEW p \in Peers, Presence!ReadConfirm(s, p)
  PROVE  CountInv'
<1> DEFINE counted == Cardinality(confirmed) + 1 >= ConfirmationsRequired
<1>1. PICK step : Presence!Goes(s, step) /\ step.pc = "confirm" /\ step.enough = counted
  BY PresenceCounts DEF Presence!ReadConfirm
<1>2. UNCHANGED <<confirmed, signal>> /\ request[s].pc # "confirm"
  BY DEF Presence!ReadConfirm, Presence!rows, Presence!At
<1>3. request'[s] = step /\ \A r \in Sessions \ {s} : request'[r] = request[r]
  BY <1>1, RequestsMove DEF EvidenceInv
<1>4. CASE counted
  <2>1. Confirming' \subseteq Confirming
    BY <1>1, <1>3, <1>4 DEF Confirming, Presence!At
  <2> QED
    BY <1>2, <2>1, CountsStand
<1>5. CASE ~counted
  <2>1. IsFiniteSet(confirmed) /\ Cardinality(confirmed) \in Nat
    BY FS_CardinalityType DEF CountInv
  <2>2. Cardinality(Confirming') <= Cardinality(Sessions)
    BY ConfirmingIsFinite, FS_Subset DEF Confirming
  <2>3. Confirming' \subseteq Sessions
    BY DEF Confirming
  <2>4. Cardinality(Confirming') \in Nat
    BY <2>3, ConfirmingIsFinite, FS_Subset, FS_CardinalityType
  <2> HIDE DEF Confirming
  <2> QED
    BY <1>2, <1>5, <2>1, <2>2, <2>4, ConfirmingIsFinite DEF CountInv
<1> QED
  BY <1>4, <1>5

LEMMA CountsCommit ==
  ASSUME CountInv, EvidenceInv, NEW s \in Sessions, Presence!CommitConfirm(s)
  PROVE  CountInv'
<1>1. IsFiniteSet(confirmed) /\ Cardinality(confirmed) \in Nat
  BY FS_CardinalityType DEF CountInv
<1>2. PICK p : confirmed' = confirmed \cup {p}
  BY DEF Presence!CommitConfirm
<1>3. /\ IsFiniteSet(confirmed') /\ Cardinality(confirmed') \in Nat
      /\ Cardinality(confirmed') <= Cardinality(confirmed) + 1
  <2>1. CASE p \in confirmed
    <3>1. confirmed' = confirmed
      BY <1>2, <2>1
    <3> QED
      BY <1>1, <3>1
  <2>2. CASE p \notin confirmed
    BY <1>1, <1>2, <2>2, FS_AddElement
  <2> QED
    BY <2>1, <2>2
<1>4. CASE request[s].enough
  <2>1. signal' = [signal EXCEPT !["peer"] = "valid"]
    BY <1>4 DEF Presence!CommitConfirm
  <2>2. signal'["peer"] = "valid"
    BY <2>1 DEF EvidenceInv, PresenceTypes, Presence!Methods
  <2> QED
    BY <1>3, <2>2 DEF CountInv
<1>5. CASE ~request[s].enough
  <2>1. Presence!Goes(s, Presence!Idle) /\ signal' = signal /\ s \in Confirming
    BY <1>5 DEF Presence!CommitConfirm, Confirming
  <2>2. Confirming' \subseteq Confirming \ {s}
    BY <2>1, ConfirmingShrinks DEF Presence!Idle
  <2> HIDE DEF Confirming
  <2>3. /\ IsFiniteSet(Confirming \ {s}) /\ Cardinality(Confirming \ {s}) = Cardinality(Confirming) - 1
    BY <2>1, ConfirmingIsFinite, FS_RemoveElement
  <2>4. Cardinality(Confirming') <= Cardinality(Confirming) - 1 /\ Cardinality(Confirming') \in Nat
    BY <2>2, <2>3, FS_Subset, FS_CardinalityType
  <2> QED
    BY <1>1, <1>3, <2>1, <2>4, ConfirmingIsFinite DEF CountInv
<1> QED
  BY <1>4, <1>5

LEMMA CountsNext ==
  ASSUME CountInv, EvidenceInv, [Presence!Next]_presenceVars
  PROVE  CountInv'
<1> USE DEF Presence!At
<1>1. ASSUME NEW s \in Sessions, NEW step, Presence!Goes(s, step), step.pc # "confirm", UNCHANGED confirmed,
             signal'["peer"] = "none" => signal["peer"] = "none"
      PROVE  CountInv'
  BY <1>1, ConfirmingShrinks, CountsStand
<1>2. signal \in [Presence!Methods -> Presence!Evidence] /\ {"gps", "gps_checkout", "qr", "peer", "organizer"} \subseteq Presence!Methods
  BY DEF EvidenceInv, PresenceTypes, Presence!Methods
<1>3. \A e : \A m \in Presence!Methods \ {"peer"} :
         signal' = [signal EXCEPT ![m] = e] => signal'["peer"] = signal["peer"]
  BY <1>2
<1>4. ASSUME NEW s \in Sessions, NEW position \in Presence!Positions, Presence!CheckIn(s, position) PROVE CountInv'
  <2>1. PICK step : Presence!Goes(s, step) /\ step.pc # "confirm"
    BY <1>4 DEF Presence!CheckIn
  <2>2. UNCHANGED confirmed /\ signal'["peer"] = signal["peer"]
    BY <1>2, <1>3, <1>4 DEF Presence!CheckIn
  <2> QED
    BY <1>1, <2>1, <2>2
<1>5. ASSUME NEW s \in Sessions, NEW position \in Presence!Positions, Presence!CheckOut(s, position) PROVE CountInv'
  <2>1. UNCHANGED <<confirmed, request>> /\ signal'["peer"] = signal["peer"]
    BY <1>2, <1>3, <1>5 DEF Presence!CheckOut
  <2> QED
    BY <2>1, CountsStand DEF Confirming
<1>6. ASSUME NEW s \in Sessions, Presence!ReadScan(s) \/ Presence!ReadPosted(s)
             \/ \E decision \in {"valid", "invalid"} : Presence!ReadDecision(s, decision)
      PROVE  CountInv'
  <2>1. PICK step : Presence!Goes(s, step) /\ step.pc # "confirm"
    <3>1. CASE Presence!ReadScan(s)
      BY <3>1 DEF Presence!ReadScan
    <3>2. CASE Presence!ReadPosted(s)
      BY <3>2 DEF Presence!ReadPosted
    <3>3. CASE \E decision \in {"valid", "invalid"} : Presence!ReadDecision(s, decision)
      BY <3>3 DEF Presence!ReadDecision
    <3> QED
      BY <1>6, <3>1, <3>2, <3>3
  <2>2. UNCHANGED <<confirmed, signal>>
    BY <1>6 DEF Presence!ReadScan, Presence!ReadPosted, Presence!ReadDecision, Presence!rows
  <2> QED
    BY <1>1, <2>1, <2>2
<1>7. ASSUME NEW s \in Sessions, Presence!Scan(s) PROVE CountInv'
  <2> DEFINE step == [request[s] EXCEPT !.pc = "score", !.copy = IF @ = "absent" THEN status' ELSE @]
  <2>1. Presence!Goes(s, step) /\ UNCHANGED confirmed /\ signal'["peer"] = signal["peer"]
    BY <1>2, <1>3, <1>7 DEF Presence!Scan
  <2>2. step.pc # "confirm"
    OBVIOUS
  <2> HIDE DEF step
  <2> QED
    BY <1>1, <2>1, <2>2
<1>8. ASSUME NEW s \in Sessions, Presence!CommitDecision(s) PROVE CountInv'
  <2> DEFINE again == Presence!Decided(s, FALSE)
             new == Presence!Decided(s, TRUE)
  <2>1. Presence!Goes(s, again) \/ Presence!Goes(s, new)
    BY <1>8 DEF Presence!CommitDecision
  <2>2. again.pc # "confirm" /\ new.pc # "confirm"
    BY DEF Presence!Decided
  <2> HIDE DEF again, new
  <2>3. UNCHANGED confirmed
    BY <1>8 DEF Presence!CommitDecision
  <2>4. \/ signal' = signal
        \/ signal' = [signal EXCEPT !["organizer"] = request[s].decision]
    BY <1>8 DEF Presence!CommitDecision
  <2>5. signal'["peer"] = signal["peer"]
    BY <1>2, <1>3, <2>4
  <2> QED
    BY <1>1, <2>1, <2>2, <2>3, <2>5
<1>9. ASSUME NEW s \in Sessions, Presence!ReadSignals(s) PROVE CountInv'
  <2> DEFINE new == Presence!StatusFrom(Presence!Loaded(s))
             step == [request[s] EXCEPT !.pc = new]
  <2>1. /\ Presence!Goes(s, step) \/ Presence!Goes(s, Presence!Idle)
        /\ UNCHANGED <<confirmed, signal>> /\ request[s].pc = "score"
    BY <1>9 DEF Presence!ReadSignals, Presence!rows
  <2>2. new # "confirm"
    BY DEF Presence!StatusFrom
  <2> HIDE DEF new
  <2>3. request[s].pc # "confirm" => step.pc # "confirm"
    BY <2>2
  <2> HIDE DEF step
  <2> QED
    BY <1>1, <2>1, <2>3 DEF Presence!Idle
<1>10. ASSUME NEW s \in Sessions, Presence!WriteStatus(s) \/ Presence!Award(s) PROVE CountInv'
  <2>1. PICK step : Presence!Goes(s, step) /\ step.pc # "confirm"
    <3>1. CASE Presence!WriteStatus(s)
      <4> DEFINE next == IF Presence!Deciding(s) /\ request[s].new /\ request[s].decision = "invalid"
                         THEN "compensate" ELSE "award"
                 step == [request[s] EXCEPT !.copy = request[s].pc, !.pc = next]
      <4>1. Presence!Goes(s, step)
        BY <3>1 DEF Presence!WriteStatus
      <4>2. next # "confirm"
        OBVIOUS
      <4> HIDE DEF next
      <4>3. step.pc # "confirm"
        BY <4>2
      <4> HIDE DEF step
      <4> QED
        BY <4>1, <4>3
    <3>2. CASE Presence!Award(s)
      <4> DEFINE step == [request[s] EXCEPT !.pc = "compensate"]
      <4>1. Presence!Goes(s, step) \/ Presence!Goes(s, Presence!Idle)
        BY <3>2 DEF Presence!Award, Presence!Then
      <4>2. step.pc # "confirm"
        OBVIOUS
      <4> HIDE DEF step
      <4> QED
        BY <4>1, <4>2 DEF Presence!Idle
    <3> QED
      BY <1>10, <3>1, <3>2
  <2>2. UNCHANGED <<confirmed, signal>>
    BY <1>10 DEF Presence!WriteStatus, Presence!Award
  <2> QED
    BY <1>1, <2>1, <2>2
<1>11. ASSUME NEW s \in Sessions, Presence!Compensate(s) \/ Presence!Abort(s) PROVE CountInv'
  <2>1. Presence!Goes(s, Presence!Idle) /\ UNCHANGED <<confirmed, signal>>
    BY <1>11 DEF Presence!Compensate, Presence!Abort, Presence!rows
  <2> QED
    BY <1>1, <2>1 DEF Presence!Idle
<1>12. CASE UNCHANGED presenceVars
  BY <1>12, CountsStand DEF presenceVars, Confirming
<1> QED
  BY <1>4, <1>5, <1>6, <1>7, <1>8, <1>9, <1>10, <1>11, <1>12, CountsRead, CountsCommit DEF Presence!Next

LEMMA CountsStart == Presence!Init => CountInv
<1> SUFFICES ASSUME Presence!Init PROVE CountInv
  OBVIOUS
<1>1. confirmed = {} /\ Confirming = {}
  BY DEF Presence!Init, Confirming, Presence!At, Presence!Idle
<1> QED
  BY <1>1, ConfirmingIsFinite, FS_EmptySet DEF CountInv

\* Peers who confirm at once miss each other's confirmations, and nobody counts
\* again until one more peer comes: with n requests at a time at most n - 1
\* confirmations above the required ones wait unnoticed (confirm_peer).
THEOREM FewConfirmationsWait == EarningSpec => []ConfirmationsAreNoticed
<1>1. CountInv => Presence!ConfirmationsAreNoticed
  <2> SUFFICES ASSUME CountInv, signal["peer"] = "none"
               PROVE  Cardinality(confirmed) <= ConfirmationsRequired - 1 + Cardinality(Sessions) - 1
    BY PresenceCounts DEF Presence!ConfirmationsAreNoticed
  <2>1. Cardinality(confirmed) \in Nat
    BY FS_CardinalityType DEF CountInv
  <2> HIDE DEF Confirming
  <2> QED
    BY <2>1, ConfirmingIsFinite DEF CountInv
<1>2. EarningInit => (part = "presence" => CountInv)
  BY CountsStart DEF EarningInit
<1>3. /\ part = "presence" => CountInv
      /\ part = "presence" => EvidenceInv
      /\ [EarningNext]_<<part, vars, presenceVars, pointsVars>>
      => (part = "presence" => CountInv)'
  <2> SUFFICES ASSUME part = "presence" => CountInv, part = "presence" => EvidenceInv,
                      [EarningNext]_<<part, vars, presenceVars, pointsVars>>, part' = "presence"
               PROVE  CountInv'
    OBVIOUS
  <2>1. CountInv /\ EvidenceInv /\ [Presence!Next]_presenceVars
    BY DEF EarningNext
  <2> QED
    BY <2>1, CountsNext
<1>4. (part = "presence" => CountInv) => ConfirmationsAreNoticed
  BY <1>1 DEF ConfirmationsAreNoticed
<1> QED
  BY <1>2, <1>3, <1>4, EvidenceAlways, PTL DEF EarningSpec

-----------------------------------------------------------------------------
(* Attendance: the organizer's decision stands. *)

\* What a decision makes of the status.
Verdict(decision) == IF decision = "invalid" THEN "rejected" ELSE "organizer_verified"

\* A decision that nothing has disturbed so far, from what it read to the last
\* step: nobody else is under way, so what it goes by is still so.
Ruling(s) ==
    /\ \A r \in Sessions \ {s} : request[r] = Presence!Idle
    /\ request[s].pc = "decide" => request[s].copy = status /\ request[s].seen = signal["organizer"]
    /\ request[s].pc \in Verifying \ {"post"} =>
         request[s].new = TRUE /\ signal["organizer"] = request[s].decision
    /\ request[s].pc \in {"score"} \cup Presence!AttendanceStatus => request[s].copy = status
    /\ request[s].pc \in Presence!AttendanceStatus => request[s].pc = Verdict(signal["organizer"])
    /\ request[s].pc = "award" => signal["organizer"] = "valid" /\ request[s].copy = status
    /\ request[s].pc \in {"award", "compensate", "post"} => status = Verdict(signal["organizer"])
    /\ request[s].pc \in {"compensate", "post"} => awarded \/ signal["organizer"] = "invalid"
    /\ request[s].pc = "post" /\ signal["organizer"] = "invalid" => net + request[s].owed <= 0

\* Such an approval ends with points posted: it finds none that were reversed
\* twice, and what it adds restores those that were reversed.
Restores(s) ==
    /\ request[s].pc \in {"decide"} \cup (Verifying \ {"post"}) /\ request[s].decision = "valid" => net >= 0
    /\ request[s].pc = "post" /\ signal["organizer"] = "valid" => net + request[s].owed > 0

\* Once it is made, whoever has begun since has no other status to write, and
\* no award to post against a rejection.
Follows(s) ==
    /\ request[s].pc \in Presence!AttendanceStatus /\ signal["organizer"] # "none"
          => request[s].pc = Verdict(signal["organizer"])
    /\ request[s].pc = "award" /\ signal["organizer"] = "invalid" => request[s].copy = "rejected"

Made ==
    /\ signal["organizer"] = "invalid" => status = "rejected" /\ net <= 0
    /\ signal["organizer"] = "valid" /\ signal["gps_checkout"] # "valid" =>
         status = "organizer_verified" /\ awarded /\ net > 0

RulingInv ==
    /\ \A s \in Sessions : request[s].pc = "idle" => request[s] = Presence!Idle
    /\ undisturbed \in BOOLEAN
    /\ \A s \in Sessions : undisturbed /\ Presence!Deciding(s) => Ruling(s) /\ Restores(s)
    /\ undisturbed /\ Presence!Quiet => Made /\ \A s \in Sessions : Follows(s)

LEMMA OthersFollow ==
  ASSUME RulingInv, EvidenceInv, NEW s \in Sessions, NEW step, Presence!Goes(s, step), ~Presence!Deciding(s),
         step = Presence!Idle \/ (step.pc # "idle" /\ step.by # "organizer"),
         undisturbed' \in BOOLEAN, undisturbed' => undisturbed /\ Presence!Quiet,
         undisturbed /\ Presence!Quiet =>
           Made' /\ Follows(s)' /\ signal'["organizer"] = signal["organizer"]
  PROVE  RulingInv'
<1>1. request'[s] = step /\ \A r \in Sessions \ {s} : request'[r] = request[r]
  BY RequestsMove DEF EvidenceInv
<1>2. \A r \in Sessions : request'[r].pc = "idle" => request'[r] = Presence!Idle
  BY <1>1 DEF RulingInv
<1>3. ASSUME NEW r \in Sessions, undisturbed' PROVE ~Presence!Deciding(r)'
  BY <1>1, <1>3 DEF Presence!Deciding, Presence!Quiet
<1>4. ASSUME undisturbed' PROVE Made' /\ \A r \in Sessions : Follows(r)'
  <2>1. Made' /\ Follows(s)' /\ signal'["organizer"] = signal["organizer"] /\ \A r \in Sessions : Follows(r)
    BY <1>4 DEF RulingInv
  <2>2. \A r \in Sessions \ {s} : Follows(r)'
    BY <1>1, <2>1 DEF Follows
  <2> QED
    BY <2>1, <2>2
<1> QED
  BY <1>2, <1>3, <1>4 DEF RulingInv

LEMMA RulerMoves ==
  ASSUME RulingInv, EvidenceInv, NEW s \in Sessions, NEW step, Presence!Goes(s, step),
         step.pc # "idle", step.by = "organizer", undisturbed' \in BOOLEAN,
         undisturbed' => Ruling(s)' /\ Restores(s)' /\ \A r \in Sessions \ {s} : request[r] = Presence!Idle
  PROVE  RulingInv'
<1>1. request'[s] = step /\ \A r \in Sessions \ {s} : request'[r] = request[r]
  BY RequestsMove DEF EvidenceInv
<1>2. \A r \in Sessions : request'[r].pc = "idle" => request'[r] = Presence!Idle
  BY <1>1 DEF RulingInv
<1>3. step # Presence!Idle
  BY DEF Presence!Idle
<1>4. Presence!Deciding(s)'
  BY <1>1, <1>3 DEF Presence!Deciding
<1>5. ASSUME NEW r \in Sessions, undisturbed', Presence!Deciding(r)' PROVE Ruling(r)' /\ Restores(r)'
  <2>1. r = s
    BY <1>1, <1>5 DEF Presence!Deciding
  <2> QED
    BY <1>5, <2>1
<1>6. ~Presence!Quiet'
  BY <1>4 DEF Presence!Quiet
<1> QED
  BY <1>2, <1>5, <1>6 DEF RulingInv

LEMMA RulerEnds ==
  ASSUME RulingInv, EvidenceInv, NEW s \in Sessions, Presence!Goes(s, Presence!Idle), Presence!Deciding(s),
         undisturbed' \in BOOLEAN, undisturbed' => undisturbed /\ Made'
  PROVE  RulingInv'
<1>1. request'[s] = Presence!Idle /\ \A r \in Sessions \ {s} : request'[r] = request[r]
  BY RequestsMove DEF EvidenceInv
<1>2. \A r \in Sessions : request'[r].pc = "idle" => request'[r] = Presence!Idle
  BY <1>1 DEF RulingInv
<1>3. undisturbed' => \A r \in Sessions : request'[r] = Presence!Idle
  BY <1>1 DEF RulingInv, Ruling
<1>4. \A r \in Sessions : request'[r] = Presence!Idle => ~Presence!Deciding(r)' /\ Follows(r)'
  BY DEF Presence!Deciding, Follows, Presence!Idle, Presence!AttendanceStatus
<1> QED
  BY <1>2, <1>3, <1>4 DEF RulingInv

\* What the others begin.
LEMMA RulingBegins ==
  ASSUME RulingInv, EvidenceInv, NEW s \in Sessions,
         \/ \E position \in Presence!Positions : Presence!CheckIn(s, position) \/ Presence!CheckOut(s, position)
         \/ Presence!ReadScan(s)
         \/ \E p \in Peers : Presence!ReadConfirm(s, p)
  PROVE  RulingInv'
<1> USE DEF Presence!At
<1>1. request[s].pc = "idle" /\ Presence!Starts
  BY DEF Presence!CheckIn, Presence!CheckOut, Presence!ReadScan, Presence!ReadConfirm
<1>2. request[s] = Presence!Idle /\ ~Presence!Deciding(s)
  BY <1>1 DEF RulingInv, Presence!Deciding
<1>3. undisturbed' \in BOOLEAN /\ (undisturbed' => undisturbed /\ Presence!Quiet)
  BY <1>1 DEF Presence!Starts, Presence!Quiet
<1>4. undisturbed /\ Presence!Quiet => Made
  BY DEF RulingInv
<1>5. /\ signal \in [Presence!Methods -> Presence!Evidence]
      /\ signal["gps_checkout"] # "none" => checkedOut
      /\ status = "absent" => \A m \in Presence!Methods : signal[m] = "none"
      /\ {"gps", "gps_checkout", "qr", "peer", "organizer"} \subseteq Presence!Methods
  BY DEF EvidenceInv, PresenceTypes, Presence!Methods
<1>6. ASSUME NEW step, Presence!Goes(s, step),
             step.pc \notin Presence!AttendanceStatus, step.pc = "award" => signal'["organizer"] # "invalid"
      PROVE  Follows(s)'
  <2>1. request'[s] = step
    BY <1>6, RequestsMove DEF EvidenceInv
  <2> QED
    BY <1>6, <2>1 DEF Follows
<1>7. ASSUME NEW position \in Presence!Positions, Presence!CheckIn(s, position) PROVE RulingInv'
  <2>1. PICK step : Presence!Goes(s, step) /\ step.pc \in {"award", "score"} /\ step.by = "gps"
    BY <1>7 DEF Presence!CheckIn
  <2>2. signal["organizer"] = "none" /\ signal'["organizer"] = signal["organizer"]
    BY <1>5, <1>7 DEF Presence!CheckIn
  <2>3. Made'
    BY <2>2 DEF Made
  <2>4. Follows(s)'
    BY <1>6, <2>1, <2>2 DEF Presence!AttendanceStatus
  <2> QED
    BY <1>2, <1>3, <2>1, <2>2, <2>3, <2>4, OthersFollow
<1>8. ASSUME NEW position \in Presence!Positions, Presence!CheckOut(s, position) PROVE RulingInv'
  <2>1. UNCHANGED <<status, awarded, net, request>> /\ signal'["organizer"] = signal["organizer"]
        /\ signal["gps_checkout"] = "none"
    BY <1>5, <1>8 DEF Presence!CheckOut
  <2>2. undisturbed /\ Presence!Quiet => Made'
    BY <1>4, <2>1 DEF Made
  <2>3. Presence!Goes(s, Presence!Idle)
    BY <1>2, <2>1 DEF EvidenceInv, PresenceTypes, Presence!Goes
  <2>4. Follows(s)'
    BY <1>6, <2>3 DEF Presence!Idle, Presence!AttendanceStatus
  <2> QED
    BY <1>2, <1>3, <2>1, <2>2, <2>3, <2>4, OthersFollow
<1>9. ASSUME NEW step, Presence!Goes(s, step), step.pc \in {"scan", "confirm"}, step.by # "organizer",
             UNCHANGED Presence!rows
      PROVE  RulingInv'
  <2>1. UNCHANGED <<status, signal, awarded, net>>
    BY <1>9 DEF Presence!rows
  <2>2. undisturbed /\ Presence!Quiet => Made'
    BY <1>4, <2>1 DEF Made
  <2>3. Follows(s)'
    BY <1>6, <1>9 DEF Presence!AttendanceStatus
  <2> QED
    BY <1>2, <1>3, <1>9, <2>1, <2>2, <2>3, OthersFollow
<1>10. CASE Presence!ReadScan(s)
  <2>1. PICK step : Presence!Goes(s, step) /\ step.pc = "scan" /\ step.by = "qr"
    BY <1>10 DEF Presence!ReadScan
  <2> QED
    BY <1>9, <1>10, <2>1 DEF Presence!ReadScan
<1>11. ASSUME NEW p \in Peers, Presence!ReadConfirm(s, p) PROVE RulingInv'
  <2>1. PICK step : Presence!Goes(s, step) /\ step.pc = "confirm" /\ step.by = "peer"
    BY <1>11 DEF Presence!ReadConfirm
  <2> QED
    BY <1>9, <1>11, <2>1 DEF Presence!ReadConfirm
<1> QED
  BY <1>7, <1>8, <1>10, <1>11

\* What the others write: a signal that is no decision.
LEMMA RulingWrites ==
  ASSUME RulingInv, EvidenceInv, NEW s \in Sessions, Presence!Scan(s) \/ Presence!CommitConfirm(s)
  PROVE  RulingInv'
<1> USE DEF Presence!At
<1>1. RequestKnows(s) /\ request[s].pc \in {"scan", "confirm"} /\ undisturbed' = undisturbed
      /\ UNCHANGED <<awarded, net>>
  BY DEF Presence!Scan, Presence!CommitConfirm, EvidenceInv
<1>2. request[s].by # "organizer" /\ ~Presence!Deciding(s) /\ request[s] # Presence!Idle
  BY <1>1 DEF RequestKnows, Presence!Deciding, Presence!Idle
<1>3. undisturbed' \in BOOLEAN /\ (undisturbed' => undisturbed /\ Presence!Quiet)
  <2>1. ASSUME undisturbed, NEW r \in Sessions PROVE ~Presence!Deciding(r)
    BY <1>2, <2>1 DEF RulingInv, Ruling
  <2> QED
    BY <1>1, <2>1 DEF RulingInv, Presence!Quiet
<1>4. undisturbed /\ Presence!Quiet => Made
  BY DEF RulingInv
<1>5. /\ signal \in [Presence!Methods -> Presence!Evidence]
      /\ status = "absent" => signal["organizer"] = "none"
      /\ {"gps", "gps_checkout", "qr", "peer", "organizer"} \subseteq Presence!Methods
  BY DEF EvidenceInv, PresenceTypes, Presence!Methods
<1>6. /\ signal'["organizer"] = signal["organizer"] /\ signal'["gps_checkout"] = signal["gps_checkout"]
      /\ status' = status \/ signal["organizer"] = "none"
  <2>1. CASE Presence!Scan(s)
    BY <1>5, <2>1 DEF Presence!Scan
  <2>2. CASE Presence!CommitConfirm(s)
    BY <1>5, <2>2 DEF Presence!CommitConfirm
  <2> QED
    BY <2>1, <2>2
<1>7. undisturbed /\ Presence!Quiet => Made'
  BY <1>1, <1>4, <1>6 DEF Made
<1>8. ASSUME NEW step, Presence!Goes(s, step), step.pc \in {"idle", "score"} PROVE Follows(s)'
  <2>1. request'[s] = step
    BY <1>8, RequestsMove DEF EvidenceInv
  <2> QED
    BY <1>8, <2>1 DEF Follows, Presence!AttendanceStatus
<1>9. ASSUME NEW step, Presence!Goes(s, step), step = Presence!Idle \/ (step.pc = "score" /\ step.by = request[s].by)
      PROVE  RulingInv'
  <2>1. Follows(s)'
    BY <1>8, <1>9 DEF Presence!Idle
  <2> QED
    BY <1>2, <1>3, <1>6, <1>7, <1>9, <2>1, OthersFollow
<1>10. CASE Presence!Scan(s)
  <2> DEFINE step == [request[s] EXCEPT !.pc = "score", !.copy = IF @ = "absent" THEN status' ELSE @]
  <2>1. Presence!Goes(s, step)
    BY <1>10 DEF Presence!Scan
  <2>2. step.pc = "score" /\ step.by = request[s].by
    OBVIOUS
  <2> HIDE DEF step
  <2> QED
    BY <1>9, <2>1, <2>2
<1>11. CASE Presence!CommitConfirm(s)
  <2> DEFINE step == [pc |-> "score", by |-> request[s].by, copy |-> request[s].copy]
  <2>1. Presence!Goes(s, step) \/ Presence!Goes(s, Presence!Idle)
    BY <1>11 DEF Presence!CommitConfirm
  <2>2. step.pc = "score" /\ step.by = request[s].by
    OBVIOUS
  <2> HIDE DEF step
  <2> QED
    BY <1>9, <2>1, <2>2
<1> QED
  BY <1>10, <1>11

LEMMA ScoreIsVerdict ==
  ASSUME EvidenceInv, signal["organizer"] # "none"
  PROVE  Presence!StatusFrom(signal) = Verdict(signal["organizer"])
<1>1. /\ signal["organizer"] \in {"valid", "invalid"} /\ "organizer" \in Presence!Methods
  BY DEF EvidenceInv, PresenceTypes, Presence!Evidence, Presence!Methods
<1>2. signal["organizer"] = "valid" => "organizer" \in Presence!Valid(signal)
  BY <1>1 DEF Presence!Valid
<1> QED
  BY <1>1, <1>2 DEF Presence!StatusFrom, Verdict

\* A session under way that does not decide is disturbed, or nobody decides.
LEMMA QuietBesideOthers ==
  ASSUME RulingInv, NEW s \in Sessions, ~Presence!Deciding(s), request[s].pc # "idle", undisturbed
  PROVE  Presence!Quiet /\ Made /\ Follows(s) /\ request[s].by # "organizer"
<1>1. request[s] # Presence!Idle
  BY DEF Presence!Idle
<1>2. ASSUME NEW r \in Sessions PROVE ~Presence!Deciding(r)
  BY <1>1, <1>2 DEF RulingInv, Ruling
<1>3. Presence!Quiet
  BY <1>2 DEF Presence!Quiet
<1> QED
  BY <1>1, <1>3 DEF RulingInv, Presence!Deciding

\* What the others score, write and award: the verdict.
LEMMA RulingOthersScore ==
  ASSUME RulingInv, EvidenceInv, NEW s \in Sessions, ~Presence!Deciding(s),
         Presence!ReadSignals(s) \/ Presence!WriteStatus(s) \/ Presence!Award(s) \/ Presence!Abort(s)
  PROVE  RulingInv'
<1> USE DEF Presence!At
<1>1. request[s].pc # "idle"
  <2>1. CASE Presence!Abort(s)
    BY <2>1 DEF RulingInv, Presence!Abort
  <2>2. CASE Presence!ReadSignals(s) \/ Presence!Award(s)
    BY <2>2 DEF Presence!ReadSignals, Presence!Award
  <2>3. CASE Presence!WriteStatus(s)
    BY <2>3 DEF Presence!WriteStatus, Presence!AttendanceStatus
  <2> QED
    BY <2>1, <2>2, <2>3
<1>2. undisturbed => Presence!Quiet /\ Made /\ Follows(s)
  BY <1>1, QuietBesideOthers
<1>3. request[s].by # "organizer"
  BY <1>1 DEF Presence!Deciding, Presence!Idle
<1>4. undisturbed' \in BOOLEAN /\ (undisturbed' => undisturbed /\ Presence!Quiet)
  <2>1. CASE Presence!Abort(s)
    BY <1>2, <2>1 DEF RulingInv, Presence!Abort
  <2>2. CASE undisturbed' = undisturbed
    BY <1>2, <2>2 DEF RulingInv
  <2> QED
    BY <2>1, <2>2 DEF Presence!ReadSignals, Presence!WriteStatus, Presence!Award
<1>5. signal \in [Presence!Methods -> Presence!Evidence] /\ awarded \in BOOLEAN /\ net \in Int
  BY DEF EvidenceInv, PresenceTypes
<1>6. ASSUME NEW step, Presence!Goes(s, step) PROVE request'[s] = step
  BY <1>6, RequestsMove DEF EvidenceInv
<1>7. Presence!Goes(s, Presence!Idle) => Follows(s)'
  BY <1>6 DEF Follows, Presence!Idle, Presence!AttendanceStatus
<1>8. ASSUME NEW step, Presence!Goes(s, step), UNCHANGED signal,
             step = Presence!Idle \/ (step.pc # "idle" /\ step.by = request[s].by),
             undisturbed => Made' /\ Follows(s)'
      PROVE  RulingInv'
  BY <1>3, <1>4, <1>8, OthersFollow
<1>9. CASE Presence!ReadSignals(s)
  <2> DEFINE new == Presence!StatusFrom(signal)
             step == [request[s] EXCEPT !.pc = new]
  <2>1. /\ UNCHANGED Presence!rows /\ request[s].pc = "score"
        /\ Presence!Goes(s, Presence!Idle) \/ Presence!Goes(s, step)
    BY <1>9 DEF Presence!ReadSignals, Presence!Loaded
  <2>2. signal["organizer"] # "none" => new = Verdict(signal["organizer"])
    BY ScoreIsVerdict
  <2>3. new \notin {"idle", "award"}
    BY DEF Presence!StatusFrom
  <2> HIDE DEF new
  <2>4. step.by = request[s].by
    OBVIOUS
  <2>5. request[s].pc # "idle" => step.pc = new
    OBVIOUS
  <2> HIDE DEF step
  <2>6. undisturbed => Made'
    BY <1>2, <2>1 DEF Made, Presence!rows
  <2>7. Presence!Goes(s, step) => Follows(s)'
    BY <1>6, <2>1, <2>2, <2>3, <2>5 DEF Follows, Presence!rows
  <2> QED
    BY <1>1, <1>7, <1>8, <2>1, <2>3, <2>4, <2>5, <2>6, <2>7 DEF Presence!rows
<1>10. CASE Presence!WriteStatus(s)
  <2>0. PICK new \in Presence!AttendanceStatus : new = request[s].pc
    BY <1>10 DEF Presence!WriteStatus
  <2> DEFINE step == [request[s] EXCEPT !.copy = new, !.pc = "award"]
  <2>1. /\ Presence!Goes(s, step) /\ status' \in {status, new}
        /\ UNCHANGED <<signal, awarded, net>>
    BY <1>10, <2>0 DEF Presence!WriteStatus
  <2>2. step.by = request[s].by /\ step.copy = new /\ step.pc = "award"
    OBVIOUS
  <2> HIDE DEF step
  <2>3. undisturbed /\ signal["organizer"] # "none" => new = Verdict(signal["organizer"])
    BY <1>2, <2>0 DEF Follows
  <2>4. undisturbed => Made'
    BY <1>2, <2>1, <2>3 DEF Made, Verdict
  <2>5. undisturbed => Follows(s)'
    BY <1>6, <2>1, <2>2, <2>3 DEF Follows, Verdict, Presence!AttendanceStatus
  <2> QED
    BY <1>8, <2>1, <2>2, <2>4, <2>5
<1>11. CASE Presence!Award(s)
  <2>1. /\ Presence!Goes(s, Presence!Idle) /\ UNCHANGED <<status, signal>> /\ request[s].pc = "award"
        /\ awarded' = (awarded \/ Presence!Qualified(s))
        /\ net' = IF awarded' /\ ~awarded THEN net + 1 ELSE net
    BY <1>11 DEF Presence!Award
  <2>2. undisturbed /\ signal["organizer"] = "invalid" => ~Presence!Qualified(s)
    BY <1>2, <2>1 DEF Follows, Presence!Qualified
  <2>3. undisturbed /\ signal["organizer"] = "invalid" => net' = net
    BY <2>1, <2>2
  <2>4. undisturbed => Made'
    BY <1>2, <1>5, <2>1, <2>3 DEF Made
  <2> QED
    BY <1>7, <1>8, <2>1, <2>4
<1>12. CASE Presence!Abort(s)
  <2>1. Presence!Goes(s, Presence!Idle) /\ UNCHANGED <<status, signal, awarded, net>>
    BY <1>12 DEF Presence!Abort, Presence!rows
  <2>2. undisturbed => Made'
    BY <1>2, <2>1 DEF Made
  <2> QED
    BY <1>7, <1>8, <2>1, <2>2
<1> QED
  BY <1>9, <1>10, <1>11, <1>12

\* The decision itself.
LEMMA RulingDecides ==
  ASSUME RulingInv, EvidenceInv, NEW s \in Sessions,
         \/ \E decision \in {"valid", "invalid"} : Presence!ReadDecision(s, decision)
         \/ Presence!CommitDecision(s) \/ Presence!ReadPosted(s) \/ Presence!Compensate(s)
  PROVE  RulingInv'
<1> USE DEF Presence!At
<1>1. ASSUME NEW step, Presence!Goes(s, step)
      PROVE  request'[s] = step /\ \A r \in Sessions \ {s} : request'[r] = request[r]
  BY <1>1, RequestsMove DEF EvidenceInv
<1>2. RequestKnows(s) /\ signal \in [Presence!Methods -> Presence!Evidence] /\ "organizer" \in Presence!Methods
      /\ net \in Int
  BY DEF EvidenceInv, PresenceTypes, Presence!Methods
<1>3. ASSUME request[s].pc \in {"decide", "compensate", "post"}
      PROVE  /\ Presence!Deciding(s) /\ request[s].by = "organizer"
             /\ undisturbed => Ruling(s) /\ Restores(s)
  <2>1. request[s].by = "organizer" /\ request[s] # Presence!Idle
    BY <1>2, <1>3 DEF RequestKnows, Presence!Idle
  <2> QED
    BY <2>1 DEF Presence!Deciding, RulingInv
<1>4. ASSUME NEW decision \in {"valid", "invalid"}, Presence!ReadDecision(s, decision) PROVE RulingInv'
  <2>1. PICK step : /\ Presence!Goes(s, step) /\ step.pc = "decide" /\ step.by = "organizer"
                    /\ step.copy = status /\ step.seen = signal["organizer"] /\ step.decision = decision
    BY <1>4 DEF Presence!ReadDecision
  <2>2. /\ undisturbed' = ((\A r \in Sessions \ {s} : request[r] = Presence!Idle)
                           /\ (decision = "valid" => net >= 0))
        /\ UNCHANGED <<status, signal, net, awarded>>
    BY <1>4 DEF Presence!ReadDecision, Presence!rows
  <2>3. undisturbed' => Ruling(s)'
    BY <1>1, <2>1, <2>2 DEF Ruling, Verifying, Presence!AttendanceStatus
  <2>4. undisturbed' \in BOOLEAN
    BY <2>2
  <2>5. undisturbed' => Restores(s)'
    BY <1>1, <2>1, <2>2 DEF Restores, Verifying, Presence!AttendanceStatus
  <2> QED
    BY <2>1, <2>2, <2>3, <2>4, <2>5, RulerMoves
<1>5. CASE Presence!CommitDecision(s)
  <2> DEFINE again == Presence!Decided(s, FALSE)
             new == Presence!Decided(s, TRUE)
  <2>1. /\ request[s].pc = "decide" /\ UNCHANGED <<status, awarded, net>>
        /\ \/ Presence!Goes(s, again) /\ undisturbed' = FALSE
           \/ /\ Presence!Goes(s, new) /\ undisturbed' = undisturbed
              /\ signal' = IF request[s].seen = request[s].decision THEN signal
                           ELSE [signal EXCEPT !["organizer"] = request[s].decision]
    BY <1>5 DEF Presence!CommitDecision
  <2>2. /\ again.pc = "score" /\ again.by = request[s].by
        /\ new.pc = "score" /\ new.by = request[s].by
    BY DEF Presence!Decided
  <2>3. new.new = TRUE /\ new.decision = request[s].decision /\ new.copy = request[s].copy
    BY DEF Presence!Decided
  <2> HIDE DEF again, new
  <2>4. Presence!Deciding(s) /\ request[s].by = "organizer" /\ (undisturbed => Ruling(s) /\ Restores(s))
    BY <1>3, <2>1
  <2>5. CASE Presence!Goes(s, again) /\ undisturbed' = FALSE
    BY <2>2, <2>4, <2>5, RulerMoves
  <2>6. CASE /\ Presence!Goes(s, new) /\ undisturbed' = undisturbed
             /\ signal' = IF request[s].seen = request[s].decision THEN signal
                          ELSE [signal EXCEPT !["organizer"] = request[s].decision]
    <3>1. undisturbed => signal'["organizer"] = request[s].decision
      BY <1>2, <2>1, <2>4, <2>6 DEF Ruling
    <3>2. undisturbed => request[s].copy = status /\ \A r \in Sessions \ {s} : request[r] = Presence!Idle
      BY <2>1, <2>4 DEF Ruling
    <3>3. undisturbed' => Ruling(s)'
      BY <1>1, <2>1, <2>2, <2>3, <2>6, <3>1, <3>2 DEF Ruling, Presence!AttendanceStatus
    <3>4. undisturbed' \in BOOLEAN
      BY <2>6 DEF RulingInv
    <3>5. undisturbed' => Restores(s)'
      BY <1>1, <2>1, <2>2, <2>3, <2>4, <2>6 DEF Restores, Verifying
    <3> QED
      BY <2>2, <2>4, <2>6, <3>2, <3>3, <3>4, <3>5, RulerMoves
  <2> QED
    BY <2>1, <2>5, <2>6
<1>6. CASE Presence!ReadPosted(s)
  <2> DEFINE owed == Presence!Owed(request[s].decision)
             step == [pc |-> "post", by |-> "organizer", owed |-> owed]
  <2>1. /\ Presence!Goes(s, step) /\ UNCHANGED <<status, signal, awarded, net, undisturbed>>
        /\ request[s].pc = "compensate"
    BY <1>6 DEF Presence!ReadPosted, Presence!rows
  <2>2. /\ request[s].decision = "invalid" => owed \in Int /\ net + owed <= 0
        /\ request[s].decision = "valid" /\ awarded /\ net >= 0 => net + owed > 0
    BY <1>2 DEF Presence!Owed
  <2> HIDE DEF owed
  <2>3. step.pc = "post" /\ step.by = "organizer" /\ step.owed = owed
    OBVIOUS
  <2> HIDE DEF step
  <2>4. undisturbed => Ruling(s) /\ Restores(s)
    BY <1>3, <2>1
  <2>5. undisturbed => request[s].decision = signal["organizer"]
    BY <2>1, <2>4 DEF Ruling, Verifying
  <2>6. undisturbed => Ruling(s)'
    BY <1>1, <2>1, <2>2, <2>3, <2>4, <2>5 DEF Ruling, Verifying, Presence!AttendanceStatus
  <2>7. undisturbed => \A r \in Sessions \ {s} : request[r] = Presence!Idle
    BY <2>4 DEF Ruling
  <2>8. undisturbed' \in BOOLEAN
    BY <2>1 DEF RulingInv
  <2>9. undisturbed /\ signal["organizer"] = "valid" => awarded /\ net >= 0
    BY <2>1, <2>4, <2>5 DEF Ruling, Restores, Verifying
  <2>10. undisturbed => Restores(s)'
    BY <1>1, <2>1, <2>2, <2>3, <2>5, <2>9 DEF Restores, Verifying
  <2> QED
    BY <2>1, <2>3, <2>6, <2>7, <2>8, <2>10, RulerMoves
<1>7. CASE Presence!Compensate(s)
  <2>1. /\ Presence!Goes(s, Presence!Idle) /\ net' = net + request[s].owed /\ request[s].pc = "post"
        /\ UNCHANGED <<status, signal, awarded, undisturbed>>
    BY <1>7 DEF Presence!Compensate
  <2>2. Presence!Deciding(s) /\ (undisturbed => Ruling(s) /\ Restores(s))
    BY <1>3, <2>1
  <2>3. undisturbed => Made'
    BY <2>1, <2>2 DEF Ruling, Restores, Made, Verdict
  <2>4. undisturbed' \in BOOLEAN
    BY <2>1 DEF RulingInv
  <2> QED
    BY <2>1, <2>2, <2>3, <2>4, RulerEnds
<1> QED
  BY <1>4, <1>5, <1>6, <1>7

\* The deciding session scores, writes and awards, or is cut off.
LEMMA RulingScores ==
  ASSUME RulingInv, EvidenceInv, NEW s \in Sessions, Presence!Deciding(s),
         Presence!ReadSignals(s) \/ Presence!WriteStatus(s) \/ Presence!Award(s) \/ Presence!Abort(s)
  PROVE  RulingInv'
<1> USE DEF Presence!At
<1>1. ASSUME NEW step, Presence!Goes(s, step)
      PROVE  request'[s] = step /\ \A r \in Sessions \ {s} : request'[r] = request[r]
  BY <1>1, RequestsMove DEF EvidenceInv
<1>2. /\ RequestKnows(s) /\ signal \in [Presence!Methods -> Presence!Evidence]
      /\ awarded \in BOOLEAN /\ net \in Int
      /\ "organizer" \in Presence!Methods
  BY DEF EvidenceInv, PresenceTypes, Presence!Methods
<1>3. /\ undisturbed => Ruling(s) /\ Restores(s) /\ \A r \in Sessions \ {s} : request[r] = Presence!Idle
      /\ request[s].by = "organizer" /\ undisturbed \in BOOLEAN
  BY DEF RulingInv, Ruling, Presence!Deciding
<1>4. ASSUME NEW step, Presence!Goes(s, step), step.pc # "idle", step.by = request[s].by, UNCHANGED undisturbed,
             undisturbed => Ruling(s)' /\ Restores(s)'
      PROVE  RulingInv'
  BY <1>3, <1>4, RulerMoves
<1>5. CASE Presence!ReadSignals(s)
  <2> DEFINE new == Presence!StatusFrom(Presence!Loaded(s))
             step == [request[s] EXCEPT !.pc = new]
  <2>1. /\ UNCHANGED <<status, signal, awarded, net, undisturbed>> /\ request[s].pc = "score"
        /\ IF Presence!Computable(Presence!Loaded(s)) THEN Presence!Goes(s, step) ELSE Presence!Goes(s, Presence!Idle)
    BY <1>5 DEF Presence!ReadSignals, Presence!rows
  <2>2. undisturbed => signal["organizer"] = request[s].decision
    BY <1>3, <2>1 DEF Ruling, Verifying
  <2>3. undisturbed => Presence!Loaded(s) = signal
    BY <1>2, <2>2 DEF Presence!Loaded
  <2>4. signal["organizer"] # "none"
    BY <1>2, <1>3, <2>1 DEF RequestKnows, Verifying
  <2>5. undisturbed => new = Verdict(signal["organizer"])
    BY <2>3, <2>4, ScoreIsVerdict
  <2>6. new \in Presence!AttendanceStatus
    BY <2>1, ScoreIsSupported
  <2> HIDE DEF new
  <2>7. /\ step.by = request[s].by /\ step.decision = request[s].decision
        /\ step.new = request[s].new /\ step.copy = request[s].copy
    OBVIOUS
  <2>8. request[s].pc = "score" => step.pc = new
    OBVIOUS
  <2> HIDE DEF step
  <2>9. CASE Presence!Goes(s, step)
    <3>1. undisturbed => /\ request'[s] = step /\ step.pc = new /\ step.new = TRUE /\ step.copy = status
                         /\ step.decision = signal["organizer"]
      BY <1>1, <1>3, <2>1, <2>2, <2>7, <2>8, <2>9 DEF Ruling, Verifying
    <3>2. undisturbed => Ruling(s)'
      BY <1>1, <1>3, <2>1, <2>5, <2>6, <2>9, <3>1 DEF Ruling, Presence!AttendanceStatus
    <3>3. step.pc # "idle"
      BY <2>1, <2>6, <2>8 DEF Presence!AttendanceStatus
    <3>4. undisturbed => Restores(s)'
      BY <1>1, <1>3, <2>1, <2>2, <2>6, <2>9, <3>1 DEF Restores, Verifying, Presence!AttendanceStatus
    <3> QED
      BY <1>4, <2>1, <2>7, <2>9, <3>2, <3>3, <3>4
  <2>10. CASE ~Presence!Computable(Presence!Loaded(s)) /\ Presence!Goes(s, Presence!Idle)
    <3>1. undisturbed => signal["organizer"] # "invalid" /\ "gps_checkout" \in Presence!Valid(signal)
      BY <2>3, <2>10 DEF Presence!Computable
    <3>2. undisturbed => Made'
      BY <2>1, <3>1 DEF Made, Presence!Valid
    <3> QED
      BY <1>3, <2>1, <2>10, <3>2, RulerEnds
  <2> QED
    BY <2>1, <2>9, <2>10
<1>6. CASE Presence!WriteStatus(s)
  <2>0. PICK new \in Presence!AttendanceStatus : new = request[s].pc
    BY <1>6 DEF Presence!WriteStatus
  <2> DEFINE next == IF request[s].new /\ request[s].decision = "invalid" THEN "compensate" ELSE "award"
             step == [request[s] EXCEPT !.copy = new, !.pc = next]
  <2>1. /\ Presence!Goes(s, step) /\ status' = IF new = request[s].copy THEN status ELSE new
        /\ UNCHANGED <<signal, awarded, net, undisturbed>>
    BY <1>6, <2>0 DEF Presence!WriteStatus
  <2>2. undisturbed => /\ new = Verdict(signal["organizer"]) /\ request[s].copy = status
                       /\ request[s].new = TRUE /\ signal["organizer"] = request[s].decision
    BY <1>3, <2>0 DEF Ruling, Verifying, Presence!AttendanceStatus
  <2>3. undisturbed => status' = new
    BY <2>1, <2>2
  <2>4. request[s].decision \in {"valid", "invalid"}
    BY <1>2, <1>3, <2>0 DEF RequestKnows, Verifying, Presence!AttendanceStatus
  <2>5. /\ next \in {"award", "compensate"}
        /\ undisturbed /\ next = "award" => signal["organizer"] = "valid"
        /\ undisturbed /\ next = "compensate" => signal["organizer"] = "invalid"
    BY <2>2, <2>4
  <2> HIDE DEF next
  <2>6. /\ step.by = request[s].by /\ step.decision = request[s].decision
        /\ step.new = request[s].new /\ step.copy = new /\ step.pc = next
    OBVIOUS
  <2> HIDE DEF step
  <2>7. undisturbed => Ruling(s)'
    BY <1>1, <1>3, <2>1, <2>2, <2>3, <2>5, <2>6 DEF Ruling, Presence!AttendanceStatus
  <2>8. undisturbed => Restores(s)'
    BY <1>1, <1>3, <2>0, <2>1, <2>5, <2>6 DEF Restores, Verifying, Presence!AttendanceStatus
  <2> QED
    BY <1>4, <2>1, <2>5, <2>6, <2>7, <2>8
<1>7. CASE Presence!Award(s)
  <2> DEFINE step == [request[s] EXCEPT !.pc = "compensate"]
  <2>1. /\ awarded' = (awarded \/ Presence!Qualified(s)) /\ request[s].pc = "award"
        /\ net' \in {net, net + 1}
        /\ UNCHANGED <<status, signal, undisturbed>>
        /\ IF request[s].new THEN Presence!Goes(s, step) ELSE Presence!Goes(s, Presence!Idle)
    BY <1>7 DEF Presence!Award, Presence!Then
  <2>2. undisturbed => /\ request[s].new = TRUE /\ signal["organizer"] = "valid"
                       /\ signal["organizer"] = request[s].decision
                       /\ status = "organizer_verified" /\ request[s].copy = status
    BY <1>3, <2>1 DEF Ruling, Verifying, Verdict
  <2>3. undisturbed => Presence!Qualified(s)
    BY <1>2, <2>2 DEF Presence!Qualified, Presence!Valid
  <2>4. /\ step.by = request[s].by /\ step.decision = request[s].decision
        /\ step.new = request[s].new /\ step.pc = "compensate"
    OBVIOUS
  <2> HIDE DEF step
  <2>5. CASE Presence!Goes(s, step)
    <3>1. undisturbed => Ruling(s)'
      BY <1>1, <1>3, <2>1, <2>2, <2>3, <2>4, <2>5 DEF Ruling, Presence!AttendanceStatus, Verdict
    <3>2. undisturbed => Restores(s)'
      BY <1>1, <1>2, <1>3, <2>1, <2>4, <2>5 DEF Restores, Verifying
    <3> QED
      BY <1>4, <2>1, <2>4, <2>5, <3>1, <3>2
  <2>6. CASE ~request[s].new /\ Presence!Goes(s, Presence!Idle)
    BY <1>3, <2>1, <2>2, <2>6, RulerEnds
  <2> QED
    BY <2>1, <2>5, <2>6
<1>8. CASE Presence!Abort(s)
  <2>1. Presence!Goes(s, Presence!Idle) /\ undisturbed' = FALSE
    BY <1>8 DEF Presence!Abort
  <2> QED
    BY <2>1, RulerEnds
<1> QED
  BY <1>5, <1>6, <1>7, <1>8

LEMMA RulingNext ==
  ASSUME RulingInv, EvidenceInv, [Presence!Next]_presenceVars
  PROVE  RulingInv'
<1>1. CASE UNCHANGED presenceVars
  <2>1. \A s \in Sessions : Ruling(s)' = Ruling(s) /\ Follows(s)' = Follows(s)
                            /\ Presence!Deciding(s)' = Presence!Deciding(s)
                            /\ Restores(s)' = Restores(s)
    BY <1>1 DEF presenceVars, Ruling, Restores, Follows, Presence!Deciding
  <2>2. Made' = Made /\ Presence!Quiet' = Presence!Quiet /\ UNCHANGED <<request, undisturbed>>
    BY <1>1, <2>1 DEF presenceVars, Made, Presence!Quiet, Presence!Deciding
  <2> QED
    BY <2>1, <2>2 DEF RulingInv
<1>2. ASSUME NEW s \in Sessions,
             Presence!ReadSignals(s) \/ Presence!WriteStatus(s) \/ Presence!Award(s) \/ Presence!Abort(s)
      PROVE  RulingInv'
  BY <1>2, RulingScores, RulingOthersScore
<1> QED
  BY <1>1, <1>2, RulingBegins, RulingWrites, RulingDecides DEF Presence!Next

LEMMA RulingStart == Presence!Init => RulingInv
BY DEF Presence!Init, RulingInv

\* After a decision that ran alone, scans, confirmations, checkouts and check-ins,
\* interleaved and interrupted as they may be, neither restore a rejected
\* attendance or its points nor take an approved one or its points back
\* (organizer_verify, calculate_attendance_confidence,
\* award_qualified_attendance, _compensate_attendance_points).
THEOREM OrganizersDecisionStands == EarningSpec => []DecisionStands
<1>1. RulingInv => Presence!DecisionStands
  BY DEF RulingInv, Made, Presence!DecisionStands
<1>2. EarningInit => (part = "presence" => RulingInv)
  BY RulingStart DEF EarningInit
<1>3. /\ part = "presence" => RulingInv
      /\ part = "presence" => EvidenceInv
      /\ [EarningNext]_<<part, vars, presenceVars, pointsVars>>
      => (part = "presence" => RulingInv)'
  <2> SUFFICES ASSUME part = "presence" => RulingInv, part = "presence" => EvidenceInv,
                      [EarningNext]_<<part, vars, presenceVars, pointsVars>>, part' = "presence"
               PROVE  RulingInv'
    OBVIOUS
  <2>1. RulingInv /\ EvidenceInv /\ [Presence!Next]_presenceVars
    BY DEF EarningNext
  <2> QED
    BY <2>1, RulingNext
<1>4. (part = "presence" => RulingInv) => DecisionStands
  BY <1>1 DEF DecisionStands
<1> QED
  BY <1>2, <1>3, <1>4, EvidenceAlways, PTL DEF EarningSpec
=============================================================================
