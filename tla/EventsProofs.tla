---------------------------- MODULE EventsProofs ----------------------------
(***************************************************************************)
(* Proofs about Events, for every number of objects, accounts and sessions. *)
(* An upload owns the object it has stored until its commit: nobody else    *)
(* knows the key.  What any handler deletes once it has committed is the    *)
(* object of a cover it has overwritten, and no handler under way brings    *)
(* that cover back but an edit that names it.                              *)
(***************************************************************************)
EXTENDS Events, TLAPS

\* What a session at "ready" or "drop" knows of the objects it may delete.
HasCover(s) == "cover" \in DOMAIN session[s].changes
NewCover(s) == session[s].changes["cover"]

Owns(s) ==
    At(s, "ready") =>
        /\ \A k \in session[s].own :
              k \in Objects /\ object[k] = "stored" /\ event.cover # k /\ HasCover(s) /\ NewCover(s) = k
        /\ HasCover(s) /\ NewCover(s) \in Objects => object[NewCover(s)] # "new"
        /\ \A k \in session[s].previous :
              k \in Objects /\ object[k] # "new" /\ HasCover(s) /\ NewCover(s) # k

Overwrote(s) ==
    At(s, "drop") =>
        \A k \in session[s].previous :
            k \in Objects /\ object[k] # "new" /\ (event.cover # k \/ k \in doubtful)

\* No other session works on what s has stored, or names it.
Apart(s, r) ==
    At(s, "ready") =>
        \A k \in session[s].own :
            /\ r # s /\ At(r, "ready") =>
                  k \notin session[r].own /\ (HasCover(r) => NewCover(r) # k)
            /\ At(r, "ready") \/ At(r, "drop") => k \notin session[r].previous

\* The rows are functions of their fields, objects and sessions.
Shape ==
    /\ DOMAIN event = {"status", "deleted", "suspended", "cover"}
    /\ event = [f \in DOMAIN event |-> event[f]]
    /\ object = [k \in Objects |-> object[k]]
    /\ session = [s \in Sessions |-> session[s]]

\* What is inductive about the cover.
CoverInv ==
    /\ Shape
    /\ event.cover \in Objects => object[event.cover] # "new"
    /\ \A s \in Sessions : Owns(s) /\ Overwrote(s)
    /\ \A s, r \in Sessions : Apart(s, r)
    /\ CoverIsStored

coverVars == <<event, object, session, doubtful>>

-----------------------------------------------------------------------------
LEMMA CoverInit == ASSUME EventsAssumption, Init PROVE CoverInv
<1>1. PICK c \in {"none", "external"} :
        event = [status |-> "draft", deleted |-> FALSE, suspended |-> FALSE, cover |-> c]
  BY DEF Init
<1>2. event.cover \notin Objects
  BY <1>1 DEF EventsAssumption
<1>3. /\ DOMAIN event = {"status", "deleted", "suspended", "cover"}
      /\ event = [f \in DOMAIN event |-> event[f]]
  BY <1>1
<1>4. Shape
  BY <1>3 DEF Init, Shape
<1>5. \A s \in Sessions : session[s].pc = "idle"
  BY DEF Init, Idle
<1> QED
  BY <1>2, <1>4, <1>5 DEF CoverInv, Owns, Overwrote, Apart, At, CoverIsStored

\* A session that is not concerned with the cover may take any step.
LEMMA OtherStep ==
  ASSUME CoverInv, NEW s \in Sessions, NEW step, step.pc \notin {"ready", "drop"},
         session' = [session EXCEPT ![s] = step], UNCHANGED <<event, object, doubtful>>
  PROVE  CoverInv'
<1>1. session'[s] = step /\ \A r \in Sessions \ {s} : session'[r] = session[r]
  BY DEF CoverInv, Shape
<1>2. Shape'
  BY DEF CoverInv, Shape
<1>3. \A r \in Sessions : Owns(r)' /\ Overwrote(r)'
  BY <1>1 DEF CoverInv, Owns, Overwrote, At, HasCover, NewCover
<1>4. \A q, r \in Sessions : Apart(q, r)'
  BY <1>1 DEF CoverInv, Apart, At, HasCover, NewCover
<1> QED
  BY <1>2, <1>3, <1>4 DEF CoverInv, CoverIsStored

\* A handler that stores nothing begins: it deletes at most the cover it has
\* read, and writes another over it.  An object that it names is nobody's own.
LEMMA BeginStep ==
  ASSUME CoverInv, NEW s \in Sessions, NEW changes, NEW previous,
         session' = [session EXCEPT ![s] = [pc |-> "ready", changes |-> changes, own |-> {}, previous |-> previous]],
         UNCHANGED <<event, object, doubtful>>,
         "cover" \in DOMAIN changes /\ changes["cover"] \in Objects => Nameable(changes["cover"]),
         \A k \in previous :
            k = event.cover /\ k \in Objects /\ "cover" \in DOMAIN changes /\ changes["cover"] # k
  PROVE  CoverInv'
<1>1. /\ session'[s] = [pc |-> "ready", changes |-> changes, own |-> {}, previous |-> previous]
      /\ \A r \in Sessions \ {s} : session'[r] = session[r]
  BY DEF CoverInv, Shape
<1>2. Shape'
  BY DEF CoverInv, Shape
<1>3. \A r \in Sessions : Owns(r)' /\ Overwrote(r)'
  BY <1>1 DEF CoverInv, Owns, Overwrote, At, HasCover, NewCover, Nameable
<1>4. \A q, r \in Sessions : Apart(q, r)'
  BY <1>1 DEF CoverInv, Apart, At, Owns, HasCover, NewCover, Nameable
<1> QED
  BY <1>2, <1>3, <1>4 DEF CoverInv, CoverIsStored

\* An upload stores an object that nobody knows.
LEMMA UploadStep ==
  ASSUME CoverInv, NEW s \in Sessions, NEW k \in Objects, UploadCoverImage(s, k)
  PROVE  CoverInv'
<1> DEFINE changes == Differing([cover |-> k], event)
<1>1. event.cover # k /\ object[k] = "new"
  BY DEF CoverInv, UploadCoverImage
<1>2. "cover" \in DOMAIN changes /\ changes["cover"] = k
  BY <1>1 DEF Differing
<1>3. /\ session'[s] = [pc |-> "ready", changes |-> changes, own |-> {k}, previous |-> ManagedCover]
      /\ \A r \in Sessions \ {s} : session'[r] = session[r]
  BY DEF CoverInv, Shape, UploadCoverImage, Ready, Goes
<1>4. /\ object'[k] = "stored" /\ \A o \in Objects \ {k} : object'[o] = object[o]
      /\ event' = event /\ doubtful' = doubtful
  BY DEF CoverInv, Shape, UploadCoverImage, Stores, Ready
<1>5. Shape'
  BY DEF CoverInv, Shape, UploadCoverImage, Stores, Ready, Goes
<1>6. \A r \in Sessions : Owns(r)' /\ Overwrote(r)'
  <2>1. Owns(s)' /\ Overwrote(s)'
    <3> HIDE DEF changes
    <3> QED
      BY <1>1, <1>2, <1>3, <1>4 DEF CoverInv, Owns, Overwrote, At, HasCover, NewCover, ManagedCover
  <2>2. \A r \in Sessions \ {s} : Owns(r)' /\ Overwrote(r)'
    BY <1>1, <1>3, <1>4 DEF CoverInv, Owns, Overwrote, At, HasCover, NewCover
  <2> QED
    BY <2>1, <2>2
<1>7. \A q, r \in Sessions : Apart(q, r)'
  <2> HIDE DEF changes
  <2>1. \A r \in Sessions : Owns(r) /\ Overwrote(r)
    BY DEF CoverInv
  <2> QED
    BY <1>1, <1>2, <1>3, <2>1 DEF CoverInv, Apart, At, Owns, Overwrote, ManagedCover, HasCover, NewCover
<1> QED
  BY <1>1, <1>4, <1>5, <1>6, <1>7 DEF CoverInv, CoverIsStored

LEMMA ShownIsNew ==
  ASSUME NEW s \in Sessions, HasCover(s), NewCover(s) \in Objects, NewCover(s) # event.cover
  PROVE  NewCover(s) \in Shows(s)
BY DEF HasCover, NewCover, Shows

\* A commit overwrites the cover that the handler has read, or another one: what
\* the handler deletes afterwards is not shown.  An object that the commit brings
\* back is doubtful from then on.
LEMMA CommitStep ==
  ASSUME CoverInv, NEW s \in Sessions, Commit(s)
  PROVE  CoverInv'
<1> DEFINE step == IF session[s].previous = {} THEN Idle ELSE [pc |-> "drop", previous |-> session[s].previous]
           changes == session[s].changes
<1>1. /\ session'[s] = step /\ \A r \in Sessions \ {s} : session'[r] = session[r]
      /\ object' = object /\ doubtful' = doubtful \cup (Shows(s) \ session[s].own)
  BY DEF CoverInv, Shape, Commit, Goes
<1>2. /\ step.pc \in {"idle", "drop"}
      /\ step.pc = "drop" => step.previous = session[s].previous
  BY DEF Idle
<1>3. event'.cover = IF HasCover(s) THEN NewCover(s) ELSE event.cover
  BY DEF CoverInv, Shape, Commit, Written, HasCover, NewCover
<1>4. Shape'
  BY DEF CoverInv, Shape, Commit, Written, Goes
<1>9. HasCover(s) /\ NewCover(s) \in Objects \ (session[s].own \cup {event.cover}) => NewCover(s) \in doubtful'
  BY <1>1, ShownIsNew
<1> HIDE DEF step, changes
<1>5. At(s, "ready") /\ Owns(s)
  BY DEF Commit, CoverInv
<1>6. \A r \in Sessions : Owns(r)' /\ Overwrote(r)'
  <2>1. Owns(s)'
    BY <1>1, <1>2 DEF Owns, At
  <2>2. Overwrote(s)'
    BY <1>1, <1>2, <1>3, <1>5 DEF Owns, Overwrote, At
  <2>3. \A r \in Sessions \ {s} : Owns(r)'
    BY <1>1, <1>3, <1>5 DEF CoverInv, Owns, Apart, At, HasCover, NewCover
  <2>4. \A r \in Sessions \ {s} : Overwrote(r)'
    BY <1>1, <1>3, <1>5, <1>9 DEF CoverInv, Overwrote, Apart, At
  <2> QED
    BY <2>1, <2>2, <2>3, <2>4
<1>7. \A q, r \in Sessions : Apart(q, r)'
  BY <1>1, <1>2, <1>5 DEF CoverInv, Apart, At, HasCover, NewCover
<1>8. /\ event'.cover \in Objects => object'[event'.cover] # "new"
      /\ CoverIsStored'
  BY <1>1, <1>3, <1>5, <1>9 DEF CoverInv, CoverIsStored, Owns
<1> QED
  BY <1>4, <1>6, <1>7, <1>8 DEF CoverInv

LEMMA DropStep ==
  ASSUME CoverInv, NEW s \in Sessions, DropPrevious(s)
  PROVE  CoverInv'
<1>1. /\ session'[s].pc = "idle" /\ \A r \in Sessions \ {s} : session'[r] = session[r]
      /\ event' = event /\ doubtful' = doubtful
      /\ \A k \in Objects : object'[k] = IF k \in session[s].previous THEN "gone" ELSE object[k]
  BY DEF CoverInv, Shape, DropPrevious, Deletes, Goes, Idle
<1>2. At(s, "drop") /\ Overwrote(s)
  BY DEF DropPrevious, CoverInv
<1>3. Shape'
  BY DEF CoverInv, Shape, DropPrevious, Deletes, Goes
<1>4. \A r \in Sessions : Owns(r)' /\ Overwrote(r)'
  <2>1. \A r \in Sessions : Owns(r)'
    BY <1>1, <1>2 DEF CoverInv, Owns, Apart, At, HasCover, NewCover
  <2>2. \A r \in Sessions : Overwrote(r)'
    BY <1>1 DEF CoverInv, Overwrote, At
  <2> QED
    BY <2>1, <2>2
<1>5. \A q, r \in Sessions : Apart(q, r)'
  BY <1>1 DEF CoverInv, Apart, At, HasCover, NewCover
<1>6. /\ event'.cover \in Objects => object'[event'.cover] # "new"
      /\ CoverIsStored'
  BY <1>1, <1>2 DEF CoverInv, CoverIsStored, Overwrote
<1> QED
  BY <1>3, <1>4, <1>5, <1>6 DEF CoverInv

\* An upload whose commit fails deletes an object that nobody shows; where the
\* commit had taken effect, the object that it shows is doubtful.
LEMMA RaiseStep ==
  ASSUME CoverInv, NEW s \in Sessions, NEW tookEffect \in BOOLEAN, CommitRaises(s, tookEffect)
  PROVE  CoverInv'
<1>1. /\ session'[s].pc = "idle" /\ \A r \in Sessions \ {s} : session'[r] = session[r]
      /\ \A k \in Objects : object'[k] = IF k \in session[s].own THEN "gone" ELSE object[k]
  BY DEF CoverInv, Shape, CommitRaises, Deletes, Goes, Idle
<1>2. At(s, "ready") /\ Owns(s)
  BY DEF CommitRaises, CoverInv
<1>3. event'.cover = IF tookEffect /\ HasCover(s) THEN NewCover(s) ELSE event.cover
  BY DEF CoverInv, Shape, CommitRaises, Written, HasCover, NewCover
<1>4. Shape'
  BY DEF CoverInv, Shape, CommitRaises, Deletes, Written, Goes
<1>7. /\ doubtful \subseteq doubtful'
      /\ tookEffect /\ HasCover(s) /\ NewCover(s) \in Objects \ {event.cover} => NewCover(s) \in doubtful'
  BY ShownIsNew DEF CommitRaises
<1>5. \A r \in Sessions : Owns(r)' /\ Overwrote(r)'
  <2>1. \A r \in Sessions : Owns(r)'
    BY <1>1, <1>2, <1>3 DEF CoverInv, Owns, Apart, At, HasCover, NewCover
  <2>2. \A r \in Sessions : Overwrote(r)'
    BY <1>1, <1>2, <1>3, <1>7 DEF CoverInv, Owns, Overwrote, Apart, At
  <2> QED
    BY <2>1, <2>2
<1>6. \A q, r \in Sessions : Apart(q, r)'
  BY <1>1 DEF CoverInv, Apart, At, HasCover, NewCover
<1>8. /\ event'.cover \in Objects => object'[event'.cover] # "new"
      /\ CoverIsStored'
  <2>1. CASE tookEffect /\ HasCover(s) /\ NewCover(s) \in Objects
    <3>1. event'.cover = NewCover(s) /\ object[NewCover(s)] # "new"
      BY <2>1, <1>2, <1>3 DEF Owns
    <3>2. CASE NewCover(s) # event.cover
      BY <2>1, <1>1, <1>7, <3>1, <3>2 DEF CoverIsStored
    <3>3. CASE NewCover(s) = event.cover
      <4>1. event.cover \notin session[s].own
        BY <1>2 DEF Owns
      <4> QED
        BY <2>1, <1>1, <1>7, <3>1, <3>3, <4>1 DEF CoverInv, CoverIsStored
    <3> QED
      BY <3>2, <3>3
  <2>2. CASE ~(tookEffect /\ HasCover(s))
    <3>1. event'.cover = event.cover /\ event.cover \notin session[s].own
      BY <2>2, <1>2, <1>3 DEF Owns
    <3>2. event.cover \in Objects => object'[event.cover] = object[event.cover]
      BY <3>1, <1>1
    <3> QED
      BY <1>7, <3>1, <3>2 DEF CoverInv, CoverIsStored
  <2>3. CASE tookEffect /\ HasCover(s) /\ NewCover(s) \notin Objects
    BY <2>3, <1>3 DEF CoverIsStored
  <2> QED
    BY <2>1, <2>2, <2>3
<1> QED
  BY <1>4, <1>5, <1>6, <1>8 DEF CoverInv

LEMMA ModerateStep ==
  ASSUME CoverInv, NEW suspend \in BOOLEAN, Moderate(suspend)
  PROVE  CoverInv'
<1>1. event'.cover = event.cover /\ UNCHANGED <<object, session, doubtful>>
  BY DEF CoverInv, Shape, Moderate
<1>2. Shape'
  BY DEF CoverInv, Shape, Moderate
<1> QED
  BY <1>1, <1>2 DEF CoverInv, Owns, Overwrote, Apart, At, HasCover, NewCover, CoverIsStored

\* The steps of the event's handlers that write no row yet.
LEMMA BeginSteps ==
  ASSUME EventsAssumption, CoverInv, NEW s \in Sessions,
         \/ Publish(s) \/ Unpublish(s) \/ SoftDelete(s) \/ DeleteCoverImage(s)
         \/ \E cover \in Covers : UpdateCover(s, cover)
  PROVE  CoverInv'
<1>1. CASE Publish(s) \/ Unpublish(s) \/ SoftDelete(s)
  <2>1. PICK values : /\ Ready(s, Differing(values, event), {}, {}) /\ UNCHANGED object
                      /\ "cover" \notin DOMAIN values
    BY <1>1 DEF Publish, Unpublish, SoftDelete
  <2> DEFINE changes == Differing(values, event)
             none == {}
  <2>2. "cover" \notin DOMAIN changes
    BY <2>1 DEF Differing
  <2>3. /\ session' = [session EXCEPT ![s] = [pc |-> "ready", changes |-> changes, own |-> {}, previous |-> none]]
        /\ UNCHANGED <<event, object, doubtful>>
    BY <2>1 DEF Ready, Goes
  <2>4. \A k \in none : k = event.cover /\ k \in Objects /\ "cover" \in DOMAIN changes /\ changes["cover"] # k
    OBVIOUS
  <2> HIDE DEF changes, none
  <2> QED
    BY <2>2, <2>3, <2>4, BeginStep
<1>2. ASSUME NEW cover, NEW changes, NEW previous,
             Ready(s, changes, {}, previous), UNCHANGED object,
             /\ "cover" \in DOMAIN changes => changes["cover"] = cover
             /\ event.cover # cover => "cover" \in DOMAIN changes,
             cover \in Objects => Nameable(cover),
             previous \subseteq ManagedCover \ {cover}
      PROVE  CoverInv'
  <2>1. /\ session' = [session EXCEPT ![s] = [pc |-> "ready", changes |-> changes, own |-> {}, previous |-> previous]]
        /\ UNCHANGED <<event, object, doubtful>>
    BY <1>2 DEF Ready, Goes
  <2>2. \A k \in previous :
           k = event.cover /\ k \in Objects /\ "cover" \in DOMAIN changes /\ changes["cover"] # k
    BY <1>2 DEF ManagedCover
  <2> QED
    BY <1>2, <2>1, <2>2, BeginStep
<1>3. CASE DeleteCoverImage(s)
  <2> DEFINE none == "none"
             changes == Differing([cover |-> none], event)
             previous == ManagedCover
  <2>1. /\ "cover" \in DOMAIN changes => changes["cover"] = none
        /\ event.cover # none => "cover" \in DOMAIN changes
    BY DEF Differing
  <2>2. none \notin Objects /\ previous \subseteq ManagedCover \ {none}
    BY DEF EventsAssumption, ManagedCover
  <2>3. Ready(s, changes, {}, previous) /\ UNCHANGED object
    BY <1>3 DEF DeleteCoverImage
  <2> HIDE DEF none, changes, previous
  <2> QED
    BY <1>2, <2>1, <2>2, <2>3
<1>4. ASSUME NEW cover \in Covers, UpdateCover(s, cover) PROVE CoverInv'
  <2> DEFINE changes == IF cover = "none" THEN Differing([cover |-> cover], event) ELSE [cover |-> cover]
             previous == ManagedCover \ {cover}
  <2>1. /\ "cover" \in DOMAIN changes => changes["cover"] = cover
        /\ event.cover # cover => "cover" \in DOMAIN changes
    BY DEF Differing
  <2>2. Ready(s, changes, {}, previous) /\ UNCHANGED object /\ (cover \in Objects => Nameable(cover))
    BY <1>4 DEF UpdateCover
  <2>3. previous \subseteq ManagedCover \ {cover}
    OBVIOUS
  <2> HIDE DEF changes, previous
  <2> QED
    BY <1>2, <2>1, <2>2, <2>3
<1> QED
  BY <1>1, <1>3, <1>4

LEMMA CoverNext == ASSUME EventsAssumption, CoverInv, [Next]_vars PROVE CoverInv'
<1>1. ASSUME NEW s \in Sessions,
             \/ Publish(s) \/ Unpublish(s) \/ SoftDelete(s) \/ DeleteCoverImage(s)
             \/ \E cover \in Covers : UpdateCover(s, cover)
      PROVE  CoverInv'
  BY <1>1, BeginSteps
<1>2. ASSUME NEW s \in Sessions, NEW k \in Objects, UploadCoverImage(s, k) PROVE CoverInv'
  BY <1>2, UploadStep
<1>3. ASSUME NEW s \in Sessions, Commit(s) PROVE CoverInv'
  BY <1>3, CommitStep
<1>4. ASSUME NEW s \in Sessions, DropPrevious(s) PROVE CoverInv'
  BY <1>4, DropStep
<1>5. ASSUME NEW s \in Sessions, NEW tookEffect \in BOOLEAN, CommitRaises(s, tookEffect) PROVE CoverInv'
  BY <1>5, RaiseStep
<1>6. ASSUME NEW s \in Sessions, NEW u \in Candidates,
             RevokeStaff(s, u) \/ \E role \in StaffRoles : AssignStaff(s, u, role)
      PROVE  CoverInv'
  <2>1. PICK changes : Decides(s, u, changes)
    BY <1>6 DEF RevokeStaff, AssignStaff
  <2> DEFINE step == [pc |-> "appointment", user |-> u, read |-> staff[u], changes |-> changes]
  <2>2. step.pc \notin {"ready", "drop"}
    OBVIOUS
  <2>3. session' = [session EXCEPT ![s] = step] /\ UNCHANGED <<event, object, doubtful>>
    BY <2>1 DEF Decides, Goes
  <2> HIDE DEF step
  <2> QED
    BY <2>2, <2>3, OtherStep
<1>7. ASSUME NEW s \in Sessions, CommitAppointment(s) \/ Dies(s) PROVE CoverInv'
  <2>1. Idle.pc \notin {"ready", "drop"}
    BY DEF Idle
  <2>2. session' = [session EXCEPT ![s] = Idle] /\ UNCHANGED <<event, object, doubtful>>
    BY <1>7 DEF CommitAppointment, Dies, Goes
  <2> QED
    BY <2>1, <2>2, OtherStep
<1>8. ASSUME NEW suspend \in BOOLEAN, Moderate(suspend) PROVE CoverInv'
  BY <1>8, ModerateStep
<1>9. ASSUME UNCHANGED coverVars PROVE CoverInv'
  BY <1>9 DEF coverVars, CoverInv, Shape, Owns, Overwrote, Apart, At, HasCover, NewCover, CoverIsStored
<1>10. ASSUME NEW u \in Candidates, MembershipChanges(u) PROVE CoverInv'
  BY <1>9, <1>10 DEF MembershipChanges, coverVars
<1>11. CASE UNCHANGED vars
  BY <1>9, <1>11 DEF vars, coverVars
<1> QED
  BY <1>1, <1>2, <1>3, <1>4, <1>5, <1>6, <1>7, <1>8, <1>10, <1>11 DEF Next, EventNext, StaffNext, Always, HandlesEvent, HandlesStaff

\* However many uploads, removals and edits of the cover overlap, and whichever
\* of them die or fail: the object of the cover that the event shows is stored,
\* unless an edit brought it back by its URL after another cover was shown, or
\* its upload took its commit for failed although it had taken effect.
THEOREM ShownCoversAreStored == ASSUME EventsAssumption PROVE Spec => []CoverIsStored
<1>1. Init => CoverInv
  BY CoverInit
<1>2. CoverInv /\ [Next]_vars => CoverInv'
  BY CoverNext
<1>3. CoverInv => CoverIsStored
  BY DEF CoverInv
<1> QED
  BY <1>1, <1>2, <1>3, PTL DEF Spec

-----------------------------------------------------------------------------
(* The staff: what an assignment writes is what it found different. *)

\* Only an assignment that has read the appointment as revoked sets it active.
AssignmentInv ==
    /\ session = [s \in Sessions |-> session[s]]
    /\ staff = [u \in Candidates |-> staff[u]]
    /\ \A s \in Sessions : At(s, "appointment") /\ session[s].read # Nobody =>
          /\ "active" \in DOMAIN session[s].changes /\ session[s].changes["active"] => ~session[s].read.active
    /\ \A s \in Sessions : At(s, "appointment") /\ session[s].read = Nobody =>
          "active" \in DOMAIN session[s].changes
    /\ \A u \in Candidates : "active" \in DOMAIN staff[u]

LEMMA AssignmentInit == Init => AssignmentInv
  BY DEF Init, AssignmentInv, At, Idle, Nobody

\* A session that begins with another step, or ends, says nothing of staff.
LEMMA OtherAssignment ==
  ASSUME AssignmentInv, NEW s \in Sessions, NEW step, step.pc # "appointment",
         session' = [session EXCEPT ![s] = step],
         staff' = [u \in Candidates |-> staff'[u]],
         \A u \in Candidates : "active" \in DOMAIN staff'[u]
  PROVE  AssignmentInv'
  BY DEF AssignmentInv, At

LEMMA DecidesStep ==
  ASSUME AssignmentInv, NEW s \in Sessions, NEW u, NEW changes, Decides(s, u, changes),
         staff[u] # Nobody /\ "active" \in DOMAIN changes /\ changes["active"] => ~staff[u].active,
         staff[u] = Nobody => "active" \in DOMAIN changes
  PROVE  AssignmentInv'
<1>1. /\ session'[s] = [pc |-> "appointment", user |-> u, read |-> staff[u], changes |-> changes]
      /\ \A r \in Sessions \ {s} : session'[r] = session[r]
      /\ session' = [r \in Sessions |-> session'[r]] /\ staff' = staff
  BY DEF AssignmentInv, Decides, Goes
<1> QED
  BY <1>1 DEF AssignmentInv, At

LEMMA AssignmentNext == AssignmentInv /\ [Next]_vars => AssignmentInv'
<1> SUFFICES ASSUME AssignmentInv, [Next]_vars PROVE AssignmentInv'
  OBVIOUS
<1>1. ASSUME NEW s \in Sessions, NEW changes, NEW own, NEW previous, Ready(s, changes, own, previous)
      PROVE  AssignmentInv'
  <2> DEFINE step == [pc |-> "ready", changes |-> changes, own |-> own, previous |-> previous]
  <2>1. step.pc # "appointment"
    OBVIOUS
  <2>2. /\ session' = [session EXCEPT ![s] = step] /\ staff' = [u \in Candidates |-> staff'[u]]
        /\ \A u \in Candidates : "active" \in DOMAIN staff'[u]
    BY <1>1 DEF Ready, Goes, AssignmentInv
  <2> HIDE DEF step
  <2> QED
    BY <2>1, <2>2, OtherAssignment
<1>2. ASSUME NEW s \in Sessions, NEW step, step.pc # "appointment", Goes(s, step), staff' = staff
      PROVE  AssignmentInv'
  BY <1>2, OtherAssignment DEF Goes, AssignmentInv
<1>3. ASSUME NEW s \in Sessions, Commit(s) PROVE AssignmentInv'
  <2> DEFINE step == IF session[s].previous = {} THEN Idle ELSE [pc |-> "drop", previous |-> session[s].previous]
  <2>1. step.pc # "appointment"
    BY DEF Idle
  <2>2. Goes(s, step) /\ staff' = staff
    BY <1>3 DEF Commit
  <2> HIDE DEF step
  <2> QED
    BY <1>2, <2>1, <2>2
<1>4. Idle.pc # "appointment"
  BY DEF Idle
<1>5. ASSUME NEW s \in Sessions,
             DropPrevious(s) \/ Dies(s) \/ \E tookEffect \in BOOLEAN : CommitRaises(s, tookEffect)
      PROVE  AssignmentInv'
  <2>1. Goes(s, Idle) /\ staff' = staff
    BY <1>5 DEF DropPrevious, Dies, CommitRaises
  <2> QED
    BY <1>2, <1>4, <2>1
<1>6. ASSUME NEW s \in Sessions, CommitAppointment(s) PROVE AssignmentInv'
  <2>1. Goes(s, Idle) /\ staff' = [u \in Candidates |-> staff'[u]]
    BY <1>6 DEF CommitAppointment, AssignmentInv
  <2>2. \A u \in Candidates : "active" \in DOMAIN staff'[u]
    BY <1>6 DEF CommitAppointment, AssignmentInv, Written
  <2> QED
    BY <1>4, <2>1, <2>2, OtherAssignment DEF Goes
<1>7. ASSUME NEW s \in Sessions, NEW u \in Candidates, NEW role \in StaffRoles, AssignStaff(s, u, role)
      PROVE  AssignmentInv'
  <2> DEFINE changes == IF staff[u] = Nobody THEN Assigned(role) ELSE Differing(Assigned(role), staff[u])
  <2>1. staff[u] # Nobody /\ "active" \in DOMAIN changes /\ changes["active"] => ~staff[u].active
    BY DEF Differing, Assigned
  <2>2. staff[u] = Nobody => "active" \in DOMAIN changes
    BY DEF Assigned
  <2>3. Decides(s, u, changes)
    BY <1>7 DEF AssignStaff
  <2> HIDE DEF changes
  <2> QED
    BY <2>1, <2>2, <2>3, DecidesStep
<1>8. ASSUME NEW s \in Sessions, NEW u \in Candidates, RevokeStaff(s, u) PROVE AssignmentInv'
  <2> DEFINE changes == [active |-> FALSE]
  <2>1. ~changes["active"] /\ "active" \in DOMAIN changes
    OBVIOUS
  <2>2. Decides(s, u, changes)
    BY <1>8 DEF RevokeStaff
  <2> HIDE DEF changes
  <2> QED
    BY <2>1, <2>2, DecidesStep
<1>9. ASSUME UNCHANGED <<session, staff>> PROVE AssignmentInv'
  BY <1>9 DEF AssignmentInv, At
<1>10. ASSUME NEW s \in Sessions,
              \/ Publish(s) \/ Unpublish(s) \/ SoftDelete(s) \/ DeleteCoverImage(s)
              \/ \E cover \in Covers : UpdateCover(s, cover)
              \/ \E k \in Objects : UploadCoverImage(s, k)
       PROVE  AssignmentInv'
  <2>1. \E changes, own, previous : Ready(s, changes, own, previous)
    BY <1>10 DEF Publish, Unpublish, SoftDelete, DeleteCoverImage, UpdateCover, UploadCoverImage
  <2> QED
    BY <1>1, <2>1
<1>11. CASE \/ \E suspend \in BOOLEAN : Moderate(suspend)
            \/ \E u \in Candidates : MembershipChanges(u)
            \/ UNCHANGED vars
  BY <1>9, <1>11 DEF Moderate, MembershipChanges, vars
<1> QED
  BY <1>3, <1>5, <1>6, <1>7, <1>8, <1>10, <1>11 DEF Next, EventNext, StaffNext, Always, HandlesEvent, HandlesStaff

\* Only the commit of an appointment touches one.
LEMMA OnlyCommitsAppoint ==
  ASSUME [Next]_vars, staff' # staff
  PROVE  \E s \in Sessions : CommitAppointment(s)
<1>1. ASSUME NEW s \in Sessions, NEW changes, NEW own, NEW previous, Ready(s, changes, own, previous)
      PROVE  FALSE
  BY <1>1 DEF Ready
<1>2. ASSUME NEW s \in Sessions,
             \/ Publish(s) \/ Unpublish(s) \/ SoftDelete(s) \/ DeleteCoverImage(s)
             \/ \E cover \in Covers : UpdateCover(s, cover)
             \/ \E k \in Objects : UploadCoverImage(s, k)
      PROVE  FALSE
  <2>1. \E changes, own, previous : Ready(s, changes, own, previous)
    BY <1>2 DEF Publish, Unpublish, SoftDelete, DeleteCoverImage, UpdateCover, UploadCoverImage
  <2> QED
    BY <1>1, <2>1
<1>3. ASSUME NEW s \in Sessions,
             \/ Commit(s) \/ DropPrevious(s) \/ Dies(s)
             \/ \E tookEffect \in BOOLEAN : CommitRaises(s, tookEffect)
      PROVE  FALSE
  BY <1>3 DEF Commit, DropPrevious, Dies, CommitRaises
<1>4. ASSUME NEW s \in Sessions, NEW u \in Candidates,
             RevokeStaff(s, u) \/ \E role \in StaffRoles : AssignStaff(s, u, role)
      PROVE  FALSE
  BY <1>4 DEF RevokeStaff, AssignStaff, Decides
<1>5. ~ \/ \E suspend \in BOOLEAN : Moderate(suspend)
        \/ \E u \in Candidates : MembershipChanges(u)
        \/ UNCHANGED vars
  BY DEF Moderate, MembershipChanges, vars
<1> QED
  BY <1>2, <1>3, <1>4, <1>5 DEF Next, EventNext, StaffNext, Always, HandlesEvent, HandlesStaff

\* A revoked appointment becomes active again only by an assignment that has
\* read it as revoked, for any number of requests that appoint and revoke.
THEOREM RevocationsStand == Spec => RevocationStands
<1> DEFINE Stands ==
      \A u \in Candidates :
        staff[u] # Nobody /\ ~staff[u].active /\ staff'[u].active =>
            \E s \in Sessions : /\ At(s, "appointment") /\ session[s].user = u
                                /\ session[s].read # Nobody /\ ~session[s].read.active
<1>1. AssignmentInv /\ [Next]_vars => [Stands]_staff
  <2> SUFFICES ASSUME AssignmentInv, [Next]_vars, staff' # staff,
                      NEW u \in Candidates,
                      staff[u] # Nobody, ~staff[u].active, staff'[u].active
               PROVE  \E s \in Sessions : /\ At(s, "appointment") /\ session[s].user = u
                                          /\ session[s].read # Nobody /\ ~session[s].read.active
    OBVIOUS
  <2>1. PICK s \in Sessions : CommitAppointment(s)
    BY OnlyCommitsAppoint
  <2>2. At(s, "appointment") /\ session[s].user = u
    BY <2>1 DEF CommitAppointment, AssignmentInv
  <2>3. session[s].read # Nobody
    BY <2>1, <2>2 DEF CommitAppointment, AssignmentInv
  <2>4. staff'[u] = Written(session[s].changes, staff[u])
    BY <2>1, <2>2, <2>3 DEF CommitAppointment, AssignmentInv
  <2>5. "active" \in DOMAIN session[s].changes /\ session[s].changes["active"]
    BY <2>4 DEF Written, AssignmentInv
  <2> QED
    BY <2>2, <2>3, <2>5 DEF AssignmentInv
<1> QED
  BY <1>1, AssignmentInit, AssignmentNext, PTL DEF Spec, RevocationStands
=============================================================================
