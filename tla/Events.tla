------------------------------- MODULE Events -------------------------------
(***************************************************************************)
(* One event: its publication, removal and suspension, the stored object    *)
(* of its cover image, and the staff appointed to it (services/event.py,    *)
(* services/event_staff.py, the routes of api/events.py and storage.py).    *)
(*                                                                         *)
(* No handler locks a row.  Each reads the event or the appointment,        *)
(* decides, and commits later; what the commit writes are the columns to    *)
(* which the handler gave a value that differs from the one it had read.    *)
(* The object storage is no part of the transaction.                       *)
(***************************************************************************)
CONSTANTS
    Objects,        \* the objects that uploads may store: each has a key of its own
    Candidates,     \* accounts that may be appointed
    Sessions        \* requests served at once

\* assumed by the modules that instantiate this one: no object is named like
\* these covers
EventsAssumption == "none" \notin Objects /\ "external" \notin Objects

StaffRoles == {"check_in", "attendance_verifier"}
Covers == Objects \cup {"none", "external"}
EventRow == [status : {"draft", "published", "cancelled"}, deleted : BOOLEAN,
             suspended : BOOLEAN, cover : Covers]
StaffRow == [role : StaffRoles, active : BOOLEAN]
Nobody == [active |-> FALSE]

VARIABLES
    event,
    object,         \* of each key: nothing stored yet, stored, or deleted
    member,         \* candidates who are active members of the community
    staff,          \* the appointment of each candidate, or Nobody
    session,
    doubtful        \* objects that an edit has brought back, or whose upload
                    \* took its commit for failed although it had taken effect

vars == <<event, object, member, staff, session, doubtful>>

Idle == [pc |-> "idle"]
At(s, pc) == session[s].pc = pc
Goes(s, step) == session' = [session EXCEPT ![s] = step]

\* What of "values" a commit writes to a row that was read as "row".
Differing(values, row) ==
    [f \in {g \in DOMAIN values : values[g] # row[g]} |-> values[f]]

\* A row after the commit.
Written(changes, row) ==
    [f \in DOMAIN row |-> IF f \in DOMAIN changes THEN changes[f] ELSE row[f]]

Init ==
    /\ event \in {[status |-> "draft", deleted |-> FALSE, suspended |-> FALSE, cover |-> c] :
                    c \in {"none", "external"}}
    /\ object = [k \in Objects |-> "new"]
    /\ member = Candidates
    /\ staff = [u \in Candidates |-> Nobody]
    /\ session = [s \in Sessions |-> Idle]
    /\ doubtful = {}

\* require_available; a suspended community counts as a suspended event
Available == ~event.deleted /\ ~event.suspended

-----------------------------------------------------------------------------
(* The event's row. *)

\* managed_cover_key
ManagedCover == IF event.cover \in Objects THEN {event.cover} ELSE {}

\* A handler has read the event: what it will write, and which objects it
\* deletes if its commit fails ("own") or once it has committed ("previous").
Ready(s, changes, own, previous) ==
    /\ At(s, "idle") /\ Available
    /\ Goes(s, [pc |-> "ready", changes |-> changes, own |-> own, previous |-> previous])
    /\ UNCHANGED <<event, member, staff, doubtful>>

Publish(s) ==
    Ready(s, Differing([status |-> "published"], event), {}, {}) /\ UNCHANGED object

Unpublish(s) ==
    /\ event.status = "published"
    /\ Ready(s, Differing([status |-> "draft"], event), {}, {}) /\ UNCHANGED object

SoftDelete(s) ==
    Ready(s, Differing([deleted |-> TRUE, status |-> "cancelled"], event), {}, {}) /\ UNCHANGED object

\* Nobody else knows the key of an object before its upload has committed; a
\* key that is made up is that of an object which is gone.
Nameable(k) ==
    object[k] # "new" /\ \A r \in Sessions : At(r, "ready") => k \notin session[r].own

\* Mutant: the previous object is deleted without a look at the new cover.
UpdateDropping(s, cover) ==
    /\ event.status \in {"draft", "published"}
    /\ cover \in Objects => Nameable(cover)
    /\ Ready(s, IF cover = "none" THEN Differing([cover |-> cover], event) ELSE [cover |-> cover],
             {}, ManagedCover)
    /\ UNCHANGED object

\* Edits of other fields change nothing that is modelled.  An edit may give the
\* URL of an object, shown now or earlier, or deleted since.  It is another
\* string than the one stored, so that it is written also over the same object.
UpdateCover(s, cover) ==
    /\ event.status \in {"draft", "published"}
    /\ cover \in Objects => Nameable(cover)
    /\ Ready(s, IF cover = "none" THEN Differing([cover |-> cover], event) ELSE [cover |-> cover],
             {}, ManagedCover \ {cover})
    /\ UNCHANGED object

DeleteCoverImage(s) ==
    Ready(s, Differing([cover |-> "none"], event), {}, ManagedCover) /\ UNCHANGED object

Stores(k) == object' = [object EXCEPT ![k] = "stored"]
Deletes(keys) == object' = [k \in Objects |-> IF k \in keys THEN "gone" ELSE object[k]]

\* Nobody knows the key before the upload commits, so that it is stored in
\* the step that reads the event.
UploadCoverImage(s, k) ==
    /\ object[k] = "new"
    /\ Stores(k)
    /\ Ready(s, Differing([cover |-> k], event), {k}, ManagedCover)

\* the object that a commit of s comes to show
Shows(s) ==
    {session[s].changes[f] : f \in {"cover"} \cap DOMAIN session[s].changes} \cap (Objects \ {event.cover})

Commit(s) ==
    /\ At(s, "ready")
    /\ event' = Written(session[s].changes, event)
    /\ Goes(s, IF session[s].previous = {} THEN Idle ELSE [pc |-> "drop", previous |-> session[s].previous])
    /\ doubtful' = doubtful \cup (Shows(s) \ session[s].own)
    /\ UNCHANGED <<object, member, staff>>

DropPrevious(s) ==
    /\ At(s, "drop")
    /\ Deletes(session[s].previous) /\ Goes(s, Idle)
    /\ UNCHANGED <<event, member, staff, doubtful>>

\* The commit raises: an upload deletes its own object again.  The commit may
\* have taken effect all the same, when only its answer was lost.
CommitRaises(s, tookEffect) ==
    /\ At(s, "ready")
    /\ event' = IF tookEffect THEN Written(session[s].changes, event) ELSE event
    /\ doubtful' = IF tookEffect THEN doubtful \cup Shows(s) ELSE doubtful
    /\ Deletes(session[s].own) /\ Goes(s, Idle)
    /\ UNCHANGED <<member, staff>>

\* moderate, which locks the event
Moderate(suspend) ==
    /\ event' = [event EXCEPT !.suspended = suspend] /\ event' # event
    /\ UNCHANGED <<object, member, staff, session, doubtful>>

-----------------------------------------------------------------------------
(* The staff. *)

\* A handler has read u's appointment, or that there is none.
Decides(s, u, changes) ==
    /\ At(s, "idle") /\ Available
    /\ Goes(s, [pc |-> "appointment", user |-> u, read |-> staff[u], changes |-> changes])
    /\ UNCHANGED <<event, object, member, staff, doubtful>>

Assigned(role) == [role |-> role, active |-> TRUE]

\* Mutant: the commit writes every column of the appointment.
AssignInFull(s, u, role) ==
    /\ u \in member /\ staff[u] # Assigned(role)
    /\ Decides(s, u, Assigned(role))

AssignStaff(s, u, role) ==
    /\ u \in member /\ staff[u] # Assigned(role)
    /\ Decides(s, u, IF staff[u] = Nobody THEN Assigned(role) ELSE Differing(Assigned(role), staff[u]))

RevokeStaff(s, u) ==
    /\ staff[u].active
    /\ Decides(s, u, [active |-> FALSE])

\* uq_event_staff_event_user refuses a second row
CommitAppointment(s) ==
    /\ At(s, "appointment") /\ Goes(s, Idle)
    /\ LET u == session[s].user  changes == session[s].changes IN
       IF session[s].read = Nobody
       THEN staff' = IF staff[u] = Nobody THEN [staff EXCEPT ![u] = changes] ELSE staff
       ELSE staff' = [staff EXCEPT ![u] = Written(changes, @)]
    /\ UNCHANGED <<event, object, member, doubtful>>

MembershipChanges(u) ==
    /\ member' = IF u \in member THEN member \ {u} ELSE member \cup {u}
    /\ UNCHANGED <<event, object, staff, session, doubtful>>

\* The process of a request ends; what is not committed is lost.
Dies(s) ==
    /\ ~At(s, "idle") /\ Goes(s, Idle)
    /\ UNCHANGED <<event, object, member, staff, doubtful>>

HandlesEvent(s) ==
    \/ Publish(s) \/ Unpublish(s) \/ SoftDelete(s) \/ DeleteCoverImage(s)
    \/ \E cover \in Covers : UpdateCover(s, cover)
    \/ \E k \in Objects : UploadCoverImage(s, k)
    \/ Commit(s) \/ DropPrevious(s)
    \/ \E tookEffect \in BOOLEAN : CommitRaises(s, tookEffect)

HandlesStaff(s) ==
    \/ \E u \in Candidates : RevokeStaff(s, u) \/ \E role \in StaffRoles : AssignStaff(s, u, role)
    \/ CommitAppointment(s)

Always ==
    \/ \E s \in Sessions : Dies(s)
    \/ \E suspend \in BOOLEAN : Moderate(suspend)

\* The two share the sessions, and whether the event is available.
EventNext == Always \/ \E s \in Sessions : HandlesEvent(s)

StaffNext ==
    \/ Always
    \/ \E s \in Sessions : HandlesStaff(s)
    \/ \E u \in Candidates : MembershipChanges(u)

Next == EventNext \/ StaffNext

Spec == Init /\ [][Next]_vars

-----------------------------------------------------------------------------
(* Properties. *)

TypeOK ==
    /\ event \in EventRow
    /\ object \in [Objects -> {"new", "stored", "gone"}]
    /\ member \subseteq Candidates
    /\ staff \in [Candidates -> StaffRow \cup {Nobody}]
    /\ DOMAIN session = Sessions
    /\ doubtful \subseteq Objects

\* An event shows no cover that is no longer stored: uploads, removals and
\* edits that overlap delete one another's previous objects only.  The objects
\* left out are those which an edit has brought back by their URL, after the
\* event had shown another cover: a request that had read them as the cover may
\* delete them later, or has; and those whose upload took its commit for failed
\* although it had taken effect.
CoverIsStored ==
    event.cover \in Objects \ doubtful => object[event.cover] = "stored"

\* A revoked appointment comes back only by an assignment that has read it as
\* revoked: one that was decided while it was active does not undo the
\* revocation.
RevocationStands ==
    [][\A u \in Candidates :
        staff[u] # Nobody /\ ~staff[u].active /\ staff'[u].active =>
            \E s \in Sessions : /\ At(s, "appointment") /\ session[s].user = u
                                /\ session[s].read # Nobody /\ ~session[s].read.active]_staff
=============================================================================
