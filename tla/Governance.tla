----------------------------- MODULE Governance -----------------------------
(***************************************************************************)
(* One community, the memberships of its users, and the moderation of both  *)
(* (services/governance.py and the routes of api/governance.py and          *)
(* api/community_management.py).                                           *)
(*                                                                         *)
(* Whoever changes a membership or the community's status locks the         *)
(* community's row first; the suspension of a user locks the user's row,    *)
(* and then that of each community it found the user to administer.  A      *)
(* change of a membership also waits for the user's row: its audit and      *)
(* notification reference it.                                              *)
(***************************************************************************)
EXTENDS Naturals, FiniteSets

CONSTANTS
    Users,          \* the accounts other than the Super Admins'
    Applicant,      \* the one who applied for the community
    Sessions        \* requests served at once

\* assumed by the modules that instantiate this one
GovernanceAssumption == IsFiniteSet(Users) /\ Applicant \in Users

Roles == {"member", "organizer", "admin"}
MembershipRow == [role : Roles, status : {"none", "invited", "pending", "declined",
                                          "active", "suspended", "left"}]
LifecycleStatus == {"draft", "pending_review", "active", "rejected", "suspended"}
Access == {"open", "approval_required", "invite_only"}
UserRow == [active : BOOLEAN, verified : BOOLEAN]
None == [role |-> "member", status |-> "none"]

VARIABLES
    community,      \* lifecycle_status: is_active says that it is "active"
    access,         \* membership_access
    membership,     \* role and status of each user's membership
    user,           \* of each account: is_active, and whether the email is verified
    session,
    overtaken       \* a suspension overtook a handler that had read the user as active

vars == <<community, access, membership, user, session, overtaken>>

Idle == [pc |-> "idle"]
At(s, pc) == session[s].pc = pc
Goes(s, step) == session' = [session EXCEPT ![s] = step]

CommunityLocked == \E s \in Sessions : session[s].pc \in {"change", "checked"}
UserLocked(u) == \E s \in Sessions : session[s].pc \in {"suspend", "checked", "apart"} /\ session[s].user = u

Is(u, role, status) == membership[u] = [role |-> role, status |-> status]
Admins == {u \in Users : Is(u, "admin", "active")}
\* require_verified_admin_candidate, active_verified_admin_count
Candidate(u) == user[u].active /\ user[u].verified
VerifiedAdmins == {u \in Admins : Candidate(u)}
\* Mutant: administrators are counted without a look at their accounts.
IrreplaceableByCount(u) == Cardinality(Admins) <= 1

\* without these, the community would be left without an administrator
Irreplaceable(u) ==
    \/ Cardinality(Admins) <= 1
    \/ Candidate(u) /\ Cardinality(VerifiedAdmins) <= 1

Init ==
    /\ community \in {"draft", "pending_review"}
    /\ access \in Access
    /\ membership = [u \in Users |-> IF u = Applicant THEN [role |-> "admin", status |-> "pending"] ELSE None]
    /\ user \in [Users -> {row \in UserRow : row.active}]
    /\ user[Applicant].verified
    /\ session = [s \in Sessions |-> Idle]
    /\ overtaken = FALSE

-----------------------------------------------------------------------------
(* The account's own steps, each under the community's lock alone. *)

Joins(u) ==
    /\ community = "active" /\ access # "invite_only"
    /\ membership[u].status \in {"none", "left", "declined"}
    /\ membership' = [membership EXCEPT ![u] =
            [role |-> "member", status |-> IF access = "open" THEN "active" ELSE "pending"]]

Answers(u, from, to) ==
    /\ from = "invited" /\ to = "active" => community = "active"
    /\ membership[u].status = from
    /\ to = "left" /\ from = "active" => membership[u].role # "admin"
    /\ membership' = [membership EXCEPT ![u].status = to]

Participant(u) ==
    /\ user[u].active /\ ~CommunityLocked /\ ~UserLocked(u)
    /\ \/ Joins(u)
       \/ Answers(u, "invited", "active") \/ Answers(u, "invited", "declined")
       \/ Answers(u, "pending", "left") \/ Answers(u, "active", "left")
    /\ UNCHANGED <<community, access, user, session, overtaken>>


Invite(u, role, bySuper) ==
    /\ community = "active" /\ user[u].active /\ ~CommunityLocked /\ ~UserLocked(u)
    /\ bySuper \/ /\ Admins \ {u} # {}
                  /\ "admin" \notin {role, membership[u].role}
    /\ membership[u].status \in {"none", "left", "declined"}
    /\ membership' = [membership EXCEPT ![u] = [role |-> role, status |-> "invited"]]
    /\ UNCHANGED <<community, access, user, session, overtaken>>

Submit ==
    /\ community = "draft" /\ user[Applicant].active /\ ~CommunityLocked
    /\ community' = "pending_review"
    /\ UNCHANGED <<access, membership, user, session, overtaken>>

\* update_community locks nothing
UpdateAccess(to) ==
    /\ community = "active" /\ access' = to
    /\ UNCHANGED <<community, membership, user, session, overtaken>>

-----------------------------------------------------------------------------
(* What managers and Super Admins change: read under the community's lock,  *)
(* accounts included, and committed later.                                 *)

\* The change a session is about to commit; "candidate" are those it has read
\* as accounts that may administer.
Locks(s, changed, status, candidates) ==
    /\ At(s, "idle") /\ ~CommunityLocked
    /\ Goes(s, [pc |-> "change", membership |-> changed, status |-> status, candidates |-> candidates])
    /\ UNCHANGED <<community, access, membership, user, overtaken>>

\* manage_membership
Manages(s, u, to, removesAdmin, makesAdmin, bySuper) ==
    /\ bySuper \/ /\ community = "active" /\ Admins \ {u} # {}
                  /\ "admin" \notin {membership[u].role, to.role}
    /\ removesAdmin => ~Irreplaceable(u)
    /\ makesAdmin => Candidate(u)
    /\ Locks(s, [membership EXCEPT ![u] = to], community, IF makesAdmin THEN {u} ELSE {})

ChangeRole(s, u, role, bySuper) ==
    LET old == membership[u] IN
    /\ old.status \in {"active", "suspended"} /\ old.role # role
    /\ Manages(s, u, [old EXCEPT !.role = role], u \in Admins, role = "admin", bySuper)

\* approve and reject a request, suspend and reinstate a member
ChangeStatus(s, u, bySuper) ==
    LET old == membership[u] IN
    \/ /\ old.status = "pending"
       /\ \/ Manages(s, u, [role |-> "member", status |-> "active"], FALSE, FALSE, bySuper)
          \/ Manages(s, u, [old EXCEPT !.status = "declined"], FALSE, FALSE, bySuper)
    \/ /\ old.status = "active"
       /\ Manages(s, u, [old EXCEPT !.status = "suspended"], u \in Admins, FALSE, bySuper)
    \/ /\ old.status = "suspended"
       /\ Manages(s, u, [old EXCEPT !.status = "active"], FALSE, old.role = "admin", bySuper)

AssignAdmin(s, u) ==
    /\ community \in {"active", "suspended"}
    /\ Candidate(u) /\ u \notin Admins
    /\ Locks(s, [membership EXCEPT ![u] = [role |-> "admin", status |-> "active"]], community, {u})

\* review_community_application: an applicant who does not administer organizes
Approve(s, u) ==
    /\ community = "pending_review" /\ Candidate(u)
    /\ Locks(s, [membership EXCEPT ![Applicant] = [role |-> "organizer", status |-> "active"],
                                   ![u] = [role |-> "admin", status |-> "active"]],
             "active", {u})

Reject(s) ==
    /\ community = "pending_review"
    /\ Locks(s, [membership EXCEPT ![Applicant].status = "declined"], "rejected", {})

\* moderate, of a community
ModerateCommunity(s, suspend) ==
    /\ community \in IF suspend THEN {"active"} ELSE {"suspended"}
    /\ ~suspend => VerifiedAdmins # {}
    /\ Locks(s, membership, IF suspend THEN "suspended" ELSE "active", {})

Changed(s) == {u \in Users : session[s].membership[u] # membership[u]}

CommitChange(s) ==
    /\ At(s, "change") /\ \A u \in Changed(s) : ~UserLocked(u)
    /\ membership' = session[s].membership
    /\ community' = session[s].status
    /\ Goes(s, Idle)
    /\ UNCHANGED <<access, user, overtaken>>

-----------------------------------------------------------------------------
(* moderate, of a user *)

SuspendUser(s, u) ==
    /\ At(s, "idle") /\ ~UserLocked(u) /\ user[u].active
    /\ Goes(s, [pc |-> IF u \in Admins THEN "suspend" ELSE "apart", user |-> u])
    /\ UNCHANGED <<community, access, membership, user, overtaken>>

\* the community of which the user was found to be an administrator
MayLose(u) == community = "active" => ~Irreplaceable(u)

CheckCommunity(s) ==
    /\ At(s, "suspend") /\ ~CommunityLocked /\ MayLose(session[s].user)
    /\ Goes(s, [session[s] EXCEPT !.pc = "checked"])
    /\ UNCHANGED <<community, access, membership, user, overtaken>>

BecomingAdmins == UNION {session[t].candidates : t \in {t \in Sessions : At(t, "change")}}

\* a user who became an administrator since, or is becoming one, is not checked
CommitSuspension(s) ==
    LET u == session[s].user IN
    /\ session[s].pc \in {"checked", "apart"}
    /\ user' = [user EXCEPT ![u].active = FALSE]
    /\ overtaken' = (overtaken \/ (At(s, "apart") /\ u \in Admins \cup BecomingAdmins))
    /\ Goes(s, Idle)
    /\ UNCHANGED <<community, access, membership>>

RestoreUser(u) ==
    /\ ~user[u].active /\ ~UserLocked(u)
    /\ user' = [user EXCEPT ![u].active = TRUE]
    /\ UNCHANGED <<community, access, membership, session, overtaken>>

\* by a link or by Google (Accounts)
VerifyEmail(u) ==
    /\ ~user[u].verified /\ user' = [user EXCEPT ![u].verified = TRUE]
    /\ UNCHANGED <<community, access, membership, session, overtaken>>

\* a refusal, a deadlock that the database breaks, or the process dies
Abort(s) ==
    /\ session[s] # Idle /\ Goes(s, Idle)
    /\ UNCHANGED <<community, access, membership, user, overtaken>>

\* What managers and Super Admins do in several steps.
Manage(s) ==
    \/ \E u \in Users, role \in Roles, bySuper \in BOOLEAN : ChangeRole(s, u, role, bySuper)
    \/ \E u \in Users, bySuper \in BOOLEAN : ChangeStatus(s, u, bySuper)
    \/ \E u \in Users : AssignAdmin(s, u) \/ Approve(s, u) \/ SuspendUser(s, u)
    \/ Reject(s) \/ CommitChange(s) \/ CheckCommunity(s) \/ CommitSuspension(s) \/ Abort(s)
    \/ \E suspend \in BOOLEAN : ModerateCommunity(s, suspend)

Next ==
    \/ \E u \in Users : Participant(u) \/ RestoreUser(u) \/ VerifyEmail(u)
    \/ \E u \in Users, role \in Roles, bySuper \in BOOLEAN : Invite(u, role, bySuper)
    \/ Submit
    \/ \E to \in Access : UpdateAccess(to)
    \/ \E s \in Sessions : Manage(s)

Spec == Init /\ [][Next]_vars

-----------------------------------------------------------------------------
(* Properties. *)

\* The rows keep their types, and a draft has no member but its applicant.
TypeOK ==
    /\ community \in LifecycleStatus
    /\ membership \in [Users -> MembershipRow]
    /\ user \in [Users -> UserRow]
    /\ community = "draft" => \A u \in Users \ {Applicant} : membership[u] = None

\* An active community has an administrator with an active account and a
\* verified email: removals, suspensions of users and restored communities that
\* overlap do not take the last one together.  The exception is a user whose
\* account is suspended while a handler that read it as active, or a promotion
\* the suspension did not see, is making the user an administrator.
ActiveCommunityIsRun == community = "active" /\ ~overtaken => VerifiedAdmins # {}

\* "Community administrators must have a verified email" (governance.py:71).
AdministratorsAreVerified == \A u \in Admins : user[u].verified
=============================================================================
