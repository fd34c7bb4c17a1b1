------------------------------ MODULE TaskWork ------------------------------
(***************************************************************************)
(* One task of a community (services/task.py, task_bulk.py, and the        *)
(* attempts of task_assessment.py): it is edited, assigned one by one or in *)
(* bulk, accepted, submitted, graded, verified and paid.                   *)
(*                                                                         *)
(* Edits and assignments lock the task's row, submissions and decisions    *)
(* the assignment's; accepting and starting lock nothing.  A handler whose *)
(* route has loaded a row goes on with that copy, unless the locking query *)
(* populates it again.                                                     *)
(***************************************************************************)
EXTENDS Integers, FiniteSets

CONSTANTS
    Users,                  \* possible assignees
    Workers,                \* a bound: those of them who come and go, and work on their assignment
    Keys,                   \* idempotency keys of submissions
    Rewards,                \* rewards an organizer may set
    MaxAttempts,            \* of a quiz
    Sessions

\* assumed by the modules that instantiate this one
TaskAssumption ==
    /\ IsFiniteSet(Keys)
    /\ Workers \subseteq Users
    /\ Rewards \subseteq Nat
    /\ MaxAttempts \in Nat \ {0}

\* a quiz is graded, and its attempts are limited; other kinds are not
Kinds == {"general", "quiz"}
TaskRow == [active : BOOLEAN, kind : Kinds, reward : Rewards, verify : BOOLEAN]
AssignmentStatus ==
    {"assigned", "accepted", "in_progress", "submitted", "verified", "rejected", "overdue"}
SubmissionRow == Kinds \cup {"none"}

VARIABLES
    task,        \* the row: active, kind, reward, verification_required
    members,     \* active members of the community
    assignment,  \* status of each user's assignment, "none" without one
    submission,  \* per user and key the kind it was graded as, or "none"
    paid,        \* the points posted with the key task:<assignment>:verified, {} without
    session,
    owed,        \* history: the points due for the verification that stands, {} for none
    reopened     \* users whose submitted work was accepted or started over

vars == <<task, members, assignment, submission, paid, session, owed, reopened>>

Idle == [pc |-> "idle"]
At(s, pc) == session[s].pc = pc
Goes(s, step) == session' = [session EXCEPT ![s] = step]
TaskLocked == \E s \in Sessions : session[s].pc \in {"edit", "bulk"}
\* Mutant: submissions and decisions read the assignment without a lock.
NeverLocked(u) == FALSE

Locked(u) == \E s \in Sessions : session[s].pc \in {"submit", "verify"} /\ session[s].user = u
Made(u) == {k \in Keys : submission[u][k] # "none"}
\* Mutant: an assignment is made anew for a user who has one.
AssignedAgain(U) == [u \in Users |-> IF u \in U THEN "assigned" ELSE assignment[u]]

Assigned(U) == [u \in Users |-> IF u \in U /\ assignment[u] = "none" THEN "assigned" ELSE assignment[u]]

\* task_award_points: at most the task's reward, and less, down to nothing, once
\* the community's rule or the platform's ceiling is lower
Awards(reward) == IF reward = 0 THEN {{}} ELSE {{points} : points \in 0 .. reward}

\* what is posted with one key
Posted == {{}} \cup UNION {Awards(reward) : reward \in Rewards}

\* award_points, by its key; without a reward it is not called
Pays(u, award) ==
    /\ paid' = [paid EXCEPT ![u] = IF @ = {} THEN award ELSE @]
    /\ owed' = [owed EXCEPT ![u] = award]

Init ==
    /\ task \in {t \in TaskRow : t.active /\ t.kind = "quiz"}
    /\ members = Users
    /\ assignment = [u \in Users |-> "none"]
    /\ submission = [u \in Users |-> [k \in Keys |-> "none"]]
    /\ paid = [u \in Users |-> {}]
    /\ session = [s \in Sessions |-> Idle]
    /\ owed = [u \in Users |-> {}]
    /\ reopened = {}

-----------------------------------------------------------------------------
(* The task. *)

\* only what differs from the route's copy is written: an edit without a
\* difference does nothing
ReadTask(s, field, value) ==
    /\ At(s, "idle") /\ value # task[field]
    /\ Goes(s, [pc |-> "task", field |-> field, value |-> value])
    /\ UNCHANGED <<task, members, assignment, submission, paid, owed, reopened>>

\* update_task: "A task with submissions cannot change its type"
EditLock(s) ==
    /\ At(s, "task") /\ ~TaskLocked
    /\ session[s].field = "kind" => \A u \in Users : Made(u) = {}
    /\ Goes(s, [session[s] EXCEPT !.pc = "edit"])
    /\ UNCHANGED <<task, members, assignment, submission, paid, owed, reopened>>

EditCommit(s) ==
    /\ At(s, "edit")
    /\ task' = [task EXCEPT ![session[s].field] = session[s].value]
    /\ Goes(s, Idle)
    /\ UNCHANGED <<members, assignment, submission, paid, owed, reopened>>

ReadForAssign(s, u) ==
    /\ At(s, "idle")
    /\ Goes(s, [pc |-> "assign", user |-> u, active |-> task.active])
    /\ UNCHANGED <<task, members, assignment, submission, paid, owed, reopened>>

\* assign_task: the task is locked, but is the route's copy
Assign(s) ==
    /\ At(s, "assign") /\ ~TaskLocked
    /\ session[s].active /\ session[s].user \in members
    /\ assignment' = Assigned({session[s].user})
    /\ Goes(s, Idle)
    /\ UNCHANGED <<task, members, submission, paid, owed, reopened>>

\* resolve: the organizer sees the members, and confirms all of them or some
Preview(s, chosen) ==
    /\ At(s, "idle") /\ task.active /\ chosen \subseteq members /\ chosen # {}
    /\ Goes(s, [pc |-> "preview", chosen |-> chosen, all |-> chosen = members])
    /\ UNCHANGED <<task, members, assignment, submission, paid, owed, reopened>>

\* assign_bulk reads the locked task anew and resolves the selection again
Current(s) ==
    IF session[s].all THEN session[s].chosen = members ELSE session[s].chosen \subseteq members

BulkLock(s) ==
    /\ At(s, "preview") /\ ~TaskLocked
    /\ task.active /\ Current(s)
    /\ Goes(s, [pc |-> "bulk", chosen |-> session[s].chosen])
    /\ UNCHANGED <<task, members, assignment, submission, paid, owed, reopened>>

BulkCommit(s) ==
    /\ At(s, "bulk")
    /\ assignment' = Assigned(session[s].chosen)
    /\ Goes(s, Idle)
    /\ UNCHANGED <<task, members, submission, paid, owed, reopened>>

-----------------------------------------------------------------------------
(* The assignment. *)

NextStep(status) == IF status = "assigned" THEN "accepted" ELSE "in_progress"

\* transition_assignment, for accept and start: no lock
ReadTransition(s, u) ==
    /\ At(s, "idle") /\ u \in members /\ assignment[u] \in {"assigned", "accepted"}
    /\ Goes(s, [pc |-> "transition", user |-> u, seen |-> assignment[u]])
    /\ UNCHANGED <<task, members, assignment, submission, paid, owed, reopened>>

CommitTransition(s) ==
    LET u == session[s].user IN
    /\ At(s, "transition") /\ ~Locked(u)
    /\ assignment' = [assignment EXCEPT ![u] = NextStep(session[s].seen)]
    /\ reopened' = IF Made(u) = {} THEN reopened ELSE reopened \cup {u}
    /\ Goes(s, Idle)
    /\ owed' = [owed EXCEPT ![u] = {}]
    /\ UNCHANGED <<task, members, submission, paid>>

\* Mutant: verified work may be submitted again.
MayAlwaysSubmit(u, k) == u \in members /\ submission[u][k] = "none" /\ assignment[u] # "none"

\* submit_task, to its refusals; a request repeated by its key changes nothing,
\* and due_at, which an edit may move, has passed or not
MaySubmit(u, k) ==
    /\ u \in members /\ submission[u][k] = "none"
    /\ assignment[u] \in {"assigned", "accepted", "in_progress", "rejected"}

\* grade, to the attempts it allows
HasAttempt(u) == task.kind = "quiz" => Cardinality(Made(u)) + 1 <= MaxAttempts

SubmitLock(s, u, k, late) ==
    /\ At(s, "idle") /\ ~Locked(u) /\ MaySubmit(u, k)
    /\ IF late
       THEN /\ assignment' = [assignment EXCEPT ![u] = "overdue"]
            /\ UNCHANGED session
       ELSE /\ HasAttempt(u)
            /\ Goes(s, [pc |-> "submit", user |-> u, key |-> k, kind |-> task.kind,
                         verify |-> task.verify, reward |-> task.reward])
            /\ UNCHANGED assignment
    /\ UNCHANGED <<task, members, submission, paid, owed, reopened>>

\* a quiz may be failed
Outcomes(kind) == IF kind = "quiz" THEN BOOLEAN ELSE {TRUE}

\* without verification a pass is paid at once
SubmitCommit(s, passed, award) ==
    LET u == session[s].user  read == session[s] IN
    /\ At(s, "submit") /\ passed \in Outcomes(read.kind) /\ award \in Awards(read.reward)
    /\ submission' = [submission EXCEPT ![u][session[s].key] = read.kind]
    /\ IF passed /\ ~read.verify
       THEN /\ assignment' = [assignment EXCEPT ![u] = "verified"]
            /\ Pays(u, award)
       ELSE /\ assignment' = [assignment EXCEPT ![u] = IF passed THEN "submitted" ELSE "rejected"]
            /\ UNCHANGED <<paid, owed>>
    /\ Goes(s, Idle)
    /\ UNCHANGED <<task, members, reopened>>

\* verify_task; a decision made again changes nothing
VerifyLock(s, u, approve) ==
    /\ At(s, "idle") /\ ~Locked(u) /\ assignment[u] = "submitted"
    /\ Goes(s, [pc |-> "verify", user |-> u, approve |-> approve, reward |-> task.reward])
    /\ UNCHANGED <<task, members, assignment, submission, paid, owed, reopened>>

VerifyCommit(s, award) ==
    LET u == session[s].user IN
    /\ At(s, "verify") /\ award \in Awards(session[s].reward)
    /\ assignment' = [assignment EXCEPT ![u] = IF session[s].approve THEN "verified" ELSE "rejected"]
    /\ IF session[s].approve THEN Pays(u, award) ELSE UNCHANGED <<paid, owed>>
    /\ Goes(s, Idle)
    /\ UNCHANGED <<task, members, submission, reopened>>

-----------------------------------------------------------------------------

\* a refusal, a failed commit, or the process dies
Abort(s) ==
    /\ session[s] # Idle
    /\ Goes(s, Idle)
    /\ UNCHANGED <<task, members, assignment, submission, paid, owed, reopened>>

\* memberships end and are taken up again (Governance)
MembershipChanges(u) ==
    /\ members' = IF u \in members THEN members \ {u} ELSE members \cup {u}
    /\ UNCHANGED <<task, assignment, submission, paid, session, owed, reopened>>

Edits == ({"active"} \X BOOLEAN) \cup ({"kind"} \X Kinds) \cup ({"reward"} \X Rewards) \cup ({"verify"} \X BOOLEAN)

Next ==
    \/ \E s \in Sessions :
         \/ \E edit \in Edits : ReadTask(s, edit[1], edit[2])
         \/ EditLock(s) \/ EditCommit(s)
         \/ \E u \in Users : ReadForAssign(s, u)
         \/ \E u \in Workers : ReadTransition(s, u)
         \/ Assign(s) \/ CommitTransition(s)
         \/ \E chosen \in SUBSET Users : Preview(s, chosen)
         \/ BulkLock(s) \/ BulkCommit(s)
         \/ \E u \in Workers, k \in Keys, late \in BOOLEAN : SubmitLock(s, u, k, late)
         \/ \E passed \in BOOLEAN, award \in Posted : SubmitCommit(s, passed, award)
         \/ \E u \in Workers, approve \in BOOLEAN : VerifyLock(s, u, approve)
         \/ \E award \in Posted : VerifyCommit(s, award)
         \/ Abort(s)
    \/ \E u \in Workers : MembershipChanges(u)

Spec == Init /\ [][Next]_vars

-----------------------------------------------------------------------------
(* Properties. *)

\* The rows keep their types, and nothing happens to an assignment before there
\* is one.
TypeOK ==
    /\ task \in TaskRow
    /\ members \subseteq Users
    /\ assignment \in [Users -> AssignmentStatus \cup {"none"}]
    /\ submission \in [Users -> [Keys -> SubmissionRow]]
    /\ paid \in [Users -> Posted]
    /\ \A u \in Users : assignment[u] \in {"none", "assigned"} => Made(u) = {}

\* Verified work has been paid what was due when it was verified: nothing for a
\* task without a reward, and else one transaction, which after a reopening may be
\* an earlier verification's.  Work that is paid was submitted and stays verified,
\* unless an accept or a start that read the assignment before the submission was
\* committed over it.
PaidIsVerified ==
    \A u \in Users :
        /\ assignment[u] = "verified" => paid[u] = owed[u] \/ (u \in reopened /\ paid[u] # {})
        /\ paid[u] # {} => Made(u) # {} /\ (assignment[u] = "verified" \/ u \in reopened)

\* A quiz is not graded more often than it allows: concurrent submissions count
\* each other.
AttemptsAreLimited ==
    \A u \in Users : Cardinality({k \in Keys : submission[u][k] = "quiz"}) <= MaxAttempts

=============================================================================
