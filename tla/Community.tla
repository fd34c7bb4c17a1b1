------------------------------ MODULE Community ------------------------------
(***************************************************************************)
(* The people of a community: their accounts (Accounts), who administers    *)
(* and moderates them (Governance), and the tasks they work on (TaskWork).  *)
(*                                                                         *)
(* Accounts and Governance both have an account's is_active, and each has   *)
(* every step that changes it; TaskWork lets members come and go as they    *)
(* like.  So nothing is lost where only one of them moves in a behaviour:   *)
(* "part" says which, and the others stay in an initial state.              *)
(***************************************************************************)
EXTENDS Accounts

CONSTANTS
    Users, Applicant, Workers, Keys, Rewards, MaxAttempts

VARIABLES
    part,
    community, access, membership, account, moderator, overtaken,
    task, members, assignment, submission, paid, organizer, owed, reopened

governanceVars == <<community, access, membership, account, moderator, overtaken>>
taskVars == <<task, members, assignment, submission, paid, organizer, owed, reopened>>

People == INSTANCE Governance WITH
    Sessions <- Handlers, user <- account, session <- moderator

Tasks == INSTANCE TaskWork WITH
    Sessions <- Handlers, session <- organizer

ASSUME PeopleAssumption == People!GovernanceAssumption
ASSUME TasksAssumption == Tasks!TaskAssumption

Absent == "absent"

CommunityInit ==
    /\ part \in {"accounts", "people", "tasks"}
    /\ Init /\ Tasks!Init
    /\ IF part = "people" THEN People!Init
       ELSE /\ community = Absent /\ access = Absent /\ membership = Absent
            /\ account = Absent /\ moderator = Absent /\ overtaken = Absent
    /\ part # "tasks" => task.verify

CommunityNext ==
    /\ \/ part = "accounts" /\ Next /\ UNCHANGED <<governanceVars, taskVars>>
       \/ part = "people" /\ People!Next /\ UNCHANGED <<vars, taskVars>>
       \/ part = "tasks" /\ Tasks!Next /\ UNCHANGED <<vars, governanceVars>>
    /\ UNCHANGED part

CommunitySpec == CommunityInit /\ [][CommunityNext]_<<part, vars, governanceVars, taskVars>>

-----------------------------------------------------------------------------
(* The properties of the parts; those of Accounts go by their names. *)

\* The rows of all three keep their types.
CommunityTypeOK ==
    CASE part = "accounts" -> TypeOK
      [] part = "people" -> People!TypeOK
      [] part = "tasks" -> Tasks!TypeOK

\* Governance: an active community has an administrator.
ActiveCommunityIsRun == part = "people" => People!ActiveCommunityIsRun

\* TaskWork: what is verified is paid its reward, and attempts are limited.
PaidIsVerified == part = "tasks" => Tasks!PaidIsVerified
AttemptsAreLimited == part = "tasks" => Tasks!AttemptsAreLimited
=============================================================================
