--------------------------- MODULE CommunityProofs ---------------------------
(***************************************************************************)
(* Proofs about Community, for every number of accounts, sessions, links,  *)
(* members, submissions and handlers.                                      *)
(*                                                                         *)
(* Each part has its inductive invariant: what a handler has read under a   *)
(* lock still holds at its commit, and what it has read without one is      *)
(* either claimed again (Accounts), of no more use (Governance, unless a     *)
(* suspension overtakes it), or counted as an overrun (TaskWork).           *)
(***************************************************************************)
EXTENDS Community, FiniteSetTheorems, TLAPS

-----------------------------------------------------------------------------
(* Accounts. *)

LockHolding == {"issue", "rotate", "reset", "send", "suspend"}
HasFlow == {"exchange", "resolve", "issue"}

AccountTypes ==
    /\ user \in [active : BOOLEAN, password : 0 .. MaxResets, google : BOOLEAN]
    /\ token \in [Tokens -> [state : TokenState, password : Nat, replaced : {0, 1}, flow : Flows \cup {NoFlow}]]
    /\ link \in [Links -> [state : LinkState, password : Nat]]
    /\ flow \in [Flows -> [state : FlowState, failures : 0 .. MaxLinkFailures]]
    /\ handler = [h \in Handlers |-> handler[h]]

\* What a handler relies on at the step it is at.
HandlerKnows(h) ==
    /\ At(h, "issue") => /\ user.active /\ handler[h].password = user.password
                         /\ handler[h].flow \in Flows \cup {NoFlow}
    /\ handler[h].pc \in {"refresh", "rotate"} => handler[h].token \in Tokens /\ token[handler[h].token].state # "none"
    /\ At(h, "rotate") => user.active
    /\ handler[h].pc \in {"confirm", "reset"} =>
          /\ handler[h].link \in Links
          /\ link[handler[h].link].state # "none"
          /\ link[handler[h].link].state = "sent" => user.password < MaxResets
    /\ handler[h].pc \in {"exchange", "resolve"} => handler[h].flow \in Flows
    /\ At(h, "exchange") => flow[handler[h].flow].state = "called"
    /\ At(h, "resolve") => flow[handler[h].flow].failures < MaxLinkFailures

\* One handler holds the user's row, one exchanges a flow's code, and one
\* holds a flow's row.
HandlersExclude(h, k) ==
    /\ handler[h].pc \in LockHolding /\ handler[k].pc \in LockHolding => h = k
    /\ At(h, "exchange") /\ At(k, "exchange") /\ handler[h].flow = handler[k].flow => h = k
    /\ handler[h].pc \in {"resolve", "issue"} /\ handler[k].pc \in {"resolve", "issue"}
          /\ handler[h].flow = handler[k].flow => h = k

\* A live session was never replaced; one with a flow is the one it opened.
SessionsFollow ==
    /\ \A t \in Tokens : token[t].state # "revoked" => token[t].replaced = 0
    /\ \A t \in Tokens : token[t].flow # NoFlow => flow[token[t].flow].state = "consumed"
    /\ \A t, o \in Tokens :
          token[t].state = "live" /\ token[o].state = "live" /\ token[t].flow = token[o].flow
              => token[t].flow = NoFlow \/ t = o

AccountsInv ==
    /\ AccountTypes
    /\ \A h \in Handlers : HandlerKnows(h)
    /\ \A h, k \in Handlers : HandlersExclude(h, k)
    /\ SessionsFollow
    /\ ResetEndsTheOldPassword
    /\ SuspendedIsSignedOut

-----------------------------------------------------------------------------
(* Governance. *)

Holds == {"change", "checked"}
HoldsUser == {"suspend", "checked", "apart"}
Administers(row) == row = [role |-> "admin", status |-> "active"]

\* What is about to be committed leaves an active community a verified
\* administrator, and makes nobody an administrator but the candidates.
ChangeKeepsAdmin(s) ==
    People!At(s, "change") =>
        /\ moderator[s].membership \in [Users -> People!MembershipRow]
        /\ moderator[s].status \in People!LifecycleStatus
        /\ moderator[s].candidates \subseteq Users
        /\ \A u \in Users : Administers(moderator[s].membership[u]) => u \in People!Admins \cup moderator[s].candidates
        /\ ~overtaken /\ moderator[s].status = "active" =>
              \E u \in Users : Administers(moderator[s].membership[u]) /\ People!Candidate(u)
        /\ moderator[s].status = "draft" => \A u \in Users \ {Applicant} : moderator[s].membership[u] = People!None

\* A suspension that was checked takes nobody the community cannot do without.
CheckedIsReplaceable(s) ==
    /\ moderator[s].pc \in HoldsUser => moderator[s].user \in Users
    /\ People!At(s, "checked") /\ community = "active" /\ ~overtaken =>
          \E u \in People!VerifiedAdmins : u # moderator[s].user

ModeratorsExclude(s, r) ==
    /\ moderator[s].pc \in Holds /\ moderator[r].pc \in Holds => s = r
    /\ moderator[s].pc \in HoldsUser /\ moderator[r].pc \in HoldsUser /\ moderator[s].user = moderator[r].user => s = r

PeopleInv ==
    /\ People!TypeOK
    /\ moderator = [s \in Handlers |-> moderator[s]] /\ overtaken \in BOOLEAN
    /\ \A s \in Handlers : ChangeKeepsAdmin(s) /\ CheckedIsReplaceable(s)
    /\ \A s, r \in Handlers : ModeratorsExclude(s, r)
    /\ People!ActiveCommunityIsRun

-----------------------------------------------------------------------------
(* TaskWork. *)

\* What a request relies on, and what its assignment's row is while it holds it.
RequestKnows(s) ==
    /\ organizer[s].pc \in {"task", "edit"} => <<organizer[s].field, organizer[s].value>> \in Tasks!Edits
    /\ Tasks!At(s, "transition") => organizer[s].user \in Users /\ organizer[s].seen \in {"assigned", "accepted"}
    /\ organizer[s].pc \in {"submit", "verify"} => organizer[s].user \in Users /\ organizer[s].reward \in Rewards
    /\ Tasks!At(s, "submit") =>
          /\ organizer[s].key \in Keys /\ organizer[s].kind \in Tasks!Kinds
          /\ submission[organizer[s].user][organizer[s].key] = "none"
          /\ assignment[organizer[s].user] \in {"assigned", "accepted", "in_progress", "rejected"}
          /\ organizer[s].kind = "quiz" => Cardinality(Tasks!Made(organizer[s].user)) + 1 <= MaxAttempts
    /\ Tasks!At(s, "verify") => assignment[organizer[s].user] = "submitted"

RequestsExclude(s, r) ==
    organizer[s].pc \in {"submit", "verify"} /\ organizer[r].pc \in {"submit", "verify"}
        /\ organizer[s].user = organizer[r].user => s = r

\* The work of one user.
WorkIsRight(u) ==
    /\ assignment[u] \in Tasks!AssignmentStatus \cup {"none"}
    /\ submission[u] \in [Keys -> Tasks!SubmissionRow]
    /\ paid[u] \in Tasks!Posted
    /\ assignment[u] \in {"none", "assigned"} => Tasks!Made(u) = {}
    /\ assignment[u] \in {"submitted", "verified"} => Tasks!Made(u) # {}
    /\ assignment[u] = "verified" => paid[u] = owed[u] \/ (u \in reopened /\ paid[u] # {})
    /\ paid[u] # {} => Tasks!Made(u) # {} /\ (assignment[u] = "verified" \/ u \in reopened)
    /\ Cardinality({k \in Keys : submission[u][k] = "quiz"}) <= MaxAttempts

WorkShape ==
    /\ task \in Tasks!TaskRow /\ members \subseteq Users
    /\ assignment = [u \in Users |-> assignment[u]]
    /\ submission = [u \in Users |-> submission[u]]
    /\ paid = [u \in Users |-> paid[u]] /\ owed = [u \in Users |-> owed[u]]
    /\ organizer = [s \in Handlers |-> organizer[s]]

TasksInv ==
    /\ WorkShape
    /\ \A u \in Users : WorkIsRight(u)
    /\ \A s \in Handlers : RequestKnows(s)
    /\ \A s, r \in Handlers : RequestsExclude(s, r)

CommunityInv ==
    /\ AccountsInv
    /\ part = "people" => PeopleInv
    /\ TasksInv

-----------------------------------------------------------------------------
(* Accounts: what handlers know, whatever one of them does. *)

LEMMA HandlersMove ==
  ASSUME AccountsInv, handler' = [k \in Handlers |-> handler'[k]],
         \A k \in Handlers : \/ handler'[k] = handler[k]
                             \/ handler'[k].pc = "idle"
                             \/ HandlerKnows(k)' /\ \A j \in Handlers \ {k} : HandlersExclude(k, j)',
         \A t \in Tokens : token[t].state # "none" => token'[t].state # "none",
         \A l \in Links : link[l].state # "none" =>
             /\ link'[l].state # "none"
             /\ link'[l].state = "sent" => link[l].state = "sent" /\ user'.password = user.password,
         \A k \in Handlers : handler'[k] = handler[k] =>
             /\ handler[k].pc \in LockHolding => user' = user
             /\ At(k, "exchange") => flow'[handler[k].flow].state = "called"
             /\ At(k, "resolve") => flow'[handler[k].flow].failures = flow[handler[k].flow].failures
  PROVE  /\ \A k \in Handlers : HandlerKnows(k)'
         /\ \A h, k \in Handlers : HandlersExclude(h, k)'
<1>1. ASSUME NEW k \in Handlers PROVE HandlerKnows(k)'
  <2>1. CASE handler'[k].pc = "idle"
    BY <2>1 DEF HandlerKnows, At
  <2>2. CASE handler'[k] = handler[k]
    <3>1. HandlerKnows(k)
      BY DEF AccountsInv
    <3> QED
      BY <2>2, <3>1 DEF HandlerKnows, At, LockHolding
  <2> QED
    BY <2>1, <2>2
<1>2. ASSUME NEW h \in Handlers, NEW k \in Handlers PROVE HandlersExclude(h, k)'
  <2>1. HandlersExclude(h, k)
    BY DEF AccountsInv
  <2>2. CASE handler'[h] = handler[h] /\ handler'[k] = handler[k]
    BY <2>1, <2>2 DEF HandlersExclude, At
  <2>3. CASE handler'[h].pc = "idle" \/ handler'[k].pc = "idle"
    BY <2>3 DEF HandlersExclude, At, LockHolding
  <2>4. CASE \E j \in {h, k} : \A i \in Handlers \ {j} : HandlersExclude(j, i)'
    BY <2>4 DEF HandlersExclude
  <2> QED
    BY <2>2, <2>3, <2>4
<1> QED
  BY <1>1, <1>2

\* A step that changes no row.
LEMMA AccountsReads ==
  ASSUME AccountsInv, NEW h \in Handlers, NEW step, Goes(h, step), UNCHANGED <<user, token, link, flow>>,
         step.pc = "idle" \/ (HandlerKnows(h)' /\ \A k \in Handlers \ {h} : HandlersExclude(h, k)')
  PROVE  AccountsInv'
<1>1. /\ handler' = [k \in Handlers |-> handler'[k]] /\ handler'[h] = step
      /\ \A k \in Handlers \ {h} : handler'[k] = handler[k]
  BY DEF AccountsInv, AccountTypes, Goes
<1>2. \A k \in Handlers : \/ handler'[k] = handler[k]
                          \/ handler'[k].pc = "idle"
                          \/ HandlerKnows(k)' /\ \A j \in Handlers \ {k} : HandlersExclude(k, j)'
  BY <1>1
<1>3. \A k \in Handlers : HandlerKnows(k)
  BY DEF AccountsInv
<1>4. (\A k \in Handlers : HandlerKnows(k)') /\ (\A j, k \in Handlers : HandlersExclude(j, k)')
  BY <1>1, <1>2, <1>3, HandlersMove DEF HandlerKnows
<1> QED
  BY <1>1, <1>4 DEF AccountsInv, AccountTypes, SessionsFollow, ResetEndsTheOldPassword, SuspendedIsSignedOut

LEMMA AccountsReadSteps ==
  ASSUME AccountsInv, NEW h \in Handlers,
         \/ Login(h) \/ LockRefresh(h) \/ RequestReset(h) \/ LockReset(h) \/ LockSuspend(h) \/ Abort(h)
         \/ \E t \in Tokens : ReadRefresh(h, t)
         \/ \E l \in Links : ReadReset(h, l)
         \/ \E f \in Flows : LockFlow(h, f)
         \/ /\ \E proof \in {"right", "wrong", "absent"} : Resolve(h, proof)
            /\ UNCHANGED flow
  PROVE  AccountsInv'
<1> USE DEF LockHolding, At
<1>1. HandlerKnows(h) /\ AccountTypes
  BY DEF AccountsInv
<1>2. ASSUME NEW step, Goes(h, step)
      PROVE  handler'[h] = step /\ \A k \in Handlers \ {h} : handler'[k] = handler[k]
  BY <1>1, <1>2 DEF AccountTypes, Goes
<1>3. CASE Login(h)
  <2> DEFINE step == [pc |-> "issue", flow |-> NoFlow, password |-> user.password]
  <2>1. Goes(h, step) /\ UNCHANGED <<user, token, link, flow>> /\ ~UserLocked /\ user.active
    BY <1>3 DEF Login
  <2>2. HandlerKnows(h)'
    BY <1>2, <2>1 DEF HandlerKnows
  <2>3. \A k \in Handlers \ {h} : HandlersExclude(h, k)'
    <3> SUFFICES ASSUME NEW k \in Handlers \ {h} PROVE HandlersExclude(h, k)'
      OBVIOUS
    <3>1. HandlerKnows(k)
      BY DEF AccountsInv
    <3> QED
      BY <1>2, <2>1, <3>1, AccountsAssumption DEF HandlersExclude, UserLocked, HandlerKnows
  <2> QED
    BY <2>1, <2>2, <2>3, AccountsReads
<1>4. ASSUME NEW step, Goes(h, step), UNCHANGED <<user, token, link, flow>>, HandlerKnows(h)',
             step.pc \in {"refresh", "confirm"} \/ (~UserLocked /\ step.pc \in {"rotate", "reset", "send", "suspend"})
      PROVE  AccountsInv'
  <2>1. \A k \in Handlers \ {h} : HandlersExclude(h, k)'
    BY <1>2, <1>4 DEF HandlersExclude, UserLocked
  <2> QED
    BY <1>4, <2>1, AccountsReads
<1>5. CASE LockRefresh(h)
  <2> DEFINE step == [handler[h] EXCEPT !.pc = "rotate"]
  <2>1. step.pc = "rotate" /\ step.token = handler[h].token
    BY <1>5 DEF LockRefresh
  <2>2. Goes(h, step)
    BY <1>5 DEF LockRefresh
  <2> HIDE DEF step
  <2>3. HandlerKnows(h)'
    BY <1>1, <1>2, <1>5, <2>1, <2>2 DEF HandlerKnows, LockRefresh
  <2> QED
    BY <1>4, <1>5, <2>1, <2>2, <2>3 DEF LockRefresh
<1>6. CASE LockReset(h)
  <2> DEFINE step == [handler[h] EXCEPT !.pc = "reset"]
  <2>1. step.pc = "reset" /\ step.link = handler[h].link
    BY <1>6 DEF LockReset
  <2>2. Goes(h, step)
    BY <1>6 DEF LockReset
  <2> HIDE DEF step
  <2>3. HandlerKnows(h)'
    BY <1>1, <1>2, <1>6, <2>1, <2>2 DEF HandlerKnows, LockReset
  <2> QED
    BY <1>4, <1>6, <2>1, <2>2, <2>3 DEF LockReset
<1>7. CASE RequestReset(h)
  <2>1. HandlerKnows(h)'
    BY <1>2, <1>7 DEF HandlerKnows, RequestReset
  <2> QED
    BY <1>4, <1>7, <2>1 DEF RequestReset
<1>8. CASE LockSuspend(h)
  <2>1. HandlerKnows(h)'
    BY <1>2, <1>8 DEF HandlerKnows, LockSuspend
  <2> QED
    BY <1>4, <1>8, <2>1 DEF LockSuspend
<1>9. CASE Abort(h)
  BY <1>9, AccountsReads DEF Abort, Idle
<1>10. ASSUME NEW t \in Tokens, ReadRefresh(h, t) PROVE AccountsInv'
  <2>1. HandlerKnows(h)'
    BY <1>2, <1>10 DEF HandlerKnows, ReadRefresh
  <2> QED
    BY <1>4, <1>10, <2>1 DEF ReadRefresh
<1>11. ASSUME NEW l \in Links, ReadReset(h, l) PROVE AccountsInv'
  <2>1. HandlerKnows(h)'
    BY <1>2, <1>11 DEF HandlerKnows, ReadReset
  <2> QED
    BY <1>4, <1>11, <2>1 DEF ReadReset
<1>12. ASSUME NEW f \in Flows, LockFlow(h, f) PROVE AccountsInv'
  <2>1. HandlerKnows(h)' /\ \A k \in Handlers \ {h} : HandlersExclude(h, k)'
    BY <1>2, <1>12 DEF HandlerKnows, HandlersExclude, LockFlow, MayComplete, FlowLocked
  <2> QED
    BY <1>12, <2>1, AccountsReads DEF LockFlow
<1>13. ASSUME NEW proof, Resolve(h, proof), UNCHANGED flow PROVE AccountsInv'
  <2>1. CASE Goes(h, Idle)
    BY <1>13, <2>1, AccountsReads DEF Resolve, Idle
  <2>2. CASE user.active /\ Goes(h, [pc |-> "issue", flow |-> handler[h].flow, password |-> user.password])
    <3>1. handler[h].flow \in Flows
      BY <1>1, <1>13 DEF HandlerKnows, Resolve
    <3>2. HandlerKnows(h)'
      BY <1>2, <1>13, <2>2, <3>1 DEF HandlerKnows, Resolve
    <3>3. \A k \in Handlers \ {h} : HandlersExclude(h, k)
      BY DEF AccountsInv
    <3>4. \A k \in Handlers \ {h} : HandlersExclude(h, k)'
      BY <1>2, <1>13, <2>2, <3>3 DEF HandlersExclude, UserLocked, Resolve
    <3> QED
      BY <1>13, <2>2, <3>2, <3>4, AccountsReads DEF Resolve
  <2> QED
    BY <1>13, <2>1, <2>2 DEF Resolve
<1> QED
  BY <1>3, <1>5, <1>6, <1>7, <1>8, <1>9, <1>10, <1>11, <1>12, <1>13

-----------------------------------------------------------------------------
(* Accounts: the steps that write rows. *)

\* What is to be shown of them beside HandlersMove.
AccountRowsStayRight ==
    /\ user \in [active : BOOLEAN, password : 0 .. MaxResets, google : BOOLEAN]
    /\ token \in [Tokens -> [state : TokenState, password : Nat, replaced : {0, 1}, flow : Flows \cup {NoFlow}]]
    /\ link \in [Links -> [state : LinkState, password : Nat]]
    /\ flow \in [Flows -> [state : FlowState, failures : 0 .. MaxLinkFailures]]
    /\ SessionsFollow /\ ResetEndsTheOldPassword /\ SuspendedIsSignedOut

LEMMA AccountsWrite ==
  ASSUME AccountsInv, AccountRowsStayRight',
         NEW h \in Handlers, Goes(h, Idle),
         \A t \in Tokens : token[t].state # "none" => token'[t].state # "none",
         \A l \in Links : link[l].state # "none" =>
             /\ link'[l].state # "none"
             /\ link'[l].state = "sent" => link[l].state = "sent" /\ user'.password = user.password,
         \A k \in Handlers \ {h} :
             /\ handler[k].pc \in LockHolding => user' = user
             /\ At(k, "exchange") => flow'[handler[k].flow].state = "called"
             /\ At(k, "resolve") => flow'[handler[k].flow].failures = flow[handler[k].flow].failures
  PROVE  AccountsInv'
<1>1. /\ handler' = [k \in Handlers |-> handler'[k]] /\ handler'[h].pc = "idle"
      /\ \A k \in Handlers \ {h} : handler'[k] = handler[k]
      /\ handler'[h] = Idle
  BY DEF AccountsInv, AccountTypes, Goes, Idle
<1>2. \A k \in Handlers : \/ handler'[k] = handler[k]
                          \/ handler'[k].pc = "idle"
                          \/ HandlerKnows(k)' /\ \A j \in Handlers \ {k} : HandlersExclude(k, j)'
  BY <1>1
<1>3. \A k \in Handlers : handler'[k] = handler[k] =>
             /\ handler[k].pc \in LockHolding => user' = user
             /\ At(k, "exchange") => flow'[handler[k].flow].state = "called"
             /\ At(k, "resolve") => flow'[handler[k].flow].failures = flow[handler[k].flow].failures
  BY <1>1 DEF At, LockHolding
<1>4. (\A k \in Handlers : HandlerKnows(k)') /\ (\A j, k \in Handlers : HandlersExclude(j, k)')
  BY ONLY AccountsInv, <1>1, <1>2, <1>3, HandlersMove,
         \A t \in Tokens : token[t].state # "none" => token'[t].state # "none",
         \A l \in Links : link[l].state # "none" =>
             /\ link'[l].state # "none"
             /\ link'[l].state = "sent" => link[l].state = "sent" /\ user'.password = user.password
<1> QED
  BY <1>1, <1>4 DEF AccountsInv, AccountTypes, AccountRowsStayRight

\* A session that is opened, and one that goes.
LEMMA TokenRows ==
  /\ \A t \in Tokens : token[t].state # "none" \/ Unused(t)
  /\ "live" \in TokenState /\ "revoked" \in TokenState
BY DEF Unused, TokenState

LEMMA AccountsIssue ==
  ASSUME AccountsInv, NEW h \in Handlers, NEW t \in Tokens, Issue(h, t)
  PROVE  AccountsInv'
<1> USE DEF LockHolding, At
<1> DEFINE f == handler[h].flow
           new == [state |-> "live", password |-> user.password, replaced |-> 0, flow |-> f]
<1>1. /\ AccountTypes /\ HandlerKnows(h) /\ handler[h].pc = "issue" /\ SessionsFollow
      /\ f \in Flows \cup {NoFlow} /\ user.active /\ user.password \in Nat /\ user.password \in 0 .. MaxResets
  BY AccountsAssumption DEF AccountsInv, Issue, HandlerKnows, AccountTypes
<1>2. /\ token' = [token EXCEPT ![t] = new] /\ token[t].state = "none"
      /\ f = NoFlow \/ flow[f].state = "granted"
      /\ user' = user \/ user' = [user EXCEPT !.google = TRUE]
      /\ (flow' = flow /\ f = NoFlow) \/ (flow' = [flow EXCEPT ![f].state = "consumed"] /\ f \in Flows)
      /\ Goes(h, Idle) /\ UNCHANGED link
  BY <1>1 DEF Issue, HandlerKnows, Issued, Unused
<1>3. new \in [state : TokenState, password : Nat, replaced : {0, 1}, flow : Flows \cup {NoFlow}]
  BY <1>1 DEF TokenState
<1>4. new.state = "live" /\ new.password = user.password /\ new.replaced = 0 /\ new.flow = f
  OBVIOUS
<1> HIDE DEF new
<1>5. /\ token' \in [Tokens -> [state : TokenState, password : Nat, replaced : {0, 1}, flow : Flows \cup {NoFlow}]]
      /\ token'[t] = new /\ \A o \in Tokens \ {t} : token'[o] = token[o]
  BY <1>1, <1>2, <1>3 DEF AccountTypes
<1>6. /\ user' \in [active : BOOLEAN, password : 0 .. MaxResets, google : BOOLEAN]
      /\ user'.active /\ user'.password = user.password
  BY <1>1, <1>2 DEF AccountTypes
<1>7. /\ flow' \in [Flows -> [state : FlowState, failures : 0 .. MaxLinkFailures]]
      /\ \A g \in Flows : /\ flow'[g].failures = flow[g].failures
                          /\ g # f => flow'[g] = flow[g]
                          /\ g = f => flow[g].state = "granted" /\ flow'[g].state = "consumed"
  <2>1. CASE flow' = flow /\ f = NoFlow
    BY <1>1, <2>1, AccountsAssumption DEF AccountTypes
  <2>2. CASE flow' = [flow EXCEPT ![f].state = "consumed"] /\ f \in Flows
    <3>1. flow[f].state = "granted"
      BY <1>2, <2>2, AccountsAssumption
    <3> HIDE DEF f
    <3> QED
      BY <1>1, <2>2, <3>1 DEF AccountTypes, FlowState
  <2> QED
    BY <1>2, <2>1, <2>2
<1>8. SessionsFollow'
  BY <1>1, <1>2, <1>4, <1>5, <1>7 DEF SessionsFollow, AccountTypes
<1>9. ResetEndsTheOldPassword' /\ SuspendedIsSignedOut'
  BY <1>2, <1>4, <1>5, <1>6 DEF AccountsInv, ResetEndsTheOldPassword, SuspendedIsSignedOut
<1>10. AccountRowsStayRight'
  BY <1>1, <1>2, <1>5, <1>6, <1>7, <1>8, <1>9 DEF AccountRowsStayRight, AccountTypes
<1>11. \A k \in Handlers \ {h} :
             /\ handler[k].pc \in LockHolding => user' = user
             /\ At(k, "exchange") => flow'[handler[k].flow].state = "called"
             /\ At(k, "resolve") => flow'[handler[k].flow].failures = flow[handler[k].flow].failures
  <2> SUFFICES ASSUME NEW k \in Handlers \ {h}
               PROVE  /\ handler[k].pc \in LockHolding => user' = user
                      /\ At(k, "exchange") => flow'[handler[k].flow].state = "called"
                      /\ At(k, "resolve") => flow'[handler[k].flow].failures = flow[handler[k].flow].failures
    OBVIOUS
  <2>1. HandlerKnows(k) /\ HandlersExclude(h, k)
    BY DEF AccountsInv
  <2> QED
    BY <1>1, <1>7, <2>1 DEF HandlerKnows, HandlersExclude
<1>12. \A o \in Tokens : token[o].state # "none" => token'[o].state # "none"
  BY <1>2, <1>5
<1> QED
  BY <1>2, <1>6, <1>10, <1>11, <1>12, AccountsWrite

LEMMA AccountsRotate ==
  ASSUME AccountsInv, NEW h \in Handlers, NEW t \in Tokens, Rotate(h, t)
  PROVE  AccountsInv'
<1> USE DEF LockHolding, At
<1> DEFINE old == handler[h].token
           gone == [token[old] EXCEPT !.state = "revoked", !.replaced = @ + 1]
           new == [state |-> "live", password |-> token[old].password, replaced |-> 0, flow |-> token[old].flow]
<1>1. /\ AccountTypes /\ HandlerKnows(h) /\ handler[h].pc = "rotate" /\ SessionsFollow
      /\ old \in Tokens /\ user.active /\ old # t
      /\ token[old].state = "live" /\ token[old].password = user.password /\ token[old].replaced = 0
      /\ token[old] \in [state : TokenState, password : Nat, replaced : {0, 1}, flow : Flows \cup {NoFlow}]
  BY DEF AccountsInv, Rotate, HandlerKnows, AccountTypes, Claims, Unused, SessionsFollow, ResetEndsTheOldPassword
<1>2. /\ token' = [[token EXCEPT ![old].state = "revoked", ![old].replaced = @ + 1] EXCEPT ![t] = new]
      /\ token[t].state = "none" /\ Goes(h, Idle) /\ UNCHANGED <<user, link, flow>>
  BY <1>1 DEF Rotate, Issued, Unused
<1>3. /\ new \in [state : TokenState, password : Nat, replaced : {0, 1}, flow : Flows \cup {NoFlow}]
      /\ gone \in [state : TokenState, password : Nat, replaced : {0, 1}, flow : Flows \cup {NoFlow}]
  <2>1. token[old].replaced + 1 = 1
    BY <1>1
  <2> QED
    BY <1>1, <2>1 DEF TokenState
<1>4. /\ new.state = "live" /\ new.password = user.password /\ new.replaced = 0 /\ new.flow = token[old].flow
      /\ gone.state = "revoked" /\ gone.flow = token[old].flow
  BY <1>1
<1>5. /\ token' \in [Tokens -> [state : TokenState, password : Nat, replaced : {0, 1}, flow : Flows \cup {NoFlow}]]
      /\ token'[t] = new /\ token'[old] = gone /\ \A o \in Tokens \ {t, old} : token'[o] = token[o]
  BY <1>1, <1>2, <1>3 DEF AccountTypes
<1> HIDE DEF new, gone, old
<1>6. SessionsFollow'
  BY <1>1, <1>2, <1>4, <1>5 DEF SessionsFollow
<1>7. ResetEndsTheOldPassword' /\ SuspendedIsSignedOut'
  BY <1>1, <1>2, <1>4, <1>5 DEF AccountsInv, ResetEndsTheOldPassword, SuspendedIsSignedOut
<1>8. AccountRowsStayRight'
  BY <1>1, <1>2, <1>5, <1>6, <1>7 DEF AccountRowsStayRight, AccountTypes
<1>9. \A o \in Tokens : token[o].state # "none" => token'[o].state # "none"
  BY <1>2, <1>4, <1>5
<1>10. \A k \in Handlers \ {h} : At(k, "exchange") => flow[handler[k].flow].state = "called"
  BY DEF AccountsInv, HandlerKnows
<1> QED
  BY <1>2, <1>8, <1>9, <1>10, AccountsWrite

\* Both a reset and a suspension revoke every session.
LEMMA AllRevoked ==
  ASSUME AccountsInv, token' = RevokeAll(token),
         \A g \in Flows : flow'[g].state = flow[g].state
  PROVE  /\ token' \in [Tokens -> [state : TokenState, password : Nat, replaced : {0, 1}, flow : Flows \cup {NoFlow}]]
         /\ \A t \in Tokens : token'[t].state # "live" /\ (token[t].state # "none" => token'[t].state # "none")
         /\ SessionsFollow'
<1>1. token \in [Tokens -> [state : TokenState, password : Nat, replaced : {0, 1}, flow : Flows \cup {NoFlow}]]
      /\ SessionsFollow
  BY DEF AccountsInv, AccountTypes
<1>2. ASSUME NEW t \in Tokens
      PROVE  /\ token'[t] \in [state : TokenState, password : Nat, replaced : {0, 1}, flow : Flows \cup {NoFlow}]
             /\ token'[t].state # "live" /\ (token[t].state # "none" => token'[t].state # "none")
             /\ token'[t].flow = token[t].flow /\ token'[t].replaced = token[t].replaced
             /\ token'[t].state # "revoked" => token'[t].state = token[t].state
  <2>1. token'[t] = IF token[t].state = "live" THEN [token[t] EXCEPT !.state = "revoked"] ELSE token[t]
    BY DEF RevokeAll
  <2> QED
    BY <1>1, <2>1 DEF TokenState
<1>3. token' = [t \in Tokens |-> token'[t]]
  BY DEF RevokeAll
<1>4. SessionsFollow'
  BY <1>1, <1>2, AccountsAssumption DEF SessionsFollow
<1> QED
  BY <1>2, <1>3, <1>4

LEMMA AccountsReset ==
  ASSUME AccountsInv, NEW h \in Handlers, Reset(h)
  PROVE  AccountsInv'
<1> USE DEF LockHolding, At
<1>1. /\ AccountTypes /\ handler[h].pc = "reset" /\ user.password < MaxResets /\ SuspendedIsSignedOut
      /\ \A k \in Handlers \ {h} : handler[k].pc \notin LockHolding
      /\ \A k \in Handlers : HandlerKnows(k)
  BY DEF AccountsInv, Reset, HandlerKnows, ClaimsLink, HandlersExclude
<1>2. /\ user' = [user EXCEPT !.password = @ + 1] /\ Goes(h, Idle) /\ flow' = flow
      /\ link' = [l \in Links |-> IF link[l].state = "sent" THEN [link[l] EXCEPT !.state = "used"] ELSE link[l]]
      /\ token' = RevokeAll(token)
  BY DEF Reset
<1>3. user' \in [active : BOOLEAN, password : 0 .. MaxResets, google : BOOLEAN]
  <2>1. user.password + 1 \in 0 .. MaxResets
    BY <1>1, AccountsAssumption DEF AccountTypes
  <2> QED
    BY <1>1, <1>2, <2>1 DEF AccountTypes
<1>4. /\ link' \in [Links -> [state : LinkState, password : Nat]]
      /\ \A l \in Links : link'[l].state # "sent" /\ (link[l].state # "none" => link'[l].state # "none")
  BY <1>1, <1>2 DEF AccountTypes, LinkState
<1>5. /\ token' \in [Tokens -> [state : TokenState, password : Nat, replaced : {0, 1}, flow : Flows \cup {NoFlow}]]
      /\ \A t \in Tokens : token'[t].state # "live" /\ (token[t].state # "none" => token'[t].state # "none")
      /\ SessionsFollow'
  BY <1>2, AllRevoked
<1>6. ResetEndsTheOldPassword' /\ SuspendedIsSignedOut'
  BY <1>4, <1>5 DEF ResetEndsTheOldPassword, SuspendedIsSignedOut
<1>7. AccountRowsStayRight'
  BY <1>1, <1>2, <1>3, <1>4, <1>5, <1>6 DEF AccountRowsStayRight, AccountTypes
<1> QED
  BY <1>1, <1>2, <1>4, <1>5, <1>7, AccountsWrite DEF HandlerKnows

LEMMA AccountsSuspend ==
  ASSUME AccountsInv, NEW h \in Handlers, Suspend(h)
  PROVE  AccountsInv'
<1> USE DEF LockHolding, At
<1>1. /\ AccountTypes /\ handler[h].pc = "suspend"
      /\ \A k \in Handlers \ {h} : handler[k].pc \notin LockHolding
      /\ \A k \in Handlers : HandlerKnows(k)
  BY DEF AccountsInv, Suspend, HandlersExclude
<1>2. /\ user' = [user EXCEPT !.active = FALSE] /\ Goes(h, Idle) /\ UNCHANGED <<link, flow>>
      /\ token' = RevokeAll(token)
  BY DEF Suspend
<1>3. /\ user' \in [active : BOOLEAN, password : 0 .. MaxResets, google : BOOLEAN]
      /\ user'.password = user.password
  BY <1>1, <1>2 DEF AccountTypes
<1>4. /\ token' \in [Tokens -> [state : TokenState, password : Nat, replaced : {0, 1}, flow : Flows \cup {NoFlow}]]
      /\ \A t \in Tokens : token'[t].state # "live" /\ (token[t].state # "none" => token'[t].state # "none")
      /\ SessionsFollow'
  BY <1>2, AllRevoked
<1>5. ResetEndsTheOldPassword' /\ SuspendedIsSignedOut'
  BY <1>2, <1>3, <1>4 DEF AccountsInv, ResetEndsTheOldPassword, SuspendedIsSignedOut
<1>6. AccountRowsStayRight'
  BY <1>1, <1>2, <1>3, <1>4, <1>5 DEF AccountRowsStayRight, AccountTypes
<1> QED
  BY <1>1, <1>2, <1>3, <1>4, <1>6, AccountsWrite DEF HandlerKnows

LEMMA AccountsSend ==
  ASSUME AccountsInv, NEW h \in Handlers, NEW l \in Links, SendLink(h, l)
  PROVE  AccountsInv'
<1> USE DEF LockHolding, At
<1> DEFINE new == [state |-> "sent", password |-> user.password]
<1>1. /\ AccountTypes /\ \A k \in Handlers : HandlerKnows(k)
      /\ link' = [link EXCEPT ![l] = new] /\ link[l].state = "none"
      /\ Goes(h, Idle) /\ UNCHANGED <<user, token, flow>>
  BY DEF AccountsInv, SendLink
<1>2. new \in [state : LinkState, password : Nat] /\ new.password = user.password
  BY <1>1, AccountsAssumption DEF AccountTypes, LinkState
<1> HIDE DEF new
<1>3. /\ link' \in [Links -> [state : LinkState, password : Nat]]
      /\ link'[l].password = user.password /\ \A o \in Links \ {l} : link'[o] = link[o]
  BY <1>1, <1>2 DEF AccountTypes
<1>4. ResetEndsTheOldPassword' /\ SuspendedIsSignedOut' /\ SessionsFollow'
  BY <1>1, <1>3 DEF AccountsInv, ResetEndsTheOldPassword, SuspendedIsSignedOut, SessionsFollow
<1>5. AccountRowsStayRight'
  BY <1>1, <1>3, <1>4 DEF AccountRowsStayRight, AccountTypes
<1> QED
  BY <1>1, <1>3, <1>5, AccountsWrite DEF HandlerKnows

\* The steps of a sign-in by Google that move its flow only.
LEMMA FlowMoves ==
  ASSUME AccountsInv, NEW f \in Flows, NEW row, flow' = [flow EXCEPT ![f] = row],
         row \in [state : FlowState, failures : 0 .. MaxLinkFailures],
         flow[f].state # "consumed", UNCHANGED <<user, token, link>>
  PROVE  /\ AccountRowsStayRight'
         /\ flow'[f] = row /\ \A g \in Flows \ {f} : flow'[g] = flow[g]
<1>1. AccountTypes /\ SessionsFollow /\ ResetEndsTheOldPassword /\ SuspendedIsSignedOut
  BY DEF AccountsInv
<1>2. /\ flow' \in [Flows -> [state : FlowState, failures : 0 .. MaxLinkFailures]]
      /\ flow'[f] = row /\ \A g \in Flows \ {f} : flow'[g] = flow[g]
  BY <1>1 DEF AccountTypes
<1>3. SessionsFollow'
  BY <1>1, <1>2 DEF SessionsFollow, AccountTypes
<1>4. ResetEndsTheOldPassword' /\ SuspendedIsSignedOut'
  BY <1>1 DEF ResetEndsTheOldPassword, SuspendedIsSignedOut
<1> QED
  BY <1>1, <1>2, <1>3, <1>4 DEF AccountRowsStayRight, AccountTypes

LEMMA AccountsFlow ==
  ASSUME AccountsInv, NEW h \in Handlers,
         \/ Grant(h)
         \/ \E f \in Flows : ClaimCallback(h, f)
         \/ \E proof \in {"right", "wrong", "absent"} : Resolve(h, proof) /\ ~UNCHANGED flow
  PROVE  AccountsInv'
<1> USE DEF LockHolding, At
<1>1. /\ AccountTypes /\ \A k \in Handlers : HandlerKnows(k)
      /\ \A k \in Handlers : HandlersExclude(h, k)
  BY DEF AccountsInv
<1>2. \A g \in Flows : flow[g] \in [state : FlowState, failures : 0 .. MaxLinkFailures]
  BY <1>1 DEF AccountTypes
<1>3. CASE Grant(h)
  <2> DEFINE f == handler[h].flow  new == [flow[f] EXCEPT !.state = "granted"]
  <2>1. f \in Flows /\ flow[f].state = "called" /\ Goes(h, Idle) /\ UNCHANGED <<user, token, link>> /\ handler[h].pc = "exchange"
    BY <1>1, <1>3 DEF Grant, HandlerKnows
  <2>2. new \in [state : FlowState, failures : 0 .. MaxLinkFailures] /\ new.failures = flow[f].failures
    BY <1>2, <2>1 DEF FlowState
  <2>3. flow' = [flow EXCEPT ![f] = new]
    BY <1>1, <1>3, <2>1 DEF Grant, AccountTypes
  <2> HIDE DEF new
  <2>4. /\ AccountRowsStayRight'
        /\ flow'[f] = new /\ \A g \in Flows \ {f} : flow'[g] = flow[g]
    BY <2>1, <2>2, <2>3, FlowMoves
  <2>5. \A k \in Handlers \ {h} :
             /\ At(k, "exchange") => flow'[handler[k].flow].state = "called"
             /\ At(k, "resolve") => flow'[handler[k].flow].failures = flow[handler[k].flow].failures
    BY <1>1, <2>1, <2>2, <2>4 DEF HandlerKnows, HandlersExclude
  <2> QED
    BY <2>1, <2>4, <2>5, AccountsWrite
<1>4. ASSUME NEW proof, Resolve(h, proof), ~UNCHANGED flow PROVE AccountsInv'
  <2> DEFINE f == handler[h].flow  new == [flow[f] EXCEPT !.failures = @ + 1]
  <2>1. f \in Flows /\ flow[f].failures < MaxLinkFailures /\ handler[h].pc = "resolve"
    BY <1>1, <1>4 DEF Resolve, HandlerKnows
  <2>2. flow' = [flow EXCEPT ![f].failures = @ + 1] /\ Goes(h, Idle) /\ UNCHANGED <<user, token, link>>
    BY <1>4 DEF Resolve
  <2>3. flow' = [flow EXCEPT ![f] = new] /\ flow' # flow
    BY <1>1, <1>4, <2>1, <2>2 DEF AccountTypes
  <2>4. new \in [state : FlowState, failures : 0 .. MaxLinkFailures] /\ new.state = flow[f].state
    BY <1>2, <2>1 DEF MaxLinkFailures
  <2> HIDE DEF new
  <2>5. flow' \in [Flows -> [state : FlowState, failures : 0 .. MaxLinkFailures]]
        /\ flow'[f] = new /\ \A g \in Flows \ {f} : flow'[g] = flow[g]
    BY <1>1, <2>1, <2>3, <2>4 DEF AccountTypes
  <2>6. SessionsFollow'
    BY <2>2, <2>4, <2>5, AccountsAssumption DEF SessionsFollow, AccountsInv, AccountTypes
  <2>7. AccountRowsStayRight'
    BY <1>1, <2>2, <2>5, <2>6 DEF AccountRowsStayRight, AccountsInv, AccountTypes, ResetEndsTheOldPassword, SuspendedIsSignedOut
  <2>8. \A k \in Handlers \ {h} :
             /\ At(k, "exchange") => flow'[handler[k].flow].state = "called"
             /\ At(k, "resolve") => flow'[handler[k].flow].failures = flow[handler[k].flow].failures
    BY <1>1, <2>1, <2>4, <2>5 DEF HandlerKnows, HandlersExclude
  <2> QED
    BY <2>2, <2>7, <2>8, AccountsWrite
<1>5. ASSUME NEW f \in Flows, ClaimCallback(h, f) PROVE AccountsInv'
  <2> DEFINE new == [flow[f] EXCEPT !.state = "called"]  step == [pc |-> "exchange", flow |-> f]
  <2>1. Goes(h, step) /\ UNCHANGED <<user, token, link>> /\ flow[f].state = "started"
        /\ flow' = [flow EXCEPT ![f] = new]
    BY <1>1, <1>5 DEF ClaimCallback, AccountTypes
  <2>2. new \in [state : FlowState, failures : 0 .. MaxLinkFailures] /\ new.state = "called" /\ new.failures = flow[f].failures
    BY <1>2 DEF FlowState
  <2> HIDE DEF new
  <2>3. /\ AccountRowsStayRight'
        /\ flow'[f] = new /\ \A g \in Flows \ {f} : flow'[g] = flow[g]
    BY <2>1, <2>2, FlowMoves
  <2>4. /\ handler' = [k \in Handlers |-> handler'[k]] /\ handler'[h] = step
        /\ \A k \in Handlers \ {h} : handler'[k] = handler[k]
    BY <1>1, <2>1 DEF AccountTypes, Goes
  <2>5. HandlerKnows(h)'
    BY <2>2, <2>3, <2>4 DEF HandlerKnows
  <2>6. \A k \in Handlers \ {h} : HandlersExclude(h, k)'
    BY <1>1, <2>1, <2>4 DEF HandlersExclude, HandlerKnows
  <2>7. \A k \in Handlers : \/ handler'[k] = handler[k]
                            \/ handler'[k].pc = "idle"
                            \/ HandlerKnows(k)' /\ \A j \in Handlers \ {k} : HandlersExclude(k, j)'
    BY <2>4, <2>5, <2>6
  <2>8. \A k \in Handlers : handler'[k] = handler[k] =>
             /\ handler[k].pc \in LockHolding => user' = user
             /\ At(k, "exchange") => flow'[handler[k].flow].state = "called"
             /\ At(k, "resolve") => flow'[handler[k].flow].failures = flow[handler[k].flow].failures
    BY <1>1, <2>1, <2>2, <2>3 DEF HandlerKnows
  <2>9. (\A k \in Handlers : HandlerKnows(k)') /\ (\A j, k \in Handlers : HandlersExclude(j, k)')
    BY <2>1, <2>4, <2>7, <2>8, HandlersMove
  <2> QED
    BY <2>3, <2>4, <2>9 DEF AccountsInv, AccountTypes, AccountRowsStayRight
<1> QED
  BY <1>3, <1>4, <1>5

LEMMA AccountsOutside ==
  ASSUME AccountsInv,
         \/ \E t \in Tokens : Logout(t)
         \/ \E f \in Flows : Begin(f)
         \/ Restore
  PROVE  AccountsInv'
<1> USE DEF LockHolding, At
<1>1. /\ AccountTypes /\ \A k \in Handlers : HandlerKnows(k)
  BY DEF AccountsInv
<1>2. handler' = handler
  BY DEF Logout, Begin, Restore
<1>3. ASSUME AccountRowsStayRight',
             \A t \in Tokens : token[t].state # "none" => token'[t].state # "none",
             link' = link, user'.password = user.password,
             \A k \in Handlers :
                 /\ handler[k].pc \in LockHolding => user' = user
                 /\ At(k, "exchange") => flow'[handler[k].flow].state = "called"
                 /\ At(k, "resolve") => flow'[handler[k].flow].failures = flow[handler[k].flow].failures
      PROVE  AccountsInv'
  <2>1. handler' = [k \in Handlers |-> handler'[k]] /\ \A k \in Handlers : handler'[k] = handler[k]
    BY <1>1, <1>2 DEF AccountTypes
  <2>2. (\A k \in Handlers : HandlerKnows(k)') /\ (\A j, k \in Handlers : HandlersExclude(j, k)')
    BY <1>3, <2>1, HandlersMove
  <2> QED
    BY <1>3, <2>1, <2>2 DEF AccountsInv, AccountTypes, AccountRowsStayRight
<1>4. ASSUME NEW t \in Tokens, Logout(t) PROVE AccountsInv'
  <2> DEFINE gone == [token[t] EXCEPT !.state = "revoked"]
  <2>1. UNCHANGED <<user, link, flow>> /\ token' = [token EXCEPT ![t] = gone] /\ token[t].state = "live"
    BY <1>1, <1>4 DEF Logout, AccountTypes
  <2>2. gone \in [state : TokenState, password : Nat, replaced : {0, 1}, flow : Flows \cup {NoFlow}]
        /\ gone.state = "revoked" /\ gone.flow = token[t].flow
    BY <1>1 DEF AccountTypes, TokenState
  <2> HIDE DEF gone
  <2>3. /\ token' \in [Tokens -> [state : TokenState, password : Nat, replaced : {0, 1}, flow : Flows \cup {NoFlow}]]
        /\ token'[t] = gone /\ \A o \in Tokens \ {t} : token'[o] = token[o]
    BY <1>1, <2>1, <2>2 DEF AccountTypes
  <2>4. SessionsFollow' /\ ResetEndsTheOldPassword' /\ SuspendedIsSignedOut'
    BY <2>1, <2>2, <2>3 DEF AccountsInv, SessionsFollow, ResetEndsTheOldPassword, SuspendedIsSignedOut
  <2>5. AccountRowsStayRight'
    BY <1>1, <2>1, <2>3, <2>4 DEF AccountRowsStayRight, AccountTypes
  <2> QED
    BY <1>1, <1>3, <2>1, <2>2, <2>3, <2>5 DEF HandlerKnows
<1>5. ASSUME NEW f \in Flows, Begin(f) PROVE AccountsInv'
  <2> DEFINE new == [flow[f] EXCEPT !.state = "started"]
  <2>1. UNCHANGED <<user, token, link>> /\ flow' = [flow EXCEPT ![f] = new] /\ flow[f].state = "none"
    BY <1>1, <1>5 DEF Begin, AccountTypes
  <2>2. new \in [state : FlowState, failures : 0 .. MaxLinkFailures] /\ new.failures = flow[f].failures
    BY <1>1 DEF AccountTypes, FlowState
  <2> HIDE DEF new
  <2>3. /\ AccountRowsStayRight'
        /\ flow'[f] = new /\ \A g \in Flows \ {f} : flow'[g] = flow[g]
    BY <2>1, <2>2, FlowMoves
  <2> QED
    BY <1>1, <1>3, <2>1, <2>2, <2>3 DEF HandlerKnows
<1>6. CASE Restore
  <2>1. UNCHANGED <<token, link, flow>> /\ user' = [user EXCEPT !.active = TRUE] /\ ~UserLocked
    BY <1>6 DEF Restore
  <2>2. /\ user' \in [active : BOOLEAN, password : 0 .. MaxResets, google : BOOLEAN]
        /\ user'.password = user.password /\ user'.active
    BY <1>1, <2>1 DEF AccountTypes
  <2>3. SessionsFollow' /\ ResetEndsTheOldPassword' /\ SuspendedIsSignedOut'
    BY <2>1, <2>2 DEF AccountsInv, SessionsFollow, ResetEndsTheOldPassword, SuspendedIsSignedOut
  <2>4. AccountRowsStayRight'
    BY <1>1, <2>1, <2>2, <2>3 DEF AccountRowsStayRight, AccountTypes
  <2> QED
    BY <1>1, <1>3, <2>1, <2>2, <2>4 DEF HandlerKnows, UserLocked
<1> QED
  BY <1>4, <1>5, <1>6

LEMMA AccountsNext == AccountsInv /\ [Next]_vars => AccountsInv'
<1> SUFFICES ASSUME AccountsInv, [Next]_vars PROVE AccountsInv'
  OBVIOUS
<1>1. CASE UNCHANGED vars
  BY <1>1 DEF vars, AccountsInv, AccountTypes, HandlerKnows, HandlersExclude, At, SessionsFollow,
              ResetEndsTheOldPassword, SuspendedIsSignedOut
<1>2. ASSUME NEW h \in Handlers,
             \/ Login(h) \/ LockRefresh(h) \/ RequestReset(h) \/ LockReset(h) \/ Reset(h)
             \/ Grant(h) \/ LockSuspend(h) \/ Suspend(h) \/ Abort(h)
             \/ \E t \in Tokens : Issue(h, t) \/ ReadRefresh(h, t) \/ Rotate(h, t)
      PROVE  AccountsInv'
  BY <1>2, AccountsReadSteps, AccountsIssue, AccountsRotate, AccountsReset, AccountsSuspend, AccountsFlow
<1>3. ASSUME NEW h \in Handlers,
             \/ \E l \in Links : SendLink(h, l) \/ ReadReset(h, l)
             \/ \E f \in Flows : ClaimCallback(h, f) \/ LockFlow(h, f)
             \/ \E proof \in {"right", "wrong", "absent"} : Resolve(h, proof)
      PROVE  AccountsInv'
  BY <1>3, AccountsReadSteps, AccountsSend, AccountsFlow
<1>4. CASE (\E t \in Tokens : Logout(t)) \/ (\E f \in Flows : Begin(f)) \/ Restore
  BY <1>4, AccountsOutside
<1> QED
  BY <1>1, <1>2, <1>3, <1>4 DEF Next

LEMMA AccountsStart == Init => AccountsInv
<1> SUFFICES ASSUME Init PROVE AccountsInv
  OBVIOUS
<1>1. AccountTypes
  BY AccountsAssumption DEF Init, AccountTypes, NewToken, TokenState, LinkState, FlowState, MaxLinkFailures
<1>2. \A h \in Handlers : handler[h].pc = "idle"
  BY DEF Init, Idle
<1>3. /\ \A h \in Handlers : HandlerKnows(h)
      /\ \A h, k \in Handlers : HandlersExclude(h, k)
  BY <1>2 DEF HandlerKnows, HandlersExclude, At, LockHolding
<1>4. \A t \in Tokens : token[t].state = "none" /\ token[t].replaced = 0 /\ token[t].flow = NoFlow
  BY DEF Init, NewToken
<1>5. SessionsFollow /\ ResetEndsTheOldPassword /\ SuspendedIsSignedOut
  BY <1>4 DEF Init, SessionsFollow, ResetEndsTheOldPassword, SuspendedIsSignedOut
<1> QED
  BY <1>1, <1>3, <1>5 DEF AccountsInv

LEMMA AccountsAlways == CommunitySpec => []AccountsInv
<1>1. CommunityInit => AccountsInv
  BY AccountsStart DEF CommunityInit
<1>2. AccountsInv /\ [CommunityNext]_<<part, vars, governanceVars, taskVars>> => AccountsInv'
  <2> SUFFICES ASSUME AccountsInv, [CommunityNext]_<<part, vars, governanceVars, taskVars>> PROVE AccountsInv'
    OBVIOUS
  <2>1. [Next]_vars
    BY DEF CommunityNext, vars
  <2> QED
    BY <2>1, AccountsNext
<1> QED
  BY <1>1, <1>2, PTL DEF CommunitySpec

\* No session and no link of an old password outlives a reset, whatever was
\* under way (Reset under the user's lock; Rotate and Reset claim again).
THEOREM OldPasswordsEnd == CommunitySpec => []ResetEndsTheOldPassword
<1>1. AccountsInv => ResetEndsTheOldPassword
  BY DEF AccountsInv
<1> QED
  BY <1>1, AccountsAlways, PTL

\* A suspended account has no live session (Suspend revokes under the lock every
\* handler that issues one also takes).
THEOREM SuspendedHaveNoSession == CommunitySpec => []SuspendedIsSignedOut
<1>1. AccountsInv => SuspendedIsSignedOut
  BY DEF AccountsInv
<1> QED
  BY <1>1, AccountsAlways, PTL

LEMMA AtMostOne == ASSUME NEW S, \A a, b \in S : a = b PROVE Cardinality(S) <= 1
<1>1. CASE S = {}
  BY <1>1, FS_EmptySet
<1>2. CASE S # {}
  <2>1. PICK a \in S : S = {a}
    BY <1>2
  <2> QED
    BY <2>1, FS_Singleton
<1> QED
  BY <1>1, <1>2

\* A session is replaced once and a sign-in by Google opens one chain.
THEOREM SessionsDoNotMultiply == CommunitySpec => []OneSessionForEach
<1>1. AccountsInv => OneSessionForEach
  <2> SUFFICES ASSUME AccountsInv PROVE OneSessionForEach
    OBVIOUS
  <2>1. \A t \in Tokens : token[t].replaced <= 1
    BY DEF AccountsInv, AccountTypes
  <2>2. ASSUME NEW f \in Flows
        PROVE  Cardinality({t \in Tokens : token[t].flow = f /\ token[t].state = "live"}) <= 1
    <3> DEFINE S == {t \in Tokens : token[t].flow = f /\ token[t].state = "live"}
    <3>1. \A a, b \in S : a = b
      BY AccountsAssumption DEF AccountsInv, SessionsFollow
    <3> HIDE DEF S
    <3>2. Cardinality(S) <= 1
      BY <3>1, AtMostOne
    <3> QED
      BY <3>2 DEF S
  <2> QED
    BY <2>1, <2>2 DEF OneSessionForEach
<1> QED
  BY <1>1, AccountsAlways, PTL

-----------------------------------------------------------------------------
(* Governance: what moderators rely on, whatever one of them does. *)

\* Both parts count with the operators of FiniteSets.
LEMMA PeopleCount ==
  ASSUME NEW S
  PROVE  /\ People!IsFiniteSet(S) <=> IsFiniteSet(S)
         /\ People!Cardinality(S) = Cardinality(S)
<1>1. People!IsFiniteSet(S) <=> IsFiniteSet(S)
  BY DEF People!IsFiniteSet, IsFiniteSet
<1>2. People!Cardinality(S) = Cardinality(S)
  BY DEF People!Cardinality, Cardinality, People!IsFiniteSet, IsFiniteSet
<1> QED
  BY <1>1, <1>2

LEMMA SomeOther ==
  ASSUME NEW S, IsFiniteSet(S), ~(Cardinality(S) <= 1), NEW u
  PROVE  \E w \in S : w # u
<1> SUFFICES ASSUME \A w \in S : w = u PROVE FALSE
  OBVIOUS
<1> QED
  BY AtMostOne

\* Somebody else runs the community, if it can do without u.
LEMMA Replaceable ==
  ASSUME PeopleInv, community = "active", ~overtaken, NEW u \in Users,
         ~People!Irreplaceable(u) \/ u \notin People!Admins
  PROVE  \E w \in People!VerifiedAdmins : w # u
<1>1. PICK w \in People!VerifiedAdmins : TRUE
  BY DEF PeopleInv, People!ActiveCommunityIsRun
<1>2. CASE u \notin People!VerifiedAdmins
  BY <1>1, <1>2
<1>3. CASE u \in People!VerifiedAdmins
  <2>4. u \in People!Admins /\ People!Candidate(u)
    BY <1>3 DEF People!VerifiedAdmins
  <2>1. ~(Cardinality(People!VerifiedAdmins) <= 1)
    BY <2>4, PeopleCount DEF People!Irreplaceable
  <2>2. People!VerifiedAdmins \subseteq Users
    BY DEF People!VerifiedAdmins, People!Admins
  <2>3. IsFiniteSet(People!VerifiedAdmins)
    <3>1. IsFiniteSet(Users)
      BY PeopleAssumption, PeopleCount DEF People!GovernanceAssumption
    <3> HIDE DEF People!VerifiedAdmins
    <3> QED
      BY <2>2, <3>1, FS_Subset
  <2> QED
    BY <2>1, <2>3, SomeOther
<1> QED
  BY <1>2, <1>3

LEMMA ModeratorsMove ==
  ASSUME PeopleInv, moderator' = [s \in Handlers |-> moderator'[s]],
         \A s \in Handlers :
            \/ moderator'[s] = moderator[s]
            \/ moderator'[s].pc = "idle"
            \/ /\ ChangeKeepsAdmin(s)' /\ CheckedIsReplaceable(s)'
               /\ \A r \in Handlers \ {s} : ModeratorsExclude(s, r)',
         \A s \in Handlers : moderator'[s] = moderator[s] /\ moderator[s].pc \in Holds =>
            /\ membership' = membership /\ community' = community
            /\ ~overtaken' => /\ ~overtaken
                              /\ \A u \in People!Admins \cup People!BecomingAdmins :
                                     People!Candidate(u) => People!Candidate(u)'
  PROVE  /\ \A s \in Handlers : ChangeKeepsAdmin(s)' /\ CheckedIsReplaceable(s)'
         /\ \A s, r \in Handlers : ModeratorsExclude(s, r)'
<1> USE DEF People!At
<1>1. ASSUME NEW s \in Handlers PROVE ChangeKeepsAdmin(s)' /\ CheckedIsReplaceable(s)'
  <2>1. CASE moderator'[s].pc = "idle"
    BY <2>1 DEF ChangeKeepsAdmin, CheckedIsReplaceable, HoldsUser
  <2>2. CASE moderator'[s] = moderator[s]
    <3>1. ChangeKeepsAdmin(s) /\ CheckedIsReplaceable(s)
      BY DEF PeopleInv
    <3>2. CASE moderator[s].pc = "change"
      <4>1. moderator[s].candidates \subseteq People!BecomingAdmins
        BY <3>2 DEF People!BecomingAdmins
      <4>2. membership' = membership /\ community' = community /\ People!Admins' = People!Admins
        BY <2>2, <3>2 DEF Holds, People!Admins, People!Is
      <4>3. ~overtaken' => /\ ~overtaken
                           /\ \A u \in People!Admins \cup People!BecomingAdmins : People!Candidate(u) => People!Candidate(u)'
        BY <2>2, <3>2 DEF Holds
      <4>4. CheckedIsReplaceable(s)'
        BY <2>2, <3>2 DEF CheckedIsReplaceable, HoldsUser
      <4> HIDE DEF People!At
      <4>5. ChangeKeepsAdmin(s)'
        BY <2>2, <3>1, <4>1, <4>2, <4>3 DEF ChangeKeepsAdmin, People!At
      <4> QED
        BY <4>4, <4>5
    <3>3. CASE moderator[s].pc = "checked"
      <4>1. membership' = membership /\ community' = community /\ People!Admins' = People!Admins
        BY <2>2, <3>3 DEF Holds, People!Admins, People!Is
      <4>2. ~overtaken' => /\ ~overtaken
                           /\ \A u \in People!Admins \cup People!BecomingAdmins : People!Candidate(u) => People!Candidate(u)'
        BY <2>2, <3>3 DEF Holds
      <4> QED
        BY <2>2, <3>1, <3>3, <4>1, <4>2 DEF ChangeKeepsAdmin, CheckedIsReplaceable, People!VerifiedAdmins
    <3>4. CASE moderator[s].pc \notin Holds
      BY <2>2, <3>1, <3>4 DEF ChangeKeepsAdmin, CheckedIsReplaceable, Holds, HoldsUser
    <3> QED
      BY <3>2, <3>3, <3>4 DEF Holds
  <2> QED
    BY <2>1, <2>2
<1>2. ASSUME NEW s \in Handlers, NEW r \in Handlers PROVE ModeratorsExclude(s, r)'
  <2>1. ModeratorsExclude(s, r)
    BY DEF PeopleInv
  <2>2. CASE moderator'[s] = moderator[s] /\ moderator'[r] = moderator[r]
    BY <2>1, <2>2 DEF ModeratorsExclude
  <2>3. CASE moderator'[s].pc = "idle" \/ moderator'[r].pc = "idle"
    BY <2>3 DEF ModeratorsExclude, Holds, HoldsUser
  <2>4. CASE \E i \in {s, r} : \A j \in Handlers \ {i} : ModeratorsExclude(i, j)'
    BY <2>4 DEF ModeratorsExclude
  <2> QED
    BY <2>2, <2>3, <2>4
<1> QED
  BY <1>1, <1>2

\* A step of a moderator that writes no row.
LEMMA PeopleRead ==
  ASSUME PeopleInv, NEW s \in Handlers, NEW step, People!Goes(s, step),
         UNCHANGED <<community, membership, account, overtaken>>,
         \/ step.pc = "idle"
         \/ /\ ChangeKeepsAdmin(s)' /\ CheckedIsReplaceable(s)'
            /\ \A r \in Handlers \ {s} : ModeratorsExclude(s, r)'
  PROVE  PeopleInv'
<1>1. /\ moderator' = [r \in Handlers |-> moderator'[r]] /\ moderator'[s] = step
      /\ \A r \in Handlers \ {s} : moderator'[r] = moderator[r]
  BY DEF PeopleInv, People!Goes
<1>2. \A r \in Handlers :
            \/ moderator'[r] = moderator[r]
            \/ moderator'[r].pc = "idle"
            \/ /\ ChangeKeepsAdmin(r)' /\ CheckedIsReplaceable(r)'
               /\ \A q \in Handlers \ {r} : ModeratorsExclude(r, q)'
  BY <1>1
<1>3. \A u : People!Candidate(u) => People!Candidate(u)'
  BY DEF People!Candidate
<1>4. /\ \A r \in Handlers : ChangeKeepsAdmin(r)' /\ CheckedIsReplaceable(r)'
      /\ \A q, r \in Handlers : ModeratorsExclude(q, r)'
  BY <1>1, <1>2, <1>3, ModeratorsMove
<1>5. People!TypeOK' /\ People!ActiveCommunityIsRun'
  BY DEF PeopleInv, People!TypeOK, People!ActiveCommunityIsRun, People!VerifiedAdmins, People!Admins,
         People!Candidate, People!Is
<1> QED
  BY <1>1, <1>4, <1>5 DEF PeopleInv

\* A change is locked: it keeps an administrator for whoever holds the lock.
LEMMA PeopleLock ==
  ASSUME PeopleInv, NEW s \in Handlers, NEW changed \in [Users -> People!MembershipRow],
         NEW status \in People!LifecycleStatus, NEW candidates \in SUBSET Users,
         People!Locks(s, changed, status, candidates),
         \A u \in Users : Administers(changed[u]) => u \in People!Admins \cup candidates,
         ~overtaken /\ status = "active" => \E u \in Users : Administers(changed[u]) /\ People!Candidate(u),
         status = "draft" => \A u \in Users \ {Applicant} : changed[u] = People!None
  PROVE  PeopleInv'
<1> DEFINE step == [pc |-> "change", membership |-> changed, status |-> status, candidates |-> candidates]
<1>1. People!Goes(s, step) /\ UNCHANGED <<community, membership, account, overtaken>> /\ ~People!CommunityLocked
  BY DEF People!Locks
<1>2. moderator'[s] = step /\ \A r \in Handlers \ {s} : moderator'[r] = moderator[r]
  BY <1>1 DEF PeopleInv, People!Goes
<1>3. People!Admins' = People!Admins /\ \A u : People!Candidate(u)' <=> People!Candidate(u)
  BY <1>1 DEF People!Admins, People!Is, People!Candidate
<1>4. ChangeKeepsAdmin(s)'
  BY <1>1, <1>2, <1>3 DEF ChangeKeepsAdmin, People!At, People!MembershipRow, People!LifecycleStatus, People!None
<1>5. CheckedIsReplaceable(s)'
  BY <1>2 DEF CheckedIsReplaceable, People!At, HoldsUser
<1>6. \A r \in Handlers \ {s} : ModeratorsExclude(s, r)'
  BY <1>1, <1>2 DEF ModeratorsExclude, People!CommunityLocked, Holds, HoldsUser
<1> QED
  BY <1>1, <1>4, <1>5, <1>6, PeopleRead

-----------------------------------------------------------------------------
(* Governance: its steps. *)

LEMMA PeopleManage ==
  ASSUME PeopleInv, NEW s \in Handlers, NEW u \in Users, NEW to \in People!MembershipRow,
         NEW removes, NEW makes, NEW bySuper,
         People!Manages(s, u, to, removes, makes, bySuper),
         membership[u] # People!None,
         removes \/ u \notin People!Admins,
         Administers(to) => makes
  PROVE  PeopleInv'
<1> DEFINE changed == [membership EXCEPT ![u] = to]
           candidates == IF makes THEN {u} ELSE {}
<1>1. /\ removes => ~People!Irreplaceable(u)
      /\ makes => People!Candidate(u)
      /\ People!Locks(s, changed, community, candidates)
  BY DEF People!Manages
<1>2. /\ membership \in [Users -> People!MembershipRow] /\ community \in People!LifecycleStatus
      /\ community = "draft" => \A w \in Users \ {Applicant} : membership[w] = People!None
  BY DEF PeopleInv, People!TypeOK
<1>3. /\ changed \in [Users -> People!MembershipRow] /\ candidates \in SUBSET Users
      /\ changed[u] = to /\ \A w \in Users \ {u} : changed[w] = membership[w]
  BY <1>2
<1>4. makes <=> u \in candidates
  OBVIOUS
<1> HIDE DEF changed, candidates
<1>5. \A w \in Users : Administers(changed[w]) => w \in People!Admins \cup candidates
  BY <1>3, <1>4 DEF Administers, People!Admins, People!Is
<1>6. ~overtaken /\ community = "active" => \E w \in Users : Administers(changed[w]) /\ People!Candidate(w)
  <2> SUFFICES ASSUME ~overtaken, community = "active"
               PROVE  \E w \in Users : Administers(changed[w]) /\ People!Candidate(w)
    OBVIOUS
  <2>1. PICK w \in People!VerifiedAdmins : w # u
    BY <1>1, Replaceable
  <2>2. w \in Users \ {u} /\ Administers(membership[w]) /\ People!Candidate(w)
    BY <2>1 DEF People!VerifiedAdmins, People!Admins, People!Is, Administers
  <2> QED
    BY <1>3, <2>2
<1>7. community = "draft" => \A w \in Users \ {Applicant} : changed[w] = People!None
  BY <1>2, <1>3
<1> QED
  BY <1>1, <1>2, <1>3, <1>5, <1>6, <1>7, PeopleLock

LEMMA PeopleManages ==
  ASSUME PeopleInv, NEW s \in Handlers, NEW u \in Users, NEW bySuper \in BOOLEAN,
         \/ \E role \in People!Roles : People!ChangeRole(s, u, role, bySuper)
         \/ People!ChangeStatus(s, u, bySuper)
  PROVE  PeopleInv'
<1> DEFINE old == membership[u]
<1>1. old \in People!MembershipRow
  BY DEF PeopleInv, People!TypeOK
<1>2. /\ \A role \in People!Roles : [old EXCEPT !.role = role] \in People!MembershipRow
      /\ \A status \in {"active", "suspended", "declined"} : [old EXCEPT !.status = status] \in People!MembershipRow
      /\ [role |-> "member", status |-> "active"] \in People!MembershipRow
  BY <1>1 DEF People!MembershipRow, People!Roles
<1>3. u \in People!Admins => old.status = "active" /\ old.role = "admin"
  BY DEF People!Admins, People!Is
<1>4. old.status # "none" => old # People!None
  BY DEF People!None
<1>5. ASSUME NEW role \in People!Roles, People!ChangeRole(s, u, role, bySuper) PROVE PeopleInv'
  <2> DEFINE to == [old EXCEPT !.role = role]
  <2>1. People!Manages(s, u, to, u \in People!Admins, role = "admin", bySuper) /\ old.status # "none"
    BY <1>5 DEF People!ChangeRole
  <2>2. Administers(to) => role = "admin"
    BY <1>1 DEF Administers, People!MembershipRow
  <2>3. to \in People!MembershipRow
    BY <1>2
  <2> HIDE DEF to
  <2> QED
    BY <1>4, <2>1, <2>2, <2>3, PeopleManage
<1>6. ASSUME old.status = "pending", NEW to \in People!MembershipRow, ~Administers(to),
             People!Manages(s, u, to, FALSE, FALSE, bySuper)
      PROVE  PeopleInv'
  BY <1>3, <1>4, <1>6, PeopleManage
<1>7. ASSUME old.status = "active", People!Manages(s, u, [old EXCEPT !.status = "suspended"], u \in People!Admins, FALSE, bySuper)
      PROVE  PeopleInv'
  <2> DEFINE to == [old EXCEPT !.status = "suspended"]
  <2>1. ~Administers(to)
    BY <1>1 DEF Administers, People!MembershipRow
  <2>2. to \in People!MembershipRow
    BY <1>2
  <2>3. People!Manages(s, u, to, u \in People!Admins, FALSE, bySuper)
    BY <1>7
  <2> HIDE DEF to
  <2> QED
    BY <1>4, <1>7, <2>1, <2>2, <2>3, PeopleManage
<1>8. ASSUME old.status = "suspended", People!Manages(s, u, [old EXCEPT !.status = "active"], FALSE, old.role = "admin", bySuper)
      PROVE  PeopleInv'
  <2> DEFINE to == [old EXCEPT !.status = "active"]
  <2>1. Administers(to) => old.role = "admin"
    BY <1>1 DEF Administers, People!MembershipRow
  <2>2. to \in People!MembershipRow
    BY <1>2
  <2>3. People!Manages(s, u, to, FALSE, old.role = "admin", bySuper)
    BY <1>8
  <2> HIDE DEF to
  <2> QED
    BY <1>3, <1>4, <1>8, <2>1, <2>2, <2>3, PeopleManage
<1>9. CASE People!ChangeStatus(s, u, bySuper)
  <2>1. ~Administers([role |-> "member", status |-> "active"]) /\ ~Administers([old EXCEPT !.status = "declined"])
    BY <1>1 DEF Administers, People!MembershipRow
  <2> QED
    BY <1>2, <1>6, <1>7, <1>8, <1>9, <2>1 DEF People!ChangeStatus
<1> QED
  BY <1>5, <1>9

\* The steps of Super Admins that name an administrator, or none.
LEMMA PeopleReview ==
  ASSUME PeopleInv, NEW s \in Handlers,
         \/ \E u \in Users : People!AssignAdmin(s, u) \/ People!Approve(s, u)
         \/ People!Reject(s)
         \/ \E suspend \in BOOLEAN : People!ModerateCommunity(s, suspend)
  PROVE  PeopleInv'
<1>1. /\ membership \in [Users -> People!MembershipRow] /\ community \in People!LifecycleStatus
      /\ community = "draft" => \A w \in Users \ {Applicant} : membership[w] = People!None
      /\ Applicant \in Users
      /\ \A w \in Users : Administers(membership[w]) <=> w \in People!Admins
  BY PeopleAssumption DEF PeopleInv, People!TypeOK, People!GovernanceAssumption, Administers, People!Admins, People!Is
<1> DEFINE admin == [role |-> "admin", status |-> "active"]  organizer_ == [role |-> "organizer", status |-> "active"]
<1>2. /\ admin \in People!MembershipRow /\ organizer_ \in People!MembershipRow
      /\ Administers(admin) /\ ~Administers(organizer_)
      /\ {"active", "rejected", "suspended"} \subseteq People!LifecycleStatus
  BY DEF People!MembershipRow, People!Roles, Administers, People!LifecycleStatus
<1> HIDE DEF admin, organizer_
<1>3. ASSUME NEW u \in Users, People!AssignAdmin(s, u) PROVE PeopleInv'
  <2> DEFINE changed == [membership EXCEPT ![u] = admin]
  <2>1. People!Locks(s, changed, community, {u}) /\ People!Candidate(u) /\ community \in {"active", "suspended"}
    BY <1>3 DEF People!AssignAdmin, admin
  <2>2. changed \in [Users -> People!MembershipRow] /\ changed[u] = admin
        /\ \A w \in Users \ {u} : changed[w] = membership[w]
    BY <1>1, <1>2
  <2> HIDE DEF changed
  <2>3. \A w \in Users : Administers(changed[w]) => w \in People!Admins \cup {u}
    BY <1>1, <2>2
  <2> QED
    BY <1>1, <1>2, <2>1, <2>2, <2>3, PeopleLock
<1>4. ASSUME NEW u \in Users, People!Approve(s, u) PROVE PeopleInv'
  <2> DEFINE changed == [membership EXCEPT ![Applicant] = organizer_, ![u] = admin]
  <2>1. People!Locks(s, changed, "active", {u}) /\ People!Candidate(u)
    BY <1>4 DEF People!Approve, admin, organizer_
  <2>2. changed \in [Users -> People!MembershipRow] /\ changed[u] = admin
        /\ \A w \in Users \ {u} : changed[w] = membership[w] \/ changed[w] = organizer_
    BY <1>1, <1>2
  <2> HIDE DEF changed
  <2>3. \A w \in Users : Administers(changed[w]) => w \in People!Admins \cup {u}
    BY <1>1, <1>2, <2>2
  <2> QED
    BY <1>1, <1>2, <2>1, <2>2, <2>3, PeopleLock
<1>5. CASE People!Reject(s)
  <2> DEFINE gone == [membership[Applicant] EXCEPT !.status = "declined"]
             changed == [membership EXCEPT ![Applicant] = gone]
  <2>1. People!Locks(s, changed, "rejected", {})
    BY <1>1, <1>5 DEF People!Reject
  <2>2. gone \in People!MembershipRow /\ ~Administers(gone)
    BY <1>1 DEF People!MembershipRow, Administers
  <2> HIDE DEF gone
  <2>3. changed \in [Users -> People!MembershipRow]
        /\ \A w \in Users : changed[w] = membership[w] \/ changed[w] = gone
    BY <1>1, <2>2
  <2> HIDE DEF changed
  <2>4. \A w \in Users : Administers(changed[w]) => w \in People!Admins \cup {}
    BY <1>1, <2>2, <2>3
  <2> QED
    BY <1>2, <2>1, <2>3, <2>4, PeopleLock
<1>6. ASSUME NEW suspend \in BOOLEAN, People!ModerateCommunity(s, suspend) PROVE PeopleInv'
  <2> DEFINE status == IF suspend THEN "suspended" ELSE "active"
  <2>1. People!Locks(s, membership, status, {}) /\ (~suspend => People!VerifiedAdmins # {})
        /\ status \in {"suspended", "active"} /\ (status = "active" => ~suspend)
    BY <1>6 DEF People!ModerateCommunity
  <2> HIDE DEF status
  <2>2. \A w \in Users : Administers(membership[w]) => w \in People!Admins \cup {}
    BY <1>1
  <2>3. status = "active" => \E w \in Users : Administers(membership[w]) /\ People!Candidate(w)
    BY <1>1, <2>1 DEF People!VerifiedAdmins, People!Admins
  <2> QED
    BY <1>1, <1>2, <2>1, <2>2, <2>3, PeopleLock
<1> QED
  BY <1>3, <1>4, <1>5, <1>6

\* What a step of Governance leaves to show, when sessions that hold the
\* community's row are undisturbed.
LEMMA PeopleWrite ==
  ASSUME PeopleInv, (People!TypeOK /\ People!ActiveCommunityIsRun /\ overtaken \in BOOLEAN)',
         \/ UNCHANGED moderator
         \/ \E s \in Handlers : People!Goes(s, People!Idle),
         \A s \in Handlers : moderator'[s] = moderator[s] /\ moderator[s].pc \in Holds =>
            /\ membership' = membership /\ community' = community
            /\ ~overtaken' => /\ ~overtaken
                              /\ \A u \in People!Admins \cup People!BecomingAdmins :
                                     People!Candidate(u) => People!Candidate(u)'
  PROVE  PeopleInv'
<1>1. /\ moderator' = [s \in Handlers |-> moderator'[s]]
      /\ \A s \in Handlers : moderator'[s] = moderator[s] \/ moderator'[s].pc = "idle"
  BY DEF PeopleInv, People!Goes, People!Idle
<1>2. /\ \A s \in Handlers : ChangeKeepsAdmin(s)' /\ CheckedIsReplaceable(s)'
      /\ \A s, r \in Handlers : ModeratorsExclude(s, r)'
  BY <1>1, ModeratorsMove
<1> QED
  BY <1>1, <1>2 DEF PeopleInv

\* One membership that does not administer changes under the community's lock.
LEMMA PeopleRow ==
  ASSUME PeopleInv, NEW u \in Users, NEW row \in People!MembershipRow,
         membership' = [membership EXCEPT ![u] = row],
         UNCHANGED <<community, account, moderator, overtaken>>,
         ~People!CommunityLocked, u \notin People!Admins,
         community = "draft" => membership[u] # People!None
  PROVE  PeopleInv'
<1>1. /\ membership \in [Users -> People!MembershipRow] /\ community \in People!LifecycleStatus
      /\ account \in [Users -> People!UserRow] /\ overtaken \in BOOLEAN
      /\ community = "draft" => \A w \in Users \ {Applicant} : membership[w] = People!None
  BY DEF PeopleInv, People!TypeOK
<1>2. membership' \in [Users -> People!MembershipRow] /\ \A w \in Users \ {u} : membership'[w] = membership[w]
  BY <1>1
<1>3. People!TypeOK'
  BY <1>1, <1>2 DEF People!TypeOK
<1>4. People!VerifiedAdmins \subseteq People!VerifiedAdmins'
  BY <1>2 DEF People!VerifiedAdmins, People!Admins, People!Is, People!Candidate
<1>5. People!ActiveCommunityIsRun'
  BY <1>4 DEF PeopleInv, People!ActiveCommunityIsRun
<1>6. \A s \in Handlers : moderator[s].pc \notin Holds
  BY DEF People!CommunityLocked, Holds
<1> QED
  BY <1>1, <1>3, <1>5, <1>6, PeopleWrite

LEMMA PeopleParticipate ==
  ASSUME PeopleInv, NEW u \in Users,
         \/ People!Participant(u)
         \/ \E role \in People!Roles, bySuper \in BOOLEAN : People!Invite(u, role, bySuper)
  PROVE  PeopleInv'
<1>1. membership[u] \in People!MembershipRow /\ membership \in [Users -> People!MembershipRow]
  BY DEF PeopleInv, People!TypeOK
<1>2. u \in People!Admins => membership[u].status = "active" /\ membership[u].role = "admin"
  BY DEF People!Admins, People!Is
<1>3. membership[u].status # "none" => membership[u] # People!None
  BY DEF People!None
<1>4. CASE People!Participant(u)
  <2>1. UNCHANGED <<community, account, moderator, overtaken>> /\ ~People!CommunityLocked
    BY <1>4 DEF People!Participant
  <2>2. CASE People!Joins(u)
    <3> DEFINE row == [role |-> "member", status |-> IF access = "open" THEN "active" ELSE "pending"]
    <3>1. row \in People!MembershipRow
      BY DEF People!MembershipRow, People!Roles
    <3>2. /\ membership' = [membership EXCEPT ![u] = row] /\ community = "active"
          /\ membership[u].status \in {"none", "left", "declined"}
      BY <2>2 DEF People!Joins
    <3> HIDE DEF row
    <3> QED
      BY <1>2, <2>1, <3>1, <3>2, PeopleRow
  <2>3. ASSUME NEW from \in {"invited", "pending", "active"}, NEW to \in {"active", "declined", "left"},
               People!Answers(u, from, to), from = "active" => to = "left"
        PROVE  PeopleInv'
    <3> DEFINE row == [membership[u] EXCEPT !.status = to]
    <3>1. row \in People!MembershipRow
      BY <1>1, <2>3 DEF People!MembershipRow
    <3>2. /\ membership' = [membership EXCEPT ![u] = row]
          /\ membership[u].status = from
          /\ from = "active" => membership[u].role # "admin"
      BY <1>1, <2>3 DEF People!Answers
    <3> HIDE DEF row
    <3> QED
      BY <1>2, <1>3, <2>1, <2>3, <3>1, <3>2, PeopleRow
  <2> QED
    BY <1>4, <2>2, <2>3 DEF People!Participant
<1>5. ASSUME NEW role \in People!Roles, NEW bySuper \in BOOLEAN, People!Invite(u, role, bySuper) PROVE PeopleInv'
  <2> DEFINE row == [role |-> role, status |-> "invited"]
  <2>1. row \in People!MembershipRow
    BY <1>5 DEF People!MembershipRow
  <2>2. /\ membership' = [membership EXCEPT ![u] = row] /\ community = "active"
        /\ membership[u].status \in {"none", "left", "declined"}
        /\ UNCHANGED <<community, account, moderator, overtaken>> /\ ~People!CommunityLocked
    BY <1>5 DEF People!Invite
  <2> HIDE DEF row
  <2> QED
    BY <1>2, <2>1, <2>2, PeopleRow
<1> QED
  BY <1>4, <1>5

\* The steps that leave every account an administrator may need as it was, or
\* make it one that may administer.
LEMMA PeopleAccounts ==
  ASSUME PeopleInv,
         \/ People!Submit
         \/ \E to \in People!Access : People!UpdateAccess(to)
         \/ \E u \in Users : People!RestoreUser(u) \/ People!VerifyEmail(u)
  PROVE  PeopleInv'
<1>1. /\ membership \in [Users -> People!MembershipRow] /\ community \in People!LifecycleStatus
      /\ account \in [Users -> People!UserRow] /\ overtaken \in BOOLEAN
      /\ community = "draft" => \A w \in Users \ {Applicant} : membership[w] = People!None
  BY DEF PeopleInv, People!TypeOK
<1>2. CASE People!Submit
  <2>1. UNCHANGED <<membership, account, moderator, overtaken>> /\ ~People!CommunityLocked /\ community' = "pending_review"
    BY <1>2 DEF People!Submit
  <2>2. People!TypeOK' /\ People!ActiveCommunityIsRun'
    BY <1>1, <2>1 DEF People!TypeOK, People!ActiveCommunityIsRun, People!LifecycleStatus
  <2>3. \A s \in Handlers : moderator[s].pc \notin Holds
    BY <2>1 DEF People!CommunityLocked, Holds
  <2> QED
    BY <1>1, <2>1, <2>2, <2>3, PeopleWrite
<1>3. ASSUME UNCHANGED <<membership, community, moderator, overtaken>>, account' \in [Users -> People!UserRow],
             \A u \in Users : People!Candidate(u) => People!Candidate(u)'
      PROVE  PeopleInv'
  <2>1. People!VerifiedAdmins \subseteq People!VerifiedAdmins'
    BY <1>3 DEF People!VerifiedAdmins, People!Admins, People!Is
  <2>2. People!TypeOK' /\ People!ActiveCommunityIsRun'
    BY <1>1, <1>3, <2>1 DEF PeopleInv, People!TypeOK, People!ActiveCommunityIsRun
  <2>3. People!Admins \cup People!BecomingAdmins \subseteq Users
    BY DEF PeopleInv, ChangeKeepsAdmin, People!Admins, People!BecomingAdmins
  <2> QED
    BY <1>1, <1>3, <2>2, <2>3, PeopleWrite
<1>4. ASSUME NEW to, People!UpdateAccess(to) PROVE PeopleInv'
  BY <1>1, <1>3, <1>4 DEF People!UpdateAccess, People!Candidate
<1>5. ASSUME NEW u \in Users, People!RestoreUser(u) \/ People!VerifyEmail(u) PROVE PeopleInv'
  <2>1. account' \in [Users -> People!UserRow]
    <3>1. account' = [account EXCEPT ![u].active = TRUE] \/ account' = [account EXCEPT ![u].verified = TRUE]
      BY <1>5 DEF People!RestoreUser, People!VerifyEmail
    <3>2. account \in [Users -> People!UserRow]
      BY <1>1
    <3> QED
      BY <3>1, <3>2 DEF People!UserRow
  <2>2. \A w \in Users : People!Candidate(w) => People!Candidate(w)'
    BY <1>1, <1>5 DEF People!RestoreUser, People!VerifyEmail, People!UserRow, People!Candidate
  <2> QED
    BY <1>3, <1>5, <2>1, <2>2 DEF People!RestoreUser, People!VerifyEmail
<1> QED
  BY <1>2, <1>4, <1>5

LEMMA PeopleCommit ==
  ASSUME PeopleInv, NEW s \in Handlers, People!CommitChange(s)
  PROVE  PeopleInv'
<1>1. /\ moderator[s].pc = "change" /\ People!Goes(s, People!Idle)
      /\ membership' = moderator[s].membership /\ community' = moderator[s].status
      /\ UNCHANGED <<account, overtaken>>
  BY DEF People!CommitChange, People!At
<1>2. ChangeKeepsAdmin(s) /\ overtaken \in BOOLEAN /\ account \in [Users -> People!UserRow]
  BY DEF PeopleInv, People!TypeOK
<1>3. People!TypeOK'
  BY <1>1, <1>2 DEF ChangeKeepsAdmin, People!At, People!TypeOK
<1>4. People!ActiveCommunityIsRun'
  <2> SUFFICES ASSUME community' = "active", ~overtaken' PROVE People!VerifiedAdmins' # {}
    BY DEF People!ActiveCommunityIsRun
  <2>1. PICK u \in Users : Administers(moderator[s].membership[u]) /\ People!Candidate(u)
    BY <1>1, <1>2 DEF ChangeKeepsAdmin, People!At
  <2> QED
    BY <1>1, <2>1 DEF People!VerifiedAdmins, People!Admins, People!Is, People!Candidate, Administers
<1>5. \A r \in Handlers : moderator'[r] = moderator[r] => moderator[r].pc \notin Holds
  <2> SUFFICES ASSUME NEW r \in Handlers, moderator'[r] = moderator[r], moderator[r].pc \in Holds PROVE FALSE
    OBVIOUS
  <2>1. ModeratorsExclude(s, r)
    BY DEF PeopleInv
  <2> QED
    BY <1>1, <2>1 DEF PeopleInv, ModeratorsExclude, Holds, People!Goes, People!Idle
<1> QED
  BY <1>1, <1>2, <1>3, <1>4, <1>5, PeopleWrite

LEMMA PeopleSuspendRead ==
  ASSUME PeopleInv, NEW s \in Handlers,
         \/ \E u \in Users : People!SuspendUser(s, u)
         \/ People!CheckCommunity(s)
         \/ People!Abort(s)
  PROVE  PeopleInv'
<1>1. CASE People!Abort(s)
  BY <1>1, PeopleRead DEF People!Abort, People!Idle
<1>2. ASSUME NEW u \in Users, People!SuspendUser(s, u) PROVE PeopleInv'
  <2> DEFINE step == [pc |-> IF u \in People!Admins THEN "suspend" ELSE "apart", user |-> u]
  <2>1. step.pc \in {"suspend", "apart"} /\ step.user = u
    OBVIOUS
  <2>2. People!Goes(s, step) /\ UNCHANGED <<community, membership, account, overtaken>> /\ ~People!UserLocked(u)
    BY <1>2 DEF People!SuspendUser
  <2> HIDE DEF step
  <2>3. moderator'[s] = step /\ \A r \in Handlers \ {s} : moderator'[r] = moderator[r]
    BY <2>2 DEF PeopleInv, People!Goes
  <2>4. ChangeKeepsAdmin(s)' /\ CheckedIsReplaceable(s)'
    BY <2>1, <2>3 DEF ChangeKeepsAdmin, CheckedIsReplaceable, People!At
  <2>5. \A r \in Handlers \ {s} : ModeratorsExclude(s, r)'
    BY <2>1, <2>2, <2>3 DEF ModeratorsExclude, Holds, HoldsUser, People!UserLocked
  <2> QED
    BY <2>2, <2>4, <2>5, PeopleRead
<1>3. CASE People!CheckCommunity(s)
  <2> DEFINE step == [moderator[s] EXCEPT !.pc = "checked"]  u == moderator[s].user
  <2>1. /\ People!Goes(s, step) /\ UNCHANGED <<community, membership, account, overtaken>>
        /\ ~People!CommunityLocked /\ People!MayLose(u) /\ moderator[s].pc = "suspend"
    BY <1>3 DEF People!CheckCommunity, People!At
  <2>2. step.user = u /\ step.pc = "checked"
    BY <2>1
  <2>3. u \in Users /\ CheckedIsReplaceable(s)
    BY <2>1 DEF PeopleInv, CheckedIsReplaceable, HoldsUser
  <2>4. community = "active" /\ ~overtaken => \E w \in People!VerifiedAdmins : w # u
    BY <2>1, <2>3, Replaceable DEF People!MayLose
  <2> HIDE DEF step
  <2>5. moderator'[s] = step /\ \A r \in Handlers \ {s} : moderator'[r] = moderator[r]
    BY <2>1 DEF PeopleInv, People!Goes
  <2>6. People!VerifiedAdmins' = People!VerifiedAdmins
    BY <2>1 DEF People!VerifiedAdmins, People!Admins, People!Is, People!Candidate
  <2>7. ChangeKeepsAdmin(s)' /\ CheckedIsReplaceable(s)'
    BY <2>1, <2>2, <2>3, <2>4, <2>5, <2>6 DEF ChangeKeepsAdmin, CheckedIsReplaceable, People!At
  <2>8. \A r \in Handlers \ {s} : ModeratorsExclude(s, r)'
    <3> SUFFICES ASSUME NEW r \in Handlers \ {s} PROVE ModeratorsExclude(s, r)'
      OBVIOUS
    <3>1. ModeratorsExclude(s, r)
      BY DEF PeopleInv
    <3> QED
      BY <2>1, <2>2, <2>5, <3>1 DEF ModeratorsExclude, Holds, HoldsUser, People!CommunityLocked
  <2> QED
    BY <2>1, <2>7, <2>8, PeopleRead
<1> QED
  BY <1>1, <1>2, <1>3

\* A checked suspension leaves somebody else; one beside the check takes nobody
\* who administers or is about to, or counts as overtaking.
LEMMA PeopleSuspend ==
  ASSUME PeopleInv, NEW s \in Handlers, People!CommitSuspension(s)
  PROVE  PeopleInv'
<1> DEFINE u == moderator[s].user
<1>1. /\ moderator[s].pc \in {"checked", "apart"} /\ People!Goes(s, People!Idle)
      /\ account' = [account EXCEPT ![u].active = FALSE]
      /\ overtaken' = (overtaken \/ (moderator[s].pc = "apart" /\ u \in People!Admins \cup People!BecomingAdmins))
      /\ UNCHANGED <<community, membership>>
  BY DEF People!CommitSuspension, People!At
<1>2. /\ People!TypeOK /\ overtaken \in BOOLEAN /\ CheckedIsReplaceable(s) /\ account \in [Users -> People!UserRow]
      /\ People!ActiveCommunityIsRun
  BY DEF PeopleInv, People!TypeOK
<1>3. u \in Users
  BY <1>1, <1>2 DEF CheckedIsReplaceable, HoldsUser
<1>4. account' \in [Users -> People!UserRow] /\ \A w \in Users \ {u} : account'[w] = account[w]
  BY <1>1, <1>2, <1>3 DEF People!UserRow
<1>5. People!TypeOK' /\ overtaken' \in BOOLEAN
  BY <1>1, <1>2, <1>4 DEF People!TypeOK
<1>6. \A w \in Users \ {u} : People!Candidate(w) => People!Candidate(w)'
  BY <1>4 DEF People!Candidate
<1>7. People!Admins' = People!Admins /\ People!Admins \subseteq Users
  BY <1>1 DEF People!Admins, People!Is
<1>8. People!ActiveCommunityIsRun'
  <2> SUFFICES ASSUME community' = "active", ~overtaken' PROVE \E w \in People!VerifiedAdmins : w # u
    BY <1>6, <1>7 DEF People!ActiveCommunityIsRun, People!VerifiedAdmins
  <2>1. community = "active" /\ ~overtaken
    BY <1>1, <1>2
  <2>2. CASE moderator[s].pc = "checked"
    BY <1>2, <2>1, <2>2 DEF CheckedIsReplaceable, People!At
  <2>3. CASE moderator[s].pc = "apart"
    BY <1>1, <1>2, <2>1, <2>3 DEF People!ActiveCommunityIsRun, People!VerifiedAdmins
  <2> QED
    BY <1>1, <2>2, <2>3
<1>9. ASSUME NEW r \in Handlers, moderator'[r] = moderator[r], moderator[r].pc \in Holds, ~overtaken'
      PROVE  /\ ~overtaken
             /\ \A w \in People!Admins \cup People!BecomingAdmins : People!Candidate(w) => People!Candidate(w)'
  <2>1. r # s
    BY <1>1, <1>9 DEF PeopleInv, People!Goes, People!Idle, Holds
  <2>2. ModeratorsExclude(s, r)
    BY DEF PeopleInv
  <2>3. moderator[s].pc = "apart"
    BY <1>1, <1>9, <2>1, <2>2 DEF ModeratorsExclude, Holds
  <2>4. ~overtaken /\ u \notin People!Admins \cup People!BecomingAdmins
    BY <1>1, <1>2, <1>9, <2>3
  <2>5. People!BecomingAdmins \subseteq Users
    BY DEF PeopleInv, ChangeKeepsAdmin, People!BecomingAdmins
  <2> QED
    BY <1>6, <1>7, <2>4, <2>5
<1> QED
  BY <1>1, <1>5, <1>8, <1>9, PeopleWrite

LEMMA PeopleNext ==
  ASSUME PeopleInv, [People!Next]_governanceVars
  PROVE  PeopleInv'
<1>1. CASE UNCHANGED governanceVars
  <2>1. \A s \in Handlers : moderator'[s] = moderator[s]
    BY <1>1 DEF governanceVars
  <2>2. (People!TypeOK /\ People!ActiveCommunityIsRun /\ overtaken \in BOOLEAN)'
    BY <1>1 DEF governanceVars, PeopleInv, People!TypeOK, People!ActiveCommunityIsRun, People!VerifiedAdmins,
                People!Admins, People!Is, People!Candidate
  <2>3. \A w : People!Candidate(w) => People!Candidate(w)'
    BY <1>1 DEF governanceVars, People!Candidate
  <2> QED
    BY <1>1, <2>2, <2>3, PeopleWrite DEF governanceVars
<1>2. CASE People!Next
  <2>1. ASSUME NEW s \in Handlers, People!Manage(s) PROVE PeopleInv'
    BY <2>1, PeopleManages, PeopleReview, PeopleSuspendRead, PeopleCommit, PeopleSuspend DEF People!Manage
  <2> QED
    BY <1>2, <2>1, PeopleParticipate, PeopleAccounts DEF People!Next
<1> QED
  BY <1>1, <1>2

LEMMA PeopleStart == People!Init => PeopleInv
<1> SUFFICES ASSUME People!Init PROVE PeopleInv
  OBVIOUS
<1>1. \A s \in Handlers : moderator[s].pc = "idle"
  BY DEF People!Init, People!Idle
<1>2. (\A s \in Handlers : ChangeKeepsAdmin(s) /\ CheckedIsReplaceable(s)) /\ (\A s, r \in Handlers : ModeratorsExclude(s, r))
  BY <1>1 DEF ChangeKeepsAdmin, CheckedIsReplaceable, ModeratorsExclude, Holds, HoldsUser, People!At
<1>3. People!TypeOK
  BY DEF People!Init, People!TypeOK, People!MembershipRow, People!LifecycleStatus, People!Roles, People!None
<1>4. People!ActiveCommunityIsRun /\ overtaken \in BOOLEAN /\ moderator = [s \in Handlers |-> moderator[s]]
  BY DEF People!Init, People!ActiveCommunityIsRun
<1> QED
  BY <1>2, <1>3, <1>4 DEF PeopleInv

LEMMA PeopleAlways == CommunitySpec => [](part = "people" => PeopleInv)
<1>1. CommunityInit => (part = "people" => PeopleInv)
  BY PeopleStart DEF CommunityInit
<1>2. (part = "people" => PeopleInv) /\ [CommunityNext]_<<part, vars, governanceVars, taskVars>>
         => (part = "people" => PeopleInv)'
  <2> SUFFICES ASSUME PeopleInv, [CommunityNext]_<<part, vars, governanceVars, taskVars>>, part = "people", part' = "people"
               PROVE  PeopleInv'
    BY DEF CommunityNext
  <2>1. [People!Next]_governanceVars
    BY DEF CommunityNext
  <2> QED
    BY <2>1, PeopleNext
<1> QED
  BY <1>1, <1>2, PTL DEF CommunitySpec

\* Removals, demotions and suspensions that overlap do not take the last
\* verified administrator of an active community (manage_membership and
\* moderate, each under the community's lock), unless a suspension overtook a
\* promotion.
THEOREM CommunityIsRun == CommunitySpec => []ActiveCommunityIsRun
<1>1. (part = "people" => PeopleInv) => ActiveCommunityIsRun
  BY DEF PeopleInv, ActiveCommunityIsRun
<1> QED
  BY <1>1, PeopleAlways, PTL

-----------------------------------------------------------------------------
(* TaskWork: what requests rely on, whatever one of them does. *)

LEMMA TasksCount ==
  ASSUME NEW S
  PROVE  /\ Tasks!IsFiniteSet(S) <=> IsFiniteSet(S)
         /\ Tasks!Cardinality(S) = Cardinality(S)
<1>1. Tasks!IsFiniteSet(S) <=> IsFiniteSet(S)
  BY DEF Tasks!IsFiniteSet, IsFiniteSet
<1>2. Tasks!Cardinality(S) = Cardinality(S)
  BY DEF Tasks!Cardinality, Cardinality, Tasks!IsFiniteSet, IsFiniteSet
<1> QED
  BY <1>1, <1>2

\* The invariant is about each user and each request.
LEMMA TasksGive ==
  TasksInv => Tasks!TypeOK /\ Tasks!PaidIsVerified /\ Tasks!AttemptsAreLimited
<1> SUFFICES ASSUME TasksInv PROVE Tasks!TypeOK /\ Tasks!PaidIsVerified /\ Tasks!AttemptsAreLimited
  OBVIOUS
<1>1. WorkShape /\ \A u \in Users : WorkIsRight(u)
  BY DEF TasksInv
<1>2. assignment \in [Users -> Tasks!AssignmentStatus \cup {"none"}]
  BY <1>1 DEF WorkShape, WorkIsRight
<1>3. submission \in [Users -> [Keys -> Tasks!SubmissionRow]]
  BY <1>1 DEF WorkShape, WorkIsRight
<1>4. paid \in [Users -> Tasks!Posted]
  BY <1>1 DEF WorkShape, WorkIsRight
<1>5. Tasks!AttemptsAreLimited
  BY <1>1, TasksCount DEF WorkIsRight, Tasks!AttemptsAreLimited
<1> QED
  BY <1>1, <1>2, <1>3, <1>4, <1>5 DEF WorkShape, WorkIsRight, Tasks!TypeOK, Tasks!PaidIsVerified

\* A request is undisturbed as long as its assignment's row is; users whose
\* rows do not change stay right.
LEMMA TasksWrite ==
  ASSUME TasksInv, WorkShape',
         \A u \in Users :
            \/ /\ assignment'[u] = assignment[u] /\ submission'[u] = submission[u]
               /\ paid'[u] = paid[u] /\ owed'[u] = owed[u]
               /\ u \in reopened => u \in reopened'
            \/ WorkIsRight(u)',
         \A s \in Handlers :
            \/ organizer'[s] = organizer[s]
            \/ organizer'[s].pc = "idle"
            \/ RequestKnows(s)' /\ \A r \in Handlers \ {s} : RequestsExclude(s, r)',
         \A s \in Handlers : organizer'[s] = organizer[s] /\ organizer[s].pc \in {"submit", "verify"} =>
            /\ assignment'[organizer[s].user] = assignment[organizer[s].user]
            /\ submission'[organizer[s].user] = submission[organizer[s].user]
  PROVE  TasksInv'
<1>1. ASSUME NEW u \in Users PROVE WorkIsRight(u)'
  <2>1. CASE /\ assignment'[u] = assignment[u] /\ submission'[u] = submission[u]
             /\ paid'[u] = paid[u] /\ owed'[u] = owed[u]
             /\ u \in reopened => u \in reopened'
    <3>1. WorkIsRight(u)
      BY DEF TasksInv
    <3>2. Tasks!Made(u)' = Tasks!Made(u)
      BY <2>1 DEF Tasks!Made
    <3> QED
      BY <2>1, <3>1, <3>2 DEF WorkIsRight
  <2> QED
    BY <2>1
<1>2. ASSUME NEW s \in Handlers PROVE RequestKnows(s)'
  <2>1. CASE organizer'[s].pc = "idle"
    BY <2>1 DEF RequestKnows, Tasks!At
  <2>2. CASE organizer'[s] = organizer[s]
    <3>1. RequestKnows(s)
      BY DEF TasksInv
    <3>2. CASE organizer[s].pc \in {"submit", "verify"}
      <4>1. Tasks!Made(organizer[s].user)' = Tasks!Made(organizer[s].user)
        BY <2>2, <3>2 DEF Tasks!Made
      <4>2. /\ assignment'[organizer[s].user] = assignment[organizer[s].user]
            /\ submission'[organizer[s].user] = submission[organizer[s].user]
        BY <2>2, <3>2
      <4> QED
        BY <2>2, <3>1, <3>2, <4>1, <4>2 DEF RequestKnows, Tasks!At
    <3>3. CASE organizer[s].pc \notin {"submit", "verify"}
      BY <2>2, <3>1, <3>3 DEF RequestKnows, Tasks!At
    <3> QED
      BY <3>2, <3>3
  <2> QED
    BY <2>1, <2>2
<1>3. ASSUME NEW s \in Handlers, NEW r \in Handlers PROVE RequestsExclude(s, r)'
  <2>1. RequestsExclude(s, r)
    BY DEF TasksInv
  <2>2. CASE organizer'[s] = organizer[s] /\ organizer'[r] = organizer[r]
    BY <2>1, <2>2 DEF RequestsExclude
  <2>3. CASE organizer'[s].pc = "idle" \/ organizer'[r].pc = "idle"
    BY <2>3 DEF RequestsExclude
  <2>4. CASE \E i \in {s, r} : \A j \in Handlers \ {i} : RequestsExclude(i, j)'
    BY <2>4 DEF RequestsExclude
  <2> QED
    BY <2>2, <2>3, <2>4
<1> QED
  BY <1>1, <1>2, <1>3 DEF TasksInv

LEMMA TasksRead ==
  ASSUME TasksInv, NEW s \in Handlers, NEW step, Tasks!Goes(s, step),
         UNCHANGED <<task, members, assignment, submission, paid, owed, reopened>>,
         \/ step.pc \notin {"submit", "verify"} /\ RequestKnows(s)'
         \/ RequestKnows(s)' /\ \A r \in Handlers \ {s} : RequestsExclude(s, r)'
  PROVE  TasksInv'
<1>1. /\ organizer' = [r \in Handlers |-> organizer'[r]] /\ organizer'[s] = step
      /\ \A r \in Handlers \ {s} : organizer'[r] = organizer[r]
  BY DEF TasksInv, WorkShape, Tasks!Goes
<1>2. \A r \in Handlers \ {s} : step.pc \notin {"submit", "verify"} => RequestsExclude(s, r)'
  BY <1>1 DEF RequestsExclude
<1>3. WorkShape'
  BY <1>1 DEF TasksInv, WorkShape
<1> QED
  BY <1>1, <1>2, <1>3, TasksWrite

LEMMA TasksReadSteps ==
  ASSUME TasksInv, NEW s \in Handlers,
         \/ \E edit \in Tasks!Edits : Tasks!ReadTask(s, edit[1], edit[2])
         \/ Tasks!EditLock(s)
         \/ \E u \in Users : Tasks!ReadForAssign(s, u)
         \/ \E u \in Workers : Tasks!ReadTransition(s, u)
         \/ \E chosen \in SUBSET Users : Tasks!Preview(s, chosen)
         \/ Tasks!BulkLock(s)
         \/ \E u \in Workers, approve \in BOOLEAN : Tasks!VerifyLock(s, u, approve)
         \/ Tasks!Abort(s)
  PROVE  TasksInv'
<1> USE DEF Tasks!At
<1>1. ASSUME NEW step, Tasks!Goes(s, step)
      PROVE  organizer'[s] = step /\ \A r \in Handlers \ {s} : organizer'[r] = organizer[r]
  BY <1>1 DEF TasksInv, WorkShape, Tasks!Goes
<1>2. RequestKnows(s) /\ Workers \subseteq Users
  BY TasksAssumption DEF TasksInv, Tasks!TaskAssumption
<1>3. ASSUME NEW edit \in Tasks!Edits, Tasks!ReadTask(s, edit[1], edit[2]) PROVE TasksInv'
  <2>1. <<edit[1], edit[2]>> = edit
    BY DEF Tasks!Edits
  <2> DEFINE step == [pc |-> "task", field |-> edit[1], value |-> edit[2]]
  <2>2. Tasks!Goes(s, step) /\ UNCHANGED <<task, members, assignment, submission, paid, owed, reopened>>
    BY <1>3 DEF Tasks!ReadTask
  <2>3. step.pc = "task" /\ step.field = edit[1] /\ step.value = edit[2]
    OBVIOUS
  <2> HIDE DEF step
  <2>4. RequestKnows(s)'
    BY <1>1, <2>1, <2>2, <2>3 DEF RequestKnows, Tasks!Edits
  <2> QED
    BY <2>2, <2>3, <2>4, TasksRead
<1>4. CASE Tasks!EditLock(s)
  <2> DEFINE step == [organizer[s] EXCEPT !.pc = "edit"]
  <2>1. /\ Tasks!Goes(s, step) /\ UNCHANGED <<task, members, assignment, submission, paid, owed, reopened>>
        /\ organizer[s].pc = "task"
    BY <1>4 DEF Tasks!EditLock
  <2>2. step.pc = "edit" /\ step.field = organizer[s].field /\ step.value = organizer[s].value
    BY <2>1
  <2> HIDE DEF step
  <2>3. RequestKnows(s)'
    BY <1>1, <1>2, <2>1, <2>2 DEF RequestKnows, Tasks!Edits
  <2> QED
    BY <2>1, <2>2, <2>3, TasksRead
<1>5. ASSUME NEW step, step.pc \in {"idle", "assign", "preview", "bulk"}, Tasks!Goes(s, step),
             UNCHANGED <<task, members, assignment, submission, paid, owed, reopened>>
      PROVE  TasksInv'
  <2>1. RequestKnows(s)'
    BY <1>1, <1>5 DEF RequestKnows
  <2> QED
    BY <1>5, <2>1, TasksRead
<1>6. ASSUME NEW u \in Users, Tasks!ReadForAssign(s, u) PROVE TasksInv'
  BY <1>5, <1>6 DEF Tasks!ReadForAssign
<1>7. ASSUME NEW u \in Workers, Tasks!ReadTransition(s, u) PROVE TasksInv'
  <2>1. RequestKnows(s)'
    BY <1>1, <1>2, <1>7 DEF RequestKnows, Tasks!ReadTransition
  <2> QED
    BY <1>7, <2>1, TasksRead DEF Tasks!ReadTransition
<1>8. ASSUME NEW chosen, Tasks!Preview(s, chosen) PROVE TasksInv'
  BY <1>5, <1>8 DEF Tasks!Preview
<1>9. CASE Tasks!BulkLock(s)
  BY <1>5, <1>9 DEF Tasks!BulkLock
<1>10. CASE Tasks!Abort(s)
  BY <1>5, <1>10 DEF Tasks!Abort, Tasks!Idle
<1>11. ASSUME NEW u \in Workers, NEW approve \in BOOLEAN, Tasks!VerifyLock(s, u, approve) PROVE TasksInv'
  <2>1. task.reward \in Rewards
    BY DEF TasksInv, WorkShape, Tasks!TaskRow
  <2>2. RequestKnows(s)'
    BY <1>1, <1>2, <1>11, <2>1 DEF RequestKnows, Tasks!VerifyLock
  <2>3. \A r \in Handlers \ {s} : RequestsExclude(s, r)'
    BY <1>1, <1>11 DEF RequestsExclude, Tasks!VerifyLock, Tasks!Locked
  <2> QED
    BY <1>11, <2>2, <2>3, TasksRead DEF Tasks!VerifyLock
<1> QED
  BY <1>3, <1>4, <1>6, <1>7, <1>8, <1>9, <1>10, <1>11

\* The steps that write no assignment.
LEMMA TasksElsewhere ==
  ASSUME TasksInv,
         \/ \E s \in Handlers : Tasks!EditCommit(s)
         \/ \E u \in Workers : Tasks!MembershipChanges(u)
         \/ UNCHANGED taskVars
  PROVE  TasksInv'
<1>1. ASSUME WorkShape', UNCHANGED <<assignment, submission, paid, owed, reopened>>,
             \A s \in Handlers : organizer'[s] = organizer[s] \/ organizer'[s].pc = "idle"
      PROVE  TasksInv'
  BY <1>1, TasksWrite
<1>2. ASSUME NEW s \in Handlers, Tasks!EditCommit(s) PROVE TasksInv'
  <2>1. \A r \in Handlers : organizer'[r] = organizer[r] \/ organizer'[r].pc = "idle"
    BY <1>2 DEF TasksInv, WorkShape, Tasks!EditCommit, Tasks!Goes, Tasks!Idle
  <2>2. task' \in Tasks!TaskRow
    <3>1. <<organizer[s].field, organizer[s].value>> \in Tasks!Edits /\ task \in Tasks!TaskRow
      BY <1>2 DEF TasksInv, WorkShape, RequestKnows, Tasks!EditCommit, Tasks!At
    <3>2. task' = [task EXCEPT ![organizer[s].field] = organizer[s].value]
      BY <1>2 DEF Tasks!EditCommit
    <3>3. CASE organizer[s].field = "active" /\ organizer[s].value \in BOOLEAN
      BY <3>1, <3>2, <3>3 DEF Tasks!TaskRow
    <3>4. CASE organizer[s].field = "kind" /\ organizer[s].value \in Tasks!Kinds
      BY <3>1, <3>2, <3>4 DEF Tasks!TaskRow
    <3>5. CASE organizer[s].field = "reward" /\ organizer[s].value \in Rewards
      BY <3>1, <3>2, <3>5 DEF Tasks!TaskRow
    <3>6. CASE organizer[s].field = "verify" /\ organizer[s].value \in BOOLEAN
      BY <3>1, <3>2, <3>6 DEF Tasks!TaskRow
    <3> QED
      BY <3>1, <3>3, <3>4, <3>5, <3>6 DEF Tasks!Edits
  <2>3. WorkShape'
    BY <1>2, <2>2 DEF TasksInv, WorkShape, Tasks!EditCommit, Tasks!Goes
  <2> QED
    BY <1>1, <1>2, <2>1, <2>3 DEF Tasks!EditCommit
<1>3. ASSUME NEW u \in Workers, Tasks!MembershipChanges(u) PROVE TasksInv'
  <2>1. WorkShape'
    BY <1>3, TasksAssumption DEF TasksInv, WorkShape, Tasks!MembershipChanges, Tasks!TaskAssumption
  <2> QED
    BY <1>1, <1>3, <2>1 DEF Tasks!MembershipChanges
<1>4. CASE UNCHANGED taskVars
  BY <1>1, <1>4 DEF TasksInv, WorkShape, taskVars
<1> QED
  BY <1>2, <1>3, <1>4

\* Assignments are made only where there was none.
LEMMA TasksAssign ==
  ASSUME TasksInv, NEW s \in Handlers, Tasks!Assign(s) \/ Tasks!BulkCommit(s)
  PROVE  TasksInv'
<1>1. PICK U : assignment' = Tasks!Assigned(U)
  BY DEF Tasks!Assign, Tasks!BulkCommit
<1>2. Tasks!Goes(s, Tasks!Idle) /\ UNCHANGED <<task, members, submission, paid, owed, reopened>>
  BY DEF Tasks!Assign, Tasks!BulkCommit
<1>3. \A u \in Users : assignment'[u] = assignment[u] \/ (assignment[u] = "none" /\ assignment'[u] = "assigned")
  BY <1>1 DEF Tasks!Assigned
<1>4. WorkShape'
  BY <1>1, <1>2 DEF TasksInv, WorkShape, Tasks!Goes, Tasks!Assigned
<1>5. ASSUME NEW u \in Users, assignment[u] = "none", assignment'[u] = "assigned" PROVE WorkIsRight(u)'
  <2>1. WorkIsRight(u)
    BY DEF TasksInv
  <2>2. Tasks!Made(u)' = Tasks!Made(u)
    BY <1>2 DEF Tasks!Made
  <2> QED
    BY <1>2, <1>5, <2>1, <2>2 DEF WorkIsRight, Tasks!AssignmentStatus
<1>6. \A r \in Handlers : organizer'[r] = organizer[r] \/ organizer'[r].pc = "idle"
  BY <1>2 DEF TasksInv, WorkShape, Tasks!Goes, Tasks!Idle
<1>7. \A r \in Handlers : organizer[r].pc \in {"submit", "verify"} =>
          assignment[organizer[r].user] # "none" /\ organizer[r].user \in Users
  BY DEF TasksInv, RequestKnows, Tasks!At
<1> QED
  BY <1>2, <1>3, <1>4, <1>5, <1>6, <1>7, TasksWrite

\* The steps that write the assignment of one user, whom no other request
\* holds.
LEMMA TasksOne ==
  ASSUME TasksInv, NEW u \in Users, WorkShape', WorkIsRight(u)',
         \A w \in Users \ {u} : /\ assignment'[w] = assignment[w] /\ submission'[w] = submission[w]
                                 /\ paid'[w] = paid[w] /\ owed'[w] = owed[w],
         reopened \subseteq reopened',
         \A r \in Handlers :
            \/ organizer'[r].pc = "idle"
            \/ organizer'[r] = organizer[r] /\ (organizer[r].pc \in {"submit", "verify"} => organizer[r].user # u)
  PROVE  TasksInv'
<1>1. \A r \in Handlers : organizer[r].pc \in {"submit", "verify"} => organizer[r].user \in Users
  BY DEF TasksInv, RequestKnows
<1>2. \A r \in Handlers : organizer'[r] = organizer[r] /\ organizer[r].pc \in {"submit", "verify"} =>
            /\ assignment'[organizer[r].user] = assignment[organizer[r].user]
            /\ submission'[organizer[r].user] = submission[organizer[r].user]
  BY <1>1
<1> QED
  BY <1>2, TasksWrite

LEMMA TasksUnheld ==
  ASSUME TasksInv, NEW u \in Users, ~Tasks!Locked(u)
  PROVE  \A r \in Handlers : organizer[r].pc \in {"submit", "verify"} => organizer[r].user # u
BY DEF Tasks!Locked

\* An accept or a start that overwrites a submission reopens it; an overdue
\* assignment was not verified.
LEMMA TasksTransition ==
  ASSUME TasksInv, NEW s \in Handlers,
         \/ Tasks!CommitTransition(s)
         \/ \E u \in Workers, k \in Keys : Tasks!SubmitLock(s, u, k, TRUE)
  PROVE  TasksInv'
<1>1. CASE Tasks!CommitTransition(s)
  <2>1. RequestKnows(s)
    BY DEF TasksInv
  <2>2. PICK u \in Users : u = organizer[s].user /\ organizer[s].seen \in {"assigned", "accepted"}
    BY <1>1, <2>1 DEF Tasks!CommitTransition, RequestKnows
  <2>3. /\ ~Tasks!Locked(u) /\ Tasks!Goes(s, Tasks!Idle)
        /\ UNCHANGED <<task, members, submission, paid>>
        /\ owed' = [owed EXCEPT ![u] = {}]
        /\ assignment' = [assignment EXCEPT ![u] = Tasks!NextStep(organizer[s].seen)]
        /\ reopened' = (IF Tasks!Made(u) = {} THEN reopened ELSE reopened \cup {u})
    BY <1>1, <2>2 DEF Tasks!CommitTransition
  <2>4. /\ WorkShape' /\ assignment'[u] \in {"accepted", "in_progress"}
        /\ \A w \in Users \ {u} : assignment'[w] = assignment[w] /\ owed'[w] = owed[w]
    BY <2>2, <2>3 DEF TasksInv, WorkShape, Tasks!Goes, Tasks!NextStep
  <2>5. \A r \in Handlers : organizer'[r] = organizer[r] \/ organizer'[r].pc = "idle"
    BY <2>3 DEF TasksInv, WorkShape, Tasks!Goes, Tasks!Idle
  <2>6. WorkIsRight(u)'
    <3>1. WorkIsRight(u)
      BY <2>2 DEF TasksInv
    <3>2. Tasks!Made(u)' = Tasks!Made(u)
      BY <2>3 DEF Tasks!Made
    <3> QED
      BY <2>3, <2>4, <3>1, <3>2 DEF WorkIsRight, Tasks!AssignmentStatus
  <2>7. reopened \subseteq reopened'
    BY <2>3
  <2> QED
    BY <2>2, <2>3, <2>4, <2>5, <2>6, <2>7, TasksUnheld, TasksOne
<1>2. ASSUME NEW u \in Workers, NEW k \in Keys, Tasks!SubmitLock(s, u, k, TRUE) PROVE TasksInv'
  <2>1. u \in Users
    BY TasksAssumption DEF Tasks!TaskAssumption
  <2>2. /\ ~Tasks!Locked(u) /\ UNCHANGED <<task, members, submission, paid, owed, reopened, organizer>>
        /\ assignment' = [assignment EXCEPT ![u] = "overdue"]
        /\ assignment[u] \in {"assigned", "accepted", "in_progress", "rejected"}
    BY <1>2 DEF Tasks!SubmitLock, Tasks!MaySubmit
  <2>3. WorkShape' /\ assignment'[u] = "overdue" /\ \A w \in Users \ {u} : assignment'[w] = assignment[w]
    BY <2>1, <2>2 DEF TasksInv, WorkShape
  <2>4. WorkIsRight(u)'
    <3>1. WorkIsRight(u)
      BY <2>1 DEF TasksInv
    <3>2. Tasks!Made(u)' = Tasks!Made(u)
      BY <2>2 DEF Tasks!Made
    <3> QED
      BY <2>2, <2>3, <3>1, <3>2 DEF WorkIsRight, Tasks!AssignmentStatus
  <2> QED
    BY <2>1, <2>2, <2>3, <2>4, TasksUnheld, TasksOne
<1> QED
  BY <1>1, <1>2

\* A submission is locked with an attempt to spare.
LEMMA TasksSubmitLock ==
  ASSUME TasksInv, NEW s \in Handlers, NEW u \in Workers, NEW k \in Keys, Tasks!SubmitLock(s, u, k, FALSE)
  PROVE  TasksInv'
<1> DEFINE step == [pc |-> "submit", user |-> u, key |-> k, kind |-> task.kind,
                    verify |-> task.verify, reward |-> task.reward]
<1>1. /\ Tasks!Goes(s, step) /\ UNCHANGED <<task, members, assignment, submission, paid, owed, reopened>>
      /\ ~Tasks!Locked(u) /\ Tasks!MaySubmit(u, k) /\ Tasks!HasAttempt(u)
  BY DEF Tasks!SubmitLock
<1>2. /\ step.pc = "submit" /\ step.user = u /\ step.key = k
      /\ step.kind = task.kind /\ step.reward = task.reward
  OBVIOUS
<1> HIDE DEF step
<1>3. organizer'[s] = step /\ \A r \in Handlers \ {s} : organizer'[r] = organizer[r]
  BY <1>1 DEF TasksInv, WorkShape, Tasks!Goes
<1>4. u \in Users /\ task.kind \in Tasks!Kinds /\ task.reward \in Rewards
  BY TasksAssumption DEF Tasks!TaskAssumption, TasksInv, WorkShape, Tasks!TaskRow
<1>5. task.kind = "quiz" => Cardinality(Tasks!Made(u)) + 1 <= MaxAttempts
  BY <1>1, TasksCount DEF Tasks!HasAttempt
<1>6. Tasks!Made(u)' = Tasks!Made(u)
  BY <1>1 DEF Tasks!Made
<1>7. RequestKnows(s)'
  BY <1>1, <1>2, <1>3, <1>4, <1>5, <1>6 DEF RequestKnows, Tasks!At, Tasks!MaySubmit
<1>8. \A r \in Handlers \ {s} : RequestsExclude(s, r)'
  BY <1>1, <1>2, <1>3 DEF RequestsExclude, Tasks!Locked
<1> QED
  BY <1>1, <1>7, <1>8, TasksRead

\* What a submission adds to the attempts.
LEMMA AttemptsAdd ==
  ASSUME NEW made \in SUBSET Keys, NEW k \in Keys, k \notin made, NEW quizzes \in SUBSET (made \cup {k}),
         Cardinality(made) + 1 <= MaxAttempts
  PROVE  Cardinality(quizzes) <= MaxAttempts
<1>1. IsFiniteSet(made)
  BY TasksAssumption, TasksCount, FS_Subset DEF Tasks!TaskAssumption
<1>2. Cardinality(made \cup {k}) = Cardinality(made) + 1 /\ IsFiniteSet(made \cup {k})
  BY <1>1, FS_AddElement
<1>3. Cardinality(quizzes) <= Cardinality(made \cup {k}) /\ IsFiniteSet(quizzes)
  BY <1>2, FS_Subset
<1>4. Cardinality(quizzes) \in Nat /\ Cardinality(made) \in Nat /\ MaxAttempts \in Nat
  BY <1>1, <1>3, FS_CardinalityType, TasksAssumption DEF Tasks!TaskAssumption
<1> QED
  BY <1>2, <1>3, <1>4

LEMMA TasksCommit ==
  ASSUME TasksInv, NEW s \in Handlers,
         \/ \E passed \in BOOLEAN, award \in Tasks!Posted : Tasks!SubmitCommit(s, passed, award)
         \/ \E award \in Tasks!Posted : Tasks!VerifyCommit(s, award)
  PROVE  TasksInv'
<1>1. RequestKnows(s) /\ WorkShape
  BY DEF TasksInv
<1>2. /\ organizer[s].pc \in {"submit", "verify"} /\ Tasks!Goes(s, Tasks!Idle)
      /\ UNCHANGED <<task, members, reopened>>
  BY DEF Tasks!SubmitCommit, Tasks!VerifyCommit, Tasks!At
<1>3. PICK u \in Users : u = organizer[s].user
  BY <1>1, <1>2 DEF RequestKnows
<1>4. WorkIsRight(u)
  BY DEF TasksInv
<1>5. \A r \in Handlers : \/ organizer'[r].pc = "idle"
                          \/ organizer'[r] = organizer[r] /\ (organizer[r].pc \in {"submit", "verify"} => organizer[r].user # u)
  <2> SUFFICES ASSUME NEW r \in Handlers, r # s
               PROVE  organizer'[r] = organizer[r] /\ (organizer[r].pc \in {"submit", "verify"} => organizer[r].user # u)
    BY <1>1, <1>2 DEF WorkShape, Tasks!Goes, Tasks!Idle
  <2>1. RequestsExclude(s, r)
    BY DEF TasksInv
  <2> QED
    BY <1>1, <1>2, <1>3, <2>1 DEF WorkShape, Tasks!Goes, RequestsExclude
<1>6. ASSUME NEW award, Tasks!Pays(u, award)
      PROVE  /\ paid' = [w \in Users |-> paid'[w]] /\ owed' = [w \in Users |-> owed'[w]]
             /\ paid'[u] = (IF paid[u] = {} THEN award ELSE paid[u]) /\ owed'[u] = award
             /\ \A w \in Users \ {u} : paid'[w] = paid[w] /\ owed'[w] = owed[w]
  BY <1>1, <1>3, <1>6 DEF Tasks!Pays, WorkShape
<1>7. ASSUME NEW passed \in BOOLEAN, NEW award \in Tasks!Posted, Tasks!SubmitCommit(s, passed, award)
      PROVE  TasksInv'
  <2> DEFINE k == organizer[s].key  kind == organizer[s].kind  status == assignment'[u]
  <2>1. /\ submission' = [submission EXCEPT ![u][k] = kind]
        /\ IF passed /\ ~organizer[s].verify
           THEN /\ assignment' = [assignment EXCEPT ![u] = "verified"]
                /\ Tasks!Pays(u, award)
           ELSE /\ assignment' = [assignment EXCEPT ![u] = IF passed THEN "submitted" ELSE "rejected"]
                /\ UNCHANGED <<paid, owed>>
        /\ organizer[s].pc = "submit"
    BY <1>3, <1>7 DEF Tasks!SubmitCommit, Tasks!At
  <2>2. /\ k \in Keys /\ kind \in Tasks!Kinds /\ submission[u][k] = "none"
        /\ assignment[u] \in {"assigned", "accepted", "in_progress", "rejected"}
        /\ kind = "quiz" => Cardinality(Tasks!Made(u)) + 1 <= MaxAttempts
    BY <1>1, <1>3, <2>1 DEF RequestKnows, Tasks!At
  <2> HIDE DEF k, kind
  <2>3. /\ assignment' = [w \in Users |-> assignment'[w]]
        /\ \A w \in Users \ {u} : assignment'[w] = assignment[w]
        /\ \/ status = "verified" /\ Tasks!Pays(u, award)
           \/ status \in {"submitted", "rejected"} /\ UNCHANGED <<paid, owed>>
    BY <1>1, <1>3, <2>1 DEF WorkShape
  <2>4. /\ submission' = [w \in Users |-> submission'[w]]
        /\ \A w \in Users \ {u} : submission'[w] = submission[w]
        /\ submission'[u] = [submission[u] EXCEPT ![k] = kind]
    BY <1>1, <1>3, <2>1 DEF WorkShape
  <2>5. submission[u] \in [Keys -> Tasks!SubmissionRow]
    BY <1>4 DEF WorkIsRight
  <2>6. /\ submission'[u] \in [Keys -> Tasks!SubmissionRow] /\ submission'[u][k] = kind
        /\ \A j \in Keys \ {k} : submission'[u][j] = submission[u][j]
    BY <2>2, <2>4, <2>5 DEF Tasks!SubmissionRow
  <2>7. Tasks!Made(u)' # {}
    BY <2>2, <2>6 DEF Tasks!Made, Tasks!Kinds
  <2>8. Cardinality({j \in Keys : submission'[u][j] = "quiz"}) <= MaxAttempts
    <3> DEFINE quizzes == {j \in Keys : submission'[u][j] = "quiz"}
    <3>1. CASE kind = "quiz"
      <4>1. quizzes \subseteq Tasks!Made(u) \cup {k} /\ k \notin Tasks!Made(u) /\ Tasks!Made(u) \subseteq Keys
        BY <2>2, <2>6 DEF Tasks!Made
      <4> HIDE DEF quizzes
      <4>2. Cardinality(quizzes) <= MaxAttempts
        BY <2>2, <3>1, <4>1, AttemptsAdd
      <4> QED
        BY <4>2 DEF quizzes
    <3>2. CASE kind # "quiz"
      <4>1. quizzes = {j \in Keys : submission[u][j] = "quiz"}
        BY <2>2, <2>6, <3>2
      <4> QED
        BY <1>4, <4>1 DEF WorkIsRight
    <3> QED
      BY <3>1, <3>2
  <2>9. WorkIsRight(u)'
    <3>1. CASE status = "verified" /\ Tasks!Pays(u, award)
      <4>1. /\ paid'[u] \in Tasks!Posted
            /\ paid'[u] = owed'[u] \/ (u \in reopened' /\ paid'[u] # {})
        BY <1>2, <1>4, <1>6, <2>2, <3>1 DEF WorkIsRight
      <4> QED
        BY <2>6, <2>7, <2>8, <3>1, <4>1 DEF WorkIsRight, Tasks!AssignmentStatus
    <3>2. CASE status \in {"submitted", "rejected"} /\ UNCHANGED <<paid, owed>>
      <4>1. paid'[u] # {} => u \in reopened'
        BY <1>2, <1>4, <2>2, <3>2 DEF WorkIsRight
      <4>2. paid'[u] \in Tasks!Posted
        BY <1>4, <3>2 DEF WorkIsRight
      <4> QED
        BY <2>6, <2>7, <2>8, <3>2, <4>1, <4>2 DEF WorkIsRight, Tasks!AssignmentStatus
    <3> QED
      BY <2>3, <3>1, <3>2
  <2>10. /\ paid' = [w \in Users |-> paid'[w]] /\ owed' = [w \in Users |-> owed'[w]]
         /\ \A w \in Users \ {u} : paid'[w] = paid[w] /\ owed'[w] = owed[w]
    BY <1>1, <1>6, <2>3 DEF WorkShape
  <2>11. WorkShape'
    BY <1>1, <1>2, <2>3, <2>4, <2>10 DEF WorkShape, Tasks!Goes
  <2> QED
    BY <1>2, <1>3, <1>5, <2>3, <2>4, <2>9, <2>10, <2>11, TasksOne
<1>8. ASSUME NEW award \in Tasks!Posted, Tasks!VerifyCommit(s, award) PROVE TasksInv'
  <2> DEFINE status == assignment'[u]
  <2>1. /\ assignment' = [assignment EXCEPT ![u] = IF organizer[s].approve THEN "verified" ELSE "rejected"]
        /\ IF organizer[s].approve THEN Tasks!Pays(u, award) ELSE UNCHANGED <<paid, owed>>
        /\ UNCHANGED submission /\ organizer[s].pc = "verify"
    BY <1>3, <1>8 DEF Tasks!VerifyCommit, Tasks!At
  <2>2. assignment[u] = "submitted"
    BY <1>1, <1>3, <2>1 DEF RequestKnows, Tasks!At
  <2>3. /\ assignment' = [w \in Users |-> assignment'[w]]
        /\ \A w \in Users \ {u} : assignment'[w] = assignment[w]
        /\ \/ status = "verified" /\ Tasks!Pays(u, award)
           \/ status = "rejected" /\ UNCHANGED <<paid, owed>>
    BY <1>1, <1>3, <2>1 DEF WorkShape
  <2>4. Tasks!Made(u)' = Tasks!Made(u)
    BY <2>1 DEF Tasks!Made
  <2>5. /\ paid'[u] \in Tasks!Posted
        /\ status = "verified" => paid'[u] = owed'[u] \/ (u \in reopened' /\ paid'[u] # {})
    BY <1>2, <1>4, <1>6, <2>2, <2>3 DEF WorkIsRight
  <2>6. status # "verified" => paid'[u] = paid[u]
    BY <2>3
  <2>7. WorkIsRight(u)'
    BY <1>2, <1>4, <2>1, <2>2, <2>3, <2>4, <2>5, <2>6 DEF WorkIsRight, Tasks!AssignmentStatus
  <2>8. /\ paid' = [w \in Users |-> paid'[w]] /\ owed' = [w \in Users |-> owed'[w]]
        /\ \A w \in Users \ {u} : paid'[w] = paid[w] /\ owed'[w] = owed[w]
    BY <1>1, <1>6, <2>3 DEF WorkShape
  <2>9. WorkShape'
    BY <1>1, <1>2, <2>1, <2>3, <2>8 DEF WorkShape, Tasks!Goes
  <2> QED
    BY <1>2, <1>3, <1>5, <2>1, <2>3, <2>7, <2>8, <2>9, TasksOne
<1> QED
  BY <1>7, <1>8

LEMMA TasksNext ==
  ASSUME TasksInv, [Tasks!Next]_taskVars
  PROVE  TasksInv'
<1>1. ASSUME NEW s \in Handlers, NEW u \in Workers, NEW k \in Keys, NEW late \in BOOLEAN, Tasks!SubmitLock(s, u, k, late)
      PROVE  TasksInv'
  BY <1>1, TasksTransition, TasksSubmitLock
<1> QED
  BY <1>1, TasksReadSteps, TasksElsewhere, TasksAssign, TasksTransition, TasksCommit DEF Tasks!Next

LEMMA TasksStart == Tasks!Init => TasksInv
<1> SUFFICES ASSUME Tasks!Init PROVE TasksInv
  OBVIOUS
<1>1. \A s \in Handlers : organizer[s].pc = "idle"
  BY DEF Tasks!Init, Tasks!Idle
<1>2. (\A s \in Handlers : RequestKnows(s)) /\ (\A s, r \in Handlers : RequestsExclude(s, r))
  BY <1>1 DEF RequestKnows, RequestsExclude, Tasks!At
<1>3. WorkShape
  BY DEF Tasks!Init, WorkShape
<1>4. ASSUME NEW u \in Users PROVE WorkIsRight(u)
  <2>1. {k \in Keys : submission[u][k] = "quiz"} = {} /\ Tasks!Made(u) = {}
    BY DEF Tasks!Init, Tasks!Made
  <2>2. Cardinality({k \in Keys : submission[u][k] = "quiz"}) <= MaxAttempts
    BY <2>1, FS_EmptySet, TasksAssumption DEF Tasks!TaskAssumption
  <2> QED
    BY <2>1, <2>2 DEF Tasks!Init, WorkIsRight, Tasks!SubmissionRow, Tasks!Posted
<1> QED
  BY <1>2, <1>3, <1>4 DEF TasksInv

LEMMA TasksAlways == CommunitySpec => []TasksInv
<1>1. CommunityInit => TasksInv
  BY TasksStart DEF CommunityInit
<1>2. TasksInv /\ [CommunityNext]_<<part, vars, governanceVars, taskVars>> => TasksInv'
  <2> SUFFICES ASSUME TasksInv, [CommunityNext]_<<part, vars, governanceVars, taskVars>> PROVE TasksInv'
    OBVIOUS
  <2>1. [Tasks!Next]_taskVars
    BY DEF CommunityNext
  <2> QED
    BY <2>1, TasksNext
<1> QED
  BY <1>1, <1>2, PTL DEF CommunitySpec

\* Verified work has been paid what was due when it was verified, which for a task
\* without a reward is nothing, and paid work stays verified, whatever is decided,
\* edited and submitted meanwhile, unless an accept or a start was committed over
\* the submission (submit_task and verify_task lock the assignment,
\* transition_assignment does not).
THEOREM VerifiedIsPaid == CommunitySpec => []PaidIsVerified
<1>1. TasksInv => PaidIsVerified
  BY TasksGive DEF PaidIsVerified
<1> QED
  BY <1>1, TasksAlways, PTL

\* Submissions of one assignment count each other's attempts (grade, under the
\* assignment's lock).
THEOREM QuizzesAreLimited == CommunitySpec => []AttemptsAreLimited
<1>1. TasksInv => AttemptsAreLimited
  BY TasksGive DEF AttemptsAreLimited
<1> QED
  BY <1>1, TasksAlways, PTL

\* The rows of all three parts keep their types: a consumed flow stays below its
\* failures, a draft has no member but its applicant, and an assignment that was
\* not begun has no submission.
THEOREM CommunityTypes == CommunitySpec => []CommunityTypeOK
<1>1. AccountsInv => TypeOK
  <2> SUFFICES ASSUME AccountTypes, SessionsFollow PROVE TypeOK
    BY DEF AccountsInv
  <2>1. \A t \in Tokens : token[t].state \in TokenState
    BY DEF AccountTypes
  <2>2. \A l \in Links : link[l].state \in LinkState
    BY DEF AccountTypes
  <2>3. \A f \in Flows : flow[f].state \in FlowState /\ flow[f].failures \in 0 .. MaxLinkFailures
    BY DEF AccountTypes
  <2> QED
    BY <2>1, <2>2, <2>3 DEF AccountTypes, SessionsFollow, TypeOK
<1>2. (part = "people" => PeopleInv) /\ AccountsInv /\ TasksInv /\ part \in {"accounts", "people", "tasks"}
         => CommunityTypeOK
  BY <1>1, TasksGive DEF PeopleInv, CommunityTypeOK
<1>3. CommunitySpec => [](part \in {"accounts", "people", "tasks"})
  <2>1. CommunityInit => part \in {"accounts", "people", "tasks"}
    BY DEF CommunityInit
  <2>2. part \in {"accounts", "people", "tasks"} /\ [CommunityNext]_<<part, vars, governanceVars, taskVars>>
           => (part \in {"accounts", "people", "tasks"})'
    BY DEF CommunityNext
  <2> QED
    BY <2>1, <2>2, PTL DEF CommunitySpec
<1> QED
  BY <1>2, <1>3, AccountsAlways, PeopleAlways, TasksAlways, PTL
=============================================================================
