------------------------------ MODULE Accounts ------------------------------
(***************************************************************************)
(* One account, its refresh sessions, its reset links, and the sign-in by   *)
(* Google that may be linked to it (api/auth.py, api/google_auth.py,        *)
(* services/google_identity.py, and moderate of a user in                   *)
(* services/governance.py).                                                *)
(*                                                                         *)
(* Every handler that issues a session or changes the password locks the    *)
(* user's row; before that it has read the token it was given, and after it *)
(* it claims that token if nobody else has.                                *)
(***************************************************************************)
EXTENDS Naturals, FiniteSets

CONSTANTS
    Tokens,         \* a bound: the refresh sessions ever opened
    Links,          \* a bound: the reset links ever sent
    Flows,          \* a bound: the sign-ins by Google ever begun
    MaxResets,      \* a bound
    Handlers        \* requests served at once

MaxLinkFailures == 5
TokenState == {"none", "live", "revoked"}
LinkState == {"none", "sent", "used"}
FlowState == {"none", "started", "called", "granted", "consumed"}

VARIABLES
    user,           \* is_active, the number of the password, whether Google is linked
    token,          \* each AuthSession: "none", "live" or "revoked", the password
                    \* and flow it was issued by, and the number of replacements
    link,           \* each reset AuthToken: "none", "sent" or "used", and the password it is for
    flow,           \* each GoogleAuthFlow: how far it is, and its link_failures
    handler

vars == <<user, token, link, flow, handler>>

Idle == [pc |-> "idle"]
At(h, pc) == handler[h].pc = pc
Goes(h, step) == handler' = [handler EXCEPT ![h] = step]
\* Mutant: nobody locks the user's row.
UserNeverLocked == FALSE

UserLocked == \E h \in Handlers : handler[h].pc \in {"issue", "rotate", "reset", "send", "suspend"}
FlowLocked(f) == \E h \in Handlers : handler[h].pc \in {"resolve", "issue"} /\ handler[h].flow = f
NoFlow == "none"

\* a session that was opened with the password has no flow
ASSUME AccountsAssumption == MaxResets \in Nat /\ NoFlow \notin Flows

NewToken == [state |-> "none", password |-> 0, replaced |-> 0, flow |-> NoFlow]

Init ==
    /\ user = [active |-> TRUE, password |-> 0, google |-> FALSE]
    /\ token = [t \in Tokens |-> NewToken]
    /\ link = [l \in Links |-> [state |-> "none", password |-> 0]]
    /\ flow = [f \in Flows |-> [state |-> "none", failures |-> 0]]
    /\ handler = [h \in Handlers |-> Idle]

-----------------------------------------------------------------------------
(* Refresh sessions. *)

\* create_refresh_session: a token that was never used
Issued(tokens, t, password, f) ==
    [tokens EXCEPT ![t] = [state |-> "live", password |-> password, replaced |-> 0, flow |-> f]]
Unused(t) == token[t].state = "none"

\* login proves the password as it is under the lock
Login(h) ==
    /\ At(h, "idle") /\ ~UserLocked /\ user.active
    /\ Goes(h, [pc |-> "issue", flow |-> NoFlow, password |-> user.password])
    /\ UNCHANGED <<user, token, link, flow>>

\* the commit of login, and of complete
Issue(h, t) ==
    LET f == handler[h].flow IN
    /\ At(h, "issue") /\ Unused(t)
    /\ f # NoFlow => flow[f].state = "granted"
    /\ token' = Issued(token, t, handler[h].password, f)
    /\ user' = IF f = NoFlow THEN user ELSE [user EXCEPT !.google = TRUE]
    /\ flow' = IF f = NoFlow THEN flow ELSE [flow EXCEPT ![f].state = "consumed"]
    /\ Goes(h, Idle)
    /\ UNCHANGED link

ReadRefresh(h, t) ==
    /\ At(h, "idle") /\ token[t].state = "live"
    /\ Goes(h, [pc |-> "refresh", token |-> t])
    /\ UNCHANGED <<user, token, link, flow>>

LockRefresh(h) ==
    /\ At(h, "refresh") /\ ~UserLocked /\ user.active
    /\ Goes(h, [handler[h] EXCEPT !.pc = "rotate"])
    /\ UNCHANGED <<user, token, link, flow>>

\* Mutant: the session is revoked without a look at whether somebody else has.
ClaimsAnyway(h) == TRUE

\* the conditional update of the session: "rowcount != 1" refuses
Claims(h) == token[handler[h].token].state = "live"

Rotate(h, t) ==
    LET old == handler[h].token IN
    /\ At(h, "rotate") /\ Claims(h) /\ Unused(t)
    /\ token' = Issued([token EXCEPT ![old].state = "revoked", ![old].replaced = @ + 1],
                       t, token[old].password, token[old].flow)
    /\ Goes(h, Idle)
    /\ UNCHANGED <<user, link, flow>>

Logout(t) ==
    /\ token[t].state = "live"
    /\ token' = [token EXCEPT ![t].state = "revoked"]
    /\ UNCHANGED <<user, link, flow, handler>>

\* Mutant: sessions are left as they are.
RevokeNone(tokens) == tokens

RevokeAll(tokens) ==
    [t \in Tokens |-> IF tokens[t].state = "live" THEN [tokens[t] EXCEPT !.state = "revoked"] ELSE tokens[t]]

-----------------------------------------------------------------------------
(* Password resets. *)

\* request_password_reset; the minute between two requests is not modelled
RequestReset(h) ==
    /\ At(h, "idle") /\ ~UserLocked /\ user.active
    /\ Goes(h, [pc |-> "send"])
    /\ UNCHANGED <<user, token, link, flow>>

SendLink(h, l) ==
    /\ At(h, "send") /\ link[l].state = "none"
    /\ link' = [link EXCEPT ![l] = [state |-> "sent", password |-> user.password]]
    /\ Goes(h, Idle)
    /\ UNCHANGED <<user, token, flow>>

ReadReset(h, l) ==
    /\ At(h, "idle") /\ link[l].state = "sent" /\ user.password < MaxResets
    /\ Goes(h, [pc |-> "confirm", link |-> l])
    /\ UNCHANGED <<user, token, link, flow>>

LockReset(h) ==
    /\ At(h, "confirm") /\ ~UserLocked
    /\ Goes(h, [handler[h] EXCEPT !.pc = "reset"])
    /\ UNCHANGED <<user, token, link, flow>>

ClaimsLink(h) == link[handler[h].link].state = "sent"

\* every outstanding link and session goes with the old password
Reset(h) ==
    /\ At(h, "reset") /\ ClaimsLink(h)
    /\ user' = [user EXCEPT !.password = @ + 1]
    /\ link' = [l \in Links |-> IF link[l].state = "sent" THEN [link[l] EXCEPT !.state = "used"] ELSE link[l]]
    /\ token' = RevokeAll(token)
    /\ Goes(h, Idle)
    /\ UNCHANGED flow

-----------------------------------------------------------------------------
(* Sign-in by Google, of whom an account has the email. *)

Begin(f) ==
    /\ flow[f].state = "none"
    /\ flow' = [flow EXCEPT ![f].state = "started"]
    /\ UNCHANGED <<user, token, link, handler>>

\* the callback claims the flow, and then exchanges the code for the identity
ClaimCallback(h, f) ==
    /\ At(h, "idle") /\ flow[f].state = "started"
    /\ flow' = [flow EXCEPT ![f].state = "called"]
    /\ Goes(h, [pc |-> "exchange", flow |-> f])
    /\ UNCHANGED <<user, token, link>>

Grant(h) ==
    /\ At(h, "exchange")
    /\ flow' = [flow EXCEPT ![handler[h].flow].state = "granted"]
    /\ Goes(h, Idle)
    /\ UNCHANGED <<user, token, link>>

MayComplete(f) == flow[f].state = "granted" /\ flow[f].failures < MaxLinkFailures

\* complete locks the flow, and resolve_identity the user
LockFlow(h, f) ==
    /\ At(h, "idle") /\ ~FlowLocked(f) /\ MayComplete(f)
    /\ Goes(h, [pc |-> "resolve", flow |-> f])
    /\ UNCHANGED <<user, token, link, flow>>

\* the identity is known, or the account's password links it; a password that
\* was given in vain is counted
Resolve(h, proof) ==
    LET f == handler[h].flow IN
    /\ At(h, "resolve") /\ ~UserLocked
    /\ IF user.active /\ (user.google \/ proof = "right")
       THEN /\ Goes(h, [pc |-> "issue", flow |-> f, password |-> user.password])
            /\ UNCHANGED flow
       ELSE /\ flow' = IF proof = "absent" THEN flow ELSE [flow EXCEPT ![f].failures = @ + 1]
            /\ Goes(h, Idle)
    /\ UNCHANGED <<user, token, link>>

-----------------------------------------------------------------------------
(* Moderation, and failures. *)

LockSuspend(h) ==
    /\ At(h, "idle") /\ ~UserLocked /\ user.active
    /\ Goes(h, [pc |-> "suspend"])
    /\ UNCHANGED <<user, token, link, flow>>

Suspend(h) ==
    /\ At(h, "suspend")
    /\ user' = [user EXCEPT !.active = FALSE]
    /\ token' = RevokeAll(token)
    /\ Goes(h, Idle)
    /\ UNCHANGED <<link, flow>>

Restore ==
    /\ ~user.active /\ ~UserLocked
    /\ user' = [user EXCEPT !.active = TRUE]
    /\ UNCHANGED <<token, link, flow, handler>>

\* a refusal, the mail or the exchange failed, or the process died
Abort(h) ==
    /\ handler[h] # Idle /\ Goes(h, Idle)
    /\ UNCHANGED <<user, token, link, flow>>

Next ==
    \/ \E h \in Handlers :
         \/ Login(h) \/ LockRefresh(h) \/ RequestReset(h) \/ LockReset(h) \/ Reset(h)
         \/ Grant(h) \/ LockSuspend(h) \/ Suspend(h) \/ Abort(h)
         \/ \E t \in Tokens : Issue(h, t) \/ ReadRefresh(h, t) \/ Rotate(h, t)
         \/ \E l \in Links : SendLink(h, l) \/ ReadReset(h, l)
         \/ \E f \in Flows : ClaimCallback(h, f) \/ LockFlow(h, f)
         \/ \E proof \in {"right", "wrong", "absent"} : Resolve(h, proof)
    \/ \E t \in Tokens : Logout(t)
    \/ \E f \in Flows : Begin(f)
    \/ Restore

Spec == Init /\ [][Next]_vars

-----------------------------------------------------------------------------
(* Properties. *)

\* The rows keep their types; a flow that has ended, and only that, has issued,
\* and no flow counts more failures than it allows.
TypeOK ==
    /\ user \in [active : BOOLEAN, password : 0 .. MaxResets, google : BOOLEAN]
    /\ \A t \in Tokens :
         /\ token[t].state \in TokenState
         /\ token[t].flow # NoFlow => flow[token[t].flow].state = "consumed"
    /\ \A l \in Links : link[l].state \in LinkState
    /\ \A f \in Flows :
         /\ flow[f].state \in FlowState
         /\ flow[f].failures \in 0 .. MaxLinkFailures

\* After a reset there is no way back to the old password: no session and no
\* link that was issued before it is good any more, whatever was under way.
ResetEndsTheOldPassword ==
    /\ \A t \in Tokens : token[t].state = "live" => token[t].password = user.password
    /\ \A l \in Links : link[l].state = "sent" => link[l].password = user.password

\* A suspended account has no session, and gets none from a login, a refresh or
\* a sign-in by Google that was under way.
SuspendedIsSignedOut ==
    ~user.active => \A t \in Tokens : token[t].state # "live"

\* A session is replaced once, and a sign-in by Google opens one chain of
\* sessions: requests repeated at the same moment do not multiply them.
OneSessionForEach ==
    /\ \A t \in Tokens : token[t].replaced <= 1
    /\ \A f \in Flows : Cardinality({t \in Tokens : token[t].flow = f /\ token[t].state = "live"}) <= 1
=============================================================================
