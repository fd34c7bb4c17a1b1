--------------------------- MODULE DeliveryWorker ---------------------------
(***************************************************************************)
(* The worker that delivers scheduled notifications                        *)
(* (services/notification_worker.py, run by scripts/notification_worker.py, *)
(* with the sender that calls notify of services/notification.py).         *)
(*                                                                         *)
(* A run lists what is due, and then takes each item in turn: it claims it  *)
(* with a conditional update, sends, and records the outcome, each in a     *)
(* transaction of its own.  It goes on with the attempt_count of the list,  *)
(* which its own claim increments and nobody else's.                       *)
(***************************************************************************)
EXTENDS Naturals, FiniteSets

CONSTANTS
    Items,
    Workers,
    MaxAttempts,    \* max_attempts of each item
    MaxCrashes      \* a bound: crashes of worker processes

ASSUME WorkerAssumption ==
    /\ IsFiniteSet(Workers) /\ Workers # {}
    /\ MaxAttempts \in Nat \ {0} /\ MaxCrashes \in Nat

VARIABLES
    item,       \* each row: status, attempt_count, whether next_attempt_at is ahead
    sent,       \* how often each item reached the user
    worker,     \* the items left on its list with the attempts it saw, and what it is at
    crashes,
    orphans,    \* items whose worker died between the claim and the outcome
    misjudged   \* how often a send of the item took effect and yet failed

vars == <<item, sent, worker, crashes, orphans, misjudged>>

Waiting == {"pending", "retryable"}
Resting == [pc |-> "rest", list |-> {}, seen |-> [i \in Items |-> 0]]
At(w, pc) == worker[w].pc = pc
Becomes(w, state) == worker' = [worker EXCEPT ![w] = state]
\* Mutant: what may be retried is not listed again.
DueOnce == {i \in Items : item[i].status = "pending"}

Due == {i \in Items : item[i].status \in Waiting /\ ~item[i].later}

Init ==
    /\ item = [i \in Items |-> [status |-> "pending", attempts |-> 0, later |-> FALSE]]
    /\ sent = [i \in Items |-> 0]
    /\ worker = [w \in Workers |-> Resting]
    /\ crashes = 0 /\ orphans = {} /\ misjudged = [i \in Items |-> 0]

ListDue(w) ==
    /\ At(w, "rest") /\ Due # {}
    /\ Becomes(w, [pc |-> "next", list |-> Due, seen |-> [i \in Items |-> item[i].attempts]])
    /\ UNCHANGED <<item, sent, crashes, orphans, misjudged>>

\* the condition of the update: the time of the next attempt is not asked again
Claimable(i) == item[i].status \in Waiting

Claim(w, i) ==
    LET rest == worker[w].list \ {i}  seen == worker[w].seen IN
    /\ At(w, "next") /\ i \in worker[w].list
    /\ IF Claimable(i)
       THEN /\ item' = [item EXCEPT ![i].status = "processing", ![i].attempts = @ + 1]
            /\ Becomes(w, [pc |-> "send", list |-> rest, seen |-> [seen EXCEPT ![i] = @ + 1], item |-> i])
       ELSE /\ Becomes(w, [pc |-> "next", list |-> rest, seen |-> seen])
            /\ UNCHANGED item
    /\ UNCHANGED <<sent, crashes, orphans, misjudged>>

Finish(w) ==
    /\ At(w, "next") /\ worker[w].list = {}
    /\ Becomes(w, Resting)
    /\ UNCHANGED <<item, sent, crashes, orphans, misjudged>>

\* an email may be out when the rest of notify fails
Send(w, arrives, raises) ==
    LET i == worker[w].item IN
    /\ At(w, "send") /\ (arrives \/ raises)
    /\ sent' = IF arrives THEN [sent EXCEPT ![i] = @ + 1] ELSE sent
    /\ misjudged' = IF arrives /\ raises THEN [misjudged EXCEPT ![i] = @ + 1] ELSE misjudged
    /\ Becomes(w, [worker[w] EXCEPT !.pc = IF raises THEN "failed" ELSE "delivered"])
    /\ UNCHANGED <<item, crashes, orphans>>

\* muted, or no channel is on: delivered without a send
Mute(w) ==
    /\ At(w, "send")
    /\ Becomes(w, [worker[w] EXCEPT !.pc = "delivered"])
    /\ UNCHANGED <<item, sent, crashes, orphans, misjudged>>

\* Mutant: off by one.
TerminalLate(w) == worker[w].seen[worker[w].item] > MaxAttempts

Terminal(w) == worker[w].seen[worker[w].item] >= MaxAttempts

\* Mutant: a delivery leaves the row to be retried.
OutcomeToRetry(w) ==
    [item[worker[w].item] EXCEPT !.status = IF Terminal(w) THEN "failed" ELSE "retryable",
                                 !.later = ~Terminal(w)]

Outcome(w) ==
    LET row == item[worker[w].item] IN
    IF At(w, "delivered") THEN [row EXCEPT !.status = "delivered"]
    ELSE [row EXCEPT !.status = IF Terminal(w) THEN "failed" ELSE "retryable", !.later = ~Terminal(w)]

Record(w) ==
    /\ worker[w].pc \in {"delivered", "failed"}
    /\ item' = [item EXCEPT ![worker[w].item] = Outcome(w)]
    /\ Becomes(w, [pc |-> "next", list |-> worker[w].list, seen |-> worker[w].seen])
    /\ UNCHANGED <<sent, crashes, orphans, misjudged>>

BackoffEnds(i) ==
    /\ item[i].later
    /\ item' = [item EXCEPT ![i].later = FALSE]
    /\ UNCHANGED <<sent, worker, crashes, orphans, misjudged>>

\* nothing looks for an item that is "processing" again
Crash(w) ==
    /\ worker[w] # Resting /\ crashes < MaxCrashes
    /\ crashes' = crashes + 1
    /\ orphans' = IF worker[w].pc \in {"send", "delivered", "failed"}
                  THEN orphans \cup {worker[w].item} ELSE orphans
    /\ Becomes(w, Resting)
    /\ UNCHANGED <<item, sent, misjudged>>

Delivers(w) ==
    \/ ListDue(w) \/ Finish(w) \/ Record(w) \/ Mute(w)
    \/ \E i \in Items : Claim(w, i)
    \/ \E arrives, raises \in BOOLEAN : Send(w, arrives, raises)

Next ==
    \/ \E w \in Workers : Delivers(w) \/ Crash(w)
    \/ \E i \in Items : BackoffEnds(i)

\* The process runs once a minute, a send ends by its timeout, and time passes.
Fairness ==
    /\ \A w \in Workers : WF_vars(Delivers(w))
    /\ \A i \in Items : WF_vars(BackoffEnds(i))

Spec == Init /\ [][Next]_vars /\ Fairness

-----------------------------------------------------------------------------
(* Properties. *)

\* The user is told once, or once more for each send that took effect and was
\* taken for a failure: neither a crash nor another worker repeats one.
ToldOnce ==
    \A i \in Items : sent[i] <= 1 + misjudged[i]

\* A worker that goes on with the attempts of its list may grant an item one
\* attempt more than it is allowed, but no more than one for each other worker.
AttemptsOverrunIsBounded ==
    \A i \in Items : item[i].attempts <= MaxAttempts + Cardinality(Workers) - 1

\* What is due is delivered or fails for good, unless its worker died over it.
SettledUnlessOrphaned ==
    \A i \in Items : <>(item[i].status \in {"delivered", "failed"} \/ i \in orphans)

\* "Scheduled work is claimed and delivered by the notification worker with
\* retry/backoff and terminal failure state" (README.md:40).
ScheduledWorkIsSettled ==
    \A i \in Items : <>(item[i].status \in {"delivered", "failed"})
=============================================================================
