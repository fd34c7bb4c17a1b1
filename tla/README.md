# TickVendor: a TLA+ model

TickVendor sells tickets to community events and turns attendance, tasks and
other verified work into points.  It is a FastAPI/SQLAlchemy service
(`src/src`), a React client (`src/frontend`), a worker process
(`src/scripts/notification_worker.py`) and a PostgreSQL database, with a
payment provider (Paystack) outside.  All business state is in the database.
Concurrency comes from request sessions and the worker touching the same rows:
the isolation level is READ COMMITTED, a handler is one session
(`database.py:22`, `autoflush=False, expire_on_commit=False`), and the code
serialises with `SELECT ... FOR UPDATE`, unique constraints and, in places, not
at all.

Paths below are relative to `src/src/` unless they start with `src/`.

Contents: 1 inventory, 2 plan, 3 how the modules correspond to the code, 4 runs,
5 bounds, 6 fairness, 7 disagreements found, 8 what is proved, 9 what is not
modelled.

## 1. Inventory

| Component | State | Operations | Hard behaviour | Correct when | Module |
|---|---|---|---|---|---|
| **Checkout** (`services/payment.py`, sweep and release of `services/ticket.py`) | `Order.status`, `Payment.status`/`failure_reason`, `Ticket.status` | initialize, apply (webhook, verify, return page), cancel, release, sweep | five paths race to conclude one reservation; provider calls inside and outside locks; crash between call and insert | one conclusion, in all three rows; no sale without a verified charge; late money is marked for review | `Checkout`, `Reservation` |
| **Settlement** (refunds and cancellations of `services/ticket.py`) | the same rows, `Payment.provider_metadata` | refund order, refund ticket, cancel ticket, admit | stale and unlocked reads, a JSON column written as a whole, refunds that stay pending | what ended stays ended; only received money goes back | `Settlement` |
| **Inventory** (`create_order`, `update_ticket_type`) | `TicketType`, its orders and tickets | order, edit a type | reservations, releases and edits race for the last places; replays | no place sold twice or at another price | `Inventory`, `BoxOffice` |
| **Events and staff** (`event.py`, `event_staff.py`, `api/events.py`) | `Event`, `EventStaff`, stored objects | publish, unpublish, delete, cover upload/edit/removal, appoint, revoke, moderate | no lock at all; the object storage takes no part in the transaction; an edit may name any object by its URL | the cover shown is stored; a revocation is not undone by an older decision | `Events` |
| **Transfers** (`ticket_transfer.py`), **admission** (`ticket_attendance.py`, `validate_ticket`) | holder, assignment state, `TicketTransfer`, `used_at` | create, cancel, preview (expires), claim, check in, scan | two claims, claim against expiry and admission, the route's stale copy | one holder, one live link, admission of the holder | `TicketHolder`, `Possession` |
| **Entitlements** (`entitlement.py`) | `Entitlement`, `TicketEntitlement`, `EntitlementRedemption` | sync, issue, redeem, validate, deactivate | two lock orders, cached counts, revocation on an unlocked read | given no more often than allowed, never once revoked | `Redemption` |
| **Attendance** (`attendance.py`, `ticket_attendance.py`) | `Attendance`, `AttendanceVerification`, `PeerConfirmation`, points | check in/out, scan, confirm, decide | each signal commits by itself; score, award and compensation follow in transactions of their own | what is earned is verified; the organizer's word stands | `Attendance` |
| **Points** and **recognition** (`impact.py`, `activity.py`, `contribution.py`, `admin.py`, `point_policy.py`, `recognition.py`) | `ImpactTransaction`, ceilings, awards | review, award, adjust, evaluate, revoke | caps summed without a lock; an award and its points in two transactions | awards are paid; overruns bounded; a saved ceiling holds | `ImpactPoints` |
| **Opportunities** (`opportunity.py`) | `Opportunity`, registrations, activities | draft, publish, join, complete, decide | nothing is locked | overruns bounded; one decision for registration and activity | `Opportunities` |
| **Tasks** (`task.py`, `task_bulk.py`, `task_assessment.py`) | `Task`, `TaskAssignment`, submissions | edit, assign, bulk assign, accept, submit, grade, verify | accept and start without a lock; bulk preview against commit | verified work is paid what was due, once; attempts limited | `TaskWork` |
| **Governance** (`governance.py`, `api/community_management.py`) | `Community`, `Membership`, moderation of users | apply, review, join, invite, change roles, suspend, restore | two administrators leave at once; suspension against promotion; lock order | an active community keeps a verified administrator | `Governance` |
| **Accounts** (`api/auth.py`, `api/google_auth.py`, `google_identity.py`) | users, refresh sessions, reset links, Google flows | login, refresh, logout, reset, Google sign-in and link, suspension | a refresh, a reset and a suspension of one account at once | no session outlives a reset or a suspension; a token is replaced once | `Accounts` |
| **Notification delivery** (`notification_worker.py`) | `ScheduledNotification` | list, claim, send, record, retry | crash after the claim; several workers; sends that fail although they took effect | told once; attempts bounded; settled | `DeliveryWorker` |
| Archive, analytics, search; client; transport, storage, e-mail | none that others decide by | read, or transport | - | - | not modelled (section 9) |

Components meet in the database.  A ticket's status is written by Checkout,
Settlement and the two admissions and read by everything that concerns tickets;
points are written through `award_points` by attendance, tasks, opportunities,
activities and contributions, each with keys of its own; a user's `is_active` is
written by moderation and read by accounts and governance; the worker process
runs both the sweep of Checkout and the delivery of notifications.

The hazards of the code - what is hard to test in it, line by line - are listed in
`PROJECT.json`, each with the properties that watch it or the reason why none
does.

## 2. Plan

The order follows the weight of the behaviour: first money and places, then
who is admitted, then what is earned, then who may do what.

| # | Module | Composed with | Theorems | State |
|---|---|---|---|---|
| 1 | `Checkout`, abstract `Reservation` | `CheckoutProofs` | types, sale invariants, finality, refinement, no deadlock over one order | done |
| 2 | `Settlement` | extends `Checkout`; `SettlementProofs` | tickets that admit are sold, refunds are of received money, only verification revives | done |
| 3 | `Inventory`, abstract `BoxOffice` | `Venue`; `InventoryProofs` | capacity, price, one reservation per buyer, refinement | done |
| 4 | `Events` | `Venue`; `EventsProofs` | covers stay stored, revocations stand | done |
| 5 | `TicketHolder`, abstract `Possession`; `Redemption` | `Door`; `DoorProofs` | all seven properties of the run, the refinement among them | done |
| 6 | `Attendance`, `ImpactPoints`, `Opportunities` | `Earning`; `EarningProofs` | all eight properties of the run | done |
| 7 | `TaskWork`, `Governance`, `Accounts` | `Community`; `CommunityProofs` | all seven properties of the run | done |
| 8 | `DeliveryWorker` | `DeliveryWorkerProofs` | told once, bounded attempts, nothing lost but by a crash | done |
| 9 | promotions, preferences, abuse flags | - | - | left out, section 9 |

No module declares a `RECURSIVE` operator, so all can be proved about.  `Venue`, `Door`,
`Earning` and `Community` put components together that share one run: each extends one
of them and instantiates the others, and states their properties under the names that
the runs check and the theorems prove.  A module that is instantiated names its
assumption as a definition (`EventsAssumption`, `RedemptionAssumption`, ...); the
composing module assumes it (`BenefitsAssumption`, `PointsAssumption`, ...), so that TLC
evaluates it on the instance.  The MC modules only give the constants values.

## 3. How the modules correspond to the code

A step of a model is the work of one session between two points where another
session can matter: where it may wait for a row lock, where it commits, or where it
waits for the provider.  `autoflush=False` keeps all writes in the session until a
flush, so the statements of a handler are reads and locks, and its writes
become visible at the commit: the models put them there.  A read without a lock, or
the row a route has loaded before the service locks it, is a copy in the session's
record (`session[s]`, `desk[s]`, `handler[h]`), and the commit goes by the copy, because
a locking query without `populate_existing` returns the object of the identity
map with its old fields.  `Abort`, `Refuse`, `Dies` are the rollback of `get_db` at any
such point: a refusal, an exception, a crash, or the victim of a deadlock.

Handlers that commit several times (attendance, recognition, opportunities, the
worker) are several steps, and may end between any two of them.

**Checkout.**  Variables `order`, `payment`, `ticket` are the status columns;
`review` the payments whose `failure_reason` asks for a refund review; `overdue` the
orders whose `expires_at` has passed; `charge` the provider's record (external);
`lock`, `pc`, `on`, `todo` where each session is in its handler.

| Actions | Code |
|---|---|
| `SweepStart` ... `SweepCommit` | `expire_pending_orders`, run by the worker and by any page that sweeps first |
| `ApplyStart` ... `ApplyConfirm` | `apply_successful_payment` (webhook, `verify`, `verify-reference`) |
| `CancelStart` ... `CancelCommit` | `cancel_pending_checkout` |
| `InitializeStart`, `InitializeCall`, `InitializeInsert` | `initialize_payment` |
| `ReleaseLockPayment` ... `ReleaseCommit` | `release_pending_order`, after a provider call that failed |
| `TimePasses`, `ChargeMoves` | the fifteen minutes; the buyer and the provider (external) |

A locking `SELECT` with a status filter skips rows that no longer pass the
filter once it gets the lock, and its `populate_existing` re-reads the row: `Wants`
says per step which rows are locked.  The order in which a sweep visits its
candidates is not stated by the query, so it is any order.

**Reservation** is what a buyer may rely on: `place` (held, sold, free) and
`money` (none, kept, owed) of every order.  `Checkout!Promise` is the refinement
mapping.  A sweep concludes several reservations in one step, so a step of
`Reservation` may move a set of them.

**Settlement** extends Checkout with `Desk`s.  A desk remembers in `desk[d]`
what it has read (`was`, `seen`).  `note` is `Payment.provider_metadata` as far as
refunds use it; `asked` and `granted` are the provider's side of refunds (external).

| Actions | Code |
|---|---|
| `RefundStart`, `OrderFind`, `OrderAsk`, `OrderTickets`, `FlushOrder`, `OrderCommit` | `refund_order` |
| `TicketStart`, `TicketLock`, `TicketFind`, `TicketAsk`, `TicketClose`, `TicketCommit` | `refund_single_ticket`, `cancel_single_ticket`, `_recompute_order_status` |
| `NoteCommit` | what both write when the provider refuses or leaves a refund pending |
| `ScanLock`, `ScanCommit` | the ticket in `validate_ticket`; `self_check_in` admits it in the same way |
| `VerifyStart`, `VerifyCommit` | the ticket in `qr_verify` and `organizer_verify` |

**Inventory.**  `quantity`, `price`, `order`, `ticket` are columns;
`lock` is `SELECT ... FOR UPDATE` on the ticket type; `desk[s]` is what a
session is doing and has decided.  Ticket states are those the count tells
apart: `held` is `pending_payment`, `active` and `used` are themselves,
`released` a reservation that ended unpaid and `returned` a sold ticket that was
cancelled or refunded.  `OrderStart` ... `OrderInsert` are `create_order`,
`EditLock` ... `EditSave` are `update_ticket_type`.  `Conclude`, `ReturnTicket` and
`Admit` are the commits of Checkout and Settlement, which do not take the type's
lock.  `revived` is a history variable: tickets that were returned and that an
attendance verification, having read them as active, marked used again.
Capacity and price are stated of the other tickets, because no check of this
component could prevent that one.  The ceiling of a type that is not free is a
constant, since no property depends on its value; sales windows, visibility and
the event's status are reasons for `Refuse`.

**BoxOffice** is what the sale of places promises, without sessions, locks, counts or
orders: each `place` is vacant, reserved, sold or gone, of a type, for a buyer, at a
price.  `Reserve` takes free places at the price of that moment, for a buyer who has nothing of
the type reserved; `Conclude` pays or gives up the whole reservation; `Return` ends one
place; `Edit` neither takes a place away nor restates a price.  `Inventory!Promise` is the
refinement mapping: a ticket that a late verification brought back is a place gone.

**Events.**  `event` is the row as the API edits it, `object` the storage,
`staff` the appointments.  No handler locks: `Ready` and `Decides` are the read,
`Commit` and `CommitAppointment` the commit.  SQLAlchemy writes the columns whose
value differs from the one loaded, so the commit writes `Differing(values, row)`
and leaves the others to whoever committed in between; a delete and a publication
that overlap therefore both take effect.  `UploadCoverImage` stores its object
before the commit; `DropPrevious` deletes the object it replaced after it;
`CommitRaises` is the `except` of `api/events.py:117`, which deletes the new object
also when only the answer of the commit was lost.  `UpdateCover` may set any URL
(`schemas/event.py:90`), that of an object the event shows, has shown or of one
deleted since included: `managed_cover_key` recognises the https URLs of the bucket,
so that the route does not delete an object that its edit names again
(`api/events.py:211`).  `Nameable` says which keys somebody may know.  `doubtful` is a
history variable: objects that an edit has brought back, or whose upload took its
commit for failed.

**TicketHolder.**  `ticket` is holder, assignment state, status; `link` the
`ticket_transfers` rows; `attended` the users with an attendance row.  `Request(s)`
starts a transfer, a cancellation, a preview, a claim, a self check-in or a scan on
the copy the route has read; `Continue(s)` takes the lock and commits.
`EndTicket` is a commit of Settlement, `LinkRunsOut` the passing of `expires_at`; only
whether a pending link is overdue matters.  A request's copy has the columns its handler
goes by (`Seen`).

**Possession** is what a sold ticket promises, without requests, links, copies or
locks: `holder`, whether it is on offer (`offered`), its `state`, and the tickets by
which their holders let themselves in (`entered`).  An offer is taken once, by somebody
else, while the ticket is good; who was let in keeps the ticket; nobody enters by
two.  `TicketHolder!Promise` is the refinement mapping: a ticket is on offer while it
has a pending link.  `Offer` and `Withdraw` have no guard, because a former holder
may start or call off a transfer by the copy that the route has read; what
`Possession` says is that this can cost nobody a ticket.

**Redemption.**  `row` is the `TicketEntitlement`, `credential` the
`EntitlementRedemption` of each code; `given` counts what staff and self service
hand out.  `LockTicket`, `LockRow`, `RedeemSelf`, `CommitIssue` are
`redeem_entitlement`; `Resolve`, `CommitRedeem` are `validate_redemption`;
`Deactivate`, `FindAvailable`, `CommitRevoke` the two commits of a deactivation;
`ConditionsChange` the conditions and the geofence, as one choice.

**Attendance.**  `signal` is one `AttendanceVerification` per method, `confirmed`
the peers, `awarded` and `net` the points.  Every entry (`CheckIn`, `CheckOut`, `Scan`,
`CommitConfirm`, `CommitDecision`) commits its signal and goes on to `ReadSignals`,
`WriteStatus` (`calculate_attendance_confidence`), `Award`, and a decision to
`ReadPosted`, `Compensate`.

**ImpactPoints.**  `Review`, `Decide` are the reviews of activities and
contributions; `SumAwarded`, `ReadCeiling`, `PostItem` are the cap and
`award_points`; `FindDue`, `Grant`, `Pay`, `EvaluateRules`, `ReadRank`, `CommitRank` are
`evaluate_recognition`; `SaveCeiling`, `Adjust`, `Revoke` are the administrators'.
`cutOff` is a history variable: awards whose session ended before it paid them.

**Opportunities.**  Each handler is a read and a commit; `PickActivity`, `Decide`,
`AwardActivity` are the decision, which commits the registration, then the
activity, then its points.

**TaskWork.**  `EditLock`/`EditCommit` are `update_task`, `Assign`, `Preview`,
`BulkLock`/`BulkCommit` the assignments, `ReadTransition`/`CommitTransition` accepting and
starting (no lock), `SubmitLock`/`SubmitCommit` a submission with its grading,
`VerifyLock`/`VerifyCommit` the decision with `award_points`.  A task may have no
reward, which is the default: then `award_points` is not called.  With one, the
points are what `task_award_points` finds (`Awards`): the reward, or less if the
community's rule or the ceiling was lowered since, down to a transaction of zero
points, which uses up the key like any other.  `paid[u]` is what is posted with the
key, `owed[u]` a history variable: what was due at the verification that stands.  An
assignment is a row for each user, as `uq_task_assignment_assignee` has it; a second
row of one user is therefore not a state of the model.

**Governance.**  `Manage(s)` are the handlers that lock the community's row
(changes of role and status, review of applications, suspension and restoration
of a community) and the suspension of a user, which locks the user and then each
community the user administers; `Participant`, `Invite`, `Submit`, `UpdateAccess` are one
transaction each.

**Accounts.**  `token` is each `AuthSession`, `link` each reset `AuthToken`, `flow`
each `GoogleAuthFlow`.  A handler reads its token, locks the user's row, and claims
the token by an `UPDATE` that counts the rows it matched (`Rotate`, `Reset`, `Grant`).

**DeliveryWorker.**  A worker lists what is due with the attempts it sees,
claims item by item (`Claim`, an `UPDATE` with a status filter), sends, and records by
the attempts it has seen.  `Crash` ends a worker anywhere; `Mute` stands for
preferences and rules that mute an item or leave it no channel.

## 4. Runs

A property belongs to what a run asks; the list with the cfg's properties is in
`PROJECT.json`.  States are distinct states, times are of two TLC workers.

| Run | Question | Instance | Result |
|---|---|---|---|
| `one_order` | Can any interleaving of the five paths split, repeat or lose a conclusion, break the `Reservation` protocol, or wait for ever? | 1 order, 2 tickets, 2 requests, the worker | passes, 32 thousand, ½ min |
| `desks_race` | Two handlers of `ticket.py` race for the last ticket of an order while its checkout concludes; or one at a time, verifications included, works on two | 1 order, 2 tickets, 2 desks | passes, 850 thousand, 1½ min |
| `places_for_sale` | Orders, edits and releases race for the last places; or uploads, edits, removals and appointments of the event overlap | 1 type, quantity up to 2, 3 tickets, 2 buyers, 2 keys, 2 sessions, 2 prices; 2 objects, 1 candidate | passes, 320 thousand, 1 min |
| `door` | Who holds a ticket, who is let in with it (as in `Possession`?), and what is given for it | 2 tickets, 2 users, 2 links, 2 sessions; 1 ticket, 3 codes, 2 redemptions | passes, 740 thousand, 1½ min |
| `earning` | Is what is earned verified, paid, and within its bounds, where nearly nothing is locked? | 3 participants (peers, items), 2 sessions | passes, 2.7 million, 3½ min |
| `community` | Does a session outlive a reset, does a community keep its administrator, is verified work paid what was due? | 3 tokens, 2 links, 1 flow; 2 users; 1 worker, 2 keys, rewards 0 and 1; 2 handlers | passes, 2 million, 3½ min |
| `worker` | Is a notification sent once, its attempts bounded, and does it come to an end? | 1 item, 3 workers, 2 attempts, 1 crash | passes, 57 thousand |
| `shared_refund_status` | Is a payment refunded only after the provider says so? | as `desks_race` | violated |
| `refund_of_used` | Is a checked-in ticket never refunded? | as `desks_race`, with the refund of one ticket and the scan as the only services | violated |
| `attendance_checkout` | Does an approval that ran alone show in the status? | 1 attendance, 3 peers, 2 sessions | violated |
| `unverified_administrator` | Is every administrator's email verified? | 2 users, 2 sessions | violated |
| `scheduled_never_settled` | Does every scheduled notification end? | as `worker` | violated |

**Parts in one run.**  `door` (`Door`), `earning` (`Earning`), `community` (`Community`)
and `places_for_sale` (`Venue`) each check several components that share no state: what
one needs to know of another (a ticket that ends, a member who leaves, an event that is not published) is a
choice of its own that is possible in every state.  A product of such
components would only multiply their states, and every property speaks of one
part.  A variable `part`, chosen initially and never changed, says which one
moves; the others stay where they are.  (The event and its staff are two parts of
`Venue`, since neither reads the other but whether the event is available, which
moderation changes in both.)  `desks_race` holds two instances of
`Settlement` in the same way (`instance`): the race, with all desks but without
verifications, and the siblings, with all services but one desk at a time.  The
two restrictions keep the run small; the theorems of `SettlementProofs` are about
all desks with all services at once.  The components that do share rows are composed for real:
`Settlement` extends `Checkout`, and TLC interleaves the actions of both.

Only `community` checks type invariants of its parts (`CommunityTypeOK`), because they
say more than types there (no member of a draft, no submission without an
assignment, no session from a flow that has not ended).  The types of the others are
part of the invariants that are proved (section 8).

## 5. Bounds

Two sessions are the smallest number with a race.  Where a third matters it is
there: `one_order` has two requests and the worker, so that one comes between two
that conclude; `worker` has three workers, so that the overrun of the attempts by
"one for each other worker" is more than one.  In `earning` the overruns are stated by
the number of sessions and hold with two; three participants are one more than
a capacity of one and its overrun.

- Two tickets tell "the order's tickets" from "a ticket"; a second order matters
  only to a sweep of several orders.  That case is covered by the proof of the
  refinement for every set of orders, not by a run.
- `MaxAsked = 1`: the provider accepts one refund of each item.  A second one is the
  concurrency that the code makes no promise about (section 7).
- `MaxQuantity = 2` and three ticket rows: the third is the one that would oversell.
  Two keys are two concurrent requests of a buyer; the free price is the path that
  confirms at once.
- Two objects: one cover replaces another while an older request is on its way to delete
  it, and an edit brings the first back.  `Objects` is not a symmetry set: TLC is slower
  with it.
- Two links, two tickets, two users: a claim against another claim of the same
  ticket, and a holder with two tickets.  Three codes: one used, one replaced, one
  live.  `MaxRedemptions = 2`: one redemption is counted before the race for the last.
- `SwitchesUnderWay = FALSE`: an organizer does not switch
  `requires_staff_validation` while credentials are out or being asked for; if he
  does, `EveryGiftIsCounted` fails (section 7).
- `ConfirmationsRequired = 2` with three peers: two that miss each other and one more.
  `MaxNet = 1`: a decision is taken on an attendance whose points are posted, reversed, or
  not awarded yet, and on one whose points two rejections have both reversed; further
  away, where several decisions at once have drifted it, none is taken any more.
- `Worth = Cap = 1`: each contribution fills the cap.  Thresholds 1 and 2 and ranks 1 and
  3: an award whose own points bring the next one within reach.
- `Rewards = {0, 1}`: a task without a reward, one with, and one whose reward the policy has
  cut to nothing.  `Workers`: one of the two users comes and goes, submits and is paid;
  the other is there to be selected and assigned beside.
- `MaxAttempts = 1` with two keys for a quiz; two attempts for a notification, so
  that there is a retry that is not terminal.  `MaxCrashes = 1`.
- Three tokens: a login and two replacements.  `MaxResets = 1`, one flow with up to five
  link failures, as in the code.

Symmetry is used for interchangeable sessions, tickets, codes and the like, and never
in a run with a liveness property.  `CHECK_DEADLOCK FALSE` is set where the system may stop: once every
order is concluded, every link used up, every item delivered.  That nobody waits
for ever for a lock is `NoWaitCycle`, an invariant.  `places_for_sale` checks deadlock.

## 6. Fairness

Only liveness properties use it.

*Checkout.*  `SF(Continue(s))`: PostgreSQL serves lock waiters in turn, and a
provider call ends by an answer or a timeout; strong, because the step of a
waiting session is enabled again and again rather than always.
`SF(SweepStart(Worker, Order))`: `notification_worker.py` sweeps at every turn of its
loop and is restarted by its supervisor; strong, because another sweep may take
the overdue order in between.  `SF(ApplyStart)` on a paid charge: the provider
redelivers a webhook until it is answered with success, and `verify` on the
return page asks too.  No fairness is put on the buyer, on time, or on rollbacks; a
transaction that is rolled back for ever is excluded in the property itself
(`AbortsEnd`), not in the specification.

*DeliveryWorker.*  `WF(Delivers(w))`: the process runs once a minute, a send ends by its
timeout, and what the next step of a worker is does not depend on the others.
`WF(BackoffEnds(i))`: time passes.  None on `Crash` or `Mute`.  A crashed worker is
started again.

## 7. Disagreements between the code and its documents

Runs that TLC finds violated (`PROJECT.json` quotes the lines):

1. `shared_refund_status`: one JSON key carries the status of whole refunds and of
   single-ticket refunds; a settled ticket refund makes a pending whole refund
   look settled.
2. `refund_of_used`: the locking select of `refund_single_ticket` (`ticket.py:480`) returns
   the copy the route read; a ticket scanned in between is refunded.  The run offers no
   other refund: `refund_order` reads the tickets without a lock (`:564`) and can do
   the same.
3. `attendance_checkout`: the weights of the methods have no entry for the checkout
   signal, so that after a geofenced checkout the confidence cannot be computed and an
   approval never shows.
4. `unverified_administrator`: an invitation to be an administrator is accepted
   without the verified email that every other path asks for.
5. `scheduled_never_settled`: a worker that dies between claim and outcome leaves the
   row in `processing`, which nothing selects again.

Met while modelling, reachable in the models, and not stated as a run because no
document promises otherwise or another run shows the same cause:

- *Checkout, Settlement.*  Two sweeps keep their locks over all candidates and visit
  them in no stated order, so that they can wait for each other
  (`ticket.py:72`; PostgreSQL ends one).  A checkout being initialized while its
  order expires inserts a pending payment on it (`payment.py:91`).  With
  `autoflush=False` the aggregate reads the ticket's old state, so that ending the
  last ticket leaves the order open (`ticket.py:437`).  A refund noted as pending is never
  asked about again (`:518`); two requests may both ask for one (`:546`); a refund that
  fails overwrites the mark that late money needs a review (`:552`).
  An attendance verification that has read a ticket as active overwrites a
  refund (`attendance.py:468`; `KeepsEnded`).
- *TicketHolder, Redemption.*  Two doors count one holder's admissions while each locks
  only its ticket (`ticket.py:392`).  `validate_redemption` locks credential, then
  row; `redeem_entitlement` the row, then the credentials (`entitlement.py:371`):
  a deadlock that ends as a refusal.  A benefit that is activated again stays
  revoked on the tickets (`:86`).  If staff validation is switched off while a credential is
  out, a self-service redemption (`:292`) that has read the ticket's row before the
  staff's validation commits counts from its old copy: one redemption is lost
  from the count (set `SwitchesUnderWay` to TRUE in `Door` to see it).
- *Earning.*  A decision whose process ends before the compensation is not taken up
  again (`attendance.py:384`).  Two reviewers may both decide one contribution; the
  later decision stands in the row, the points of the earlier one stay
  (`contribution.py:31`).  Two rejections of one attendance at once both reverse its
  points (`attendance.py:101`): the sum is negative, and an approval later adds the
  original once.  `DecisionStands` says nothing of an approval that finds it so
  (`undisturbed`).
- *Community.*  An accept or a start that has read the assignment before the submission is
  committed over it (`task.py:139`); the work may then be verified again, and keeps the
  points of the first verification: the exception of `PaidIsVerified` (`reopened`).  A
  task that was deactivated is still assigned by a route that has
  loaded it before (`task.py:108`).  The suspension of a user locks
  the user and then communities, a change of a membership a community and then (by
  its foreign keys) the user (`governance.py:370`): again a deadlock that the database
  ends.  A user who is promoted while the account is suspended is the one exception
  of `ActiveCommunityIsRun` (`overtaken`).
- *Events.*  A publication or withdrawal that read the event before it was deleted
  leaves a deleted event published; `redeem_entitlement` looks at the status only.  Two
  edits, each of one end of the event's time, can cross start and end.  An
  assignment that changes the role answers with success while a revocation that
  overlaps it wins.  Two exceptions of `CoverIsStored` (`doubtful`), in which an event shows
  a cover that is not there: an edit gives the URL of an object that has been deleted, or
  that a request which read it as the cover is about to delete
  (`schemas/event.py:90`, `api/events.py:211`); and the `except` of an upload deletes its
  object although the commit had taken effect (`api/events.py:117`).

## 8. What is proved

Every safety property that a passing run checks is a theorem: TLAPS
checks it for every set of orders, tickets, users, sessions, workers, items and so
on.  What the proofs assume is what the modules assume of their constants, and TLC
evaluates on every run: a ticket belongs to one order; the "no such" values
(`NoSession`, `NoFlow`, ...) are outside their sets; limits are natural numbers, and at
least one where the code's validation says so; no object is named "none" or
"external", which stand for no cover and for one stored elsewhere; rewards are natural
numbers, zero included; milestones, badges and rules are rows of different tables.  Where something is
counted, the counted set is finite: users, keys, tickets, workers, the requests
under way at a time (`Sessions`, `Handlers`), and the contributions under one cap; there
is at least one request; and the capacities an organizer may save have a largest one.  `Door` fixes `SwitchesUnderWay` to FALSE (sections 5, 7).

The properties themselves are hardly ever inductive: a commit writes by what its
session read some steps before.  Each proof therefore strengthens them by what a
session at each step knows, which holds for one of four reasons: it holds the lock
of what it has read (Checkout, Inventory, TicketHolder, Redemption, Accounts,
Governance, TaskWork); what it has read never changes back (Settlement, Events,
Attendance); the commit decides again by a status filter or a unique key (Accounts,
ImpactPoints, DeliveryWorker, TicketHolder); or what overtakes it is counted as an
overrun (Opportunities, Attendance, DeliveryWorker).  Where an invariant was in doubt,
TLC checked it on the run's instance first.

**CheckoutProofs.**  `TicketsFollowOrder` is not inductive: a commit writes the
order by what the session read some steps before.  `IInv` adds, per session, which rows
its step has locked (`HoldsRows`), that what it read under a lock still holds
(`HeldOrderIsPending`, `HeldPaymentIsOpen`, `ChargeIsVerified`), and the one case in
which a sweep holds a payment whose order it gave up (`SweptOrderIsHeldOrEnded`).
A lock is taken only if nobody holds it (`TakeLocksFrame`), so no other session can
falsify these; each commit then moves order, tickets and payment together.
From `IInv`: `TypeCorrect`, `SalesAreConsistent` (tickets follow the order, sales are
paid, money is accounted for), `CancellationsEndOrders`, `ConclusionsStand` (an action
property), and `Refinement`: every step maps to a step of `Reservation` or
to a stutter.  `SoldOrdersArePaid` is part of `IInv`.  `OneOrderNeverDeadlocks`:
`HoldsInOrder` says what a session may hold of each table by the row it waits for, so that of those
who wait the one farthest in the order Payment, Order, Ticket waits for nobody who
does.  It is a theorem about the rows of one order (`OneOrderOnly`), because sweeps over several orders can
wait for each other (section 7), and the database breaks the circle.

**SettlementProofs.**  `IInv` of Checkout does not hold beside desks, which end tickets of
orders and orders of tickets.  What stays: an order that is locked and pending remains
so, a charge seen as paid was paid (`SellerInv`); a desk holds the rows its steps have behind
it, and a ticket it has found over (dead or used) is over (`Serves`, `IsRight`), since no
step but a verification leaves that set, and that one leads back into it.  From
`SettlementInv`, with all desks and all services at once - the run checks two restricted
instances: `TicketsThatAdmitAreSold`, `OnlyReceivedMoneyIsRefunded`, and the action
property `EndedStaysEnded`.

**InventoryProofs.**  `CapacityIsKept` is not inductive either: between its count and
its commit a session relies on what it has counted.  `InventoryInv` says that such a
session holds the type's lock and that its finding still suffices: the places
kept by right plus the new ones fit (`o_insert`), the new quantity still covers them and the
price changes only while there are none (`e_save`), the buyer has no
reservation.  The argument is `UndisturbedDesk`: under the lock only releases,
payments and admissions happen, and those make the counted set and the
reservations smaller.  From it: `TypesAreNotOversold`, `PricesStand`,
`ReservationsAreReused`.
`PlacesAreSold` is the refinement of `BoxOffice`.  It needs one more invariant, `SalesInv`: the
rows agree with each other (a ticket to be paid is of an order to be paid, an order is of one
type, only used tickets are revived).  The places `BoxOffice` counts are then the kept
tickets (`TakenIsKept`), so what `InventoryInv` says of a session that counted is the guard
of `Reserve` and of `Edit` at its commit (`OrderReserves`, `EditEdits`).  `ConcludesOne`: an order
that is paid or given up is the whole of its buyer's reservation, because there is no other.
No run checks this property, since evaluating it in every step of `places_for_sale` would
take that run too long; the run checks its three invariants.  `VenueCoversAreStored` and `VenueRevocationsStand` carry the
theorems of Events over to the composition that the run checks.

**EventsProofs.**  No lock protects a cover; what does is that a key is new.
`CoverInv` says of a request that is ready to commit that what it has stored is still
stored, shown by nobody and known to nobody else (`Owns`, `Apart`), that an object it
brings has been stored once, and of what it will delete that its commit shows
something else; and of a request that has committed that the event does not show what
it is about to delete, or is doubtful (`Overwrote`): nothing brings a cover back but an edit
that names it, which makes it doubtful.  From it `ShownCoversAreStored`, for any number of
uploads, edits and removals that overlap, die or fail, whatever objects the edits name.
An edit that gives the URL of the cover the event shows already does not make it
doubtful: that it is not deleted is the route's comparison.
`RevocationsStand` is an action property: a commit
that turns an appointment active must have written the column, and `AssignmentInv`
says that only a request that has read it as revoked writes it.

**DoorProofs.**  `HolderInv`: a request that holds a ticket's lock (`LockHolding`, one
per ticket) knows holder and status as they are; a link that was seen pending may be
gone, so a claim reads it again.  A ticket has one live link because a new one revokes
what it finds under the lock; one self check-in because the attendance row's unique key
decides at the commit.  From it `OneLinkEver`, `SelfAdmissionEver`, the action
properties `HandsChangeByOneLink` and `AdmissionStaysTheHolders`, and the refinement
`PossessionIsKept`, with one lemma for each kind of commit: `CreateOffers` and
`EndsWithdraw` from what a commit does to the pending links (`OneLinkEnds`,
`ItsLinksEnd`); `ClaimTakes` because under the lock the ticket is still active, the link
still pending and the holder still another than the claimant; `CheckInEnters` because a
ticket by which its holder entered has left an attendance row of that holder, with
which the insert would have collided; `ScanAdmits` because an active ticket is nobody's
admission yet.  `BenefitsInv`: a row's
count is what was given (`RowCounts`), by the holder on a copy under the ticket's lock or by
staff on the row, but never both, because staff validation does not change while a request or credential
is out.  From it `GiftsAreCounted`, `CredentialsAreSingle`, `RevokedGivesNothing`.

**EarningProofs.**  Hardly anything is locked here.
`WorkInv` (Opportunities): those registered and those who have seen a place make up at most
the largest capacity and one for each other session; a registration that nobody has
overwritten (`contested`) has one activity, decided as it is.  From it
`OverrunsStayBounded`, `DecisionsAgree`.
`PointsInv` (ImpactPoints): a key is posted once and never changed, so an award has its
points, or the session that will pay it, or was cut off; an amount about to be posted
was capped under the ceiling's lock.  From it `AwardsArePaid`, `CeilingsAreKept`.
`EvidenceInv` (Attendance): no signal is ever withdrawn (`SignalsStand`), so a status computed from signals keeps
its evidence however late it is written (`Supported`), and so do points (`PointsAreEarned`).
`CountInv`: committed confirmations and those counted too early (`Confirming`) together
stay below the bound (`FewConfirmationsWait`).
`RulingInv`: while an undisturbed decision is under way everybody else is idle, so what it
read is still so (`Ruling`); once it is made, any session that has begun since finds the
decision in the signals and has no other status to write nor award to post (`Follows`); an
approval under way finds points that are there or were reversed once, and owes as many as bring
them back (`Restores`).  That
gives `OrganizersDecisionStands`.
`CapInv` (ImpactPoints) is about the sum of all points under a cap, which several
sessions have read before any of them posts.  What is posted together with what is under way
(`Underway`, by session) exceeds the cap by no more than one contribution for each
other session: who computes an amount fits it under the cap as it is then, and the others have at
most one contribution each; posting moves an amount from one sum to the other; giving up
only lowers it.  `CapsAreOverrunBySessions` follows.  The lemmas on sums (`SumAdds`,
`SumAgrees`, `SumChanges`, `SumBounded`) say what `SumOf` over a finite set does when one
element is added or one value changes.  The library's induction over sets takes an
operator, which the provers cannot instantiate; these lemmas argue by the least
counterexample instead (`LeastNatural`, from the well-foundedness of `<` on the natural
numbers), which needs a set only.

**CommunityProofs.**  `AccountsInv`: the handlers that open or replace a session hold the user's row, and a token is
claimed by an `UPDATE` that matches once; a live session is the last of its login
and younger than the last reset.  From it `OldPasswordsEnd`, `SuspendedHaveNoSession`,
`SessionsDoNotMultiply`.  `PeopleInv`: what is about to be committed leaves an active
community a verified administrator (`ChangeKeepsAdmin`), and a suspension that was
checked takes nobody it cannot do without, unless a suspension overtook a promotion.  From it `CommunityIsRun`.
`TasksInv` relates the assignment, its submissions and the points of each user
(`WorkIsRight`): a user who has been paid and whose work is not verified was reopened, so that a
verification that finds a transaction already posted is not the first.  From it `VerifiedIsPaid`, `QuizzesAreLimited`, and with the other
invariants `CommunityTypes`.

**DeliveryWorkerProofs.**  `WorkerInv`: a claimed item has one worker
(`HoldersExclude`), and whatever may be sent again was so far only sent by sends taken for failures
(`Unsent`), which gives `TheUserIsToldOnce`.  For the attempts it counts who is stale for
an item, by the attempts it saw: near the maximum nobody becomes stale any more, and every
attempt but the last uses up one who is (`AttemptsBound`, `OverrunIsOnePerWorker`).
Of `SettledUnlessOrphaned`, which is a liveness property, the part that speaks of single
steps and states is proved too: what is settled stays settled (`SettledStands`), and an item in
`processing` is in a worker's hand, or was in that of one that crashed (`NothingElseIsLost`), so
that nothing but a crash can leave an item behind.

*Only model-checked.*  The liveness properties (`OverdueIsConcluded`,
`PaidChargeIsRecorded`, `SettledUnlessOrphaned`), since fairness and ENABLED are beyond
the prover.

## 9. What is not modelled

- *Attendance*: the flags of `evaluate_attendance_abuse` and their review, whose rows
  change no status, point or signal; the arithmetic of distances and accuracy, whose
  outcome is a choice.
- *Notifications*: scheduling has no caller outside the tests but the bulk assignment;
  preferences and rules are a choice (`Mute`).  In-app rows and e-mails written by handlers
  follow the commit or share it and decide nothing.
- *Tasks*: rewards of mode `legacy_rule`, which are the rule's points, whatever the task
  says; no code creates such a task any more (`task.py:38`).
- *Events*: edits of the other fields; promotions, which are rows that nothing else
  reads for a decision; discovery.
- `reconcile_payment` writes an audit row only; `cancel_ticket` has no caller.
- Audit rows, names, texts, times other than "overdue", amounts other than "matches" and
  "does not match"; metrics of recognition other than points.
- Archive, analytics, search and leaderboards: they read.  The React client: its
  requests are the inputs of the models, its retries repeated requests.  E-mail, push,
  storage, HTTP, the provider's adapter, migrations and seeds.
- SQLite, which the tests run on: it has no row locks.  The models are of PostgreSQL.
