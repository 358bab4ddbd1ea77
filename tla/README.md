# ConnectSphere: a TLA+ verification of the services

ConnectSphere manages events from a draft to the day itself: an organiser submits an event, a
coordinator is assigned and reviews it, venue and equipment staff approve its arrangements, a
Safety Officer clears it in an Operational Safety Check, and attendees register. It is built of
Flask services. *Atomic* services own one group of Postgres tables each and do every operation
in one transaction. *Composite* services own nothing: they answer a request by calling atomics
over HTTP, one after another, and undo one call with another when a later one fails. Paths below
are relative to `src/services/` unless they start with `src/`.

This directory holds the TLA+ models of these services, the TLC configurations that check them
on small instances, and theorems about them that TLAPS checks for every instance.

## 1. Inventory

| Part | State it keeps | Operations that change it | Makes it correct |
|---|---|---|---|
| Safety Check Record Service (`safety-check-record-service`) | review rounds and the flags of a decision | create, delete, decide, reopen, withdraw, restore | one number per round, whole decisions, no history lost |
| Event Service (`event-service`) | events with their status and history, change requests, an outbox | drafts, submission, assignment, review, clarification, amendment, progress, edits, change requests, safety moves | legal transitions, no confirmed event on unreviewed details, no decision by a stale round |
| Venue Availability Service (`venue-availability-service`) | bookings, holds, closures, closure previews, an outbox | create, update, cancel, decide, reset, hold, preview, close, reconcile | no double booking, holds and closures honoured, a closure rejects what it showed |
| Equipment Request Service (`equipment-request-service`) | requests for equipment, an outbox | create, approve, review, reset | no item reserved beyond its stock at any time |
| Registration Service (`registration-service`) | registrations, an outbox | register, withdraw | capacity, one registration per attendee |
| Notification Service (`notification-service`) | inbox, quarantine | consume a message, mark read | every message once, none lost |
| User, Venue, Equipment Services | accounts, venues, stock | create, update of single rows | row validity |
| Safety Check Service (`safety-check-service`) | none | submit, resubmit, approve, request changes, reject, re-check, withdraw and restore for a venue change | record and event agree, an approval stands while the event is Confirmed |
| Venue Booking Service (`venue-booking-service`) | none (and a dispatcher of venue notifications) | booking requests and reviews, holds, closures, reconciliation after a buffer change | the safety approval is withdrawn before a booking of a Confirmed event is edited or cancelled |
| Equipment Reservation Service (`equipment-reservation-service`) | none (and a dispatcher) | requests and reviews with a snapshot of events and stock | the snapshot is not older than the lock |
| Attendee Registration Service (`attendee-registration-service`) | none | register, withdraw | no registration for an event that is full, over or not Confirmed |
| Event Workflow Service (`event-workflow-service`) | none (and a dispatcher of event notifications) | edits and change requests with conflict checks | an edit fits the arrangements |
| Coordinator Assignment Service (`coordinator-assignment-service`) | none | assign | role and availability still hold |
| Notification delivery (four `outbox.py`, three `dispatcher.py`, `consumer.py`) | outbox rows, leases, the queue `notifications.v1` | claim, expand, freeze, publish, hold, retry, consume | at least once to the queue, once to the inbox |

How they interact. Composites call atomics by HTTP with a timeout; there is no distributed
transaction and no retry. Every atomic locks the row it changes (`FOR UPDATE`) or takes an
advisory lock (`lock_booking_writes`, the equipment lock, one per event for registrations) and
checks again under the lock what the composite checked before. Notifications leave through an
outbox written in the transaction that causes them; a dispatcher leases a row, publishes it to
RabbitMQ with confirms, and records it; the consumer stores it under its source id.

What is hard here:

- **Two requests interleave call by call.** Every read of a composite may be stale when its write
  arrives. What protects the system is only what the atomics check again.
- **Calls fail in three ways that look the same to the caller:** never delivered, executed with the
  answer lost, executed later. A handler compensates as if the call had not happened, and sometimes
  looks whether it did (`_find_decided_round`, the reload of the event in `_decide`).
- **Compensations are calls too,** refused when somebody else has moved on in the meantime.
- **Limits under a lock:** the last place, the last item, the end of a padded booking window.
- **Crash and redelivery** in the notification path.

`PROJECT.json` lists the hazards one by one, at the line where each bites.

## 2. Modules

| Module | Models | Kind |
|---|---|---|
| `SafetyIds` | the events and the ids of rounds | shared constants |
| `SafetyRecords` | the Safety Check Record Service | component |
| `EventSafety` | the Event Service's safety endpoint, edits and handovers, on every status an event can have | component |
| `EventLifecycle` | the whole Event Service: `EventSafety` with drafts, submission, review, rounds with the organiser, change requests | component |
| `Arrangements` | the status of an event's booking and equipment, as the safety workflow sees them | component |
| `SafetyCheckService` | Safety Check Service and the booking changes of Venue Booking Service, over the three above | composition |
| `VenueBookings` | the Venue Availability Service: bookings, holds, closures | component |
| `EquipmentAllocation` | stock, equipment requests and the dates of events, over four services | composition |
| `Registrations` | the Registration Service and the Attendee Registration Service, lock by lock | composition |
| `Notices` | what the notification path promises | abstract specification |
| `NotificationDelivery` | four outboxes, their dispatchers, the queue, the consumer, the inbox | composition, implements `Notices` |
| `SafetyRecordsProofs`, `EventSafetyProofs`, `EventLifecycleProofs`, `VenueBookingsProofs`, `EquipmentAllocationProofs`, `RegistrationsProofs`, `NotificationDeliveryProofs`, `SafetyCheckServiceProofs` | theorems about each of them | proofs |
| `MCEventSafety`, `MCSafetyCheckService`, `MCVenueBookings`, `MCEquipmentAllocation`, `MCNotificationDelivery` | instances: symmetry, fault models, windows, stock, kinds of notices | model checking |

### SafetyRecords

`rounds` is the table `SafetyCheck` by id, `flagged` the rounds that have rows in
`SafetyCheckFlag`, `used` the UUIDs generated so far, `clock` the database's `now()` as far as
decisions need it (a decision time identifies a decision, and `reopen_round` relies on that). Each
function of `models.py` is one transaction that locks its round or the event's latest one, so it is
one action: `CreateRound`, `DeleteRound`, `DecideRound`, `ReopenRound`, `WithdrawApproval`,
`RestoreApproval`. Where two transactions can still meet (two first rounds of an event), the unique
key makes the second one a refusal, which is what `CanCreate` says. A call that is refused changes
nothing and is no step of this module; `SafetyCheckService` makes it one. Notes, remarks, who and
why are left out.

### EventSafety

One variable, `events`. The handlers read five facts of an event's JSON history, so these stand for
it: the round of the last submission, of the last approval, the withdrawal that is the last entry
(if it is), whether attendees are owed an update, and the coordinator. `details` stands for the values of all
high-impact fields. Two history variables record what the Safety Officer approved (`reviewed`) and
which rounds moved the event (`decided`); no guard reads them. The guards are named apart from
the actions (`CanSubmit`, `CanMoveDecided`, ...) because the composition asks whether a call
is accepted. `EventsSpec` lets any caller make any call of these endpoints in any order, from any Approved event
on: the safety it shows does not depend on a well-behaved composite.

### EventLifecycle

`EventSafety` extended to the whole service, with drafts and all that comes before `Approved`. Every handler is one
transaction under the event's row lock, so again one action each; `LifecycleNext` is every call of every endpoint in
any order, by the callers the endpoint's role check lets in (what organisers call, only the owner calls). The second
variable, `requests`, has what the row holds beside the facts of `EventSafety`: the name, which stands for the
low-impact fields; the withdrawal deadline; the rounds of clarification and amendment that are not answered; the
pending change request. Answered rounds and decided change requests are never read again, and are dropped. `Details`
is given as the start and end of the event, so `Valid` can be what `validate` says of dates: in order, deadline no
later than the start. The other rules of `validate` (texts, numbers) concern one field at a time and are left out. A
draft holds nothing or valid dates.

A request is decided by `update_event_progress` or `decide_event`; both are there (`Progress`, `Decide`), and the list
`decisions` records what they decided. `decide_event` writes no entry to the action history, so it leaves a withdrawal
undoable where `Progress` does not; that has no effect, because only an Approved event has one, and it accepts none
that is. A Lead edits an event that nobody is assigned to: this is the edit by `Unassigned`. The high-impact edit of
an event takes the two round ids that the composite would pass (`Edit`).

### Arrangements

An event's booking and equipment request by their status only, and what can happen to them in the
services that own them. Whether a booking is in conflict with another event's is not decided here:
a review or a change may be refused, so it need not be taken.

### SafetyCheckService

A request in progress is a worker's record: `pc` is the step it takes next, the other fields are
the handler's local variables. One step is one downstream call, so requests interleave between
calls. `Begin...` is the read of the event with which each handler starts (a handler that would
return an error there has done nothing and does not begin). `Calls` is one write call: executed and
answered, or failed in one of the ways `Faults` allows, which the handler cannot tell apart.
`Accepts` and `Executes` are the callee. A late call sits in `late` and may execute at any time or never.
`StaffStep` and `CoordinatorStep` are what other users do meanwhile: reviews, new bookings and
equipment requests, edits, progress entries, reassignment.

A venue decision (`_review_decision`), a new booking and a new equipment request are two steps each as well: the composite
reads booking and event, and the owner, called later, does not look at the event. These handlers write nothing before
that call, so the model keeps no worker for them: `checked` has the checks that have passed for an event, and a call may
follow at any later time (`HasPassed`), by any number of users. A decision held back so can land on a booking that was
reset for safety, whose event was then confirmed; the code does not prevent it, and `ChangesWithdrawTheApproval` says
this and nothing else can happen to a Confirmed event's booking without a withdrawal. At the start no check is under way:
calls of users whose check passed before the event became Approved are not in the model. An equipment review
(`review_request`, `review_event`) looks at no event's status, so it is one step.

| Request | Code | Steps |
|---|---|---|
| submit | `submit_safety_check` | readiness, createRound, submitEvent, (deleteRound) |
| approve, changes, reject | `_decide`, `_release_venue_bookings` | findRound, readArrangements, decide, (findDecision), resetVenue, resetEquipment, moveEvent, (findMove), (reopen), release |
| recheck | `recheck_safety` | readApproval, withdraw, readVenue, saveDetails, (restore) |
| edit, cancel | `update_booking_request`, `cancel_booking_request` of Venue Booking; `withdraw_for_venue_change`, `restore_after_venue_change` | readEvent, readApproval, withdraw, readVenue, withdrawEvent, (restore), changeBooking, (readWithdrawn, reinstate, restoreEvent) |

Steps in parentheses are compensations and reconciliations. Several bookings or requests of an
event are one slot, so a reset or release of all of them is one call.

### VenueBookings

`bookings` is the table `VenueBooking` by id: a hold is a row with the status On Hold, as in the code. `closures` is
`VenueClosure`, `previews` the confirmation tokens that staff hold (a token signs the bookings it showed, so a preview
is that set), `outbox` what has been announced. Every write takes the advisory lock of `lock_booking_writes` before it
reads, so every function is one action: `CreateBooking`, `UpdateBooking`, `CancelBooking`, `ResetSafetyBookings`,
`CreateHold`, `DecideBooking`, `CreateClosure`, `Reconcile`. Previewing only reads.

Two inputs are older than the lock. The buffers of the venue come from the caller, who read them from the
Venue Service earlier: they are arbitrary arguments of each action, different ones in different calls. And the time a
transaction uses is that of its start (`now()`), or of the call (`hold_now`), before it waited: each action takes a time
`t` in `0..now`. The conflict rules are translated as they are: approved bookings are padded on both sides of the
comparison, holds and closures on one, and a hold is refused by expired holds too, if they overlap it.
The event a booking belongs to, its capacity and its requester are left out, so a reset may take any set of bookings.

A booking has at most one decision in the outbox: its first, as the insert says `ON CONFLICT DO NOTHING`
(`enqueue_booking_notification`). So a booking that was approved, edited back to Pending Review and then rejected has
been announced as approved and never as rejected. That is what the code does, and `AnnouncementsStand` says it: a
rejected booking was told of its rejection, of a closure, or of an approval it had before it was changed.

`Arrangements` and this module model the same table for different questions: there the one booking an event
relies on, by its status; here all of a venue's bookings, by their windows.

### EquipmentAllocation

`rows` is the table `EquipmentRequest`, `events` the status and dates of events, `calls` what a request of the Equipment
Reservation or the Event Workflow Service has read and not yet used. An approval is two steps. `CheckApproval` is the
composite: it reads what is pending, weighs it, and gathers which events reserve when. `Approve` is the owner behind its
allocation lock: the lines are read again, the events are those that were gathered. An edit of dates is two steps as well:
`BeginEdit` weighs them (`find_conflicts`), `SaveEdit` writes them. New dates of a Confirmed event are weighed like any
others, but such an edit is never saved: the Event Service answers that a re-check is needed. The re-check
(`BeginRecheck`, `recheck_safety`) is a request of its own with dates of its own, and it goes to the same `SaveEdit`
without weighing them; that the user interface sends what it had weighed is nothing a service looks at. Rejections, the safety reset and the creation of lines
are one transaction each; the last is accepted in any status, because the owner does not look at the event.

Statuses that make no difference are merged, as the module says. The several reads of a composite are taken as one: a
context that mixes two moments is older than a whole one, and is `fresh = FALSE` all the same as soon as anything it
read changes. `approve_requests`' docstring excludes facts of other services that change under the check, and the
model keeps book of it: `unchecked` has the events that came to hold stock on facts that were no longer true.
`StockSuffices` is about the others. Three ways into `unchecked` need no race at all, and are what to know about this
code:

- an amendment or a clarification takes an event with approved lines back to Submitted, where it releases its stock;
  others may take it; under review again the event holds it again, and nothing weighs that (`Progress`, `Resubmit`);
- the check of an edit weighs each line of the event by itself, so two lines of one item that fit one by one may not
  fit together (`WeighedSingly`); `src/services/event-workflow-service/README.md:24` describes it like that;
- a re-check moves a Confirmed event with approved lines to new dates that no service weighs (`recheck_safety`).

### Registrations

`rows` is the table `Registration`, `notices` its outbox. Unlike elsewhere, a transaction is several steps here,
because two locks meet: registering takes the event's advisory lock, looks for the attendee's row (`FindOwn`), counts
(`CountPlaces`) and writes, which may wait for the row; withdrawing takes the row's lock only. `Die` is a call that
never arrives, a process or a connection that dies: a rollback that frees every lock. `BeginRegistration` and
`BeginWithdrawal` are the composite's checks, on an event that may be under a new safety check, with another
attendance or other dates, or started by the time of the write. So what bounds the registrations is `offered`, the
largest attendance the event was ever open for.

A withdrawal that is late can withdraw a registration that was made again in the meantime on the same row: the code
does not tell the two apart, and no property here says otherwise.

### Notices and NotificationDelivery

`Notices` says what the path promises in five actions: a notice is owed, addressed once, or split once into one notice
per recipient, shown in the inbox of its addressee at most once, and from then on changed by its addressee only.

`NotificationDelivery` is the path. `rows` has the four outboxes, `line` the order in which they are served
(`available_at`), `worker` the one attempt that each dispatcher has under way, `queue` the broker's durable queue. An
envelope is its recipient; what it says, and whether its body validates, is left out. The owners differ in which
operations they offer (`OperationsOf`), what they accept as an envelope (`EnvelopeIsValid`), which fan-outs they
expand and whom their dispatcher addresses (`Addressees`); the lease protocol is the same in all of them.

| Code | Actions |
|---|---|
| transactions that cause a notice (`record_*`, `enqueue_*`) | `RecordFanOut`, `RecordNotification`, `EnqueueBooking`, ... |
| `claim`, `expand`, `freeze`, `published`, `retry`, `hold`, `release` of the owners | `Claim`, `Execute` (guarded by `Accepts`), `Release` |
| a dispatcher's attempt | `Claim`, `Lookup`, `Call`, `Publish` |
| the subprocess timeout of 50 s, the lease of 60 s, the backoff | `AttemptTimesOut`, `LeaseEnds`, `BackoffEnds` |
| faults | `ClaimAnswerLost`, `CallFails`, `AnswerLost`, `PublishHangs`, `Die`, `StrayArrives` (a request of a dead worker), `Disconnect` |
| consumer and inbox | `Process`, `Acknowledge`, `SetRead` |

`LeaseEnds` waits for the attempt that holds the lease, since the parent kills an attempt before its lease can end:
what still arrives with an old token is a stray. An inbox database that is down is a step that is not taken. What
lookups find (staff, the coordinator, names) is `world`, and changes between attempts. A registration's row that has its
own snapshot of the event is addressed without a lookup; one that has none (a direct call without display facts) is
the kind `registration.legacy`, and waits for the facts.

The refinement is `KeepsThePromise`: with a published fan-out as a split notice and the frozen envelope as the
addressee, every step of the path is a step of `Notices` or none.

## 3. What is checked

| Run | Instance | Shows |
|---|---|---|
| `events` | 1 event through its whole life, 3 round ids, 2 coordinators, 3 times, 2 names | a Confirmed event has the details and the approval that were reviewed, answers go back to who asked about what they saw, a request is decided once, dates stay in order, for any sequence of calls |
| `review_cycle` | 1 event, 2 coordinators, 2 workers, 6 requests of submit, approve, changes, reject; 1 failure of `ReviewFaults` | when reviews overlap: an event is moved as its record reads at that moment, a finished decision is not undone, and an event that waits for a decision can be given one |
| `compensation` | 1 event, 2 coordinators, 1 worker, 6 requests of all kinds, 1 failure of `HandledFaults` | record and event tell the same story when each request has ended; an approval stands; a booking of a Confirmed event changes only by a decision or a new booking that was checked before |
| `failures` | 1 event, 2 workers, 4 requests of all kinds, 2 failures of any call | numbers stay unique, decisions whole and kept, and an event never waits for the decision of a round that moved it before |
| `bookings` | 2 venues, 2 bookings or holds, 2 windows that touch and holds across them, buffers 0 and 1, 1 closure, clock to 2 | no venue is given twice, holds and closures are honoured, a closure rejects what its preview showed, approvals and announced rejections stand |
| `equipment` | 2 events, Under Review or Confirmed at the start, 2 lines of 1 or 2 units of an item with 2 units, 2 requests under way, 2 windows one after the other, 2 changes of events | events that passed a check on true facts never hold more than the stock; a selection is approved as it was checked |
| `registration` | 1 event with 1 or 2 places, 2 attendees, 2 requests under way, 2 changes of the event, 3 notices per registration | no overbooking, notices that tell the status, and no request waits for ever |
| `delivery` | 9 kinds of notices from 4 outboxes, 2 users, 2 upsets | the path implements `Notices`; nothing published is lost, one envelope per notice, held rows were never sent; every notice settles |
| `recheck_race` (violation) | 2 workers, no faults | finding 1 |
| `unknown_round` (violation) | 2 workers, 2 coordinators, no faults | finding 4 |
| `two_officers` (violation) | 2 workers, one undelivered decision | finding 2 |
| `unready` (violation) | 1 worker, one undelivered move | finding 3 |

Bounds. One event is enough for `events` and for the composition, as no handler reads another event's rows; that rows
of two events do not mix is proved (section 5). Three round ids allow a first decision, a withdrawal with its successor, and a
further submission. Four to six requests allow a full cycle of submission, decision, withdrawal and resubmission to
overlap the next one. `MaxDecisions` bounds the clock, `MaxRequests` and `MaxFailures` the instance. Round ids,
workers, details and coordinators are interchangeable there (nothing compares them but by equality, and the runs with
symmetry check no liveness), so symmetry is sound. Three times let a deadline, a start and an end be in order, and
each of them be wrong. Two rows are enough for `bookings`, as every conflict is between two rows or a row and a
closure; the proofs have any number. Its windows [0,1) and [1,3) touch, so they conflict exactly when a buffer is
passed, and holds such as [0,2) overlap both. Two lines of one or two units against a stock of two fit
together or not, in one event or across two, and the two windows make the same lines compete or not. Two changes are a
re-check and the further change that makes its lines compete. Two attendees compete for
one place, and with three notices one can register, withdraw and register again. In `delivery` an upset is a fault, a
change of what is looked up, or an act of a person, and a further notice costs two, so a run has one notice (a fan-out
has children) with two upsets, or two notices; every notice of any of the nine kinds is one of the first. Notices
meet in the line and the queue only, whose order two suffice to disturb. `CHECK_DEADLOCK FALSE` where these bounds
make an instance stop; in `events`, because an amendment that only concerns the dates may have no valid answer among
three times.

Faults. `HandledFaults` is every failure but: an undo that is not delivered (`Compensations`; the code's logs ask for
a repair by hand), a write whose answer is lost and whose handler has no way to find out (`Unreconciled`; the code says
nothing of them), and a call to the record, to the Event Service or to change or reset a booking that executes after
its caller gave it up. With these in, `ReviewAligned` or `ChangesWithdrawTheApproval` fails (section 5). `ReviewAligned`
and `ApprovalStands` also fail when requests overlap, without any fault (findings 1 and 4), so `compensation` serves one
request at a time. It is an instance of what is proved in section 5 for any number of requests, events and failures. `ReviewFaults` is every failure, late executions included, but: of the
decision and of the move themselves (finding 2), an undo that never arrives (the code logs that the round must be
reopened by hand), and a submission or a re-check's save that executes without its answer. Each of these leaves a
round decided, or deleted, under an event that waits for it. `failures` has all failures in, on the properties that
survive them.

Fairness. The safety composition and the components assume none: a handler that dies is not restarted and a
call is not retried, so they promise nothing must happen. Two specifications do.

- `NotificationDelivery`: the dispatchers and the consumer are `while True` loops, an attempt is a subprocess with a
  timeout, leases and backoffs are times that pass. So each has weak fairness (`Fairness`). `Record`, faults, changes
  and people have none. `MaxUpsets` makes faults finitely many, which `EveryNoticeSettles` needs: if every attempt
  failed for ever, nothing would be delivered. A row whose facts cannot be found is retried for ever, and the property
  exempts it (`Answerable`).
- `Registrations`: weak fairness of the statements of a transaction, strong fairness of those that wait for a lock,
  because Postgres queues the waiters of a lock. A death needs none: if it happens, it frees the locks.

Mutants. Every checked property has a mutant in `PROJECT.json`: a definition of the model changed
as a plausible bug in the code would change it (marked `mutant` in the modules), under which TLC
finds the property violated.

## 4. Findings

1. **`recheck_race`.** `recheck_safety` says that a failed save undoes the withdrawal, "so the event never reads
   'Confirmed' with its approval withdrawn" (`safety-check-service/app/routes.py:424-425`). It can read so with no failure:
   one coordinator, one officer, every call answered. Re-check A withdraws round 1 and opens round 2; re-check B, with the
   same new details, reads the event while it is still Confirmed on the old ones; A's save moves the event to Pending
   Safety Check; the officer approves round 2; B reads the latest round only now, withdraws round 2 and opens round 3. B's
   save then changes nothing, and the Event Service accepts a save of nothing in any status
   (`event-service/app/models.py:1690-1693`), so B undoes nothing. The officer's move confirms the event on round 2, which
   reads Approval Withdrawn.
2. **`two_officers`.** After a timeout, `_find_decided_round` takes any matching decision for the one that timed
   out. If it was another officer's, and has moved the event already, the failing move reopens it.
3. **`unready`.** Resets of flagged arrangements are not undone when the event cannot be moved. The reopened
   check can be approved, and the event is then Confirmed with an arrangement nobody approved.
4. **`unknown_round`.** A submission that cannot move the event deletes the round it created, "so the event isn't left
   with an open round it doesn't know about" (`safety-check-record-service/README.md:171`). It can be left with one,
   with every call answered. Officer A's request reads the event on round 1; officer B requests changes on round 1; the
   coordinator submits again, which opens round 2; A's request looks for the open round only now, finds round 2 and
   decides it. A's move is refused; handed to another coordinator, the event refuses the submission too, whose delete of
   round 2 is refused, because it is decided; and A reopens it. Round 2 is then open under an event in Safety Changes
   Requested: nothing decides it, and no further round can be opened.

Met while modelling, and not the subject of a run: `decide_round` looks only at the round, so it may
decide one of an event that is not Pending Safety Check; a booking change that read the event before its
confirmation withdraws nothing, nor does a decision on a booking or a new booking that was checked before the safety
review; the rejection of a booking that was once approved is not announced; a re-check's dates are not weighed against
the equipment; a lost answer of `changeBooking` restores the approval of a booking that did
change; `restore_approval`'s docstring says it checks that round N+1 is still the latest, which it does not.

## 5. What is proved

`SafetyRecordsProofs`, from `RecordsAssumption` alone. `RecordsInv` is the conjunction of the type
invariant, `UniqueNumbers` and `DecisionIsWhole`, and it is inductive: the number a creation or a withdrawal
computes is one past the latest, and that is past all (`NewNumberIsUnique`); the other steps
keep or remove rows and leave numbers alone (`NumbersStayUnique`). `DecidedRoundsAreKept` follows
from the invariant, because only a round without a decision time is deleted, and `DecisionIsWhole` says
those are the Pending ones.

`EventSafetyProofs`, from no assumption, about `EventsSpec`: the safety endpoint, edits and handovers.
`EventLifecycleProofs` has the same over `LifecycleSpec`, which the run `events` checks. `ConfirmedOnReviewedDetails`
is not inductive: the undo of a withdrawal takes an event from Approved to Confirmed. `EventsInv` adds that an event
whose withdrawal can still be undone is Approved, on the reviewed details, and under the approval that was withdrawn.
Every save writes one row (`SaveKeepsInv`), so each action's proof is about the row it writes. `OnlyDecisionsConfirm`
uses `EventsInv` to know that a restored approval is the approval.

`VenueBookingsProofs`, from `VenueBookingsAssumption` (windows start before they end, buffers are natural numbers):
all seven properties of the run. `NoDoubleBooking` and `HoldsAreHonoured` are two halves of `Exclusive`: rows that
occupy a venue, approved bookings and unexpired holds alike, do not overlap. It is `Exclusive` that the conflict
checks keep: a padded window that meets nothing has an unpadded one that meets nothing (`PaddingKeepsOverlap`), and a
hold that has not expired now had not at the earlier time of the check (`UnexpiredBefore`), so neither old buffers nor
an old clock can let two occupants overlap (`FreeWindow`). Steps are either a write of one row or a change of statuses
in place (`InPlace`), with one lemma each. `ApprovalsStand` needs `ClosedVenuesAreEmpty`: a closure that rejects an
approved booking is not one that was there before. For `RejectionsStand` each
action is shown to leave a notice of every decided booking that accounts for its status (`Telling`): its decision is
announced, or one was announced before.

`EventLifecycleProofs`, from `TimesAssumption` (0 is a time: a draft has no dates yet), `NamesAssumption` and
`DetailsAssumption`, about `LifecycleSpec`: all seven properties of the run. Every action writes one event's row and
what is kept beside it, so the invariant `LifecycleInv` is about such a pair (`PairOK`): the row as in
`EventSafetyProofs`, the round of clarification or amendment that the status calls for, asked by the coordinator and
about the details as they are (`AnswersOK`), the decisions that the status implies (`DecisionsOK`), and dates in order
(`DatesOK`). Each action has one lemma, that the pair it writes is good.

`RegistrationsProofs`, from `NobodyAssumption`, `CapacitiesAssumption` and `BoundsAssumption`: the three safety
properties of the run. `NoOverbooking` is not inductive: a registration is written on what was counted before.
`RegistrationsInv` says of each request which lock it holds and what stays true as long as it does (`CallOK`): the count
under the event's lock, that the attendee is not registered yet, and, of a withdrawal, the status under the row's lock.

`EquipmentAllocationProofs`, from the five assumptions of the module (finitely many lines, a stock and quantities in
the naturals, windows that start before they end): the properties of the run, and more than `StockSuffices`. That one
looks where a window begins; `NoItemIsEverOverdrawn` is about every moment, because what the checks weigh is all that
overlaps a window anywhere, which is at least what is held at one moment of it. The invariant `AllocationInv` says what a request knows
while its facts are fresh: the context of an approval has everything that reserves (`CheckedOK`), and each line of an
event to be moved by an edit fits with the others at the new dates (`MovingOK`). Of a re-check it says nothing, as its
dates were not weighed: it is never fresh, and what it moves is `unchecked`. A total is the cardinality of a set of units, so
that sums need no induction.

`NotificationDeliveryProofs`, from the four assumptions of the module (finitely many users): all safety properties of
the run, and the refinement. The invariant `Inv` is the conjunction of what holds of rows, of the line, of attempts,
of strays, of messages, of the inbox and of what is looked up. Its heart is `RequestOK`, of an attempt as of a stray: it
carries a token that no other request of the row carries (`TokensOK`), what it reports as published has been sent, and
as long as its token is the row's, what it looked up or froze is still so. So a stray of a dead worker either
does what its worker would have done or is refused. `DeliveryKeepsThePromise` maps the initial state and each of the
actions to `Notices`, one lemma per action.

`SafetyCheckServiceProofs`, from `IdsAssumption`, `RecordsAssumption` and `ServiceAssumption`, for any number of
requests, events, rounds and failures. It has five layers.

1. `Inv` says what each handler knows at each step, and that a round that a request or a late call has opened is unspent
   (no event waits or waited for it) and in one hand only (`HandsOK`). Every call of the composite is then a step of
   the record service or of the Event Service, or changes neither: `ServiceImplementsRecords` and
   `ServiceImplementsEvents` are this refinement, for any faults, and carry the theorems about the two components over to
   the composition (`ServiceKeepsTheRecord`, `ServiceKeepsTheEvents`). `NoRoundMovesAnEventTwice` is part of `HandsOK`.
2. `StampsOK` adds that each decision that has moved no event is owned by the one request, or the one belated undo, that
   made it. From it follows `DecisionsAreNotUndone`.
3. `ReviewOK` adds that the round of a request about to move its event is decided as it was asked: `MovesFollowTheRecord`.
4. `WaitOK` adds that a round is removed only by the request that opened it (`KeptOK`), that requests and events have to do
   with rounds of their own event (`PlacedOK`), and that a decision that has moved no event is in somebody's hands
   (`HeldOK`). So when all have ended, an event that waits has an open round: `WaitingEventsCanBeDecided`.
5. `SerialOK`, beside `Inv` and not on top of 2 to 4, is about requests that follow one another. `ReviewAligned` and
   `ApprovalStands` say nothing while a request is in progress, so they are far from inductive. `SerialOK` says of each
   step of a request what it finds (`InOrder`, with one part per handler: `SubmitOrder`, `DecideOrder`, `WithdrawOrder`,
   `VenueOrder`): which round of its event is the latest and how it reads, whether another is open, and the event's
   status. Of an event that no request is about it says what the two properties say at the end (`Calm`), whatever is in
   progress about other events. Each call has one lemma: executed or not, answered or not, it leaves what the step it
   leads to expects. Most of them are the compensations, which restore what they found. Coordinators and staff change
   nothing of it (`SameStory`). Hence `RequestsStayInOrder`, `CompensationAlignsTheReviews` and
   `CompensationKeepsApprovals`. `BookingsOfConfirmedEventsStay` adds that every belated call is one that changes no
   booking of a Confirmed event (`LateOK`): a cancelled event is never Confirmed again. What remains are users' decisions
   and new bookings, which the theorem names.

The theorems of layers 2 to 5 have hypotheses about which calls can fail and which requests there are. Those of layers 2
to 4 are true of the instance `review_cycle`, those of layer 5 of `compensation`. None can be dropped: without it, TLC
finds a property violated in that instance, or in one like it. They are not the weakest: `DecisionsAnswered` also
excludes failures that do no harm to one or the other property, and `FailuresAreCompensated` belated undos (a late
`delete`, `reopen` or `restore`), with which TLC finds no violation of the three properties, but `SerialOK` is not kept.

| Hypothesis | Says | Used by | Why it is needed |
|---|---|---|---|
| `DecisionsAnswered` | `decide` and `moveDecided` do not fail | layers 2, 3, 4 | finding 2: after a timeout another's decision is taken for one's own; a late move comes after its round was reopened |
| `OnlyReviews` | requests are submissions and decisions | layer 3 | a booking change may withdraw an approval between the decision and the move of the event |
| `OneAtATime` | no two requests about one event are in progress at once | layer 5 | findings 1 and 4 |
| `FailuresAreCompensated` | no call to the record or the Event Service is late; `delete`, `reopen` and `restore` are delivered; `create`, `withdraw`, `submitEvent` and `saveDetails` do not lose their answer; and a decision or move whose answer is lost can be looked up (at most one failure, or reads do not fail, or those answers are not lost) | layer 5 | each failure it excludes, but a late undo, violates `ReviewAligned` (a late `restoreEvent`: `ChangesWithdrawTheApproval`), added alone to an instance with one event, one worker, four requests and two failures |
| `ChangesArriveInTime` | a change or a reset of a booking is not late | `BookingsOfConfirmedEventsStay` | each of the two finds the event Confirmed in the meantime |
| `UndoArrives` | a `reopen` may be late or lose its answer, but is delivered | layer 4 | otherwise the round stays decided; the code logs that it must be reopened by hand |
| `SubmissionsAnswered` | `submitEvent` and `saveDetails` do not execute without an answer | layer 4 | otherwise the handler deletes the round, or restores the approval, that the event now waits for |

Only model-checked:

- `EveryRequestEnds` and `EveryNoticeSettles`: liveness under fairness, and ENABLED, are out of TLAPS' reach.
- What induction over data would show. No property here depends on it.

## 6. Plan

Done: theorems about every component, and about the composition of the safety workflow. What is left:

1. `VenueBookingService`: over `VenueBookings`, the composite's reads: buffers that change between the read and the
   decision, the update of a venue with its reconciliation in two steps. No safety of `VenueBookings` depends on them,
   as buffers are arbitrary there; what is to be said is which conflicts with a new buffer are found, and when.
2. What keeps `ReviewAligned` when reviews overlap: the weakest condition on who may decide, as a hypothesis of a theorem;
   and belated undos in layer 5 of the composite's proof.
3. The hazards of `PROJECT.json` that no property covers, or only in part: readiness that changes after it was
   checked, a booking change that read the event before its confirmation, the approval withdrawn with its answer lost,
   and what an event holds after a re-check moved it.

## 7. What is not modelled

Read-only routes and search; the statuses Pending and Expired of older bookings; HTTP framing and validation of single
fields; texts. Authentication, which each service does by itself and statelessly: actions are taken by callers of the
right role. User, Venue and Equipment Services, whose rows are independent of each other. The frontend, which only
makes requests. The Event Workflow Service's checks of new dates against venue bookings and capacities, and of an
event's requirements (`EquipmentAllocation` has the one against equipment). The bodies of notices and the checks of
their form. Changes of roles, which no code makes. Everything of section 6 not yet written; `PROJECT.json` has the
status of each part.
