------------------------- MODULE SafetyCheckService ------------------------
(***************************************************************************)
(* The Safety Check Service, with the part of the Venue Booking Service    *)
(* that goes through it.  Both are stateless composites: a request reads   *)
(* and writes the records, the event and the arrangements by one HTTP call *)
(* after another, there is no distributed transaction, and what one call   *)
(* did is undone by another when a later call fails.                       *)
(*                                                                         *)
(* A request being served is a worker's record: `pc` names the step it is  *)
(* about to take, the other fields are the handler's local variables.  A   *)
(* step is one downstream call, so the calls of concurrent requests        *)
(* interleave freely.  A write call can fail in three ways, each of which  *)
(* the handler sees as the same DownstreamTimeout or DownstreamError:      *)
(*   undelivered  the callee never got it                                  *)
(*   lost         the callee executed it and the answer was lost           *)
(*   late         the caller stopped waiting, the callee executes it later *)
(*                or never                                                 *)
(***************************************************************************)
EXTENDS SafetyRecords, EventSafety, Arrangements

CONSTANTS Workers,      \* requests that can be in progress at once
          Kinds,        \* the requests this instance makes, \subseteq AllKinds
          Faults,       \* <<failure, call>>: the calls that can fail, and how
          MaxRequests,  \* bound: requests made in all
          MaxFailures   \* bound: failures in all

AllKinds == {"submit", "approve", "changes", "reject", "recheck", "edit", "cancel"}
AllFailures == {"undelivered", "lost", "late"}
RecordCalls == {"create", "delete", "decide", "reopen", "withdraw", "restore"}
EventCalls == {"submitEvent", "moveDecided", "withdrawEvent", "restoreEvent", "saveDetails"}
BookingCalls == {"resetBooking", "resetEquipment", "releaseBooking", "changeBooking"}
AllCalls == RecordCalls \cup EventCalls \cup BookingCalls
            \cup {"read", "withdrawForVenueChange"}

ASSUME ServiceAssumption ==
    /\ Kinds \subseteq AllKinds
    /\ Faults \subseteq AllFailures \X AllCalls
    /\ MaxRequests \in Nat
    /\ MaxFailures \in Nat

VARIABLES requests,  \* the request each worker serves
          late,      \* calls their caller gave up on that may still execute
          checked,   \* <<event, check>>: the checks that users' requests have passed
          started,   \* requests begun so far
          failures   \* failures so far

serviceVars == <<recordVars, events, arrangementVars>>
vars == <<serviceVars, requests, late, checked, started, failures>>

VenueChanges == {"edit", "cancel"}
Decisions    == {"approve", "changes", "reject"}

RecordStatusOf(kind) == CASE kind = "approve" -> "Safety Approved"
                          [] kind = "changes" -> "Changes Requested"
                          [] kind = "reject"  -> "Safety Rejected"
EventStatusOf(kind)  == CASE kind = "approve" -> "Confirmed"
                          [] kind = "changes" -> "Safety Changes Requested"
                          [] kind = "reject"  -> "Cancelled"

NoRequest ==
    [kind |-> "none", pc |-> "idle", event |-> NoRound, by |-> NoRound,
     round |-> NoRound, next |-> NoRound, stamp |-> 0,
     venue |-> FALSE, flags |-> {}, details |-> NoRound, waited |-> TRUE]

ServiceInit ==
    /\ RecordsInit /\ EventsInit /\ ArrangementsInit
    /\ requests = [w \in Workers |-> NoRequest]
    /\ late = {}
    /\ checked = {}
    /\ started = 0
    /\ failures = 0

----------------------------------------------------------------------------
(* What the callees do with a call, and whether they accept it.            *)

Accepts(m) ==
    CASE m.call = "create"        -> CanCreate(m.event)
      [] m.call = "delete"        -> CanDelete(m.round)
      [] m.call = "decide"        -> CanDecide(m.round)
      [] m.call = "reopen"        -> CanReopen(m.round, m.stamp)
      [] m.call = "withdraw"      -> CanWithdraw(m.round)
      [] m.call = "restore"       -> CanRestore(m.round, m.next)
      [] m.call = "submitEvent"   -> CanSubmit(m.event, m.by)
      [] m.call = "moveDecided"   -> CanMoveDecided(m.event, m.round, m.status, m.venue)
      [] m.call = "withdrawEvent" -> CanWithdrawEvent(m.event, m.by, m.round)
      [] m.call = "restoreEvent"  -> CanRestoreEvent(m.event, m.by, m.round)
      [] m.call = "saveDetails"   -> CanSaveDetails(m.event, m.by, m.details, m.round)
      [] m.call = "changeBooking" -> CanChangeBooking(m.event, m.status)
      [] OTHER                    -> TRUE

RecordCall(m) ==
    /\ \/ m.call = "create"   /\ \E i \in RoundIds : CreateRound(m.event, i)
       \/ m.call = "delete"   /\ DeleteRound(m.round)
       \/ m.call = "decide"   /\ DecideRound(m.round, m.status)
       \/ m.call = "reopen"   /\ ReopenRound(m.round, m.stamp)
       \/ m.call = "withdraw" /\ m.opens /\ \E i \in RoundIds : WithdrawApproval(m.round, i)
       \/ m.call = "withdraw" /\ ~m.opens /\ WithdrawApproval(m.round, NoRound)
       \/ m.call = "restore"  /\ RestoreApproval(m.round, m.next)
    /\ UNCHANGED <<events, arrangementVars>>

EventCall(m) ==
    /\ \/ m.call = "submitEvent"   /\ SubmitEvent(m.event, m.by, m.round)
       \/ m.call = "moveDecided"   /\ MoveDecided(m.event, m.round, m.status, m.venue)
       \/ m.call = "withdrawEvent" /\ WithdrawEvent(m.event, m.by, m.round)
       \/ m.call = "restoreEvent"  /\ RestoreEvent(m.event, m.by, m.round)
       \/ m.call = "saveDetails"   /\ SaveDetails(m.event, m.by, m.details, m.round, m.next)
    /\ UNCHANGED <<recordVars, arrangementVars>>

BookingCall(m) ==
    /\ \/ m.call = "resetBooking"   /\ ResetBooking(m.event)
       \/ m.call = "resetEquipment" /\ ResetEquipment(m.event)
       \/ m.call = "releaseBooking" /\ ReleaseBooking(m.event)
       \/ m.call = "changeBooking"  /\ ChangeBooking(m.event, m.status)
    /\ UNCHANGED <<recordVars, events>>

Executes(m) ==
    IF Accepts(m) THEN RecordCall(m) \/ EventCall(m) \/ BookingCall(m)
                  ELSE UNCHANGED serviceVars

(* The answers to a call, read off what it did.                            *)
NewRound == CHOOSE i \in used' : i \notin used
NewStamp == clock'

Becomes(w, r) == requests' = [requests EXCEPT ![w] = r]

(* Worker w makes call m; it goes on with done, refused or failed.         *)
Calls(w, m, done, refused, failed) ==
    \/ /\ Executes(m)
       /\ Becomes(w, IF Accepts(m) THEN done ELSE refused)
       /\ UNCHANGED <<late, failures>>
    \/ /\ failures < MaxFailures
       /\ failures' = failures + 1
       /\ \/ <<"undelivered", m.call>> \in Faults /\ UNCHANGED <<serviceVars, late>>
          \/ <<"lost", m.call>> \in Faults /\ Executes(m) /\ UNCHANGED late
          \/ <<"late", m.call>> \in Faults /\ late' = late \cup {m} /\ UNCHANGED serviceVars
       /\ Becomes(w, failed)

At(w, pc) == requests[w].pc = pc

To(w, pc) == [requests[w] EXCEPT !.pc = pc]

(* A step of w that only reads the services.                               *)
Reads(w, next) == Becomes(w, next) /\ UNCHANGED <<serviceVars, late, started, failures>>

(* A reconciling or compensating read of w fails; w goes on with next.     *)
ReadFails(w, next) ==
    /\ failures < MaxFailures
    /\ <<"undelivered", "read">> \in Faults
    /\ failures' = failures + 1
    /\ Becomes(w, next)
    /\ UNCHANGED <<serviceVars, late, started>>

Done == NoRequest

(* A new request: its first step has read the event, as every handler does *)
(* before it writes anything.                                              *)
New(e, kind, pc) == [NoRequest EXCEPT !.kind = kind, !.pc = pc, !.event = e]

Begins(w, r) ==
    /\ At(w, "idle")
    /\ r.kind \in Kinds
    /\ started < MaxRequests
    /\ started' = started + 1
    /\ Becomes(w, r)
    /\ UNCHANGED <<serviceVars, late, failures>>

----------------------------------------------------------------------------
(* submit_safety_check: POST /safety-checks and /safety-checks/resubmit.   *)

BeginSubmit(w, e, c) ==
    /\ Assigned(e, c)
    /\ Status(e) \in {"Approved", "Safety Changes Requested"}
    /\ Begins(w, [New(e, "submit", "readiness") EXCEPT !.by = c])

CheckReadiness(w) ==
    /\ At(w, "readiness")
    /\ Reads(w, IF Ready(requests[w].event) THEN To(w, "createRound") ELSE Done)

CallCreate(w) ==
    /\ At(w, "createRound")
    /\ Calls(w, [call |-> "create", event |-> requests[w].event],
             [To(w, "submitEvent") EXCEPT !.round = NewRound], Done, Done)
    /\ UNCHANGED started

SubmitEventUncompensated(w) ==  \* mutant: the round stays when the event cannot be moved
    /\ At(w, "submitEvent")
    /\ Calls(w, [call |-> "submitEvent", event |-> requests[w].event,
                 by |-> requests[w].by, round |-> requests[w].round], Done, Done, Done)
    /\ UNCHANGED started

CallSubmitEvent(w) ==
    /\ At(w, "submitEvent")
    /\ Calls(w, [call |-> "submitEvent", event |-> requests[w].event,
                 by |-> requests[w].by, round |-> requests[w].round],
             Done, To(w, "deleteRound"), To(w, "deleteRound"))
    /\ UNCHANGED started

CallDelete(w) ==
    /\ At(w, "deleteRound")
    /\ Calls(w, [call |-> "delete", round |-> requests[w].round], Done, Done, Done)
    /\ UNCHANGED started

SubmitStep(w) == CheckReadiness(w) \/ CallCreate(w) \/ CallSubmitEvent(w) \/ CallDelete(w)

----------------------------------------------------------------------------
(* _decide: approve, request-changes and reject.                           *)

BeginDecide(w, e, kind, flags) ==
    /\ Status(e) = "Pending Safety Check"
    /\ flags # {} => kind = "changes"
    /\ Begins(w, [New(e, kind, "findRound") EXCEPT
                     !.venue = (kind = "approve" /\ events[e].baseline = "recorded"), !.flags = flags])

FindOpenRound(w) ==
    /\ At(w, "findRound")
    /\ \/ \E i \in RoundsOf(requests[w].event) :
             /\ IsNewestOpen(i)
             /\ Reads(w, [To(w, IF requests[w].venue \/ requests[w].flags # {}
                                THEN "readArrangements" ELSE "decide") EXCEPT !.round = i])
       \/ /\ \A i \in RoundsOf(requests[w].event) : rounds[i].status # "Pending"
          /\ Reads(w, Done)

(* The attendee venue of an approval that follows a withdrawal, and which  *)
(* of the flagged arrangements there is something to reset of.             *)
Resettable(e) == (IF venue[e] \in {"Approved", "Pending Review"} THEN {"venue"} ELSE {})
                 \cup (IF equipment[e] = "Approved" THEN {"equipment"} ELSE {})

ReadArrangements(w) ==
    LET r == requests[w]
    IN /\ At(w, "readArrangements")
       /\ Reads(w, IF r.venue /\ venue[r.event] # "Approved" THEN Done
                   ELSE [To(w, "decide") EXCEPT !.flags = @ \cap Resettable(r.event)])

AfterDecision(flags) == IF "venue" \in flags THEN "resetVenue"
                        ELSE IF "equipment" \in flags THEN "resetEquipment"
                        ELSE "moveEvent"

DecideThoughDecided(w) ==  \* mutant: a lost race is taken for a success
    LET r == requests[w]
        decided == [To(w, AfterDecision(r.flags)) EXCEPT !.stamp = NewStamp]
    IN /\ At(w, "decide")
       /\ Calls(w, [call |-> "decide", round |-> r.round, status |-> RecordStatusOf(r.kind)],
                decided, decided, To(w, "findDecision"))
       /\ UNCHANGED started

CallDecide(w) ==
    LET r == requests[w]
    IN /\ At(w, "decide")
       /\ Calls(w, [call |-> "decide", round |-> r.round, status |-> RecordStatusOf(r.kind)],
                [To(w, AfterDecision(r.flags)) EXCEPT !.stamp = NewStamp],
                Done, To(w, "findDecision"))
       /\ UNCHANGED started

(* _find_decided_round: the answer was lost, so look whether the round is  *)
(* decided as asked.  It does not look who decided it.                     *)
FindDecision(w) ==
    LET r == requests[w]
    IN /\ At(w, "findDecision")
       /\ \/ Reads(w, IF r.round \in Live /\ rounds[r.round].status = RecordStatusOf(r.kind)
                      THEN [To(w, AfterDecision(r.flags)) EXCEPT !.stamp = rounds[r.round].decidedAt]
                      ELSE Done)
          \/ ReadFails(w, Done)

CallResetVenue(w) ==
    LET r == requests[w]
    IN /\ At(w, "resetVenue")
       /\ Calls(w, [call |-> "resetBooking", event |-> r.event],
                To(w, AfterDecision(r.flags \ {"venue"})), To(w, "reopen"), To(w, "reopen"))
       /\ UNCHANGED started

CallResetEquipment(w) ==
    /\ At(w, "resetEquipment")
    /\ Calls(w, [call |-> "resetEquipment", event |-> requests[w].event],
             To(w, "moveEvent"), To(w, "reopen"), To(w, "reopen"))
    /\ UNCHANGED started

Moved(w) == IF requests[w].kind = "reject" THEN To(w, "release") ELSE Done

MoveUncompensated(w) ==  \* mutant: the round stays decided when the event refuses the move
    LET r == requests[w]
    IN /\ At(w, "moveEvent")
       /\ Calls(w, [call |-> "moveDecided", event |-> r.event, round |-> r.round,
                    status |-> EventStatusOf(r.kind), venue |-> r.venue],
                Moved(w), Done, To(w, "findMove"))
       /\ UNCHANGED started

CallMoveDecided(w) ==
    LET r == requests[w]
    IN /\ At(w, "moveEvent")
       /\ Calls(w, [call |-> "moveDecided", event |-> r.event, round |-> r.round,
                    status |-> EventStatusOf(r.kind), venue |-> r.venue],
                Moved(w), To(w, "reopen"), To(w, "findMove"))
       /\ UNCHANGED started

(* The move's answer was lost: is the event where it should be?            *)
MoveNotLookedFor(w) == At(w, "findMove") /\ Reads(w, To(w, "reopen"))  \* mutant

FindMove(w) ==
    /\ At(w, "findMove")
    /\ \/ Reads(w, IF Status(requests[w].event) = EventStatusOf(requests[w].kind)
                   THEN Moved(w) ELSE To(w, "reopen"))
       \/ ReadFails(w, To(w, "reopen"))

(* _compensate_decision                                                    *)
CallReopen(w) ==
    /\ At(w, "reopen")
    /\ Calls(w, [call |-> "reopen", round |-> requests[w].round, stamp |-> requests[w].stamp],
             Done, Done, Done)
    /\ UNCHANGED started

(* _release_venue_bookings *)
CallRelease(w) ==
    /\ At(w, "release")
    /\ Calls(w, [call |-> "releaseBooking", event |-> requests[w].event], Done, Done, Done)
    /\ UNCHANGED started

DecideStep(w) ==
    \/ FindOpenRound(w) \/ ReadArrangements(w) \/ CallDecide(w) \/ FindDecision(w)
    \/ CallResetVenue(w) \/ CallResetEquipment(w)
    \/ CallMoveDecided(w) \/ FindMove(w) \/ CallReopen(w) \/ CallRelease(w)

----------------------------------------------------------------------------
(* recheck_safety: a high-impact edit of a Confirmed event.                *)

BeginRecheck(w, e, c, d) ==
    /\ Assigned(e, c)
    /\ Status(e) = "Confirmed"
    /\ Changes(e, d)
    /\ Begins(w, [New(e, "recheck", "readApproval") EXCEPT !.by = c, !.details = d])

(* The event's latest round must be Safety Approved; the request goes on   *)
(* to withdraw that very round.                                            *)
ReadApproval(w) ==
    /\ At(w, "readApproval")
    /\ \/ \E i \in RoundsOf(requests[w].event) :
             /\ IsLatest(i)
             /\ Reads(w, IF rounds[i].status = "Safety Approved"
                         THEN [To(w, "withdraw") EXCEPT !.round = i] ELSE Done)
       \/ RoundsOf(requests[w].event) = {} /\ Reads(w, Done)

(* Round N is withdrawn; a re-check opens round N+1 with it.  A timeout is *)
(* reported without looking whether the withdrawal happened.               *)
CallWithdraw(w) ==
    LET r == requests[w]
        opens == r.kind = "recheck"
    IN /\ At(w, "withdraw")
       /\ Calls(w, [call |-> "withdraw", round |-> r.round, opens |-> opens],
                [To(w, "readVenue") EXCEPT !.next = IF opens THEN NewRound ELSE NoRound],
                Done, Done)
       /\ UNCHANGED started

(* attendee_venue_name: the venue the attendees knew, read before the      *)
(* event is touched.  Without an approved booking the withdrawal is undone.*)
ReadVenue(w) ==
    LET r == requests[w]
    IN /\ At(w, "readVenue")
       /\ \/ Reads(w, IF venue[r.event] # "Approved" THEN To(w, "restore")
                      ELSE IF r.kind = "recheck" THEN To(w, "saveDetails")
                      ELSE To(w, "withdrawEvent"))
          \/ ReadFails(w, To(w, "restore"))

CallSaveDetails(w) ==
    LET r == requests[w]
    IN /\ At(w, "saveDetails")
       /\ Calls(w, [call |-> "saveDetails", event |-> r.event, by |-> r.by,
                    details |-> r.details, round |-> r.round, next |-> r.next],
                Done, To(w, "restore"), To(w, "restore"))
       /\ UNCHANGED started

(* _compensate_withdrawal, and its twin in withdraw_for_venue_change.      *)
CallRestore(w) ==
    /\ At(w, "restore")
    /\ Calls(w, [call |-> "restore", round |-> requests[w].round, next |-> requests[w].next],
             Done, Done, Done)
    /\ UNCHANGED started

RecheckStep(w) ==
    ReadApproval(w) \/ CallWithdraw(w) \/ ReadVenue(w) \/ CallSaveDetails(w) \/ CallRestore(w)

----------------------------------------------------------------------------
(* Venue Booking Service: update_booking_request and cancel_booking_request*)
(* of a booking whose event may be Confirmed.                              *)

BookingStatusOf(kind) == IF kind = "edit" THEN "Pending Review" ELSE "Cancelled"

ChangeWithoutWithdrawal(w, e, c, kind) ==  \* mutant: Confirmed is a status like any other
    /\ Assigned(e, c)
    /\ Status(e) \in {"Approved", "Safety Changes Requested", "Confirmed"}
    /\ Begins(w, [New(e, kind, "changeBooking") EXCEPT !.by = c])

BeginVenueChange(w, e, c, kind) ==
    /\ Assigned(e, c)
    /\ Status(e) \in {"Approved", "Safety Changes Requested", "Confirmed"}
    /\ Begins(w, [New(e, kind, IF Status(e) = "Confirmed" THEN "readEvent" ELSE "changeBooking")
                  EXCEPT !.by = c])

(* withdraw_for_venue_change reads the event for itself, then withdraws as *)
(* the re-check does, without opening a round.                             *)
ReadEvent(w) ==
    LET r == requests[w]
    IN /\ At(w, "readEvent")
       /\ Reads(w, IF Status(r.event) = "Confirmed" /\ Assigned(r.event, r.by)
                   THEN To(w, "readApproval") ELSE Done)

CallWithdrawEvent(w) ==
    LET r == requests[w]
    IN /\ At(w, "withdrawEvent")
       /\ Calls(w, [call |-> "withdrawEvent", event |-> r.event, by |-> r.by, round |-> r.round],
                IF r.waited THEN To(w, "changeBooking") ELSE Done,
                To(w, "restore"), To(w, "restore"))
       /\ UNCHANGED started

(* The Venue Booking Service stops waiting for the withdrawal: it reports  *)
(* a failure and changes no booking, while the withdrawal goes on.         *)
GivesUpWaiting(w) ==
    /\ requests[w].kind \in VenueChanges
    /\ requests[w].pc \in {"readEvent", "readApproval", "withdraw", "readVenue",
                           "withdrawEvent", "restore"}
    /\ requests[w].waited
    /\ failures < MaxFailures
    /\ <<"late", "withdrawForVenueChange">> \in Faults
    /\ failures' = failures + 1
    /\ requests' = [requests EXCEPT ![w].waited = FALSE]
    /\ UNCHANGED <<serviceVars, late, started>>

(* The change itself: the booking may be closed or in conflict, and a call *)
(* without an answer counts as not made.  If an approval was withdrawn for *)
(* it, every failure puts that approval back.                              *)
CallChangeBooking(w) ==
    LET r == requests[w]
        putBack == IF r.round = NoRound THEN Done ELSE To(w, "readWithdrawn")
    IN /\ At(w, "changeBooking")
       /\ \/ Calls(w, [call |-> "changeBooking", event |-> r.event,
                       status |-> BookingStatusOf(r.kind)], Done, putBack, putBack)
          \/ Becomes(w, putBack) /\ UNCHANGED <<serviceVars, late, failures>>
       /\ UNCHANGED started

(* restore_after_venue_change: record first, then event; what fails here   *)
(* is only logged.                                                         *)
ReadWithdrawn(w) ==
    LET r == requests[w]
    IN /\ At(w, "readWithdrawn")
       /\ \/ Reads(w, IF Status(r.event) = "Approved" /\ Assigned(r.event, r.by)
                      THEN To(w, "reinstate") ELSE Done)
          \/ ReadFails(w, Done)

CallReinstate(w) ==
    /\ At(w, "reinstate")
    /\ Calls(w, [call |-> "restore", round |-> requests[w].round, next |-> NoRound],
             To(w, "restoreEvent"), Done, Done)
    /\ UNCHANGED started

CallRestoreEvent(w) ==
    LET r == requests[w]
    IN /\ At(w, "restoreEvent")
       /\ Calls(w, [call |-> "restoreEvent", event |-> r.event, by |-> r.by, round |-> r.round],
                Done, Done, Done)
       /\ UNCHANGED started

VenueChangeStep(w) ==
    \/ ReadEvent(w) \/ CallWithdrawEvent(w) \/ GivesUpWaiting(w)
    \/ CallChangeBooking(w) \/ ReadWithdrawn(w) \/ CallReinstate(w) \/ CallRestoreEvent(w)

----------------------------------------------------------------------------
(* What happens outside these requests: staff reviews, new bookings and    *)
(* equipment requests, and the coordinator's own saves.                    *)

UnderReview(e) == Status(e) \in {"Approved", "Safety Changes Requested"}

(* A venue decision reads its booking, then the event; a new booking and a *)
(* new equipment request read the event.  If these checks pass, the call   *)
(* that follows does not look at the event again.  Any number of users can *)
(* be at this, and each makes the call at any later time or never: a check *)
(* that passed once stays passed.                                          *)
Checks == {"awaiting", "review", "book", "request"}

PassesCheck(e, check) ==
    \/ check = "awaiting" /\ venue[e] = "Pending Review"
    \/ /\ check = "review"
       /\ venue[e] = "Pending Review" \/ <<e, "awaiting">> \in checked
       /\ UnderReview(e)
    \/ check = "book"     /\ UnderReview(e)
    \/ check = "request"  /\ Status(e) = "Safety Changes Requested"

Checked == checked' = checked \cup {x \in Events \X Checks : PassesCheck(x[1], x[2])}

HasPassed(e, check) == PassesCheck(e, check) \/ <<e, check>> \in checked

(* The calls: decide_booking looks at the booking alone, an equipment      *)
(* review is one transaction over the requests, with no check before it.   *)
StaffStep ==
    /\ \E e \in Events :
          \/ HasPassed(e, "review") /\ \E s \in {"Approved", "Rejected"} : ReviewBooking(e, s)
          \/ HasPassed(e, "book") /\ CreateBooking(e)
          \/ HasPassed(e, "request") /\ RequestEquipment(e)
          \/ \E s \in {"Approved", "Rejected"} : ReviewEquipment(e, s)
    /\ UNCHANGED <<recordVars, events, requests, late, started, failures>>

CoordinatorStep ==
    /\ \E e \in Events, c \in Coordinators :
          \/ \E d \in Details : EditDetails(e, c, d)
          \/ RecordProgress(e, c)
          \/ Reassign(e, c)
    /\ UNCHANGED <<recordVars, arrangementVars, requests, late, started, failures>>

(* A call its caller gave up on reaches its callee after all.              *)
LateCall ==
    \E m \in late :
        /\ Executes(m)
        /\ late' = late \ {m}
        /\ UNCHANGED <<requests, started, failures>>

Begin(w) ==
    \E e \in Events :
        \/ \E kind \in Decisions, flags \in SUBSET {"venue", "equipment"} :
               BeginDecide(w, e, kind, flags)
        \/ \E c \in Coordinators :
               \/ BeginSubmit(w, e, c)
               \/ \E d \in Details : BeginRecheck(w, e, c, d)
               \/ \E kind \in VenueChanges : BeginVenueChange(w, e, c, kind)

Step(w) == SubmitStep(w) \/ DecideStep(w) \/ RecheckStep(w) \/ VenueChangeStep(w)

Next ==
    /\ (\E w \in Workers : Begin(w) \/ Step(w)) \/ StaffStep \/ CoordinatorStep \/ LateCall
    /\ Checked

Spec == ServiceInit /\ [][Next]_vars

----------------------------------------------------------------------------
TypeOK ==
    /\ RecordsTypeOK
    /\ EventsTypeOK
    /\ ArrangementsTypeOK
    /\ \A w \in Workers :
          /\ requests[w].round \in RoundOrNone
          /\ requests[w].next \in RoundOrNone
          /\ requests[w].stamp \in 0..MaxDecisions
    /\ checked \subseteq Events \X Checks
    /\ started \in 0..MaxRequests
    /\ failures \in 0..MaxFailures

Settled == late = {} /\ \A w \in Workers : requests[w] = Done

OpenRounds(e) == {i \in RoundsOf(e) : rounds[i].status = "Pending"}

(* Once every request has ended, the record and the event tell one story:  *)
(* an event is Pending Safety Check exactly when a round waits for a       *)
(* decision, and then it is that round, the only one, that the event will  *)
(* accept a decision of.                                                   *)
ReviewAligned ==
    Settled => \A e \in Events :
        OpenRounds(e) = IF Status(e) = "Pending Safety Check" THEN {events[e].submitted} ELSE {}

(* Once every request has ended, a Confirmed event's approval stands: the  *)
(* round that confirmed it reads Safety Approved and none came after it.   *)
ApprovalStands ==
    Settled => \A e \in Events : Status(e) = "Confirmed" =>
        \E i \in RoundsOf(e) : /\ i = events[e].approval
                               /\ rounds[i].status = "Safety Approved"
                               /\ IsLatest(i)

(* _decide's promise, so far as it holds when reviews overlap: once every  *)
(* request has ended, an event that is Pending Safety Check has its own    *)
(* round open, and can be decided.                                         *)
WaitsForAnOpenRound ==
    Settled => \A e \in Events :
        Status(e) = "Pending Safety Check" => events[e].submitted \in OpenRounds(e)

(* "It deletes the round it just created so the event isn't left with an   *)
(* open round it doesn't know about": when every request has ended, only   *)
(* an event that is Pending Safety Check has open rounds.                  *)
NoUnknownRound ==
    Settled => \A e \in Events : OpenRounds(e) # {} => Status(e) = "Pending Safety Check"

(* No decision moves an event twice: an event that waits for a decision     *)
(* waits for that of a round which never moved it, whatever calls were     *)
(* lost, delayed or compensated.                                           *)
WaitsForANewRound ==
    \A e \in Events : Status(e) = "Pending Safety Check" => events[e].submitted \notin events[e].decided

(* When a decision moves an event, the record holds that very decision of  *)
(* the round the event was submitted with: "a stale read in step 3 still   *)
(* can't confirm the wrong round".                                         *)
FollowsTheRecord ==
    [][\A e \in Events : Status(e) = "Pending Safety Check" /\ Status(e)' \in SafetyTargets =>
          \E i \in Live, k \in Decisions :
              /\ i = events[e].submitted
              /\ rounds[i].status = RecordStatusOf(k)
              /\ Status(e)' = EventStatusOf(k)]_vars

(* _decide's comment: "Don't undo a decision that already succeeded end to *)
(* end".  A round whose decision moved its event is never open again.      *)
MovesAreNotUndone ==
    \A e \in Events : \A i \in events[e].decided \cap Live : rounds[i].status # "Pending"

(* VENUE_CHANGE_WITHDRAW's comment: "editing or cancelling a venue booking *)
(* of a 'Confirmed' event withdraws its safety approval".  So no edit,     *)
(* cancellation, reset or release reaches the booking of a Confirmed       *)
(* event, and an approved booking stays approved while its event is        *)
(* Confirmed.  What can still change the booking of a Confirmed event is a *)
(* decision or a new request that was checked before the safety review and *)
(* is carried out after it: of a booking which a review that could not     *)
(* move the event has sent back to Pending Review, or which a decision of  *)
(* that kind rejected.                                                     *)
ChangesWithdrawTheApproval ==
    [][\A e \in Events : Status(e) = "Confirmed" /\ venue'[e] # venue[e] =>
          \/ <<e, "review">> \in checked /\ venue[e] = "Pending Review"
          \/ <<e, "book">> \in checked /\ venue[e] \in {"Rejected", "Cancelled"}]_vars

(* The README of the service on a flagged arrangement whose event could    *)
(* not be moved: the "requests stay Pending (fail closed) while the safety *)
(* decision is reopened".  Closed, as an event needs "at least one         *)
(* approved venue booking and nothing still pending" to be confirmed.      *)
ConfirmedIsReady ==
    Settled => \A e \in Events : Status(e) = "Confirmed" => Ready(e)
============================================================================
