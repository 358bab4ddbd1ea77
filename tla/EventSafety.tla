---------------------------- MODULE EventSafety ----------------------------
(***************************************************************************)
(* The Event Service's side of the safety workflow: the row of an event,   *)
(* and the moves and edits that a review by the Safety Officer is at stake *)
(* in, each under the row lock of the event.  EventLifecycle adds how an   *)
(* event comes to be 'Approved'.                                           *)
(*                                                                         *)
(* The action history is kept in the event's JSON metadata.  The handlers  *)
(* read five facts of it and no more, so the history is those facts:       *)
(*   submitted  safetyCheckId of its latest 'Pending Safety Check' entry   *)
(*              that carries one                                           *)
(*   approval   safetyCheckId of its latest 'Confirmed' entry with one     *)
(*   undo       withdrawnSafetyCheckId of its LAST entry, when that is an  *)
(*              'Approved' entry                                           *)
(*   baseline   an attendeeBaseline was recorded since its latest          *)
(*              'Confirmed' entry                                          *)
(*   and the assigned coordinator, a column.                               *)
(* details stands for the values of the high-impact details.  Two fields   *)
(* are history variables: reviewed, the details the Safety Officer         *)
(* approved last, and decided, the rounds whose decisions moved the event. *)
(***************************************************************************)
EXTENDS SafetyIds

CONSTANTS Coordinators,
          Details  \* the values the high-impact details can take

VARIABLE events

Unassigned == "unassigned"

SafetyTargets == {"Confirmed", "Safety Changes Requested", "Cancelled"}
Asked == {"Clarification Requested", "Amendment Requested"}
PreSafetyStatuses == {"Submitted", "Under Review", "Approved", "Rejected"} \cup Asked
EventStatuses == {"none", "Draft", "Pending Safety Check"} \cup PreSafetyStatuses \cup SafetyTargets

EditableStatuses == {"Submitted", "Under Review", "Approved", "Safety Changes Requested", "Confirmed",
                     "Pending Safety Check"}
ClosedStatuses == {"Rejected", "Cancelled"} \cup Asked

EventRecord == [status      : EventStatuses,
                coordinator : Coordinators \cup {Unassigned},
                submitted   : RoundOrNone,
                approval    : RoundOrNone,
                undo        : RoundOrNone,
                baseline    : {"none", "recorded"},
                details     : Details,
                reviewed    : Details,
                decided     : SUBSET RoundIds]

NewlyApproved(c, d) ==
    [status |-> "Approved", coordinator |-> c,
     submitted |-> NoRound, approval |-> NoRound, undo |-> NoRound,
     baseline |-> "none", details |-> d, reviewed |-> d, decided |-> {}]

EventsInit ==
    events \in [Events -> {NewlyApproved(c, d) : c \in Coordinators, d \in Details}]

Status(e)     == events[e].status
Assigned(e, c) == events[e].coordinator = c

(* One save of an event: its row becomes row.                              *)
Saves(e, row) == events' = [events EXCEPT ![e] = row]

(* What the transitions write.  Each appends one entry to the history, so  *)
(* only a withdrawal leaves something to undo.                             *)
Submitted(row, i) ==
    [row EXCEPT !.status = "Pending Safety Check", !.submitted = i, !.undo = NoRound]

Confirmed(row, i) ==
    [row EXCEPT !.status = "Confirmed", !.approval = i, !.baseline = "none", !.undo = NoRound]

Reviewed(row, i) == [row EXCEPT !.reviewed = row.details, !.decided = row.decided \cup {i}]

Declined(row, i, s) ==
    [row EXCEPT !.status = s, !.undo = NoRound, !.decided = row.decided \cup {i}]

MovedBy(row, i, s) ==
    IF s = "Confirmed" THEN Reviewed(Confirmed(row, i), i) ELSE Declined(row, i, s)

Unconfirmed(row, i) ==
    [row EXCEPT !.status = "Approved", !.undo = i, !.baseline = "recorded"]

Edited(row, d) == [row EXCEPT !.details = d, !.undo = NoRound]

----------------------------------------------------------------------------
(* update_event_safety_status -> 'Pending Safety Check': the submission.   *)
CanSubmit(e, c) ==
    /\ Assigned(e, c)
    /\ Status(e) \in {"Approved", "Safety Changes Requested"}

SubmitEvent(e, c, i) ==
    /\ CanSubmit(e, c)
    /\ Saves(e, Submitted(events[e], i))

(* update_event_safety_status -> a decision.  _stale_safety_check_check    *)
(* wants the round of the latest submission; _record_attendee_update wants *)
(* the venue's name when a withdrawn approval left a baseline behind.      *)
CanMoveDecided(e, i, s, venue) ==
    /\ Status(e) = "Pending Safety Check"
    /\ events[e].submitted = i
    /\ s = "Confirmed" /\ events[e].baseline = "recorded" => venue

MoveDecided(e, i, s, venue) ==
    /\ CanMoveDecided(e, i, s, venue)
    /\ Saves(e, MovedBy(events[e], i, s))

(* _venue_change_safety_status, the withdrawal: Confirmed -> Approved.     *)
CanWithdrawAny(e, c, i) == Assigned(e, c) /\ Status(e) = "Confirmed"  \* mutant

CanWithdrawEvent(e, c, i) ==
    /\ Assigned(e, c)
    /\ Status(e) = "Confirmed"
    /\ events[e].approval = i

WithdrawToRecordStatus(e, c, i) ==  \* mutant: the record's status, not the event's
    /\ CanWithdrawEvent(e, c, i)
    /\ Saves(e, [events[e] EXCEPT !.status = "Approval Withdrawn", !.undo = i])

WithdrawEvent(e, c, i) ==
    /\ CanWithdrawEvent(e, c, i)
    /\ Saves(e, Unconfirmed(events[e], i))

(* _venue_change_safety_status, its undo: Approved -> Confirmed, only      *)
(* while the withdrawal is still the event's last action.                  *)
CanRestoreAny(e, c, i) == Assigned(e, c) /\ Status(e) = "Approved"  \* mutant

CanRestoreEvent(e, c, i) ==
    /\ Assigned(e, c)
    /\ Status(e) = "Approved"
    /\ events[e].undo = i

RestoreEvent(e, c, i) ==
    /\ CanRestoreEvent(e, c, i)
    /\ Saves(e, Confirmed(events[e], i))

(* update_event_details: the edit sets the high-impact details to d.  When *)
(* nothing changes, nothing is written.  A change to a Confirmed event     *)
(* must name the approval that was withdrawn for it, and moves the event   *)
(* to the round opened in its place; while a check is pending it is        *)
(* refused; in the other editable statuses it saves in place.              *)
Changes(e, d) == events[e].details # d

CanSaveDetails(e, c, d, withdrawn) ==
    /\ Assigned(e, c)
    /\ Status(e) \in EditableStatuses
    /\ Changes(e, d) =>
          /\ Status(e) # "Pending Safety Check"
          /\ Status(e) = "Confirmed" => withdrawn # NoRound /\ events[e].approval = withdrawn

SaveKeepingUndo(e, c, d, withdrawn, opened) ==  \* mutant: an edit leaves the undo possible
    /\ CanSaveDetails(e, c, d, withdrawn)
    /\ IF Changes(e, d) /\ Status(e) # "Confirmed"
       THEN Saves(e, [events[e] EXCEPT !.details = d]) ELSE UNCHANGED events

SaveNamingTheWithdrawn(e, c, d, withdrawn, opened) ==  \* mutant: waits for the old round
    /\ CanSaveDetails(e, c, d, withdrawn)
    /\ Saves(e, Edited(Submitted(events[e], withdrawn), d))

Rechecked(row, d, i) == [Edited(Submitted(row, i), d) EXCEPT !.baseline = "recorded"]

SaveDetails(e, c, d, withdrawn, opened) ==
    /\ CanSaveDetails(e, c, d, withdrawn)
    /\ \/ ~Changes(e, d) /\ UNCHANGED events
       \/ Changes(e, d) /\ Status(e) = "Confirmed" /\ Saves(e, Rechecked(events[e], d, opened))
       \/ Changes(e, d) /\ Status(e) # "Confirmed" /\ Saves(e, Edited(events[e], d))

(* The coordinator's own edit of high-impact details: no safetyRecheck.    *)
EditDetails(e, c, d) == Changes(e, d) /\ SaveDetails(e, c, d, NoRound, NoRound)

(* update_event_progress keeping the status: one more history entry, which *)
(* names no round.  Not while the organiser is being asked.                *)
CanRecordProgress(e, c) == Assigned(e, c) /\ Status(e) \notin Asked

RecordProgress(e, c) ==
    /\ CanRecordProgress(e, c)
    /\ Saves(e, [events[e] EXCEPT !.undo = NoRound])

(* update_event_coordinator: an event that has one is handed over, and who *)
(* asked the organiser gets the answer.                                    *)
Reassigned(row, c) ==
    [row EXCEPT !.coordinator = c, !.status = IF @ = "Submitted" THEN "Under Review" ELSE @]

ReassignWhileAsked(e, c) ==  \* mutant: only what is over is closed
    /\ ~Assigned(e, c)
    /\ Status(e) \notin {"none", "Draft", "Rejected", "Cancelled"}
    /\ Saves(e, Reassigned(events[e], c))

Reassign(e, c) ==
    /\ ~Assigned(e, c)
    /\ Status(e) \notin {"none", "Draft"} \cup ClosedStatuses
    /\ Saves(e, Reassigned(events[e], c))

----------------------------------------------------------------------------
EventsNext ==
    \E e \in Events :
        \/ \E i \in RoundIds, s \in SafetyTargets, venue \in BOOLEAN : MoveDecided(e, i, s, venue)
        \/ \E c \in Coordinators :
              \/ \E i \in RoundIds :
                    \/ SubmitEvent(e, c, i)
                    \/ WithdrawEvent(e, c, i)
                    \/ RestoreEvent(e, c, i)
                    \/ \E d \in Details, j \in RoundIds : SaveDetails(e, c, d, i, j)
              \/ \E d \in Details : EditDetails(e, c, d)
              \/ RecordProgress(e, c)
              \/ Reassign(e, c)

EventsSpec == EventsInit /\ [][EventsNext]_events

----------------------------------------------------------------------------
EventsTypeOK == events \in [Events -> EventRecord]

(* AC1 of the re-check: an event is never prepared on the basis of an      *)
(* outdated review.  Whatever calls arrive in whatever order, a Confirmed  *)
(* event has the high-impact details the Safety Officer approved: the      *)
(* pending check refuses high-impact edits, the re-check moves the event   *)
(* in the transaction that saves them, and the venue change is undone only *)
(* if nothing was recorded since.                                          *)
ConfirmedOnReviewedDetails ==
    \A e \in Events : Status(e) = "Confirmed" => events[e].details = events[e].reviewed

(* A Confirmed event whose approval was restored after a venue change has  *)
(* the very approval it had: between the withdrawal and its undo no other  *)
(* approval came to stand.                                                 *)
UndoKeepsTheApproval ==
    \A e \in Events : events[e].undo # NoRound => events[e].undo = events[e].approval

(* Only a Safety Officer's decision, or the undo of a withdrawal, confirms *)
(* an event: no coordinator's call takes it from anywhere else to          *)
(* Confirmed, and a Cancelled event never moves again.                     *)
MovesRightly(old, new) ==
    /\ old.status = "Cancelled" => new.status = "Cancelled"
    /\ old.status # "Confirmed" /\ new.status = "Confirmed" =>
          \/ old.status = "Pending Safety Check" /\ new.approval = old.submitted
          \/ old.status = "Approved" /\ new.approval = old.approval

ConfirmedByDecisionOrUndo ==
    [][\A e \in Events : MovesRightly(events[e], events'[e])]_events
=============================================================================
