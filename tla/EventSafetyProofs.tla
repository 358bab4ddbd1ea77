------------------------- MODULE EventSafetyProofs -------------------------
(***************************************************************************)
(* What the Event Service's safety endpoints guarantee for any number of   *)
(* events, coordinators, rounds and details.  ConfirmedOnReviewedDetails   *)
(* is not inductive: undoing a withdrawal brings an event back to          *)
(* Confirmed, so an event whose withdrawal can still be undone must be on  *)
(* the details that were approved as well, under the same approval.        *)
(***************************************************************************)
EXTENDS EventSafety, TLAPS

RowOK(row) ==
    /\ row.status = "Confirmed" => row.details = row.reviewed
    /\ row.undo # NoRound => /\ row.status = "Approved"
                             /\ row.details = row.reviewed
                             /\ row.undo = row.approval

EventsInv == EventsTypeOK /\ \A e \in Events : RowOK(events[e])

----------------------------------------------------------------------------
(* A save of one well-formed row keeps the invariant.                      *)
LEMMA SaveKeepsInv ==
    ASSUME EventsInv, NEW e \in Events, NEW row \in EventRecord, RowOK(row), Saves(e, row)
    PROVE  EventsInv'
<1>1. events' \in [Events -> EventRecord]
  BY DEF EventsInv, EventsTypeOK, Saves
<1>2. ASSUME NEW f \in Events PROVE RowOK(events'[f])
  <2>1. CASE f = e
    BY <2>1 DEF EventsInv, EventsTypeOK, Saves
  <2>2. CASE f # e
    <3>1. events'[f] = events[f]
      BY <2>2 DEF EventsInv, EventsTypeOK, Saves
    <3>. QED  BY <3>1 DEF EventsInv
  <2>. QED  BY <2>1, <2>2
<1>. QED  BY <1>1, <1>2 DEF EventsInv, EventsTypeOK

(* The row a submission writes.                                            *)
LEMMA SubmittedRow ==
    ASSUME NEW row \in EventRecord, NEW i \in RoundOrNone
    PROVE  /\ Submitted(row, i) \in EventRecord
           /\ Submitted(row, i).status = "Pending Safety Check"
           /\ Submitted(row, i).undo = NoRound
BY DEF Submitted, EventRecord, EventStatuses, RoundOrNone

(* The row an approval, or the undo of a withdrawal, writes.               *)
LEMMA ConfirmedRow ==
    ASSUME NEW row \in EventRecord, NEW i \in RoundIds
    PROVE  /\ Confirmed(row, i) \in EventRecord
           /\ Confirmed(row, i).status = "Confirmed"
           /\ Confirmed(row, i).undo = NoRound
           /\ Confirmed(row, i).approval = i
           /\ Confirmed(row, i).details = row.details
           /\ Confirmed(row, i).reviewed = row.reviewed
BY DEF Confirmed, EventRecord, EventStatuses, SafetyTargets, RoundOrNone

(* An approval records the details it reviewed.                            *)
LEMMA ReviewedRow ==
    ASSUME NEW row \in EventRecord, NEW i \in RoundIds
    PROVE  /\ Reviewed(row, i) \in EventRecord
           /\ Reviewed(row, i).details = row.details
           /\ Reviewed(row, i).reviewed = row.details
           /\ Reviewed(row, i).status = row.status
           /\ Reviewed(row, i).approval = row.approval
           /\ Reviewed(row, i).undo = row.undo
BY DEF Reviewed, EventRecord

(* The row the two other decisions write.                                  *)
LEMMA DeclinedRow ==
    ASSUME NEW row \in EventRecord, NEW i \in RoundIds, NEW s \in EventStatuses
    PROVE  /\ Declined(row, i, s) \in EventRecord
           /\ Declined(row, i, s).status = s
           /\ Declined(row, i, s).undo = NoRound
BY DEF Declined, EventRecord, RoundOrNone

(* The row any decision writes satisfies the invariant.                    *)
LEMMA MovedRow ==
    ASSUME NEW row \in EventRecord, NEW i \in RoundIds, NEW s \in SafetyTargets
    PROVE  /\ MovedBy(row, i, s) \in EventRecord
           /\ RowOK(MovedBy(row, i, s))
           /\ MovedBy(row, i, s).status = s
           /\ s = "Confirmed" => MovedBy(row, i, s).approval = i
<1>1. CASE s = "Confirmed"
  <2>1. MovedBy(row, i, s) = Reviewed(Confirmed(row, i), i)
    BY <1>1 DEF MovedBy
  <2>. QED  BY <1>1, <2>1, ConfirmedRow, ReviewedRow DEF RowOK
<1>2. CASE s # "Confirmed"
  <2>1. MovedBy(row, i, s) = Declined(row, i, s) /\ s \in EventStatuses
    BY <1>2 DEF MovedBy, EventStatuses
  <2>. QED  BY <1>2, <2>1, DeclinedRow DEF RowOK
<1>. QED  BY <1>1, <1>2

(* The row a withdrawal writes.                                            *)
LEMMA UnconfirmedRow ==
    ASSUME NEW row \in EventRecord, NEW i \in RoundIds
    PROVE  /\ Unconfirmed(row, i) \in EventRecord
           /\ Unconfirmed(row, i).status = "Approved"
           /\ Unconfirmed(row, i).undo = i
           /\ Unconfirmed(row, i).approval = row.approval
           /\ Unconfirmed(row, i).details = row.details
           /\ Unconfirmed(row, i).reviewed = row.reviewed
BY DEF Unconfirmed, EventRecord, EventStatuses, PreSafetyStatuses, RoundOrNone

(* The row an edit writes.                                                 *)
LEMMA EditedRow ==
    ASSUME NEW row \in EventRecord, NEW d \in Details
    PROVE  /\ Edited(row, d) \in EventRecord
           /\ Edited(row, d).status = row.status
           /\ Edited(row, d).undo = NoRound
BY DEF Edited, EventRecord, RoundOrNone

(* The row the save of a re-check writes.                                  *)
LEMMA RecheckedRow ==
    ASSUME NEW row \in EventRecord, NEW d \in Details, NEW i \in RoundOrNone
    PROVE  /\ Rechecked(row, d, i) \in EventRecord
           /\ Rechecked(row, d, i).status = "Pending Safety Check"
           /\ Rechecked(row, d, i).undo = NoRound
<1> DEFINE edited == Edited(Submitted(row, i), d)
<1>1. edited \in EventRecord /\ edited.status = "Pending Safety Check" /\ edited.undo = NoRound
  BY SubmittedRow, EditedRow
<1> HIDE DEF edited
<1>2. /\ [edited EXCEPT !.baseline = "recorded"] \in EventRecord
      /\ [edited EXCEPT !.baseline = "recorded"].status = edited.status
      /\ [edited EXCEPT !.baseline = "recorded"].undo = edited.undo
  BY <1>1 DEF EventRecord
<1>. QED  BY <1>1, <1>2 DEF Rechecked, edited

(* The row a handover writes.                                              *)
LEMMA ReassignedRow ==
    ASSUME NEW row \in EventRecord, NEW c \in Coordinators
    PROVE  /\ Reassigned(row, c) \in EventRecord
           /\ Reassigned(row, c).coordinator = c
           /\ row.status # "Submitted" => Reassigned(row, c).status = row.status
           /\ row.status = "Submitted" => Reassigned(row, c).status = "Under Review"
           /\ Reassigned(row, c).undo = row.undo
           /\ Reassigned(row, c).approval = row.approval
           /\ Reassigned(row, c).details = row.details
           /\ Reassigned(row, c).reviewed = row.reviewed
BY DEF Reassigned, EventRecord, EventStatuses, PreSafetyStatuses

----------------------------------------------------------------------------
(* The steps.                                                              *)
LEMMA RowsOK ==
    ASSUME EventsInv, NEW e \in Events
    PROVE  events[e] \in EventRecord /\ RowOK(events[e])
BY DEF EventsInv, EventsTypeOK

(* update_event_safety_status, the submission, keeps the invariant.        *)
LEMMA SubmitKeepsInv ==
    ASSUME EventsInv, NEW e \in Events, NEW c, NEW i \in RoundIds, SubmitEvent(e, c, i)
    PROVE  EventsInv'
<1>1. Submitted(events[e], i) \in EventRecord /\ RowOK(Submitted(events[e], i))
  BY RowsOK, SubmittedRow DEF RowOK, RoundOrNone
<1>. QED  BY <1>1, SaveKeepsInv DEF SubmitEvent

(* update_event_safety_status, a decision, keeps the invariant.            *)
LEMMA MoveKeepsInv ==
    ASSUME EventsInv, NEW e \in Events, NEW i \in RoundIds, NEW s \in SafetyTargets,
           NEW venue, MoveDecided(e, i, s, venue)
    PROVE  EventsInv'
<1>1. MovedBy(events[e], i, s) \in EventRecord /\ RowOK(MovedBy(events[e], i, s))
  BY RowsOK, MovedRow
<1>. QED  BY <1>1, SaveKeepsInv DEF MoveDecided

(* The withdrawal for a venue change keeps the invariant.                  *)
LEMMA WithdrawKeepsInv ==
    ASSUME EventsInv, NEW e \in Events, NEW c, NEW i \in RoundIds, WithdrawEvent(e, c, i)
    PROVE  EventsInv'
<1>1. events[e].status = "Confirmed" /\ events[e].approval = i
  BY DEF WithdrawEvent, CanWithdrawEvent, Status
<1>2. Unconfirmed(events[e], i) \in EventRecord /\ RowOK(Unconfirmed(events[e], i))
  BY <1>1, RowsOK, UnconfirmedRow DEF RowOK
<1>. QED  BY <1>2, SaveKeepsInv DEF WithdrawEvent

(* Undoing that withdrawal keeps the invariant.                            *)
LEMMA RestoreKeepsInv ==
    ASSUME EventsInv, NEW e \in Events, NEW c, NEW i \in RoundIds, RestoreEvent(e, c, i)
    PROVE  EventsInv'
<1>1. events[e].undo = i /\ i # NoRound
  BY IdsAssumption DEF RestoreEvent, CanRestoreEvent
<1>2. Confirmed(events[e], i) \in EventRecord /\ RowOK(Confirmed(events[e], i))
  BY <1>1, RowsOK, ConfirmedRow DEF RowOK
<1>. QED  BY <1>2, SaveKeepsInv DEF RestoreEvent

(* update_event_details keeps the invariant.                               *)
LEMMA SaveDetailsKeepsInv ==
    ASSUME EventsInv, NEW e \in Events, NEW c, NEW d \in Details,
           NEW withdrawn, NEW opened \in RoundOrNone, SaveDetails(e, c, d, withdrawn, opened)
    PROVE  EventsInv'
<1>1. CASE UNCHANGED events
  BY <1>1 DEF EventsInv, EventsTypeOK
<1>2. CASE Saves(e, Rechecked(events[e], d, opened))
  <2>1. /\ Rechecked(events[e], d, opened) \in EventRecord
        /\ RowOK(Rechecked(events[e], d, opened))
    BY RowsOK, RecheckedRow DEF RowOK
  <2>. QED  BY <1>2, <2>1, SaveKeepsInv
<1>3. CASE Status(e) # "Confirmed" /\ Saves(e, Edited(events[e], d))
  <2>1. Edited(events[e], d) \in EventRecord /\ RowOK(Edited(events[e], d))
    BY <1>3, RowsOK, EditedRow DEF RowOK, Status
  <2>. QED  BY <1>3, <2>1, SaveKeepsInv
<1>. QED  BY <1>1, <1>2, <1>3 DEF SaveDetails

(* update_event_progress keeps the invariant.                              *)
LEMMA ProgressKeepsInv ==
    ASSUME EventsInv, NEW e \in Events, NEW c, RecordProgress(e, c)
    PROVE  EventsInv'
<1> DEFINE row == [events[e] EXCEPT !.undo = NoRound]
<1>1. row \in EventRecord /\ row.undo = NoRound /\ row.status = events[e].status
      /\ row.details = events[e].details /\ row.reviewed = events[e].reviewed
  BY RowsOK DEF EventRecord, RoundOrNone
<1> HIDE DEF row
<1>2. RowOK(row)
  BY <1>1, RowsOK DEF RowOK
<1>. QED  BY <1>1, <1>2, SaveKeepsInv DEF RecordProgress, row

(* update_event_coordinator keeps the invariant.                           *)
LEMMA ReassignKeepsInv ==
    ASSUME EventsInv, NEW e \in Events, NEW c \in Coordinators, Reassign(e, c)
    PROVE  EventsInv'
<1> DEFINE row == events[e]
<1> DEFINE new == Reassigned(row, c)
<1>1. row \in EventRecord /\ RowOK(row)
  BY RowsOK
<1>2. /\ new \in EventRecord /\ new.undo = row.undo /\ new.approval = row.approval
      /\ new.details = row.details /\ new.reviewed = row.reviewed
      /\ row.status # "Submitted" => new.status = row.status
      /\ row.status = "Submitted" => new.status = "Under Review"
  BY <1>1, ReassignedRow
<1>3. Saves(e, new)
  BY DEF Reassign
<1> HIDE DEF row, new
<1>4. RowOK(new)
  BY <1>1, <1>2 DEF RowOK
<1>. QED  BY <1>2, <1>3, <1>4, SaveKeepsInv

(* Newly approved events satisfy the invariant.                            *)
LEMMA EventsInitHasInv ==
    ASSUME EventsInit
    PROVE  EventsInv
<1>1. ASSUME NEW c \in Coordinators, NEW d \in Details
      PROVE  NewlyApproved(c, d) \in EventRecord /\ RowOK(NewlyApproved(c, d))
  BY DEF NewlyApproved, EventRecord, EventStatuses, PreSafetyStatuses, RoundOrNone, RowOK
<1>. QED  BY <1>1 DEF EventsInit, EventsInv, EventsTypeOK

(* Every step of the service keeps the invariant.                          *)
LEMMA EventsNextKeepsInv ==
    ASSUME EventsInv, [EventsNext]_events
    PROVE  EventsInv'
<1>1. CASE UNCHANGED events
  BY <1>1 DEF EventsInv, EventsTypeOK
<1>2. ASSUME NEW e \in Events, NEW c \in Coordinators, NEW i \in RoundIds,
             \/ SubmitEvent(e, c, i)
             \/ WithdrawEvent(e, c, i)
             \/ RestoreEvent(e, c, i)
             \/ \E d \in Details, j \in RoundIds : SaveDetails(e, c, d, i, j)
      PROVE  EventsInv'
  BY <1>2, SubmitKeepsInv, WithdrawKeepsInv, RestoreKeepsInv, SaveDetailsKeepsInv DEF RoundOrNone
<1>3. ASSUME NEW e \in Events, NEW c \in Coordinators, NEW d \in Details, EditDetails(e, c, d)
      PROVE  EventsInv'
  BY <1>3, SaveDetailsKeepsInv DEF EditDetails, RoundOrNone
<1>4. ASSUME NEW e \in Events, NEW c \in Coordinators, RecordProgress(e, c) \/ Reassign(e, c)
      PROVE  EventsInv'
  BY <1>4, ProgressKeepsInv, ReassignKeepsInv
<1>5. ASSUME NEW e \in Events, NEW i \in RoundIds, NEW s \in SafetyTargets, NEW v \in BOOLEAN,
             MoveDecided(e, i, s, v)
      PROVE  EventsInv'
  BY <1>5, MoveKeepsInv DEF RoundOrNone
<1>. QED  BY <1>1, <1>2, <1>3, <1>4, <1>5 DEF EventsNext

(* The inductive invariant holds whatever calls the service is asked.      *)
THEOREM EventsInvariant == EventsSpec => []EventsInv
<1>. QED  BY EventsInitHasInv, EventsNextKeepsInv, PTL DEF EventsSpec

(* An event's row keeps its shape, whatever its endpoints are asked.       *)
THEOREM EventsTypeCorrect == EventsSpec => []EventsTypeOK
<1>1. EventsInv => EventsTypeOK
  BY DEF EventsInv
<1>. QED  BY <1>1, EventsInvariant, PTL

(* No sequence of calls leaves a Confirmed event on details other than     *)
(* those the Safety Officer approved.                                      *)
THEOREM ConfirmedEventsWereReviewed == EventsSpec => []ConfirmedOnReviewedDetails
<1>1. EventsInv => ConfirmedOnReviewedDetails
  BY DEF EventsInv, RowOK, ConfirmedOnReviewedDetails, Status
<1>. QED  BY <1>1, EventsInvariant, PTL

(* A withdrawal that can be undone is that of the approval that stood.     *)
THEOREM UndoneApprovalsAreKept == EventsSpec => []UndoKeepsTheApproval
<1>1. EventsInv => UndoKeepsTheApproval
  BY DEF EventsInv, RowOK, UndoKeepsTheApproval
<1>. QED  BY <1>1, EventsInvariant, PTL

----------------------------------------------------------------------------
(* A save that moves its own row rightly moves every row rightly.          *)
LEMMA OneSave ==
    ASSUME EventsInv, NEW e \in Events, NEW row, Saves(e, row), MovesRightly(events[e], row)
    PROVE  \A f \in Events : MovesRightly(events[f], events'[f])
<1> SUFFICES ASSUME NEW f \in Events PROVE MovesRightly(events[f], events'[f])
  OBVIOUS
<1>1. CASE f = e
  <2>1. events'[f] = row
    BY <1>1 DEF Saves, EventsInv, EventsTypeOK
  <2>. QED  BY <1>1, <2>1
<1>2. CASE f # e
  <2>1. events'[f] = events[f]
    BY <1>2 DEF Saves, EventsInv, EventsTypeOK
  <2>. QED  BY <2>1 DEF MovesRightly
<1>. QED  BY <1>1, <1>2

(* update_event_details confirms no event and moves no cancelled one.      *)
LEMMA SaveDetailsMovesRightly ==
    ASSUME EventsInv, NEW e \in Events, NEW c, NEW d \in Details,
           NEW withdrawn, NEW opened \in RoundOrNone, SaveDetails(e, c, d, withdrawn, opened)
    PROVE  \A f \in Events : MovesRightly(events[f], events'[f])
<1>1. CASE UNCHANGED events
  BY <1>1 DEF MovesRightly
<1>2. Status(e) # "Cancelled"
  BY DEF SaveDetails, CanSaveDetails, EditableStatuses
<1>3. CASE Saves(e, Rechecked(events[e], d, opened))
  <2>1. MovesRightly(events[e], Rechecked(events[e], d, opened))
    BY <1>2, RowsOK, RecheckedRow DEF MovesRightly, Status
  <2>. QED  BY <1>3, <2>1, OneSave
<1>4. CASE Saves(e, Edited(events[e], d))
  <2>1. MovesRightly(events[e], Edited(events[e], d))
    BY RowsOK, EditedRow DEF MovesRightly
  <2>. QED  BY <1>4, <2>1, OneSave
<1>. QED  BY <1>1, <1>3, <1>4 DEF SaveDetails

(* Every step of the service moves every event rightly.                    *)
LEMMA NextMovesRightly ==
    ASSUME EventsInv, [EventsNext]_events
    PROVE  \A f \in Events : MovesRightly(events[f], events'[f])
<1>1. CASE UNCHANGED events
  BY <1>1 DEF MovesRightly
<1>2. ASSUME NEW e \in Events, NEW c, NEW i \in RoundIds, SubmitEvent(e, c, i)
      PROVE  MovesRightly(events[e], Submitted(events[e], i)) /\ Saves(e, Submitted(events[e], i))
  BY <1>2, RowsOK, SubmittedRow DEF SubmitEvent, CanSubmit, Status, MovesRightly, RoundOrNone
<1>3. ASSUME NEW e \in Events, NEW c, NEW i \in RoundIds, WithdrawEvent(e, c, i)
      PROVE  MovesRightly(events[e], Unconfirmed(events[e], i)) /\ Saves(e, Unconfirmed(events[e], i))
  BY <1>3, RowsOK, UnconfirmedRow DEF WithdrawEvent, CanWithdrawEvent, Status, MovesRightly
<1>4. ASSUME NEW e \in Events, NEW c, NEW i \in RoundIds, RestoreEvent(e, c, i)
      PROVE  MovesRightly(events[e], Confirmed(events[e], i)) /\ Saves(e, Confirmed(events[e], i))
  <2>1. events[e].status = "Approved" /\ events[e].approval = i
    BY <1>4, RowsOK, IdsAssumption DEF RestoreEvent, CanRestoreEvent, RowOK
  <2>. QED  BY <1>4, <2>1, RowsOK, ConfirmedRow DEF RestoreEvent, MovesRightly
<1>5. ASSUME NEW e \in Events, NEW i \in RoundIds, NEW s \in SafetyTargets, NEW v,
             MoveDecided(e, i, s, v)
      PROVE  MovesRightly(events[e], MovedBy(events[e], i, s)) /\ Saves(e, MovedBy(events[e], i, s))
  <2>1. events[e].status = "Pending Safety Check" /\ events[e].submitted = i
    BY <1>5 DEF MoveDecided, CanMoveDecided, Status
  <2>2. MovedBy(events[e], i, s).status = s /\ (s = "Confirmed" => MovedBy(events[e], i, s).approval = i)
    BY RowsOK, MovedRow
  <2>. QED  BY <1>5, <2>1, <2>2 DEF MoveDecided, MovesRightly
<1>6. ASSUME NEW e \in Events, NEW c, RecordProgress(e, c)
      PROVE  LET row == [events[e] EXCEPT !.undo = NoRound]
             IN  MovesRightly(events[e], row) /\ Saves(e, row)
  <2> DEFINE row == [events[e] EXCEPT !.undo = NoRound]
  <2>1. row.status = events[e].status
    BY <1>6, RowsOK DEF EventRecord
  <2>2. Saves(e, row)
    BY <1>6 DEF RecordProgress
  <2> HIDE DEF row
  <2>3. MovesRightly(events[e], row)
    BY <2>1 DEF MovesRightly
  <2>. QED  BY <2>2, <2>3 DEF row
<1>7. ASSUME NEW e \in Events, NEW c \in Coordinators, Reassign(e, c)
      PROVE  MovesRightly(events[e], Reassigned(events[e], c)) /\ Saves(e, Reassigned(events[e], c))
  BY <1>7, RowsOK, ReassignedRow DEF Reassign, MovesRightly
<1>8. ASSUME NEW e \in Events, NEW c, NEW d \in Details, NEW i, NEW j \in RoundOrNone,
             SaveDetails(e, c, d, i, j)
      PROVE  \A f \in Events : MovesRightly(events[f], events'[f])
  BY <1>8, SaveDetailsMovesRightly
<1>9. ASSUME EventsNext
      PROVE  \A f \in Events : MovesRightly(events[f], events'[f])
  <2>4. CASE \E e \in Events, i \in RoundIds, s \in SafetyTargets, v \in BOOLEAN : MoveDecided(e, i, s, v)
    BY <1>5, <2>4, OneSave
  <2> SUFFICES ASSUME NEW e \in Events, NEW c \in Coordinators,
                      \/ \E i \in RoundIds :
                            \/ SubmitEvent(e, c, i)
                            \/ WithdrawEvent(e, c, i)
                            \/ RestoreEvent(e, c, i)
                            \/ \E d \in Details, j \in RoundIds : SaveDetails(e, c, d, i, j)
                      \/ \E d \in Details : EditDetails(e, c, d)
                      \/ RecordProgress(e, c)
                      \/ Reassign(e, c)
               PROVE  \A f \in Events : MovesRightly(events[f], events'[f])
    BY <1>9, <2>4 DEF EventsNext
  <2>1. CASE \E i \in RoundIds : SubmitEvent(e, c, i)
    BY <1>2, <2>1, OneSave
  <2>2. CASE \E i \in RoundIds : WithdrawEvent(e, c, i)
    BY <1>3, <2>2, OneSave
  <2>3. CASE \E i \in RoundIds : RestoreEvent(e, c, i)
    BY <1>4, <2>3, OneSave
  <2>5. CASE \E i \in RoundIds, d \in Details, j \in RoundIds : SaveDetails(e, c, d, i, j)
    BY <1>8, <2>5 DEF RoundOrNone
  <2>6. CASE \E d \in Details : EditDetails(e, c, d)
    BY <1>8, <2>6 DEF EditDetails, RoundOrNone
  <2>7. CASE RecordProgress(e, c)
    BY <1>6, <2>7, OneSave
  <2>8. CASE Reassign(e, c)
    BY <1>7, <2>8, OneSave
  <2>. QED  BY <2>1, <2>2, <2>3, <2>5, <2>6, <2>7, <2>8
<1>. QED  BY <1>1, <1>9

(* Only a Safety Officer's decision on the round the event waits for, or   *)
(* the undo of a withdrawal, confirms an event.                            *)
THEOREM OnlyDecisionsConfirm == EventsSpec => ConfirmedByDecisionOrUndo
<1>1. EventsInv /\ [EventsNext]_events
         => [\A e \in Events : MovesRightly(events[e], events'[e])]_events
  BY NextMovesRightly
<1>. QED  BY <1>1, EventsInvariant, PTL DEF EventsSpec, ConfirmedByDecisionOrUndo
============================================================================
