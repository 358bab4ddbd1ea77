---------------------- MODULE SafetyCheckServiceProofs ----------------------
(***************************************************************************)
(* The composite, for any number of events, rounds, requests and failures: *)
(* whatever is lost, delayed or compensated, its calls are steps of the    *)
(* record service and of the Event Service, so what is proved of these     *)
(* holds of the whole; and an event never waits for a decision of a round  *)
(* that has moved it.  While decisions are answered, each is in the hands  *)
(* of the one request, or the one belated undo, that made it, from which   *)
(* follow what _decide promises when reviews overlap.  And where requests  *)
(* about one event follow one another and failures are compensated, record *)
(* and event tell the same story whenever no request is in progress.       *)
(***************************************************************************)
EXTENDS SafetyCheckService, SafetyRecordsProofs, EventSafetyProofs

----------------------------------------------------------------------------
(* What the handlers know at each step.                                    *)
SubmitPcs == {"readiness", "createRound", "submitEvent", "deleteRound"}
DecidePcs == {"findRound", "readArrangements", "decide", "findDecision", "resetVenue", "resetEquipment",
              "moveEvent", "findMove", "reopen", "release"}
WithdrawPcs == {"readApproval", "withdraw", "readVenue", "restore"}
VenuePcs == {"readEvent", "withdrawEvent", "changeBooking", "readWithdrawn", "reinstate", "restoreEvent"}
Pcs == {"idle", "saveDetails"} \cup SubmitPcs \cup DecidePcs \cup WithdrawPcs \cup VenuePcs

Request == [kind : AllKinds \cup {"none"}, pc : Pcs, event : Events \cup {NoRound},
            by : Coordinators \cup {NoRound}, round : RoundOrNone, next : RoundOrNone,
            stamp : 0 .. MaxDecisions, venue : BOOLEAN, flags : SUBSET {"venue", "equipment"},
            details : Details \cup {NoRound}, waited : BOOLEAN]

(* The pcs at which a round is in hand. *)
RoundPcs == {"submitEvent", "deleteRound", "readArrangements", "decide", "findDecision", "resetVenue", "resetEquipment",
             "moveEvent", "findMove", "reopen", "withdraw", "readVenue", "saveDetails", "withdrawEvent",
             "restore", "readWithdrawn", "reinstate", "restoreEvent"}

Knows(r) ==
    /\ r.pc # "idle" => r.event \in Events
    /\ r.pc \in SubmitPcs => r.kind = "submit"
    /\ r.pc \in DecidePcs => r.kind \in Decisions
    /\ r.pc \in WithdrawPcs => r.kind \in VenueChanges \cup {"recheck"}
    /\ r.pc \in VenuePcs => r.kind \in VenueChanges
    /\ r.pc = "saveDetails" => r.kind = "recheck"
    /\ r.pc # "idle" /\ r.kind \notin Decisions => r.by \in Coordinators
    /\ r.pc # "idle" /\ r.kind = "recheck" => r.details \in Details
    /\ r.pc \in RoundPcs => r.round \in RoundIds
    /\ r.pc \in {"readVenue", "saveDetails"} /\ r.kind = "recheck" => r.next \in RoundIds

(* What a call carries. *)
Carries(m) ==
    /\ m.call \in {"create"} \cup EventCalls \cup BookingCalls => m.event \in Events
    /\ m.call = "decide" => m.status \in DecisionStatuses
    /\ m.call = "restore" => m.next \in RoundOrNone
    /\ m.call \in EventCalls => m.round \in RoundIds
    /\ m.call \in EventCalls \ {"moveDecided"} => m.by \in Coordinators
    /\ m.call = "moveDecided" => m.status \in SafetyTargets /\ m.venue \in BOOLEAN
    /\ m.call = "saveDetails" => m.details \in Details /\ m.next \in RoundIds
    /\ m.call = "changeBooking" => m.status \in {"Pending Review", "Cancelled"}

RequestsOK ==
    /\ requests \in [Workers -> Request]
    /\ \A w \in Workers : Knows(requests[w])
    /\ \A m \in late : Carries(m)
    /\ started \in 0 .. MaxRequests
    /\ failures \in 0 .. MaxFailures

ServiceInv == RecordsInv /\ EventsInv /\ ArrangementsTypeOK /\ RequestsOK

----------------------------------------------------------------------------
(* What a call does, when it is executed at last.                          *)
LEMMA RecordCallIsAStep ==
    ASSUME NEW m, Carries(m), RecordsInv, RecordCall(m)
    PROVE  RecordsNext
<1>1. Live \subseteq RoundIds /\ clock \in 0 .. MaxDecisions /\ \A i \in Live : rounds[i].decidedAt \in 0 .. clock
  <2>1. \A i \in Live : rounds[i].decidedAt \in Nat
    BY Rows DEF RecordsInv
  <2>. QED  BY <2>1 DEF RecordsInv, RecordsTypeOK
<1>2. CASE m.call = "create" /\ \E i \in RoundIds : CreateRound(m.event, i)
  BY <1>2 DEF Carries, RecordsNext
<1>3. CASE m.call = "delete" /\ DeleteRound(m.round)
  BY <1>1, <1>3 DEF RecordsNext, DeleteRound, CanDelete
<1>4. CASE m.call = "decide" /\ DecideRound(m.round, m.status)
  BY <1>1, <1>4 DEF Carries, RecordsNext, DecideRound, CanDecide
<1>5. CASE m.call = "reopen" /\ ReopenRound(m.round, m.stamp)
  <2>1. m.round \in Live /\ m.stamp # 0 /\ m.stamp = rounds[m.round].decidedAt
    BY <1>5 DEF ReopenRound, CanReopen
  <2>2. m.stamp \in 1 .. MaxDecisions
    BY <1>1, <2>1, RecordsAssumption
  <2>. QED  BY <1>1, <1>5, <2>1, <2>2 DEF RecordsNext
<1>6. CASE m.call = "withdraw" /\ \E i \in RoundOrNone : WithdrawApproval(m.round, i)
  BY <1>1, <1>6 DEF RecordsNext, WithdrawApproval, CanWithdraw
<1>7. CASE m.call = "restore" /\ RestoreApproval(m.round, m.next)
  BY <1>1, <1>7 DEF Carries, RecordsNext, RestoreApproval, CanRestore
<1>. QED  BY <1>2, <1>3, <1>4, <1>5, <1>6, <1>7 DEF RecordCall, RoundOrNone

(* A call to the Event Service is a step of it. *)
LEMMA EventCallIsAStep ==
    ASSUME NEW m, Carries(m), EventsInv, EventCall(m)
    PROVE  EventsNext
<1>1. CASE m.call = "submitEvent" /\ SubmitEvent(m.event, m.by, m.round)
  BY <1>1 DEF Carries, EventCalls, EventsNext
<1>2. CASE m.call = "moveDecided" /\ MoveDecided(m.event, m.round, m.status, m.venue)
  <2>1. /\ m.event \in Events /\ m.round \in RoundIds /\ m.status \in SafetyTargets /\ m.venue \in BOOLEAN
    BY <1>2 DEF Carries, EventCalls
  <2>. QED  BY <1>2, <2>1 DEF EventsNext
<1>3. CASE m.call = "withdrawEvent" /\ WithdrawEvent(m.event, m.by, m.round)
  BY <1>3 DEF Carries, EventCalls, EventsNext
<1>4. CASE m.call = "restoreEvent" /\ RestoreEvent(m.event, m.by, m.round)
  BY <1>4 DEF Carries, EventCalls, EventsNext
<1>5. CASE m.call = "saveDetails" /\ SaveDetails(m.event, m.by, m.details, m.round, m.next)
  BY <1>5 DEF Carries, EventCalls, EventsNext
<1>. QED  BY <1>1, <1>2, <1>3, <1>4, <1>5 DEF EventCall

(* A call that is refused does nothing, one that is accepted is a step of  *)
(* the service that is called.                                             *)
LEMMA ExecutesIsAStep ==
    ASSUME NEW m, Carries(m), RecordsInv, EventsInv, ArrangementsTypeOK, Executes(m)
    PROVE  /\ [RecordsNext]_recordVars /\ [EventsNext]_events
           /\ RecordsInv' /\ EventsInv' /\ ArrangementsTypeOK'
           /\ used \subseteq used'
<1>1. CASE UNCHANGED serviceVars
  BY <1>1, RecordsNextKeepsInv, EventsNextKeepsInv
     DEF serviceVars, arrangementVars, recordVars, ArrangementsTypeOK
<1>2. CASE RecordCall(m)
  <2>1. RecordsNext /\ UNCHANGED events /\ UNCHANGED arrangementVars
    BY <1>2, RecordCallIsAStep DEF RecordCall
  <2>2. used \subseteq used'
    BY <2>1 DEF RecordsNext, CreateRound, DeleteRound, DecideRound, ReopenRound, WithdrawApproval,
                RestoreApproval
  <2>. QED  BY <2>1, <2>2, RecordsNextKeepsInv, EventsNextKeepsInv DEF arrangementVars, ArrangementsTypeOK
<1>3. CASE EventCall(m)
  <2>1. EventsNext /\ UNCHANGED recordVars /\ UNCHANGED arrangementVars
    BY <1>3, EventCallIsAStep DEF EventCall
  <2>. QED  BY <2>1, RecordsNextKeepsInv, EventsNextKeepsInv
            DEF arrangementVars, ArrangementsTypeOK, recordVars
<1>4. CASE BookingCall(m)
  <2>1. UNCHANGED recordVars /\ UNCHANGED events
    BY <1>4 DEF BookingCall
  <2>2. ArrangementsTypeOK'
    BY <1>4 DEF BookingCall, Carries, ArrangementsTypeOK, BookingStatuses, RequestStatuses,
                ResetBooking, ResetEquipment, ReleaseBooking, ChangeBooking
  <2>. QED  BY <2>1, <2>2, RecordsNextKeepsInv, EventsNextKeepsInv DEF recordVars
<1>. QED  BY <1>1, <1>2, <1>3, <1>4 DEF Executes

----------------------------------------------------------------------------
(* Which round an event waits for, and which ones moved it.                *)

(* Of the rounds of an event: the write leaves them, decides the one the   *)
(* event waits for, or makes it wait for i. *)
Leaves(row, new) ==
    /\ new.submitted = row.submitted /\ new.decided = row.decided
    /\ new.status = "Pending Safety Check" => row.status = "Pending Safety Check"
Decides(row, new) ==
    /\ row.status = "Pending Safety Check" /\ new.status # "Pending Safety Check"
    /\ new.submitted = row.submitted /\ new.decided = row.decided \cup {row.submitted}
    /\ row.submitted \in RoundIds
WaitsFor(row, new, i) == new.submitted = i /\ new.decided = row.decided

(* The round that a call makes an event wait for. *)
Due(m, i) ==
    \/ m.call = "submitEvent" /\ m.round = i
    \/ m.call = "saveDetails" /\ m.next = i

(* A submission and a re-check make the event wait for their round. *)
LEMMA WaitingRows ==
    ASSUME NEW row \in EventRecord, NEW i \in RoundIds, NEW d \in Details
    PROVE  /\ WaitsFor(row, Submitted(row, i), i)
           /\ WaitsFor(row, Rechecked(row, d, i), i)
<1>1. Submitted(row, i) \in EventRecord /\ WaitsFor(row, Submitted(row, i), i)
  <2>1. Submitted(row, i).submitted = i /\ Submitted(row, i).decided = row.decided
    BY DEF Submitted, EventRecord
  <2>. QED  BY <2>1, SubmittedRow DEF WaitsFor, RoundOrNone
<1> DEFINE q == Submitted(row, i)
<1>2. q \in EventRecord /\ q.submitted = i /\ q.decided = row.decided
  BY <1>1 DEF WaitsFor
<1> HIDE DEF q
<1>3. Edited(q, d) \in EventRecord /\ Edited(q, d).submitted = i /\ Edited(q, d).decided = row.decided
  <2>1. Edited(q, d).submitted = q.submitted /\ Edited(q, d).decided = q.decided
    BY <1>2 DEF Edited, EventRecord
  <2>. QED  BY <1>2, <2>1, EditedRow
<1> DEFINE p == Edited(q, d)
<1>4. p \in EventRecord /\ p.submitted = i /\ p.decided = row.decided
  BY <1>3
<1> HIDE DEF p
<1>5. [p EXCEPT !.baseline = "recorded"].submitted = i /\ [p EXCEPT !.baseline = "recorded"].decided = row.decided
  BY <1>4 DEF EventRecord
<1>. QED  BY <1>1, <1>5 DEF WaitsFor, Rechecked, p, q

(* A decision moves an event by the round it waits for. *)
LEMMA MovedRows ==
    ASSUME NEW row \in EventRecord, NEW i \in RoundIds, NEW s \in SafetyTargets,
           row.status = "Pending Safety Check", row.submitted = i
    PROVE  Decides(row, MovedBy(row, i, s))
<1>1. s # "Pending Safety Check"
  BY DEF SafetyTargets
<1> PICK new : new = MovedBy(row, i, s)
  OBVIOUS
<1>4. new.status = s
  BY MovedRow
<1>2. CASE s = "Confirmed"
  <2> DEFINE q == Confirmed(row, i)
  <2>1. q \in EventRecord /\ q.submitted = row.submitted /\ q.decided = row.decided
    <3>1. q.submitted = row.submitted /\ q.decided = row.decided
      BY DEF Confirmed, EventRecord
    <3>. QED  BY <3>1, ConfirmedRow
  <2> HIDE DEF q
  <2>2. Reviewed(q, i).submitted = q.submitted /\ Reviewed(q, i).decided = q.decided \cup {i}
    BY <2>1 DEF Reviewed, EventRecord
  <2>3. MovedBy(row, i, s) = Reviewed(q, i)
    BY <1>2 DEF MovedBy, q
  <2>4. new.submitted = row.submitted /\ new.decided = row.decided \cup {i}
    BY <2>1, <2>2, <2>3
  <2>. QED  BY <1>1, <1>4, <2>4 DEF Decides
<1>3. CASE s # "Confirmed"
  <2>1. MovedBy(row, i, s) = Declined(row, i, s)
    BY <1>3 DEF MovedBy
  <2>2. Declined(row, i, s).submitted = row.submitted /\ Declined(row, i, s).decided = row.decided \cup {i}
    BY DEF Declined, EventRecord
  <2>3. new.submitted = row.submitted /\ new.decided = row.decided \cup {i}
    BY <2>1, <2>2
  <2>. QED  BY <1>1, <1>4, <2>3 DEF Decides
<1>. QED  BY <1>2, <1>3

(* What leaves the rounds of an event alone. *)
LEMMA LeavingRows ==
    ASSUME NEW row \in EventRecord
    PROVE  /\ \A i \in RoundIds : Leaves(row, Unconfirmed(row, i)) /\ Leaves(row, Confirmed(row, i))
           /\ \A d \in Details : Leaves(row, Edited(row, d))
           /\ \A c \in Coordinators : Leaves(row, Reassigned(row, c))
           /\ Leaves(row, [row EXCEPT !.undo = NoRound])
<1>1. ASSUME NEW i \in RoundIds PROVE Leaves(row, Unconfirmed(row, i))
  <2>1. Unconfirmed(row, i).submitted = row.submitted /\ Unconfirmed(row, i).decided = row.decided
    BY DEF Unconfirmed, EventRecord
  <2>. QED  BY <2>1, UnconfirmedRow DEF Leaves
<1>2. ASSUME NEW i \in RoundIds PROVE Leaves(row, Confirmed(row, i))
  <2>1. Confirmed(row, i).submitted = row.submitted /\ Confirmed(row, i).decided = row.decided
    BY DEF Confirmed, EventRecord
  <2>. QED  BY <2>1, ConfirmedRow DEF Leaves
<1>3. ASSUME NEW d \in Details PROVE Leaves(row, Edited(row, d))
  <2>1. Edited(row, d).submitted = row.submitted /\ Edited(row, d).decided = row.decided
    BY DEF Edited, EventRecord
  <2>. QED  BY <2>1, EditedRow DEF Leaves
<1>4. ASSUME NEW c \in Coordinators PROVE Leaves(row, Reassigned(row, c))
  <2>1. Reassigned(row, c).submitted = row.submitted /\ Reassigned(row, c).decided = row.decided
    BY DEF Reassigned, EventRecord
  <2>. QED  BY <2>1, ReassignedRow DEF Leaves
<1>5. Leaves(row, [row EXCEPT !.undo = NoRound])
  BY DEF Leaves, EventRecord
<1>. QED  BY <1>1, <1>2, <1>3, <1>4, <1>5

(* A call that moves an event by the decision of its round. *)
Moves(m, row, new) ==
    m.call = "moveDecided" /\ m.round = row.submitted /\ m.status = new.status

(* What a call to the Event Service does to the rounds of its event.       *)
LEMMA EventCallRounds ==
    ASSUME NEW m, Carries(m), EventsInv, EventCall(m)
    PROVE  \/ UNCHANGED events
           \/ \E e \in Events, new \in EventRecord :
                 /\ Saves(e, new)
                 /\ \/ Leaves(events[e], new)
                    \/ Decides(events[e], new) /\ Moves(m, events[e], new)
                    \/ \E i \in RoundIds : Due(m, i) /\ WaitsFor(events[e], new, i) /\ e = m.event
<1>1. CASE m.call = "submitEvent" /\ SubmitEvent(m.event, m.by, m.round)
  <2>1. m.event \in Events /\ m.round \in RoundIds
    BY <1>1 DEF Carries, EventCalls
  <2>2. events[m.event] \in EventRecord /\ Submitted(events[m.event], m.round) \in EventRecord
    BY <2>1, RowsOK, SubmittedRow DEF RoundOrNone
  <2>3. PICK d \in Details : TRUE
    BY <2>2 DEF EventRecord
  <2>4. WaitsFor(events[m.event], Submitted(events[m.event], m.round), m.round)
    BY <2>1, <2>2, <2>3, WaitingRows
  <2>. QED  BY <1>1, <2>1, <2>2, <2>4 DEF SubmitEvent, Due
<1>2. CASE m.call = "moveDecided" /\ MoveDecided(m.event, m.round, m.status, m.venue)
  <2>1. m.event \in Events /\ m.round \in RoundIds /\ m.status \in SafetyTargets
    BY <1>2 DEF Carries, EventCalls
  <2>2. events[m.event] \in EventRecord /\ MovedBy(events[m.event], m.round, m.status) \in EventRecord
    BY <2>1, RowsOK, MovedRow
  <2>3. Decides(events[m.event], MovedBy(events[m.event], m.round, m.status))
    BY <1>2, <2>1, <2>2, MovedRows DEF MoveDecided, CanMoveDecided, Status
  <2>4. Moves(m, events[m.event], MovedBy(events[m.event], m.round, m.status))
    BY <1>2, <2>1, <2>2, MovedRow DEF Moves, MoveDecided, CanMoveDecided
  <2>. QED  BY <1>2, <2>1, <2>2, <2>3, <2>4 DEF MoveDecided
<1>3. CASE m.call = "withdrawEvent" /\ WithdrawEvent(m.event, m.by, m.round)
  <2>1. m.event \in Events /\ m.round \in RoundIds /\ m.by \in Coordinators
    BY <1>3 DEF Carries, EventCalls
  <2>2. events[m.event] \in EventRecord /\ Unconfirmed(events[m.event], m.round) \in EventRecord
    BY <2>1, RowsOK, UnconfirmedRow
  <2>3. PICK d \in Details : TRUE
    BY <2>2 DEF EventRecord
  <2>. QED  BY <1>3, <2>1, <2>2, <2>3, LeavingRows DEF WithdrawEvent
<1>4. CASE m.call = "restoreEvent" /\ RestoreEvent(m.event, m.by, m.round)
  <2>1. m.event \in Events /\ m.round \in RoundIds /\ m.by \in Coordinators
    BY <1>4 DEF Carries, EventCalls
  <2>2. events[m.event] \in EventRecord /\ Confirmed(events[m.event], m.round) \in EventRecord
    BY <2>1, RowsOK, ConfirmedRow
  <2>3. PICK d \in Details : TRUE
    BY <2>2 DEF EventRecord
  <2>. QED  BY <1>4, <2>1, <2>2, <2>3, LeavingRows DEF RestoreEvent
<1>5. CASE m.call = "saveDetails" /\ SaveDetails(m.event, m.by, m.details, m.round, m.next)
  <2>1. /\ m.event \in Events /\ m.round \in RoundIds /\ m.by \in Coordinators
        /\ m.details \in Details /\ m.next \in RoundIds
    BY <1>5 DEF Carries, EventCalls
  <2>2. /\ events[m.event] \in EventRecord /\ Edited(events[m.event], m.details) \in EventRecord
        /\ Rechecked(events[m.event], m.details, m.next) \in EventRecord
    BY <2>1, RowsOK, EditedRow, RecheckedRow DEF RoundOrNone
  <2>3. /\ Leaves(events[m.event], Edited(events[m.event], m.details))
        /\ WaitsFor(events[m.event], Rechecked(events[m.event], m.details, m.next), m.next)
    BY <2>1, <2>2, LeavingRows, WaitingRows
  <2>. QED  BY <1>5, <2>1, <2>2, <2>3 DEF SaveDetails, Due
<1>. QED  BY <1>1, <1>2, <1>3, <1>4, <1>5 DEF EventCall

----------------------------------------------------------------------------
(* Rounds in hand: opened for an event that does not wait for them yet.    *)
Holds(r, i) ==
    \/ r.pc = "submitEvent" /\ r.round = i
    \/ r.kind = "recheck" /\ r.pc \in {"readVenue", "saveDetails"} /\ r.next = i

Unspent(i) == i \in used /\ \A e \in Events : i # events[e].submitted /\ i \notin events[e].decided

HandsOK ==
    /\ \A e \in Events : /\ events[e].submitted \in used \cup {NoRound}
                         /\ events[e].decided \subseteq used
    /\ WaitsForANewRound
    /\ \A i \in RoundIds :
          /\ \A w \in Workers : Holds(requests[w], i) => Unspent(i)
          /\ \A m \in late : Due(m, i) => Unspent(i)
          /\ \A v, w \in Workers : Holds(requests[v], i) /\ Holds(requests[w], i) => v = w
          /\ \A m, n \in late : Due(m, i) /\ Due(n, i) => m = n
          /\ \A w \in Workers, m \in late : ~(Holds(requests[w], i) /\ Due(m, i))

Inv == ServiceInv /\ HandsOK

(* A save that leaves or decides the rounds of an event spends none, one   *)
(* that makes an event wait for a round in hand spends that one.           *)
LEMMA SavedRounds ==
    ASSUME Inv, NEW e \in Events, NEW new \in EventRecord, Saves(e, new), used \subseteq used',
           NEW S \in SUBSET RoundIds,
           \/ (Leaves(events[e], new) \/ Decides(events[e], new)) /\ S = {}
           \/ \E i \in RoundIds : S = {i} /\ Unspent(i) /\ WaitsFor(events[e], new, i)
    PROVE  /\ \A f \in Events : /\ events'[f].submitted \in used' \cup {NoRound}
                                /\ events'[f].decided \subseteq used'
           /\ WaitsForANewRound'
           /\ \A j \in RoundIds \ S : Unspent(j) => Unspent(j)'
<1>1. events'[e] = new /\ \A f \in Events : f # e => events'[f] = events[f]
  BY DEF Saves, Inv, ServiceInv, EventsInv, EventsTypeOK
<1>2. \A f \in Events : /\ events[f].submitted \in used \cup {NoRound}
                        /\ events[f].decided \subseteq used
                        /\ events[f].status = "Pending Safety Check" => events[f].submitted \notin events[f].decided
  BY DEF Inv, HandsOK, WaitsForANewRound, Status
<1>3. /\ new.submitted \in used \cup {NoRound} /\ new.decided \subseteq used
      /\ new.status = "Pending Safety Check" => new.submitted \notin new.decided
      /\ \A j \in RoundIds \ S : Unspent(j) => j # new.submitted /\ j \notin new.decided
  <2>1. CASE Leaves(events[e], new)
    BY <1>2, <2>1 DEF Leaves, Unspent
  <2>2. CASE Decides(events[e], new)
    <3>1. events[e].submitted \in used
      BY <1>2, <2>2, IdsAssumption DEF Decides
    <3>. QED  BY <1>2, <2>2, <3>1 DEF Decides, Unspent
  <2>3. ASSUME NEW i \in RoundIds, S = {i}, Unspent(i), WaitsFor(events[e], new, i)
        PROVE  /\ new.submitted \in used \cup {NoRound} /\ new.decided \subseteq used
               /\ new.submitted \notin new.decided
               /\ \A j \in RoundIds \ S : Unspent(j) => j # new.submitted /\ j \notin new.decided
    BY <1>2, <2>3 DEF WaitsFor, Unspent
  <2>. QED  BY <2>1, <2>2, <2>3
<1>4. \A f \in Events : /\ events'[f].submitted \in used' \cup {NoRound}
                        /\ events'[f].decided \subseteq used'
                        /\ events'[f].status = "Pending Safety Check" => events'[f].submitted \notin events'[f].decided
  BY <1>1, <1>2, <1>3
<1>5. \A j \in RoundIds \ S : Unspent(j) => Unspent(j)'
  BY <1>1, <1>3 DEF Unspent
<1>. QED  BY <1>4, <1>5 DEF WaitsForANewRound, Status

(* An executed call spends at most the round it is due to submit.          *)
LEMMA ExecutedRounds ==
    ASSUME Inv, NEW m, Carries(m), Executes(m), \A i \in RoundIds : Due(m, i) => Unspent(i)
    PROVE  /\ \A f \in Events : /\ events'[f].submitted \in used' \cup {NoRound}
                                /\ events'[f].decided \subseteq used'
           /\ WaitsForANewRound'
           /\ used \subseteq used'
           /\ \A j \in RoundIds : Unspent(j) /\ ~Due(m, j) => Unspent(j)'
<1>1. used \subseteq used'
  BY ExecutesIsAStep DEF Inv, ServiceInv
<1>2. CASE UNCHANGED events
  BY <1>1, <1>2 DEF Inv, HandsOK, WaitsForANewRound, Status, Unspent
<1>3. CASE EventCall(m)
  <2>1. EventsInv
    BY DEF Inv, ServiceInv
  <2>2. CASE \E e \in Events, new \in EventRecord :
                 Saves(e, new) /\ (Leaves(events[e], new) \/ Decides(events[e], new))
    <3> PICK S \in SUBSET RoundIds : S = {}
      OBVIOUS
    <3>. QED  BY <1>1, <2>2, SavedRounds
  <2>3. CASE \E e \in Events, new \in EventRecord, i \in RoundIds :
                 Saves(e, new) /\ Due(m, i) /\ WaitsFor(events[e], new, i)
    <3>1. PICK e \in Events, new \in EventRecord, i \in RoundIds :
              Saves(e, new) /\ Due(m, i) /\ WaitsFor(events[e], new, i)
      BY <2>3
    <3> PICK S \in SUBSET RoundIds : S = {i}
      OBVIOUS
    <3>2. /\ \A f \in Events : /\ events'[f].submitted \in used' \cup {NoRound}
                               /\ events'[f].decided \subseteq used'
          /\ WaitsForANewRound'
          /\ \A j \in RoundIds \ S : Unspent(j) => Unspent(j)'
      BY <1>1, <3>1, SavedRounds
    <3>. QED  BY <1>1, <3>1, <3>2
  <2>. QED  BY <1>2, <1>3, <2>1, <2>2, <2>3, EventCallRounds
<1>4. CASE RecordCall(m) \/ BookingCall(m) \/ UNCHANGED serviceVars
  BY <1>2, <1>4 DEF RecordCall, BookingCall, serviceVars
<1>. QED  BY <1>3, <1>4 DEF Executes

----------------------------------------------------------------------------
(* A worker goes on.                                                       *)
Passes == [RecordsNext]_recordVars /\ [EventsNext]_events

(* After a read: what it holds it held before.                             *)
LEMMA ReadKeepsInv ==
    ASSUME Inv, NEW w \in Workers, NEW q \in Request, Knows(q),
           \A i \in RoundIds : Holds(q, i) => Holds(requests[w], i),
           \/ Reads(w, q)
           \/ ReadFails(w, q)
           \/ /\ Becomes(w, q) /\ UNCHANGED <<serviceVars, late>>
              /\ started' = started \/ (started < MaxRequests /\ started' = started + 1)
              /\ failures' = failures \/ (failures < MaxFailures /\ failures' = failures + 1)
    PROVE  Inv' /\ Passes
<1>1. /\ requests' = [requests EXCEPT ![w] = q] /\ UNCHANGED <<serviceVars, late>>
      /\ failures' \in 0 .. MaxFailures /\ started' \in 0 .. MaxRequests
  <2>1. failures \in 0 .. MaxFailures /\ MaxFailures \in Nat /\ started \in 0 .. MaxRequests /\ MaxRequests \in Nat
    BY ServiceAssumption DEF Inv, ServiceInv, RequestsOK
  <2>2. /\ failures' = failures \/ (failures < MaxFailures /\ failures' = failures + 1)
        /\ started' = started \/ (started < MaxRequests /\ started' = started + 1)
    BY DEF Reads, ReadFails
  <2>. QED  BY <2>1, <2>2 DEF Reads, ReadFails, Becomes
<1>2. requests'[w] = q /\ \A v \in Workers : v # w => requests'[v] = requests[v]
  BY <1>1 DEF Inv, ServiceInv, RequestsOK
<1>3. RequestsOK'
  BY <1>1, <1>2 DEF Inv, ServiceInv, RequestsOK
<1>4. UNCHANGED <<rounds, flagged, used, clock, events, venue, equipment>>
  BY <1>1 DEF serviceVars, recordVars, arrangementVars
<1>5. Passes
  BY <1>4 DEF Passes, recordVars
<1>6. RecordsInv' /\ EventsInv' /\ ArrangementsTypeOK'
  BY <1>4, <1>5, RecordsNextKeepsInv, EventsNextKeepsInv
     DEF Passes, Inv, ServiceInv, ArrangementsTypeOK
<1>7. \A i \in RoundIds, v \in Workers : Holds(requests'[v], i) => Holds(requests[v], i)
  BY <1>2
<1>8. HandsOK'
  <2>1. /\ \A e \in Events : /\ events'[e].submitted \in used' \cup {NoRound}
                             /\ events'[e].decided \subseteq used'
        /\ WaitsForANewRound'
    BY <1>4 DEF Inv, HandsOK, WaitsForANewRound, Status
  <2>2. \A i \in RoundIds : Unspent(i)' <=> Unspent(i)
    BY <1>4 DEF Unspent
  <2>3. late' = late
    BY <1>1
  <2>. QED  BY <1>7, <2>1, <2>2, <2>3 DEF Inv, HandsOK
<1>. QED  BY <1>3, <1>5, <1>6, <1>8 DEF Inv, ServiceInv

(* What is in hand after worker w went on with q: its call was executed or *)
(* became one of the late ones, and what it was due to submit is no longer *)
(* in w's hands.                                                           *)
LEMMA HandsMove ==
    ASSUME Inv, NEW w \in Workers, NEW m, NEW q,
           requests' = [requests EXCEPT ![w] = q],
           \A i \in RoundIds : Due(m, i) => Holds(requests[w], i),
           \A i \in RoundIds : Holds(q, i) => i \notin used /\ Unspent(i)',
           \/ late' = late /\ \A j \in RoundIds : Unspent(j) /\ ~Due(m, j) => Unspent(j)'
           \/ late' = late \cup {m} /\ \A j \in RoundIds : Unspent(j) => Unspent(j)' /\ ~Holds(q, j)
    PROVE  \A i \in RoundIds :
              /\ \A v \in Workers : Holds(requests'[v], i) => Unspent(i)'
              /\ \A n \in late' : Due(n, i) => Unspent(i)'
              /\ \A u, v \in Workers : Holds(requests'[u], i) /\ Holds(requests'[v], i) => u = v
              /\ \A n, o \in late' : Due(n, i) /\ Due(o, i) => n = o
              /\ \A v \in Workers, n \in late' : ~(Holds(requests'[v], i) /\ Due(n, i))
<1> TAKE i \in RoundIds
<1>1. /\ \A v \in Workers : Holds(requests[v], i) => Unspent(i) /\ i \in used
      /\ \A n \in late : Due(n, i) => Unspent(i) /\ i \in used
      /\ \A u, v \in Workers : Holds(requests[u], i) /\ Holds(requests[v], i) => u = v
      /\ \A n, o \in late : Due(n, i) /\ Due(o, i) => n = o
      /\ \A v \in Workers, n \in late : ~(Holds(requests[v], i) /\ Due(n, i))
  BY DEF Inv, HandsOK, Unspent
<1>2. requests'[w] = q /\ \A v \in Workers : v # w => requests'[v] = requests[v]
  BY DEF Inv, ServiceInv, RequestsOK
<1>3. Due(m, i) => /\ \A v \in Workers : Holds(requests[v], i) => v = w
                   /\ \A n \in late : ~Due(n, i)
                   /\ Unspent(i)
  BY <1>1
<1>4. Holds(q, i) => i \notin used /\ Unspent(i)'
  OBVIOUS
<1>5. \/ late' = late /\ (Unspent(i) /\ ~Due(m, i) => Unspent(i)')
      \/ late' = late \cup {m} /\ (Unspent(i) => Unspent(i)' /\ ~Holds(q, i))
  OBVIOUS
<1>6. \A v \in Workers : Holds(requests'[v], i) => Unspent(i)'
  BY <1>1, <1>2, <1>3, <1>4, <1>5
<1>7. \A n \in late' : Due(n, i) => Unspent(i)'
  BY <1>1, <1>3, <1>5
<1>8. \A u, v \in Workers : Holds(requests'[u], i) /\ Holds(requests'[v], i) => u = v
  BY <1>1, <1>2, <1>4
<1>9. \A n, o \in late' : Due(n, i) /\ Due(o, i) => n = o
  BY <1>1, <1>3, <1>5
<1>10. \A v \in Workers, n \in late' : ~(Holds(requests'[v], i) /\ Due(n, i))
  BY <1>1, <1>2, <1>3, <1>4, <1>5
<1>. QED  BY <1>6, <1>7, <1>8, <1>9, <1>10

(* After a call: it was executed or not, and w knows or does not.          *)
LEMMA CallKeepsInv ==
    ASSUME Inv, NEW w \in Workers, NEW m, Carries(m), UNCHANGED started,
           NEW done, NEW refused \in Request, NEW failed \in Request, Knows(refused), Knows(failed),
           \A i \in RoundIds : ~Holds(refused, i) /\ ~Holds(failed, i),
           \A i \in RoundIds : Due(m, i) => Holds(requests[w], i),
           Executes(m) /\ Accepts(m) =>
               /\ done \in Request /\ Knows(done)
               /\ \A i \in RoundIds : Holds(done, i) => i \in used' \ used /\ UNCHANGED events,
           Calls(w, m, done, refused, failed)
    PROVE  Inv' /\ Passes
<1>1. failures' \in 0 .. MaxFailures
  <2>1. failures \in 0 .. MaxFailures /\ MaxFailures \in Nat
    BY ServiceAssumption DEF Inv, ServiceInv, RequestsOK
  <2>2. failures' = failures \/ (failures < MaxFailures /\ failures' = failures + 1)
    BY DEF Calls
  <2>. QED  BY <2>1, <2>2
<1>2. \A i \in RoundIds : Due(m, i) => Unspent(i)
  BY DEF Inv, HandsOK
<1>3. \E q \in {done, refused, failed} :
        /\ requests' = [requests EXCEPT ![w] = q]
        /\ \/ Executes(m) /\ late' = late /\ (q = done => Accepts(m) \/ q \in {refused, failed})
           \/ UNCHANGED serviceVars /\ late' \in {late, late \cup {m}} /\ q = failed
  BY DEF Calls, Becomes
<1> PICK q \in {done, refused, failed} :
        /\ requests' = [requests EXCEPT ![w] = q]
        /\ \/ Executes(m) /\ late' = late /\ (q = done => Accepts(m) \/ q \in {refused, failed})
           \/ UNCHANGED serviceVars /\ late' \in {late, late \cup {m}} /\ q = failed
  BY <1>3
<1>4. /\ q \in Request /\ Knows(q)
      /\ \A i \in RoundIds : Holds(q, i) => i \in used' \ used /\ UNCHANGED events
  OBVIOUS
<1>5. requests' \in [Workers -> Request] /\ \A v \in Workers : Knows(requests'[v])
  BY <1>4 DEF Inv, ServiceInv, RequestsOK
<1>6. RequestsOK'
  BY <1>1, <1>5 DEF Inv, ServiceInv, RequestsOK
<1>7. /\ RecordsInv' /\ EventsInv' /\ ArrangementsTypeOK' /\ Passes
      /\ \A f \in Events : /\ events'[f].submitted \in used' \cup {NoRound}
                           /\ events'[f].decided \subseteq used'
      /\ WaitsForANewRound'
  <2>1. CASE Executes(m)
    BY <1>2, <2>1, ExecutesIsAStep, ExecutedRounds DEF Inv, ServiceInv, Passes
  <2>2. CASE UNCHANGED serviceVars
    <3>1. UNCHANGED <<rounds, flagged, used, clock, events, venue, equipment>>
      BY <2>2 DEF serviceVars, recordVars, arrangementVars
    <3>2. Passes
      BY <3>1 DEF Passes, recordVars
    <3>3. RecordsInv' /\ EventsInv' /\ ArrangementsTypeOK'
      BY <3>1, <3>2, RecordsNextKeepsInv, EventsNextKeepsInv
         DEF Passes, Inv, ServiceInv, ArrangementsTypeOK
    <3>. QED  BY <3>1, <3>2, <3>3 DEF Inv, HandsOK, WaitsForANewRound, Status
  <2>. QED  BY <2>1, <2>2
<1>8. \A i \in RoundIds : Holds(q, i) => i \notin used /\ Unspent(i)'
  <2> SUFFICES ASSUME NEW i \in RoundIds, Holds(q, i) PROVE i \notin used /\ Unspent(i)'
    OBVIOUS
  <2>1. i \in used' \ used /\ UNCHANGED events
    BY <1>4
  <2>2. \A e \in Events : events[e].submitted \in used \cup {NoRound} /\ events[e].decided \subseteq used
    BY DEF Inv, HandsOK
  <2>3. \A e \in Events : i # events'[e].submitted /\ i \notin events'[e].decided
    BY <2>1, <2>2, IdsAssumption
  <2>. QED  BY <2>1, <2>3 DEF Unspent
<1>9. \/ late' = late /\ \A j \in RoundIds : Unspent(j) /\ ~Due(m, j) => Unspent(j)'
      \/ late' = late \cup {m} /\ \A j \in RoundIds : Unspent(j) => Unspent(j)' /\ ~Holds(q, j)
  <2>1. CASE Executes(m) /\ late' = late
    BY <1>2, <2>1, ExecutedRounds
  <2>2. CASE UNCHANGED serviceVars /\ late' \in {late, late \cup {m}} /\ q = failed
    <3>1. \A j \in RoundIds : Unspent(j) => Unspent(j)'
      BY <2>2 DEF serviceVars, recordVars, Unspent
    <3>. QED  BY <2>2, <3>1
  <2>. QED  BY <2>1, <2>2
<1>10. HandsOK'
  BY <1>7, <1>8, <1>9, HandsMove DEF HandsOK
<1>. QED  BY <1>6, <1>7, <1>10 DEF Inv, ServiceInv

(* A call its caller gave up on is executed.                               *)
LEMMA LateCallKeepsInv ==
    ASSUME Inv, LateCall
    PROVE  Inv' /\ Passes
<1> PICK m \in late : Executes(m) /\ late' = late \ {m} /\ UNCHANGED <<requests, started, failures>>
  BY DEF LateCall
<1>1. Carries(m) /\ \A i \in RoundIds : Due(m, i) => Unspent(i)
  BY DEF Inv, ServiceInv, RequestsOK, HandsOK
<1>2. /\ RecordsInv' /\ EventsInv' /\ ArrangementsTypeOK' /\ Passes
      /\ \A f \in Events : /\ events'[f].submitted \in used' \cup {NoRound}
                           /\ events'[f].decided \subseteq used'
      /\ WaitsForANewRound'
      /\ \A j \in RoundIds : Unspent(j) /\ ~Due(m, j) => Unspent(j)'
  BY <1>1, ExecutesIsAStep, ExecutedRounds DEF Inv, ServiceInv, Passes
<1>3. RequestsOK'
  BY DEF Inv, ServiceInv, RequestsOK
<1>4. \A i \in RoundIds :
          /\ \A w \in Workers : Holds(requests[w], i) => Unspent(i) /\ ~Due(m, i)
          /\ \A n \in late : Due(n, i) => Unspent(i) /\ (Due(m, i) => n = m)
          /\ \A v, w \in Workers : Holds(requests[v], i) /\ Holds(requests[w], i) => v = w
          /\ \A n, o \in late : Due(n, i) /\ Due(o, i) => n = o
          /\ \A w \in Workers, n \in late : ~(Holds(requests[w], i) /\ Due(n, i))
  BY DEF Inv, HandsOK
<1>5. HandsOK'
  BY <1>2, <1>4 DEF HandsOK
<1>. QED  BY <1>2, <1>3, <1>5 DEF Inv, ServiceInv

----------------------------------------------------------------------------
(* The records of requests.                                                *)
GoesTo(r, p) == [r EXCEPT !.pc = p]
WithRound(r, i) == [r EXCEPT !.round = i]
WithNext(r, i) == [r EXCEPT !.next = i]
WithStamp(r, t) == [r EXCEPT !.stamp = t]
WithFlags(r, S) == [r EXCEPT !.flags = S]
NotWaited(r) == [r EXCEPT !.waited = FALSE]

(* What Knows and Holds look at. *)
SameKnowledge(q, r) ==
    /\ q.kind = r.kind /\ q.event = r.event /\ q.by = r.by /\ q.details = r.details

(* Going on to another step changes the step alone. *)
LEMMA GoesToFields ==
    ASSUME NEW r \in Request, NEW p \in Pcs
    PROVE  /\ GoesTo(r, p) \in Request /\ SameKnowledge(GoesTo(r, p), r)
           /\ GoesTo(r, p).pc = p /\ GoesTo(r, p).round = r.round /\ GoesTo(r, p).next = r.next
           /\ GoesTo(r, p).flags = r.flags
BY DEF GoesTo, Request, SameKnowledge

(* The round found or created. *)
LEMMA WithRoundFields ==
    ASSUME NEW r \in Request, NEW i \in RoundOrNone
    PROVE  /\ WithRound(r, i) \in Request /\ SameKnowledge(WithRound(r, i), r)
           /\ WithRound(r, i).pc = r.pc /\ WithRound(r, i).round = i /\ WithRound(r, i).next = r.next
BY DEF WithRound, Request, SameKnowledge

(* The round opened by a withdrawal. *)
LEMMA WithNextFields ==
    ASSUME NEW r \in Request, NEW i \in RoundOrNone
    PROVE  /\ WithNext(r, i) \in Request /\ SameKnowledge(WithNext(r, i), r)
           /\ WithNext(r, i).pc = r.pc /\ WithNext(r, i).round = r.round /\ WithNext(r, i).next = i
BY DEF WithNext, Request, SameKnowledge

(* The stamp of a decision. *)
LEMMA WithStampFields ==
    ASSUME NEW r \in Request, NEW t \in 0 .. MaxDecisions
    PROVE  /\ WithStamp(r, t) \in Request /\ SameKnowledge(WithStamp(r, t), r)
           /\ WithStamp(r, t).pc = r.pc /\ WithStamp(r, t).round = r.round /\ WithStamp(r, t).next = r.next
BY DEF WithStamp, Request, SameKnowledge

(* The flags that still have to be acted on. *)
LEMMA WithFlagsFields ==
    ASSUME NEW r \in Request, NEW S \in SUBSET {"venue", "equipment"}
    PROVE  /\ WithFlags(r, S) \in Request /\ SameKnowledge(WithFlags(r, S), r)
           /\ WithFlags(r, S).pc = r.pc /\ WithFlags(r, S).round = r.round /\ WithFlags(r, S).next = r.next
BY DEF WithFlags, Request, SameKnowledge

(* The caller no longer waits. *)
LEMMA NotWaitedFields ==
    ASSUME NEW r \in Request
    PROVE  /\ NotWaited(r) \in Request /\ SameKnowledge(NotWaited(r), r)
           /\ NotWaited(r).pc = r.pc /\ NotWaited(r).round = r.round /\ NotWaited(r).next = r.next
BY DEF NotWaited, Request, SameKnowledge

(* The request goes on with a new value for one of its variables. *)
LEMMA GoesWith ==
    ASSUME NEW r \in Request, NEW p \in Pcs
    PROVE  /\ \A i \in RoundOrNone :
                 LET q == WithRound(GoesTo(r, p), i)
                 IN  q \in Request /\ SameKnowledge(q, r) /\ q.pc = p /\ q.round = i /\ q.next = r.next
           /\ \A i \in RoundOrNone :
                 LET q == WithNext(GoesTo(r, p), i)
                 IN  q \in Request /\ SameKnowledge(q, r) /\ q.pc = p /\ q.round = r.round /\ q.next = i
           /\ \A t \in 0 .. MaxDecisions :
                 LET q == WithStamp(GoesTo(r, p), t)
                 IN  q \in Request /\ SameKnowledge(q, r) /\ q.pc = p /\ q.round = r.round /\ q.next = r.next
           /\ \A S \in SUBSET {"venue", "equipment"} :
                 LET q == WithFlags(GoesTo(r, p), S)
                 IN  q \in Request /\ SameKnowledge(q, r) /\ q.pc = p /\ q.round = r.round /\ q.next = r.next
<1> PICK g : g = GoesTo(r, p)
  OBVIOUS
<1>1. g \in Request /\ SameKnowledge(g, r) /\ g.pc = p /\ g.round = r.round /\ g.next = r.next
  BY GoesToFields
<1>2. ASSUME NEW i \in RoundOrNone
      PROVE  /\ WithRound(g, i) \in Request /\ SameKnowledge(WithRound(g, i), r)
             /\ WithRound(g, i).pc = p /\ WithRound(g, i).round = i /\ WithRound(g, i).next = r.next
             /\ WithNext(g, i) \in Request /\ SameKnowledge(WithNext(g, i), r)
             /\ WithNext(g, i).pc = p /\ WithNext(g, i).round = r.round /\ WithNext(g, i).next = i
  BY <1>1, WithRoundFields, WithNextFields DEF SameKnowledge
<1>3. ASSUME NEW t \in 0 .. MaxDecisions
      PROVE  /\ WithStamp(g, t) \in Request /\ SameKnowledge(WithStamp(g, t), r)
             /\ WithStamp(g, t).pc = p /\ WithStamp(g, t).round = r.round /\ WithStamp(g, t).next = r.next
  BY <1>1, WithStampFields DEF SameKnowledge
<1>4. ASSUME NEW S \in SUBSET {"venue", "equipment"}
      PROVE  /\ WithFlags(g, S) \in Request /\ SameKnowledge(WithFlags(g, S), r)
             /\ WithFlags(g, S).pc = p /\ WithFlags(g, S).round = r.round /\ WithFlags(g, S).next = r.next
  BY <1>1, WithFlagsFields DEF SameKnowledge
<1>. QED  BY <1>2, <1>3, <1>4

(* A worker that serves nothing. *)
LEMMA DoneFields ==
    /\ NoRequest \in Request /\ Knows(NoRequest) /\ NoRequest.pc = "idle"
    /\ \A i : ~Holds(NoRequest, i)
<1>1. NoRequest.pc = "idle" /\ NoRequest.kind = "none"
  BY DEF NoRequest
<1>2. NoRequest \in Request
  BY RecordsAssumption DEF NoRequest, Request, Pcs, RoundOrNone
<1>3. Knows(NoRequest)
  BY <1>1 DEF Knows, SubmitPcs, DecidePcs, WithdrawPcs, VenuePcs, RoundPcs
<1>4. \A i : ~Holds(NoRequest, i)
  BY <1>1 DEF Holds
<1>. QED  BY <1>1, <1>2, <1>3, <1>4

(* What a worker knows of the request it serves. *)
LEMMA Serving ==
    ASSUME Inv, NEW w \in Workers
    PROVE  /\ requests[w] \in Request /\ Knows(requests[w]) /\ requests[w].flags \in SUBSET {"venue", "equipment"}
           /\ requests[w].round \in RoundOrNone /\ requests[w].next \in RoundOrNone
           /\ requests[w].venue \in BOOLEAN /\ requests[w].stamp \in 0 .. MaxDecisions
BY DEF Inv, ServiceInv, RequestsOK, Request

(* The request goes on to another of its own steps. *)
LEMMA GoesOn ==
    ASSUME Inv, NEW w \in Workers, NEW p \in Pcs,
           \/ requests[w].pc \in SubmitPcs /\ p \in SubmitPcs
           \/ requests[w].pc \in DecidePcs /\ p \in DecidePcs
           \/ requests[w].pc \in WithdrawPcs \cup {"saveDetails"} /\ p \in WithdrawPcs
           \/ requests[w].pc \in WithdrawPcs /\ requests[w].kind = "recheck" /\ p = "saveDetails"
           \/ requests[w].pc \in WithdrawPcs \cup VenuePcs /\ requests[w].kind \in VenueChanges /\ p \in VenuePcs
           \/ requests[w].pc \in VenuePcs /\ p \in WithdrawPcs,
           p \in RoundPcs => requests[w].pc \in RoundPcs,
           p \in {"readVenue", "saveDetails"} => requests[w].pc = "readVenue"
    PROVE  /\ To(w, p) \in Request /\ Knows(To(w, p)) /\ To(w, p).pc = p
           /\ \A i : Holds(To(w, p), i) => p = "submitEvent" \/ Holds(requests[w], i)
           /\ To(w, p).kind = requests[w].kind /\ To(w, p).round = requests[w].round
<1> PICK r \in Request : r = requests[w]
  BY Serving
<1> PICK q : q = GoesTo(r, p)
  OBVIOUS
<1>1. To(w, p) = q
  BY DEF To, GoesTo
<1>2. /\ q \in Request /\ SameKnowledge(q, r) /\ q.pc = p /\ q.round = r.round /\ q.next = r.next
  BY GoesToFields
<1>3. Knows(r)
  BY Serving
<1>4. Knows(q)
  BY <1>2, <1>3 DEF Knows, SameKnowledge, SubmitPcs, DecidePcs, WithdrawPcs, VenuePcs, RoundPcs,
                    Decisions, VenueChanges
<1>5. \A i : Holds(q, i) => p = "submitEvent" \/ Holds(r, i)
  BY <1>2 DEF Holds, SameKnowledge
<1>. QED  BY <1>1, <1>2, <1>4, <1>5 DEF SameKnowledge

----------------------------------------------------------------------------
(* submit_safety_check.                                                    *)

(* The round a call has opened is new, and no event waits for it yet.      *)
LEMMA OpensARound ==
    ASSUME Inv, NEW m, Executes(m), Accepts(m),
           \/ m.call = "create"
           \/ m.call = "withdraw" /\ m.opens
    PROVE  NewRound \in RoundIds /\ NewRound \in used' \ used /\ UNCHANGED events
<1>1. RecordCall(m)
  BY DEF Executes, EventCall, BookingCall
<1>2. \E i \in RoundIds : i \notin used /\ used' = used \cup {i}
  <2>1. CASE m.call = "create"
    BY <1>1, <2>1 DEF RecordCall, CreateRound, Fresh
  <2>2. CASE m.call = "withdraw" /\ m.opens
    BY <1>1, <2>2, IdsAssumption DEF RecordCall, WithdrawApproval, Fresh
  <2>. QED  BY <2>1, <2>2
<1>. QED  BY <1>1, <1>2 DEF NewRound, RecordCall

(* Every step of a submission keeps the invariant. *)
LEMMA SubmitStepKeepsInv ==
    ASSUME Inv, NEW w \in Workers, SubmitStep(w)
    PROVE  Inv' /\ Passes
<1> PICK r \in Request : r = requests[w]
  BY Serving
<1>1. Knows(r) /\ r.round \in RoundOrNone
  BY Serving
<1>2. ASSUME CheckReadiness(w) PROVE Inv' /\ Passes
  <2>1. r.pc = "readiness"
    BY <1>2 DEF CheckReadiness, At
  <2> PICK q : q = IF Ready(r.event) THEN To(w, "createRound") ELSE Done
    OBVIOUS
  <2>2. Reads(w, q)
    BY <1>2 DEF CheckReadiness
  <2>3. /\ To(w, "createRound") \in Request /\ Knows(To(w, "createRound"))
        /\ \A i : Holds(To(w, "createRound"), i) => Holds(r, i)
    BY <2>1, GoesOn DEF SubmitPcs, Pcs, RoundPcs
  <2>. QED  BY <2>2, <2>3, DoneFields, ReadKeepsInv DEF Done
<1>3. ASSUME CallCreate(w) PROVE Inv' /\ Passes
  <2>1. r.pc = "createRound" /\ UNCHANGED started
    BY <1>3 DEF CallCreate, At
  <2> PICK m : m = [call |-> "create", event |-> r.event]
    OBVIOUS
  <2>2. /\ m.call = "create" /\ Carries(m) /\ \A i \in RoundIds : ~Due(m, i)
    BY <1>1, <2>1 DEF Knows, Carries, Due, EventCalls, BookingCalls
  <2> PICK done : done = [To(w, "submitEvent") EXCEPT !.round = NewRound]
    OBVIOUS
  <2>3. Calls(w, m, done, Done, Done)
    BY <1>3 DEF CallCreate
  <2>4. ASSUME Executes(m), Accepts(m)
        PROVE  /\ done \in Request /\ Knows(done)
               /\ \A i \in RoundIds : Holds(done, i) => i \in used' \ used /\ UNCHANGED events
    <3> PICK new : new = NewRound
      OBVIOUS
    <3>1. new \in RoundIds /\ new \in used' \ used /\ UNCHANGED events
      BY <2>2, <2>4, OpensARound
    <3> PICK q : q = WithRound(GoesTo(r, "submitEvent"), new)
      OBVIOUS
    <3>2. new \in RoundOrNone /\ "submitEvent" \in Pcs
      BY <3>1 DEF RoundOrNone, Pcs, SubmitPcs
    <3>3. q \in Request /\ SameKnowledge(q, r) /\ q.pc = "submitEvent" /\ q.round = new
      BY <3>2, GoesWith
    <3>4. done = q
      BY DEF To, GoesTo, WithRound
    <3>5. Knows(q)
      BY <1>1, <2>1, <3>1, <3>3 DEF Knows, SameKnowledge, SubmitPcs, DecidePcs, WithdrawPcs, VenuePcs, RoundPcs
    <3>6. \A i : Holds(q, i) => i = new
      BY <3>3 DEF Holds
    <3>. QED  BY <3>1, <3>3, <3>4, <3>5, <3>6
  <2>. QED  BY <2>1, <2>2, <2>3, <2>4, DoneFields, CallKeepsInv DEF Done
<1>4. ASSUME CallSubmitEvent(w) PROVE Inv' /\ Passes
  <2>1. r.pc = "submitEvent" /\ UNCHANGED started
    BY <1>4 DEF CallSubmitEvent, At
  <2> PICK m : m = [call |-> "submitEvent", event |-> r.event, by |-> r.by, round |-> r.round]
    OBVIOUS
  <2>2. /\ Carries(m) /\ \A i \in RoundIds : Due(m, i) => Holds(r, i)
    <3>1. r.event \in Events /\ r.by \in Coordinators /\ r.round \in RoundIds
      BY <1>1, <2>1 DEF Knows, SubmitPcs, RoundPcs, Decisions
    <3>. QED  BY <2>1, <3>1 DEF Carries, Due, EventCalls, BookingCalls, Holds
  <2> PICK q : q = To(w, "deleteRound")
    OBVIOUS
  <2>3. Calls(w, m, Done, q, q)
    BY <1>4 DEF CallSubmitEvent
  <2>4. q \in Request /\ Knows(q) /\ q.pc = "deleteRound" /\ q.kind = r.kind
    BY <2>1, GoesOn DEF SubmitPcs, Pcs, RoundPcs
  <2>5. \A i : ~Holds(q, i)
    BY <2>4 DEF Holds
  <2>. QED  BY <2>1, <2>2, <2>3, <2>4, <2>5, DoneFields, CallKeepsInv DEF Done
<1>5. ASSUME CallDelete(w) PROVE Inv' /\ Passes
  <2> PICK m : m = [call |-> "delete", round |-> r.round]
    OBVIOUS
  <2>1. Carries(m) /\ \A i \in RoundIds : ~Due(m, i)
    BY DEF Carries, Due, EventCalls, BookingCalls
  <2>2. Calls(w, m, Done, Done, Done) /\ UNCHANGED started
    BY <1>5 DEF CallDelete
  <2>. QED  BY <2>1, <2>2, DoneFields, CallKeepsInv DEF Done
<1>. QED  BY <1>2, <1>3, <1>4, <1>5 DEF SubmitStep

----------------------------------------------------------------------------
(* _decide.                                                                *)
LEMMA Deciding ==
    ASSUME NEW r \in Request, Knows(r), r.pc \in DecidePcs,
           NEW q \in Request, SameKnowledge(q, r), q.pc \in DecidePcs,
           q.pc \in RoundPcs => q.round \in RoundIds
    PROVE  Knows(q) /\ \A i : ~Holds(q, i)
BY DEF Knows, SameKnowledge, Holds, SubmitPcs, DecidePcs, WithdrawPcs, VenuePcs, RoundPcs, Decisions

(* The steps a decision goes on to once its round is known. *)
LEMMA DecisionGoesOn ==
    ASSUME NEW r \in Request, Knows(r), r.pc \in DecidePcs, r.pc \in RoundPcs, NEW p \in DecidePcs
    PROVE  GoesTo(r, p) \in Request /\ Knows(GoesTo(r, p)) /\ \A i : ~Holds(GoesTo(r, p), i)
<1>1. p \in Pcs /\ r.round \in RoundIds
  BY DEF Pcs, Knows
<1> PICK q : q = GoesTo(r, p)
  OBVIOUS
<1>2. q \in Request /\ SameKnowledge(q, r) /\ q.pc = p /\ q.round = r.round
  BY <1>1, GoesToFields
<1>3. q.pc \in DecidePcs /\ (q.pc \in RoundPcs => q.round \in RoundIds)
  BY <1>1, <1>2
<1>. QED  BY <1>2, <1>3, Deciding

(* What follows a decision is a step of it. *)
LEMMA AfterDecisionPcs ==
    ASSUME NEW flags
    PROVE  AfterDecision(flags) \in DecidePcs
BY DEF AfterDecision, DecidePcs

(* The decision with the stamp it was given. *)
LEMMA DecisionStamped ==
    ASSUME NEW r \in Request, Knows(r), r.pc \in DecidePcs, r.pc \in RoundPcs, NEW p \in DecidePcs,
           NEW t \in 0 .. MaxDecisions
    PROVE  /\ WithStamp(GoesTo(r, p), t) \in Request /\ Knows(WithStamp(GoesTo(r, p), t))
           /\ \A i : ~Holds(WithStamp(GoesTo(r, p), t), i)
<1>1. p \in Pcs /\ r.round \in RoundIds
  BY DEF Pcs, Knows
<1> PICK q : q = WithStamp(GoesTo(r, p), t)
  OBVIOUS
<1>2. q \in Request /\ SameKnowledge(q, r) /\ q.pc = p /\ q.round = r.round
  BY <1>1, GoesWith
<1>3. q.pc \in DecidePcs /\ (q.pc \in RoundPcs => q.round \in RoundIds)
  BY <1>1, <1>2
<1>. QED  BY <1>2, <1>3, Deciding

(* The reads of a decision. *)
LEMMA DecideReadsKeepInv ==
    ASSUME Inv, NEW w \in Workers, FindOpenRound(w) \/ ReadArrangements(w) \/ FindDecision(w) \/ FindMove(w)
    PROVE  Inv' /\ Passes
<1> PICK r \in Request : r = requests[w]
  BY Serving
<1>1. Knows(r) /\ r.flags \in SUBSET {"venue", "equipment"}
  BY Serving
<1>2. Live \subseteq RoundIds /\ \A i \in Live : rounds[i].decidedAt \in 0 .. MaxDecisions
  <2>1. \A i \in Live : rounds[i].decidedAt \in Nat /\ rounds[i].decidedAt <= clock
    BY Rows DEF Inv, ServiceInv, RecordsInv, RecordsTypeOK
  <2>2. clock \in 0 .. MaxDecisions /\ Live \subseteq RoundIds
    BY DEF Inv, ServiceInv, RecordsInv, RecordsTypeOK
  <2>. QED  BY <2>1, <2>2, RecordsAssumption
<1>3. ASSUME FindOpenRound(w) PROVE Inv' /\ Passes
  <2>1. r.pc = "findRound"
    BY <1>3 DEF FindOpenRound, At
  <2>2. CASE Reads(w, Done)
    BY <2>2, DoneFields, ReadKeepsInv DEF Done
  <2>3. ASSUME NEW i \in Live, NEW p \in {"readArrangements", "decide"}, Reads(w, WithRound(GoesTo(r, p), i))
        PROVE  Inv' /\ Passes
    <3>1. i \in RoundIds /\ i \in RoundOrNone /\ p \in Pcs /\ p \in DecidePcs /\ r.pc \in DecidePcs
      BY <1>2, <2>1 DEF RoundOrNone, Pcs, DecidePcs
    <3> PICK q : q = WithRound(GoesTo(r, p), i)
      OBVIOUS
    <3>2. q \in Request /\ SameKnowledge(q, r) /\ q.pc = p /\ q.round = i
      BY <3>1, GoesWith
    <3>3. Knows(q) /\ \A j : ~Holds(q, j)
      BY <1>1, <3>1, <3>2, Deciding
    <3>. QED  BY <2>3, <3>2, <3>3, ReadKeepsInv
  <2>. QED  BY <1>3, <2>2, <2>3 DEF FindOpenRound, RoundsOf, To, GoesTo, WithRound
<1>4. ASSUME ReadArrangements(w) PROVE Inv' /\ Passes
  <2>1. r.pc = "readArrangements"
    BY <1>4 DEF ReadArrangements, At
  <2>2. CASE Reads(w, Done)
    BY <2>2, DoneFields, ReadKeepsInv DEF Done
  <2> PICK S : S = r.flags \cap Resettable(r.event)
    OBVIOUS
  <2>3. CASE Reads(w, WithFlags(GoesTo(r, "decide"), S))
    <3>1. /\ S \in SUBSET {"venue", "equipment"} /\ "decide" \in Pcs /\ "decide" \in DecidePcs
          /\ r.pc \in DecidePcs /\ r.pc \in RoundPcs
      BY <1>1, <2>1 DEF Pcs, DecidePcs, RoundPcs
    <3> PICK q : q = WithFlags(GoesTo(r, "decide"), S)
      OBVIOUS
    <3>2. q \in Request /\ SameKnowledge(q, r) /\ q.pc = "decide" /\ q.round = r.round
      BY <3>1, GoesWith
    <3>3. r.round \in RoundIds
      BY <1>1, <3>1 DEF Knows
    <3>4. Knows(q) /\ \A j : ~Holds(q, j)
      BY <1>1, <3>1, <3>2, <3>3, Deciding
    <3>. QED  BY <2>3, <3>2, <3>4, ReadKeepsInv
  <2>4. [To(w, "decide") EXCEPT !.flags = @ \cap Resettable(r.event)] = WithFlags(GoesTo(r, "decide"), S)
    <3>1. GoesTo(r, "decide").flags = r.flags
      BY GoesToFields DEF Pcs, DecidePcs
    <3>. QED  BY <3>1 DEF WithFlags, To, GoesTo
  <2>. QED  BY <1>4, <2>2, <2>3, <2>4 DEF ReadArrangements
<1>5. ASSUME FindDecision(w) PROVE Inv' /\ Passes
  <2>1. r.pc = "findDecision" /\ r.pc \in DecidePcs /\ r.pc \in RoundPcs
    BY <1>5 DEF FindDecision, At, DecidePcs, RoundPcs
  <2>2. CASE Reads(w, Done) \/ ReadFails(w, Done)
    BY <2>2, DoneFields, ReadKeepsInv DEF Done
  <2>3. CASE /\ r.round \in Live
             /\ Reads(w, [To(w, AfterDecision(r.flags)) EXCEPT !.stamp = rounds[r.round].decidedAt])
    <3> PICK p \in DecidePcs : p = AfterDecision(r.flags)
      BY AfterDecisionPcs
    <3> PICK t \in 0 .. MaxDecisions : t = rounds[r.round].decidedAt
      BY <1>2, <2>3
    <3>1. Reads(w, WithStamp(GoesTo(r, p), t))
      BY <2>3 DEF To, GoesTo, WithStamp
    <3>. QED  BY <1>1, <2>1, <3>1, DecisionStamped, ReadKeepsInv
  <2>. QED  BY <1>5, <2>2, <2>3 DEF FindDecision
<1>6. ASSUME FindMove(w) PROVE Inv' /\ Passes
  <2>1. r.pc = "findMove" /\ r.pc \in DecidePcs /\ r.pc \in RoundPcs
    BY <1>6 DEF FindMove, At, DecidePcs, RoundPcs
  <2>2. CASE Reads(w, Done)
    BY <2>2, DoneFields, ReadKeepsInv DEF Done
  <2>3. CASE \E p \in {"release", "reopen"} : Reads(w, GoesTo(r, p)) \/ ReadFails(w, GoesTo(r, p))
    BY <1>1, <2>1, <2>3, DecisionGoesOn, ReadKeepsInv DEF DecidePcs
  <2>. QED  BY <1>6, <2>2, <2>3 DEF FindMove, Moved, To, GoesTo
<1>. QED  BY <1>3, <1>4, <1>5, <1>6

(* A request that goes on with no round in hand. *)
EmptyHanded(q) == q \in Request /\ Knows(q) /\ \A i : ~Holds(q, i)

(* A call that submits no round and is answered with none. *)
LEMMA PlainCallKeepsInv ==
    ASSUME Inv, NEW w \in Workers, NEW m, Carries(m), UNCHANGED started,
           NEW done, NEW refused, NEW failed, EmptyHanded(done), EmptyHanded(refused), EmptyHanded(failed),
           \A i \in RoundIds : Due(m, i) => Holds(requests[w], i),
           Calls(w, m, done, refused, failed)
    PROVE  Inv' /\ Passes
BY CallKeepsInv DEF EmptyHanded

(* The calls of a decision. *)
LEMMA DecideCallsKeepInv ==
    ASSUME Inv, NEW w \in Workers,
           \/ CallDecide(w) \/ CallResetVenue(w) \/ CallResetEquipment(w)
           \/ CallMoveDecided(w) \/ CallReopen(w) \/ CallRelease(w)
    PROVE  Inv' /\ Passes
<1> PICK r \in Request : r = requests[w]
  BY Serving
<1>1. Knows(r) /\ r.flags \in SUBSET {"venue", "equipment"} /\ r.venue \in BOOLEAN
  BY Serving
<1>2. ASSUME NEW p \in DecidePcs, r.pc \in DecidePcs, r.pc \in RoundPcs
      PROVE  EmptyHanded(GoesTo(r, p))
  BY <1>1, <1>2, DecisionGoesOn DEF EmptyHanded
<1>3. EmptyHanded(NoRequest)
  BY DoneFields DEF EmptyHanded
<1>4. r.pc \in DecidePcs => r.event \in Events /\ r.kind \in Decisions
  BY <1>1 DEF Knows, DecidePcs
<1>5. r.pc \in RoundPcs => r.round \in RoundIds
  BY <1>1 DEF Knows
<1>6. {"decide", "findDecision", "resetVenue", "resetEquipment", "moveEvent", "findMove", "reopen"}
      \subseteq DecidePcs \cap RoundPcs
  BY DEF DecidePcs, RoundPcs
<1>7. ASSUME CallDecide(w) PROVE Inv' /\ Passes
  <2>1. r.pc = "decide" /\ UNCHANGED started
    BY <1>7 DEF CallDecide, At
  <2> PICK m : m = [call |-> "decide", round |-> r.round, status |-> RecordStatusOf(r.kind)]
    OBVIOUS
  <2>2. Carries(m) /\ \A i \in RoundIds : ~Due(m, i)
    <3>1. RecordStatusOf(r.kind) \in DecisionStatuses
      BY <1>4, <1>6, <2>1 DEF Decisions, RecordStatusOf, DecisionStatuses
    <3>. QED  BY <3>1 DEF Carries, Due, EventCalls, BookingCalls
  <2> PICK p \in DecidePcs : p = AfterDecision(r.flags)
    BY AfterDecisionPcs
  <2> PICK done : done = WithStamp(GoesTo(r, p), NewStamp)
    OBVIOUS
  <2>3. Calls(w, m, done, NoRequest, GoesTo(r, "findDecision"))
    BY <1>7 DEF CallDecide, To, GoesTo, WithStamp, Done
  <2>4. EmptyHanded(GoesTo(r, "findDecision"))
    BY <1>2, <1>6, <2>1
  <2>5. ASSUME Executes(m) PROVE EmptyHanded(done)
    <3>1. RecordsInv'
      BY <2>2, <2>5, ExecutesIsAStep DEF Inv, ServiceInv
    <3>2. NewStamp \in 0 .. MaxDecisions
      BY <3>1 DEF NewStamp, RecordsInv, RecordsTypeOK
    <3>. QED  BY <1>1, <1>6, <2>1, <3>2, DecisionStamped DEF EmptyHanded
  <2>. QED  BY <1>3, <2>1, <2>2, <2>3, <2>4, <2>5, CallKeepsInv DEF EmptyHanded
<1>8. ASSUME CallResetVenue(w) PROVE Inv' /\ Passes
  <2>1. r.pc = "resetVenue" /\ UNCHANGED started
    BY <1>8 DEF CallResetVenue, At
  <2> PICK m : m = [call |-> "resetBooking", event |-> r.event]
    OBVIOUS
  <2>2. Carries(m) /\ \A i \in RoundIds : ~Due(m, i)
    BY <1>4, <1>6, <2>1 DEF Carries, Due, EventCalls, BookingCalls
  <2> PICK p \in DecidePcs : p = AfterDecision(r.flags \ {"venue"})
    BY AfterDecisionPcs
  <2>3. Calls(w, m, GoesTo(r, p), GoesTo(r, "reopen"), GoesTo(r, "reopen"))
    BY <1>8 DEF CallResetVenue, To, GoesTo
  <2>4. EmptyHanded(GoesTo(r, p)) /\ EmptyHanded(GoesTo(r, "reopen"))
    BY <1>2, <1>6, <2>1
  <2>. QED  BY <2>1, <2>2, <2>3, <2>4, PlainCallKeepsInv
<1>9. ASSUME CallResetEquipment(w) PROVE Inv' /\ Passes
  <2>1. r.pc = "resetEquipment" /\ UNCHANGED started
    BY <1>9 DEF CallResetEquipment, At
  <2> PICK m : m = [call |-> "resetEquipment", event |-> r.event]
    OBVIOUS
  <2>2. Carries(m) /\ \A i \in RoundIds : ~Due(m, i)
    BY <1>4, <1>6, <2>1 DEF Carries, Due, EventCalls, BookingCalls
  <2>3. Calls(w, m, GoesTo(r, "moveEvent"), GoesTo(r, "reopen"), GoesTo(r, "reopen"))
    BY <1>9 DEF CallResetEquipment, To, GoesTo
  <2>4. EmptyHanded(GoesTo(r, "moveEvent")) /\ EmptyHanded(GoesTo(r, "reopen"))
    BY <1>2, <1>6, <2>1
  <2>. QED  BY <2>1, <2>2, <2>3, <2>4, PlainCallKeepsInv
<1>10. ASSUME CallMoveDecided(w) PROVE Inv' /\ Passes
  <2>1. r.pc = "moveEvent" /\ UNCHANGED started
    BY <1>10 DEF CallMoveDecided, At
  <2> PICK m : m = [call |-> "moveDecided", event |-> r.event, round |-> r.round,
                    status |-> EventStatusOf(r.kind), venue |-> r.venue]
    OBVIOUS
  <2>2. Carries(m) /\ \A i \in RoundIds : ~Due(m, i)
    <3>1. EventStatusOf(r.kind) \in SafetyTargets
      BY <1>4, <1>6, <2>1 DEF Decisions, EventStatusOf, SafetyTargets
    <3>. QED  BY <1>1, <1>4, <1>5, <1>6, <2>1, <3>1 DEF Carries, Due, EventCalls, BookingCalls
  <2> PICK done : done = Moved(w)
    OBVIOUS
  <2>3. Calls(w, m, done, GoesTo(r, "reopen"), GoesTo(r, "findMove"))
    BY <1>10 DEF CallMoveDecided, To, GoesTo
  <2>4. EmptyHanded(GoesTo(r, "release")) /\ EmptyHanded(GoesTo(r, "reopen")) /\ EmptyHanded(GoesTo(r, "findMove"))
    BY <1>2, <1>6, <2>1 DEF DecidePcs
  <2>5. EmptyHanded(done)
    BY <1>3, <2>4 DEF Moved, To, GoesTo, Done
  <2>. QED  BY <2>1, <2>2, <2>3, <2>4, <2>5, PlainCallKeepsInv
<1>11. ASSUME CallReopen(w) PROVE Inv' /\ Passes
  <2> PICK m : m = [call |-> "reopen", round |-> r.round, stamp |-> r.stamp]
    OBVIOUS
  <2>1. Carries(m) /\ \A i \in RoundIds : ~Due(m, i)
    BY DEF Carries, Due, EventCalls, BookingCalls
  <2>2. Calls(w, m, NoRequest, NoRequest, NoRequest) /\ UNCHANGED started
    BY <1>11 DEF CallReopen, Done
  <2>. QED  BY <1>3, <2>1, <2>2, PlainCallKeepsInv
<1>12. ASSUME CallRelease(w) PROVE Inv' /\ Passes
  <2>1. r.pc = "release"
    BY <1>12 DEF CallRelease, At
  <2> PICK m : m = [call |-> "releaseBooking", event |-> r.event]
    OBVIOUS
  <2>2. Carries(m) /\ \A i \in RoundIds : ~Due(m, i)
    BY <1>4, <2>1 DEF Carries, Due, EventCalls, BookingCalls, DecidePcs
  <2>3. Calls(w, m, NoRequest, NoRequest, NoRequest) /\ UNCHANGED started
    BY <1>12 DEF CallRelease, Done
  <2>. QED  BY <1>3, <2>2, <2>3, PlainCallKeepsInv
<1>. QED  BY <1>7, <1>8, <1>9, <1>10, <1>11, <1>12

(* Every step of a decision keeps the invariant. *)
LEMMA DecideStepKeepsInv ==
    ASSUME Inv, NEW w \in Workers, DecideStep(w)
    PROVE  Inv' /\ Passes
BY DecideReadsKeepInv, DecideCallsKeepInv DEF DecideStep

----------------------------------------------------------------------------
(* recheck_safety.                                                         *)

(* A request that withdraws an approval goes on to another of its steps.   *)
LEMMA Withdrawing ==
    ASSUME NEW r \in Request, Knows(r), r.pc \in WithdrawPcs,
           NEW q \in Request, SameKnowledge(q, r), q.pc \in WithdrawPcs,
           q.pc \in RoundPcs => q.round \in RoundIds,
           q.pc = "readVenue" /\ q.kind = "recheck" => q.next \in RoundIds
    PROVE  Knows(q) /\ \A i : Holds(q, i) => q.pc = "readVenue" /\ q.kind = "recheck" /\ q.next = i
BY DEF Knows, SameKnowledge, Holds, SubmitPcs, DecidePcs, WithdrawPcs, VenuePcs, RoundPcs, Decisions,
       VenueChanges

(* Every step of a re-check keeps the invariant. *)
LEMMA RecheckStepKeepsInv ==
    ASSUME Inv, NEW w \in Workers, RecheckStep(w)
    PROVE  Inv' /\ Passes
<1> PICK r \in Request : r = requests[w]
  BY Serving
<1>1. Knows(r) /\ r.round \in RoundOrNone /\ r.next \in RoundOrNone
  BY Serving
<1>2. EmptyHanded(NoRequest)
  BY DoneFields DEF EmptyHanded
<1>3. ASSUME ReadApproval(w) PROVE Inv' /\ Passes
  <2>1. r.pc = "readApproval"
    BY <1>3 DEF ReadApproval, At
  <2>2. CASE Reads(w, Done)
    BY <2>2, DoneFields, ReadKeepsInv DEF Done
  <2>3. ASSUME NEW i \in Live, Reads(w, WithRound(GoesTo(r, "withdraw"), i))
        PROVE  Inv' /\ Passes
    <3>1. i \in RoundIds /\ i \in RoundOrNone /\ "withdraw" \in Pcs /\ "withdraw" \in WithdrawPcs
          /\ r.pc \in WithdrawPcs
      BY <2>1 DEF Inv, ServiceInv, RecordsInv, RecordsTypeOK, RoundOrNone, Pcs, WithdrawPcs
    <3> PICK q : q = WithRound(GoesTo(r, "withdraw"), i)
      OBVIOUS
    <3>2. q \in Request /\ SameKnowledge(q, r) /\ q.pc = "withdraw" /\ q.round = i
      BY <3>1, GoesWith
    <3>3. Knows(q) /\ \A j : ~Holds(q, j)
      BY <1>1, <3>1, <3>2, Withdrawing
    <3>. QED  BY <2>3, <3>2, <3>3, ReadKeepsInv
  <2>. QED  BY <1>3, <2>2, <2>3 DEF ReadApproval, RoundsOf, To, GoesTo, WithRound
<1>4. ASSUME CallWithdraw(w) PROVE Inv' /\ Passes
  <2>1. r.pc = "withdraw" /\ UNCHANGED started
    BY <1>4 DEF CallWithdraw, At
  <2> PICK m : m = [call |-> "withdraw", round |-> r.round, opens |-> (r.kind = "recheck")]
    OBVIOUS
  <2>2. Carries(m) /\ m.call = "withdraw" /\ (m.opens <=> r.kind = "recheck") /\ \A i \in RoundIds : ~Due(m, i)
    BY DEF Carries, Due, EventCalls, BookingCalls
  <2> PICK new : new = IF r.kind = "recheck" THEN NewRound ELSE NoRound
    OBVIOUS
  <2> PICK done : done = WithNext(GoesTo(r, "readVenue"), new)
    OBVIOUS
  <2>3. Calls(w, m, done, NoRequest, NoRequest)
    BY <1>4 DEF CallWithdraw, To, GoesTo, WithNext, Done
  <2>4. ASSUME Executes(m), Accepts(m)
        PROVE  /\ done \in Request /\ Knows(done)
               /\ \A i \in RoundIds : Holds(done, i) => i \in used' \ used /\ UNCHANGED events
    <3>1. r.kind = "recheck" => new \in RoundIds /\ new \in used' \ used /\ UNCHANGED events
      BY <2>2, <2>4, OpensARound
    <3>2. new \in RoundOrNone /\ "readVenue" \in Pcs /\ "readVenue" \in WithdrawPcs /\ r.pc \in WithdrawPcs
          /\ r.round \in RoundIds
      BY <1>1, <2>1, <3>1 DEF RoundOrNone, Pcs, WithdrawPcs, RoundPcs, Knows
    <3>3. done \in Request /\ SameKnowledge(done, r) /\ done.pc = "readVenue" /\ done.round = r.round /\ done.next = new
      BY <3>2, GoesWith
    <3>4. done.kind = r.kind
      BY <3>3 DEF SameKnowledge
    <3>5. Knows(done) /\ \A i : Holds(done, i) => r.kind = "recheck" /\ i = new
      BY <1>1, <3>1, <3>2, <3>3, <3>4, Withdrawing
    <3>. QED  BY <3>1, <3>3, <3>5
  <2>. QED  BY <1>2, <2>1, <2>2, <2>3, <2>4, CallKeepsInv DEF EmptyHanded
<1>5. ASSUME ReadVenue(w) PROVE Inv' /\ Passes
  <2>1. r.pc = "readVenue" /\ r.pc \in WithdrawPcs /\ r.pc \in RoundPcs
    BY <1>5 DEF ReadVenue, At, WithdrawPcs, RoundPcs
  <2>2. r.kind \in VenueChanges \cup {"recheck"}
    BY <1>1, <2>1 DEF Knows
  <2>3. ASSUME NEW p \in {"restore", "saveDetails", "withdrawEvent"},
               p = "saveDetails" => r.kind = "recheck", p = "withdrawEvent" => r.kind # "recheck",
               Reads(w, To(w, p)) \/ ReadFails(w, To(w, p))
        PROVE  Inv' /\ Passes
    <3>1. /\ p \in Pcs
          /\ \/ r.pc \in WithdrawPcs \cup {"saveDetails"} /\ p \in WithdrawPcs
             \/ r.pc \in WithdrawPcs /\ r.kind = "recheck" /\ p = "saveDetails"
             \/ r.pc \in WithdrawPcs \cup VenuePcs /\ r.kind \in VenueChanges /\ p \in VenuePcs
      BY <2>1, <2>2, <2>3 DEF Pcs, WithdrawPcs, VenuePcs
    <3> PICK q : q = To(w, p)
      OBVIOUS
    <3>2. q \in Request /\ Knows(q) /\ \A i : Holds(q, i) => p = "submitEvent" \/ Holds(r, i)
      BY <2>1, <3>1, GoesOn
    <3>. QED  BY <2>3, <3>2, ReadKeepsInv
  <2>. QED  BY <1>5, <2>3 DEF ReadVenue
<1>6. ASSUME r.pc = "saveDetails" PROVE EmptyHanded(To(w, "restore"))
  <2> PICK q : q = To(w, "restore")
    OBVIOUS
  <2>1. q \in Request /\ Knows(q) /\ q.pc = "restore"
    BY <1>6, GoesOn DEF WithdrawPcs, Pcs, RoundPcs
  <2>. QED  BY <2>1 DEF EmptyHanded, Holds
<1>7. ASSUME CallSaveDetails(w) PROVE Inv' /\ Passes
  <2>1. r.pc = "saveDetails" /\ UNCHANGED started
    BY <1>7 DEF CallSaveDetails, At
  <2> PICK m : m = [call |-> "saveDetails", event |-> r.event, by |-> r.by,
                    details |-> r.details, round |-> r.round, next |-> r.next]
    OBVIOUS
  <2>2. Carries(m) /\ \A i \in RoundIds : Due(m, i) => Holds(r, i)
    <3>1. /\ r.kind = "recheck" /\ r.event \in Events /\ r.by \in Coordinators /\ r.details \in Details
          /\ r.round \in RoundIds /\ r.next \in RoundIds
      BY <1>1, <2>1 DEF Knows, RoundPcs, Decisions
    <3>. QED  BY <2>1, <3>1 DEF Carries, Due, EventCalls, BookingCalls, Holds
  <2>3. Calls(w, m, NoRequest, To(w, "restore"), To(w, "restore"))
    BY <1>7 DEF CallSaveDetails, Done
  <2>. QED  BY <1>2, <1>6, <2>1, <2>2, <2>3, PlainCallKeepsInv
<1>8. ASSUME CallRestore(w) PROVE Inv' /\ Passes
  <2> PICK m : m = [call |-> "restore", round |-> r.round, next |-> r.next]
    OBVIOUS
  <2>1. Carries(m) /\ \A i \in RoundIds : ~Due(m, i)
    BY <1>1 DEF Carries, Due, EventCalls, BookingCalls
  <2>2. Calls(w, m, NoRequest, NoRequest, NoRequest) /\ UNCHANGED started
    BY <1>8 DEF CallRestore, Done
  <2>. QED  BY <1>2, <2>1, <2>2, PlainCallKeepsInv
<1>. QED  BY <1>3, <1>4, <1>5, <1>7, <1>8 DEF RecheckStep

----------------------------------------------------------------------------
(* update_booking_request and cancel_booking_request.                      *)

(* A change of a booking goes on to another of its steps. *)
LEMMA ChangingABooking ==
    ASSUME NEW r \in Request, Knows(r), r.pc # "idle", r.kind \in VenueChanges,
           NEW q \in Request, SameKnowledge(q, r), q.pc \in WithdrawPcs \cup VenuePcs,
           q.pc \in RoundPcs => q.round \in RoundIds
    PROVE  EmptyHanded(q)
<1>1. r.kind \notin Decisions \cup {"recheck", "submit"}
  BY DEF VenueChanges, Decisions
<1>2. r.event \in Events /\ r.by \in Coordinators
  BY <1>1 DEF Knows
<1>3. q.pc \notin DecidePcs \cup SubmitPcs \cup {"saveDetails", "idle"}
  BY DEF WithdrawPcs, VenuePcs, SubmitPcs, DecidePcs
<1>4. Knows(q)
  BY <1>1, <1>2, <1>3 DEF Knows, SameKnowledge
<1>5. \A i : ~Holds(q, i)
  BY <1>1, <1>3 DEF Holds, SameKnowledge, SubmitPcs
<1>. QED  BY <1>4, <1>5 DEF EmptyHanded

(* Every step of a booking change keeps the invariant. *)
LEMMA VenueChangeStepKeepsInv ==
    ASSUME Inv, NEW w \in Workers, VenueChangeStep(w)
    PROVE  Inv' /\ Passes
<1> PICK r \in Request : r = requests[w]
  BY Serving
<1>1. Knows(r) /\ r.round \in RoundOrNone
  BY Serving
<1>2. EmptyHanded(NoRequest)
  BY DoneFields DEF EmptyHanded
<1>3. ASSUME NEW p \in WithdrawPcs \cup VenuePcs, r.pc \in VenuePcs, p \in RoundPcs => r.round \in RoundIds
      PROVE  EmptyHanded(To(w, p))
  <2>1. p \in Pcs /\ r.pc # "idle" /\ r.kind \in VenueChanges
    BY <1>1, <1>3 DEF Pcs, Knows, VenuePcs
  <2> PICK q : q = GoesTo(r, p)
    OBVIOUS
  <2>2. q \in Request /\ SameKnowledge(q, r) /\ q.pc = p /\ q.round = r.round
    BY <2>1, GoesToFields
  <2>3. EmptyHanded(q)
    BY <1>1, <1>3, <2>1, <2>2, ChangingABooking
  <2>. QED  BY <2>3 DEF To, GoesTo
<1>4. r.pc \in RoundPcs => r.round \in RoundIds
  BY <1>1 DEF Knows
<1>5. r.pc \in VenuePcs => r.event \in Events /\ r.by \in Coordinators /\ r.kind \in VenueChanges
  BY <1>1 DEF Knows, VenuePcs, VenueChanges, Decisions
<1>6. /\ {"withdrawEvent", "readWithdrawn", "reinstate", "restoreEvent"} \subseteq VenuePcs \cap RoundPcs
      /\ "readApproval" \in WithdrawPcs \ RoundPcs /\ "restore" \in WithdrawPcs
      /\ "changeBooking" \in VenuePcs \ RoundPcs /\ "readEvent" \in VenuePcs
  BY DEF VenuePcs, WithdrawPcs, RoundPcs
<1>7. ASSUME NEW q, EmptyHanded(q), Reads(w, q) \/ ReadFails(w, q) PROVE Inv' /\ Passes
  BY <1>7, ReadKeepsInv DEF EmptyHanded
<1>8. ASSUME ReadEvent(w) PROVE Inv' /\ Passes
  <2>1. r.pc = "readEvent"
    BY <1>8 DEF ReadEvent, At
  <2>2. EmptyHanded(To(w, "readApproval"))
    BY <1>3, <1>6, <2>1
  <2>3. Reads(w, To(w, "readApproval")) \/ Reads(w, NoRequest)
    BY <1>8 DEF ReadEvent, Done
  <2>. QED  BY <1>2, <1>7, <2>2, <2>3
<1>9. ASSUME CallWithdrawEvent(w) PROVE Inv' /\ Passes
  <2>1. r.pc = "withdrawEvent" /\ UNCHANGED started
    BY <1>9 DEF CallWithdrawEvent, At
  <2> PICK m : m = [call |-> "withdrawEvent", event |-> r.event, by |-> r.by, round |-> r.round]
    OBVIOUS
  <2>2. Carries(m) /\ \A i \in RoundIds : ~Due(m, i)
    BY <1>4, <1>5, <1>6, <2>1 DEF Carries, Due, EventCalls, BookingCalls
  <2> PICK done : done = IF r.waited THEN To(w, "changeBooking") ELSE NoRequest
    OBVIOUS
  <2>3. Calls(w, m, done, To(w, "restore"), To(w, "restore"))
    BY <1>9 DEF CallWithdrawEvent, Done
  <2>4. EmptyHanded(To(w, "changeBooking")) /\ EmptyHanded(To(w, "restore"))
    BY <1>3, <1>4, <1>6, <2>1
  <2>. QED  BY <1>2, <2>1, <2>2, <2>3, <2>4, PlainCallKeepsInv
<1>10. ASSUME GivesUpWaiting(w) PROVE Inv' /\ Passes
  <2> PICK q : q = NotWaited(r)
    OBVIOUS
  <2>1. q \in Request /\ SameKnowledge(q, r) /\ q.pc = r.pc /\ q.round = r.round /\ q.next = r.next
    BY NotWaitedFields
  <2>2. Knows(q) /\ \A i : Holds(q, i) => Holds(r, i)
    BY <1>1, <2>1 DEF Knows, Holds, SameKnowledge
  <2>3. Becomes(w, q)
    <3>1. requests' = [requests EXCEPT ![w] = NotWaited(requests[w])]
      BY <1>10 DEF GivesUpWaiting, NotWaited
    <3>. QED  BY <3>1 DEF Becomes
  <2>4. UNCHANGED <<serviceVars, late, started>> /\ failures < MaxFailures /\ failures' = failures + 1
    BY <1>10 DEF GivesUpWaiting
  <2>. QED  BY <2>1, <2>2, <2>3, <2>4, ReadKeepsInv
<1>11. ASSUME CallChangeBooking(w) PROVE Inv' /\ Passes
  <2>1. r.pc = "changeBooking" /\ UNCHANGED started
    BY <1>11 DEF CallChangeBooking, At
  <2> PICK m : m = [call |-> "changeBooking", event |-> r.event, status |-> BookingStatusOf(r.kind)]
    OBVIOUS
  <2>2. Carries(m) /\ \A i \in RoundIds : ~Due(m, i)
    <3>1. BookingStatusOf(r.kind) \in {"Pending Review", "Cancelled"}
      BY DEF BookingStatusOf
    <3>. QED  BY <1>5, <1>6, <2>1, <3>1 DEF Carries, Due, EventCalls, BookingCalls
  <2> PICK putBack : putBack = IF r.round = NoRound THEN NoRequest ELSE To(w, "readWithdrawn")
    OBVIOUS
  <2>3. EmptyHanded(putBack)
    <3>1. CASE r.round = NoRound
      BY <1>2, <3>1
    <3>2. CASE r.round \in RoundIds
      <4>1. EmptyHanded(To(w, "readWithdrawn"))
        BY <1>3, <1>6, <2>1, <3>2
      <4>. QED  BY <1>2, <4>1
    <3>. QED  BY <1>1, <3>1, <3>2 DEF RoundOrNone
  <2>4. CASE Calls(w, m, NoRequest, putBack, putBack)
    BY <1>2, <2>1, <2>2, <2>3, <2>4, PlainCallKeepsInv
  <2>5. CASE Becomes(w, putBack) /\ UNCHANGED <<serviceVars, late, failures>>
    BY <2>1, <2>3, <2>5, ReadKeepsInv DEF EmptyHanded
  <2>. QED  BY <1>11, <2>4, <2>5 DEF CallChangeBooking, Done
<1>12. ASSUME ReadWithdrawn(w) PROVE Inv' /\ Passes
  <2>1. r.pc = "readWithdrawn"
    BY <1>12 DEF ReadWithdrawn, At
  <2>2. EmptyHanded(To(w, "reinstate"))
    BY <1>3, <1>4, <1>6, <2>1
  <2>3. Reads(w, To(w, "reinstate")) \/ Reads(w, NoRequest) \/ ReadFails(w, NoRequest)
    BY <1>12 DEF ReadWithdrawn, Done
  <2>. QED  BY <1>2, <1>7, <2>2, <2>3
<1>13. ASSUME CallReinstate(w) PROVE Inv' /\ Passes
  <2>1. r.pc = "reinstate" /\ UNCHANGED started
    BY <1>13 DEF CallReinstate, At
  <2> PICK m : m = [call |-> "restore", round |-> r.round, next |-> NoRound]
    OBVIOUS
  <2>2. Carries(m) /\ \A i \in RoundIds : ~Due(m, i)
    BY DEF Carries, Due, EventCalls, BookingCalls, RoundOrNone
  <2>3. Calls(w, m, To(w, "restoreEvent"), NoRequest, NoRequest)
    BY <1>13 DEF CallReinstate, Done
  <2>4. EmptyHanded(To(w, "restoreEvent"))
    BY <1>3, <1>4, <1>6, <2>1
  <2>. QED  BY <1>2, <2>1, <2>2, <2>3, <2>4, PlainCallKeepsInv
<1>14. ASSUME CallRestoreEvent(w) PROVE Inv' /\ Passes
  <2>1. r.pc = "restoreEvent" /\ UNCHANGED started
    BY <1>14 DEF CallRestoreEvent, At
  <2> PICK m : m = [call |-> "restoreEvent", event |-> r.event, by |-> r.by, round |-> r.round]
    OBVIOUS
  <2>2. Carries(m) /\ \A i \in RoundIds : ~Due(m, i)
    BY <1>4, <1>5, <1>6, <2>1 DEF Carries, Due, EventCalls, BookingCalls
  <2>3. Calls(w, m, NoRequest, NoRequest, NoRequest)
    BY <1>14 DEF CallRestoreEvent, Done
  <2>. QED  BY <1>2, <2>1, <2>2, <2>3, PlainCallKeepsInv
<1>. QED  BY <1>8, <1>9, <1>10, <1>11, <1>12, <1>13, <1>14 DEF VenueChangeStep

----------------------------------------------------------------------------
(* A request begins.                                                       *)
WithBy(r, c) == [r EXCEPT !.by = c]
WithDetails(r, d) == [r EXCEPT !.details = d]
WithVenue(r, v) == [r EXCEPT !.venue = v]

(* What a new request knows: its event and what it was asked for. *)
LEMMA NewFields ==
    ASSUME NEW e \in Events, NEW kind \in AllKinds, NEW p \in Pcs
    PROVE  /\ New(e, kind, p) \in Request
           /\ New(e, kind, p).kind = kind /\ New(e, kind, p).pc = p /\ New(e, kind, p).event = e
BY DoneFields DEF New, Request

(* The coordinator who asks. *)
LEMMA WithByFields ==
    ASSUME NEW r \in Request, NEW c \in Coordinators
    PROVE  /\ WithBy(r, c) \in Request /\ WithBy(r, c).by = c
           /\ WithBy(r, c).kind = r.kind /\ WithBy(r, c).pc = r.pc /\ WithBy(r, c).event = r.event
BY DEF WithBy, Request

(* The details asked for. *)
LEMMA WithDetailsFields ==
    ASSUME NEW r \in Request, NEW d \in Details
    PROVE  /\ WithDetails(r, d) \in Request /\ WithDetails(r, d).details = d
           /\ WithDetails(r, d).kind = r.kind /\ WithDetails(r, d).pc = r.pc
           /\ WithDetails(r, d).event = r.event /\ WithDetails(r, d).by = r.by
BY DEF WithDetails, Request

(* Whether the attendees' venue has to be looked up. *)
LEMMA WithVenueFields ==
    ASSUME NEW r \in Request, NEW v \in BOOLEAN
    PROVE  /\ WithVenue(r, v) \in Request
           /\ WithVenue(r, v).kind = r.kind /\ WithVenue(r, v).pc = r.pc /\ WithVenue(r, v).event = r.event
BY DEF WithVenue, Request

(* A request that has only begun holds nothing and knows little. *)
LEMMA BeginsKeepsInv ==
    ASSUME Inv, NEW w \in Workers, NEW q \in Request, Begins(w, q), q.event \in Events,
           \/ q.pc = "readiness" /\ q.kind = "submit" /\ q.by \in Coordinators
           \/ q.pc = "findRound" /\ q.kind \in Decisions
           \/ q.pc = "readApproval" /\ q.kind = "recheck" /\ q.by \in Coordinators /\ q.details \in Details
           \/ q.pc \in {"readEvent", "changeBooking"} /\ q.kind \in VenueChanges /\ q.by \in Coordinators
    PROVE  Inv' /\ Passes
<1>1. Knows(q)
  BY DEF Knows, SubmitPcs, DecidePcs, WithdrawPcs, VenuePcs, RoundPcs, Decisions, VenueChanges
<1>2. \A i : ~Holds(q, i)
  BY DEF Holds
<1>. QED  BY <1>1, <1>2, ReadKeepsInv DEF Begins

(* Every request begins well. *)
LEMMA BeginKeepsInv ==
    ASSUME Inv, NEW w \in Workers, Begin(w)
    PROVE  Inv' /\ Passes
<1> PICK e \in Events :
        \/ \E kind \in Decisions, flags \in SUBSET {"venue", "equipment"} : BeginDecide(w, e, kind, flags)
        \/ \E c \in Coordinators :
               \/ BeginSubmit(w, e, c)
               \/ \E d \in Details : BeginRecheck(w, e, c, d)
               \/ \E kind \in VenueChanges : BeginVenueChange(w, e, c, kind)
  BY DEF Begin
<1>1. {"readiness", "findRound", "readApproval", "readEvent", "changeBooking"} \subseteq Pcs
  BY DEF Pcs, SubmitPcs, DecidePcs, WithdrawPcs, VenuePcs
<1>2. {"submit", "recheck"} \cup Decisions \cup VenueChanges \subseteq AllKinds
  BY DEF AllKinds, Decisions, VenueChanges
<1>3. ASSUME NEW kind \in Decisions, NEW flags \in SUBSET {"venue", "equipment"}, BeginDecide(w, e, kind, flags)
      PROVE  Inv' /\ Passes
  <2> PICK v \in BOOLEAN : v = (kind = "approve" /\ events[e].baseline = "recorded")
    OBVIOUS
  <2> PICK r : r = New(e, kind, "findRound")
    OBVIOUS
  <2>1. r \in Request /\ r.kind = kind /\ r.pc = "findRound" /\ r.event = e
    BY <1>1, <1>2, NewFields
  <2> PICK p : p = WithVenue(r, v)
    OBVIOUS
  <2>2. p \in Request /\ p.kind = kind /\ p.pc = "findRound" /\ p.event = e
    BY <2>1, WithVenueFields
  <2> PICK q : q = WithFlags(p, flags)
    OBVIOUS
  <2>3. q \in Request /\ q.kind = kind /\ q.pc = "findRound" /\ q.event = e
    BY <2>2, WithFlagsFields DEF SameKnowledge
  <2>4. Begins(w, q)
    <3>1. q = [r EXCEPT !.venue = (kind = "approve" /\ events[e].baseline = "recorded"), !.flags = flags]
      BY DEF WithVenue, WithFlags
    <3>. QED  BY <1>3, <3>1 DEF BeginDecide
  <2>. QED  BY <2>3, <2>4, BeginsKeepsInv
<1>4. ASSUME NEW c \in Coordinators, BeginSubmit(w, e, c) PROVE Inv' /\ Passes
  <2> PICK n : n = New(e, "submit", "readiness")
    OBVIOUS
  <2>10. n \in Request /\ n.kind = "submit" /\ n.pc = "readiness" /\ n.event = e
    BY <1>1, <1>2, NewFields
  <2> PICK q : q = WithBy(n, c)
    OBVIOUS
  <2>1. q \in Request /\ q.kind = "submit" /\ q.pc = "readiness" /\ q.event = e /\ q.by = c
    BY <2>10, WithByFields
  <2>2. Begins(w, q)
    BY <1>4 DEF BeginSubmit, WithBy
  <2>. QED  BY <2>1, <2>2, BeginsKeepsInv
<1>5. ASSUME NEW c \in Coordinators, NEW d \in Details, BeginRecheck(w, e, c, d) PROVE Inv' /\ Passes
  <2> PICK n : n = New(e, "recheck", "readApproval")
    OBVIOUS
  <2>9. "recheck" \in AllKinds /\ "readApproval" \in Pcs
    BY <1>1, <1>2
  <2>10. n \in Request /\ n.kind = "recheck" /\ n.pc = "readApproval" /\ n.event = e
    BY <2>9, NewFields
  <2> PICK r : r = WithBy(n, c)
    OBVIOUS
  <2>1. r \in Request /\ r.kind = "recheck" /\ r.pc = "readApproval" /\ r.event = e /\ r.by = c
    BY <2>10, WithByFields
  <2> PICK q : q = WithDetails(r, d)
    OBVIOUS
  <2>2. q \in Request /\ q.kind = "recheck" /\ q.pc = "readApproval" /\ q.event = e /\ q.by = c /\ q.details = d
    BY <2>1, WithDetailsFields
  <2>3. Begins(w, q)
    BY <1>5 DEF BeginRecheck, WithBy, WithDetails
  <2>. QED  BY <2>2, <2>3, BeginsKeepsInv
<1>6. ASSUME NEW c \in Coordinators, NEW kind \in VenueChanges, BeginVenueChange(w, e, c, kind)
      PROVE  Inv' /\ Passes
  <2> PICK p \in {"readEvent", "changeBooking"} : p = IF Status(e) = "Confirmed" THEN "readEvent" ELSE "changeBooking"
    OBVIOUS
  <2> PICK n : n = New(e, kind, p)
    OBVIOUS
  <2>10. n \in Request /\ n.kind = kind /\ n.pc = p /\ n.event = e
    BY <1>1, <1>2, NewFields
  <2> PICK q : q = WithBy(n, c)
    OBVIOUS
  <2>1. q \in Request /\ q.kind = kind /\ q.pc = p /\ q.event = e /\ q.by = c
    BY <2>10, WithByFields
  <2>2. Begins(w, q)
    BY <1>6 DEF BeginVenueChange, WithBy
  <2>. QED  BY <2>1, <2>2, BeginsKeepsInv
<1>. QED  BY <1>3, <1>4, <1>5, <1>6

----------------------------------------------------------------------------
(* What happens outside the requests.                                      *)
LEMMA StaffStepKeepsInv ==
    ASSUME Inv, StaffStep
    PROVE  Inv' /\ Passes
<1>1. UNCHANGED <<rounds, flagged, used, clock, events, requests, late, started, failures>>
  BY DEF StaffStep, recordVars
<1>2. ArrangementsTypeOK'
  BY DEF StaffStep, Inv, ServiceInv, ArrangementsTypeOK, BookingStatuses, RequestStatuses,
         ReviewBooking, CreateBooking, ReviewEquipment, RequestEquipment
<1>3. Passes
  BY <1>1 DEF Passes, recordVars
<1>4. RecordsInv' /\ EventsInv'
  BY <1>3, RecordsNextKeepsInv, EventsNextKeepsInv DEF Passes, Inv, ServiceInv
<1>5. RequestsOK' /\ HandsOK'
  BY <1>1 DEF Inv, ServiceInv, RequestsOK, HandsOK, WaitsForANewRound, Status, Unspent
<1>. QED  BY <1>2, <1>3, <1>4, <1>5 DEF Inv, ServiceInv

(* The coordinator's saves leave the rounds of the event alone.            *)
LEMMA CoordinatorStepKeepsInv ==
    ASSUME Inv, CoordinatorStep
    PROVE  Inv' /\ Passes
<1>1. UNCHANGED <<rounds, flagged, used, clock, venue, equipment, requests, late, started, failures>>
  BY DEF CoordinatorStep, recordVars, arrangementVars
<1> PICK e \in Events, c \in Coordinators :
        \/ \E d \in Details : EditDetails(e, c, d)
        \/ RecordProgress(e, c)
        \/ Reassign(e, c)
  BY DEF CoordinatorStep
<1>2. EventsNext
  BY DEF EventsNext
<1>3. Passes
  BY <1>1, <1>2 DEF Passes, recordVars
<1>4. RecordsInv' /\ EventsInv' /\ ArrangementsTypeOK'
  BY <1>1, <1>3, RecordsNextKeepsInv, EventsNextKeepsInv DEF Passes, Inv, ServiceInv, ArrangementsTypeOK
<1>5. RequestsOK'
  BY <1>1 DEF Inv, ServiceInv, RequestsOK
<1>6. events[e] \in EventRecord /\ EventsInv
  BY RowsOK DEF Inv, ServiceInv
<1>7. \E new \in EventRecord : Saves(e, new) /\ Leaves(events[e], new)
  <2>1. ASSUME NEW d \in Details, EditDetails(e, c, d)
        PROVE  \E new \in EventRecord : Saves(e, new) /\ Leaves(events[e], new)
    <3>1. Saves(e, Edited(events[e], d))
      BY <2>1 DEF EditDetails, SaveDetails, CanSaveDetails
    <3>2. Edited(events[e], d) \in EventRecord /\ Leaves(events[e], Edited(events[e], d))
      BY <1>6, EditedRow, LeavingRows
    <3>. QED  BY <3>1, <3>2
  <2>2. ASSUME RecordProgress(e, c)
        PROVE  \E new \in EventRecord : Saves(e, new) /\ Leaves(events[e], new)
    <3>1. Saves(e, [events[e] EXCEPT !.undo = NoRound])
      BY <2>2 DEF RecordProgress
    <3>2. [events[e] EXCEPT !.undo = NoRound] \in EventRecord
      BY <1>6 DEF EventRecord, RoundOrNone
    <3>. QED  BY <1>6, <3>1, <3>2, LeavingRows
  <2>3. ASSUME Reassign(e, c)
        PROVE  \E new \in EventRecord : Saves(e, new) /\ Leaves(events[e], new)
    <3>1. Saves(e, Reassigned(events[e], c))
      BY <2>3 DEF Reassign
    <3>. QED  BY <1>6, <3>1, ReassignedRow, LeavingRows
  <2>. QED  BY <2>1, <2>2, <2>3
<1>8. PICK new \in EventRecord : Saves(e, new) /\ Leaves(events[e], new)
  BY <1>7
<1>9. PICK S \in SUBSET RoundIds : S = {}
  OBVIOUS
<1>10. /\ \A f \in Events : /\ events'[f].submitted \in used' \cup {NoRound}
                            /\ events'[f].decided \subseteq used'
       /\ WaitsForANewRound'
       /\ \A j \in RoundIds \ S : Unspent(j) => Unspent(j)'
  BY <1>1, <1>8, <1>9, SavedRounds
<1>11. HandsOK'
  <2>1. \A i \in RoundIds :
          /\ \A w \in Workers : Holds(requests'[w], i) => Unspent(i)
          /\ \A m \in late' : Due(m, i) => Unspent(i)
          /\ \A v, w \in Workers : Holds(requests'[v], i) /\ Holds(requests'[w], i) => v = w
          /\ \A m, n \in late' : Due(m, i) /\ Due(n, i) => m = n
          /\ \A w \in Workers, m \in late' : ~(Holds(requests'[w], i) /\ Due(m, i))
    BY <1>1 DEF Inv, HandsOK
  <2>. QED  BY <1>9, <1>10, <2>1 DEF HandsOK
<1>. QED  BY <1>3, <1>4, <1>5, <1>11 DEF Inv, ServiceInv

----------------------------------------------------------------------------
(* At first nothing is in progress and no event waits for a round. *)
LEMMA ServiceInitHasInv ==
    ASSUME ServiceInit
    PROVE  Inv
<1>1. RecordsInv /\ EventsInv
  BY RecordsInitHasInv, EventsInitHasInv DEF ServiceInit
<1>2. ArrangementsTypeOK
  BY DEF ServiceInit, ArrangementsInit, ArrangementsTypeOK, BookingStatuses, RequestStatuses
<1>3. RequestsOK
  BY DoneFields, ServiceAssumption DEF ServiceInit, RequestsOK
<1>4. \A e \in Events : events[e].submitted = NoRound /\ events[e].decided = {} /\ events[e].status = "Approved"
  BY DEF ServiceInit, EventsInit, NewlyApproved
<1>5. HandsOK
  <2>1. WaitsForANewRound
    BY <1>4 DEF WaitsForANewRound, Status
  <2>2. \A w \in Workers, i \in RoundIds : ~Holds(requests[w], i)
    BY DoneFields DEF ServiceInit
  <2>3. late = {}
    BY DEF ServiceInit
  <2>. QED  BY <1>4, <2>1, <2>2, <2>3 DEF HandsOK
<1>. QED  BY <1>1, <1>2, <1>3, <1>5 DEF Inv, ServiceInv

(* Every step of the composite keeps the invariant, and is a step of the   *)
(* record service, of the Event Service, or of neither.                    *)
LEMMA ServiceNextKeepsInv ==
    ASSUME Inv, [Next]_vars
    PROVE  Inv' /\ Passes
<1>1. CASE UNCHANGED vars
  <2>1. UNCHANGED <<rounds, flagged, used, clock, events, venue, equipment, requests, late, started, failures>>
    BY <1>1 DEF vars, serviceVars, recordVars, arrangementVars
  <2>2. Passes
    BY <2>1 DEF Passes, recordVars
  <2>3. RecordsInv' /\ EventsInv'
    BY <2>2, RecordsNextKeepsInv, EventsNextKeepsInv DEF Passes, Inv, ServiceInv
  <2>. QED  BY <2>1, <2>2, <2>3
            DEF Inv, ServiceInv, ArrangementsTypeOK, RequestsOK, HandsOK, WaitsForANewRound, Status, Unspent
<1>2. ASSUME NEW w \in Workers, Begin(w) \/ Step(w) PROVE Inv' /\ Passes
  BY <1>2, BeginKeepsInv, SubmitStepKeepsInv, DecideStepKeepsInv, RecheckStepKeepsInv,
     VenueChangeStepKeepsInv DEF Step
<1>. QED  BY <1>1, <1>2, StaffStepKeepsInv, CoordinatorStepKeepsInv, LateCallKeepsInv DEF Next

(* The invariant holds of the composite, whichever calls can fail. *)
THEOREM ServiceInvariant == Spec => []Inv
<1>1. ServiceInit => Inv
  BY ServiceInitHasInv
<1>2. Inv /\ [Next]_vars => Inv'
  BY ServiceNextKeepsInv
<1>. QED  BY <1>1, <1>2, PTL DEF Spec

(* Every request holds rounds and decision stamps that exist, and the      *)
(* tables have their types.                                                *)
THEOREM ServiceTypeCorrect == Spec => []TypeOK
<1> DEFINE Typed == checked \subseteq Events \X Checks
<1>1. ServiceInit => Typed
  BY DEF ServiceInit
<1>2. Typed /\ [Next]_vars => Typed'
  BY DEF Next, Checked, vars
<1>3. Inv /\ Typed => TypeOK
  BY DEF Inv, ServiceInv, RecordsInv, EventsInv, RequestsOK, TypeOK, Request
<1> HIDE DEF Typed
<1>. QED  BY <1>1, <1>2, <1>3, ServiceInvariant, PTL DEF Spec

(* No decision moves an event twice, whatever calls were lost, delayed or  *)
(* compensated: the round an event waits for never moved it, as only a     *)
(* round opened in this very request is ever submitted.                    *)
THEOREM NoRoundMovesAnEventTwice == Spec => []WaitsForANewRound
<1>1. Inv => WaitsForANewRound
  BY DEF Inv, HandsOK
<1>. QED  BY <1>1, ServiceInvariant, PTL

(* Whatever the composite does, and however its calls fail, what happens   *)
(* to the rounds is a behaviour of the Safety Check Record Service alone:  *)
(* every change is one of its operations, with the checks it makes.        *)
THEOREM ServiceImplementsRecords == Spec => RecordsSpec
<1>1. ServiceInit => RecordsInit
  BY DEF ServiceInit
<1>2. Inv /\ [Next]_vars => [RecordsNext]_recordVars
  BY ServiceNextKeepsInv DEF Passes
<1>. QED  BY <1>1, <1>2, ServiceInvariant, PTL DEF Spec, RecordsSpec

(* And what happens to the events is a behaviour of the Event Service.     *)
THEOREM ServiceImplementsEvents == Spec => EventsSpec
<1>1. ServiceInit => EventsInit
  BY DEF ServiceInit
<1>2. Inv /\ [Next]_vars => [EventsNext]_events
  BY ServiceNextKeepsInv DEF Passes
<1>. QED  BY <1>1, <1>2, ServiceInvariant, PTL DEF Spec, EventsSpec

(* So what the record service guarantees, the whole does: the numbers of   *)
(* the rounds of an event stay unique, decisions whole, decided rounds are *)
(* never lost.                                                             *)
THEOREM ServiceKeepsTheRecord ==
    Spec => []UniqueNumbers /\ []DecisionIsWhole /\ HistoryIsKept
BY ServiceImplementsRecords, RoundNumbersAreUnique, DecisionsAreWhole, DecidedRoundsAreKept, PTL

(* And what the Event Service guarantees: a Confirmed event has the        *)
(* details that were reviewed, a withdrawal is undone to the approval that *)
(* was withdrawn, and only a decision or such an undo confirms an event.   *)
THEOREM ServiceKeepsTheEvents ==
    Spec => []ConfirmedOnReviewedDetails /\ []UndoKeepsTheApproval /\ ConfirmedByDecisionOrUndo
BY ServiceImplementsEvents, ConfirmedEventsWereReviewed, UndoneApprovalsAreKept, OnlyDecisionsConfirm, PTL
----------------------------------------------------------------------------
(* What an executed call does to the rounds, row by row.                   *)

(* The call takes round i out of the table: a compensation. *)
Removes(m, i) ==
    \/ m.call = "delete" /\ m.round = i
    \/ m.call = "restore" /\ m.next = i

(* A round that stays: its decision stays, is made, or is undone. *)
DecisionStays(m, i) ==
    /\ rounds'[i].decidedAt = rounds[i].decidedAt
    /\ rounds'[i].status = rounds[i].status \/ m.call \in {"withdraw", "restore"}
DecisionMade(m, i) ==
    /\ m.call = "decide" /\ m.round = i /\ rounds[i].decidedAt = 0
    /\ rounds'[i].decidedAt = clock' /\ clock' # 0 /\ rounds'[i].status = m.status
DecisionUndone(m, i) ==
    /\ m.call = "reopen" /\ m.round = i /\ m.stamp = rounds[i].decidedAt
    /\ rounds'[i].decidedAt = 0

RowsFollow(m) ==
    /\ \A i \in Live \cap Live' :
          /\ rounds'[i].event = rounds[i].event
          /\ DecisionStays(m, i) \/ DecisionMade(m, i) \/ DecisionUndone(m, i)
    /\ \A i \in Live \ Live' : rounds[i].decidedAt = 0 /\ Removes(m, i)
    /\ \A i \in Live' \ Live : /\ i \notin used
                               /\ rounds'[i].decidedAt = 0
                               /\ m.call = "create" => rounds'[i].event = m.event
                               /\ m.call = "withdraw" => rounds'[i].event = rounds[m.round].event

(* An INSERT. *)
LEMMA InsertedRow ==
    ASSUME NEW table, NEW i, i \notin DOMAIN table, NEW row, rounds' = With(table, i, row)
    PROVE  /\ Live' = DOMAIN table \cup {i} /\ rounds'[i] = row
           /\ \A j \in DOMAIN table : rounds'[j] = table[j]
BY DEF With, Live

(* The row of an open round. *)
LEMMA OpenFields ==
    ASSUME NEW e, NEW n
    PROVE  OpenRound(e, n).event = e /\ OpenRound(e, n).decidedAt = 0
BY DEF OpenRound

(* Only a compensation removes a round, and only an open one; only a       *)
(* decision and the undo of that very decision change when a round was     *)
(* decided; and new rounds are open.                                       *)
LEMMA RecordCallOnRows ==
    ASSUME NEW m, Carries(m), RecordsInv, RecordCall(m)
    PROVE  RowsFollow(m)
<1>1. RecordsTypeOK /\ DecisionIsWhole
  BY DEF RecordsInv
<1>2. CASE m.call = "create" /\ \E i \in RoundIds : CreateRound(m.event, i)
  <2>1. PICK i, n : i \notin used /\ rounds' = With(rounds, i, OpenRound(m.event, n))
    BY <1>2 DEF CreateRound, Fresh
  <2> PICK row : row = OpenRound(m.event, n)
    OBVIOUS
  <2>2. row.event = m.event /\ row.decidedAt = 0 /\ i \notin DOMAIN rounds /\ rounds' = With(rounds, i, row)
    BY <1>1, <2>1, OpenFields DEF RecordsTypeOK, Live
  <2>3. /\ Live' = Live \cup {i} /\ rounds'[i] = row
        /\ \A j \in Live : rounds'[j] = rounds[j]
    BY ONLY <2>2, InsertedRow DEF Live
  <2>4. m.call = "create"
    BY <1>2
  <2>. QED  BY <2>1, <2>2, <2>3, <2>4 DEF RowsFollow, DecisionStays
<1>3. CASE m.call = "delete" /\ DeleteRound(m.round)
  <2>1. /\ Live' = Live \ {m.round} /\ \A j \in Live' : rounds'[j] = rounds[j]
        /\ rounds[m.round].decidedAt = 0
    BY <1>3 DEF DeleteRound, CanDelete, Undecided, Without, Live
  <2>. QED  BY <1>3, <2>1 DEF RowsFollow, DecisionStays, Removes
<1>4. CASE m.call = "decide" /\ DecideRound(m.round, m.status)
  <2> PICK i : i = m.round
    OBVIOUS
  <2>1. i \in Live /\ rounds[i].decidedAt = 0 /\ clock' = clock + 1 /\ clock \in Nat
        /\ m.status \in RecordStatuses
    BY <1>1, <1>4, ClockIsNat DEF DecideRound, CanDecide, Undecided, Carries, RecordStatuses
  <2> PICK row : row = Decided(rounds[i], m.status, clock + 1)
    OBVIOUS
  <2>2. row.event = rounds[i].event /\ row.decidedAt = clock' /\ row.status = m.status
    BY <1>1, <2>1, Rows, DecidedRow
  <2>3. rounds' = [rounds EXCEPT ![i] = row]
    BY <1>4 DEF DecideRound
  <2>4. Live' = Live /\ rounds'[i] = row /\ \A j \in Live \ {i} : rounds'[j] = rounds[j]
    BY ONLY <1>1, <2>1, <2>3, UpdatedTable
  <2>5. clock' # 0
    BY <2>1
  <2>6. DecisionMade(m, i)
    BY <1>4, <2>1, <2>2, <2>4, <2>5 DEF DecisionMade
  <2>. QED  BY <2>2, <2>4, <2>6 DEF RowsFollow, DecisionStays
<1>5. CASE m.call = "reopen" /\ ReopenRound(m.round, m.stamp)
  <2> PICK i : i = m.round
    OBVIOUS
  <2>1. i \in Live /\ m.stamp = rounds[i].decidedAt
    BY <1>5 DEF ReopenRound, CanReopen
  <2>6. "Pending" \in RecordStatuses /\ 0 \in Nat /\ rounds[i] \in Round
    BY <1>1, <2>1, Rows DEF RecordStatuses
  <2> PICK row : row = Decided(rounds[i], "Pending", 0)
    OBVIOUS
  <2>2. row.event = rounds[i].event /\ row.decidedAt = 0
    BY <2>6, DecidedRow
  <2>3. rounds' = [rounds EXCEPT ![i] = row]
    BY <1>5 DEF ReopenRound
  <2>4. Live' = Live /\ rounds'[i] = row /\ \A j \in Live \ {i} : rounds'[j] = rounds[j]
    BY ONLY <1>1, <2>1, <2>3, UpdatedTable
  <2>5. DecisionUndone(m, i)
    BY <1>5, <2>1, <2>2, <2>4 DEF DecisionUndone
  <2>. QED  BY <2>2, <2>4, <2>5 DEF RowsFollow, DecisionStays
<1>6. CASE m.call = "withdraw" /\ \E next \in RoundOrNone : WithdrawApproval(m.round, next)
  <2> PICK i : i = m.round
    OBVIOUS
  <2> PICK next \in RoundOrNone : WithdrawApproval(i, next)
    BY <1>6
  <2>1. i \in Live
    BY DEF WithdrawApproval, CanWithdraw
  <2> PICK row : row = Withdrawn(rounds[i])
    OBVIOUS
  <2>2. row.event = rounds[i].event /\ row.decidedAt = rounds[i].decidedAt
    BY <1>1, <2>1, Rows, WithdrawnRow
  <2> PICK table : table = [rounds EXCEPT ![i] = row]
    OBVIOUS
  <2>3. /\ DOMAIN table = Live
        /\ \A j \in Live : table[j].event = rounds[j].event /\ table[j].decidedAt = rounds[j].decidedAt
    BY <1>1, <2>1, <2>2 DEF RecordsTypeOK, Live
  <2>4. CASE rounds' = table
    BY <1>6, <2>3, <2>4 DEF RowsFollow, DecisionStays, Live
  <2>5. ASSUME NEW e, e = rounds[i].event, NEW n, next \notin used,
               rounds' = With(table, next, OpenRound(e, n))
        PROVE  RowsFollow(m)
    <3> PICK open : open = OpenRound(e, n)
      OBVIOUS
    <3>4. /\ open.decidedAt = 0 /\ open.event = rounds[m.round].event
          /\ next \notin DOMAIN table /\ rounds' = With(table, next, open)
      BY <1>1, <2>3, <2>5, OpenFields DEF RecordsTypeOK
    <3>1. /\ Live' = DOMAIN table \cup {next}
          /\ rounds'[next].decidedAt = 0 /\ rounds'[next].event = rounds[m.round].event
          /\ \A j \in DOMAIN table : rounds'[j] = table[j]
      BY ONLY <3>4, InsertedRow
    <3>2. m.call = "withdraw"
      BY <1>6
    <3>3. \A j \in Live \cap Live' : rounds'[j].event = rounds[j].event /\ DecisionStays(m, j)
      BY <2>3, <3>1, <3>2 DEF DecisionStays
    <3>. QED  BY ONLY <2>3, <2>5, <3>1, <3>2, <3>3 DEF RowsFollow
  <2>. QED  BY <2>4, <2>5 DEF WithdrawApproval, Fresh
<1>7. CASE m.call = "restore" /\ RestoreApproval(m.round, m.next)
  <2>1. CASE rounds' = rounds
    BY <2>1 DEF RowsFollow, DecisionStays, Live
  <2>2. CASE ~AlreadyRestored(m.round)
    <3> PICK i : i = m.round
      OBVIOUS
    <3>1. i \in Live /\ CanReinstate(i, m.next)
      BY <1>7, <2>2 DEF RestoreApproval, CanRestore
    <3>2. m.next \in Live => rounds[m.next].decidedAt = 0
      <4>1. CASE m.next = NoRound
        BY <1>1, <4>1, IdsAssumption DEF RecordsTypeOK
      <4>2. CASE m.next # NoRound
        BY <3>1, <4>2 DEF CanReinstate, IsOpenSuccessor, Undecided
      <4>. QED  BY <4>1, <4>2
    <3> PICK row : row = Reinstated(rounds[i])
      OBVIOUS
    <3>3. row.event = rounds[i].event /\ row.decidedAt = rounds[i].decidedAt
      BY <1>1, <3>1, Rows, ReinstatedRow
    <3> PICK table : table = [rounds EXCEPT ![i] = row]
      OBVIOUS
    <3>4. /\ DOMAIN table = Live
          /\ \A j \in Live : table[j].event = rounds[j].event /\ table[j].decidedAt = rounds[j].decidedAt
      BY <1>1, <3>1, <3>3 DEF RecordsTypeOK, Live
    <3>5. rounds' = Without(table, m.next)
      BY <1>7, <2>2 DEF RestoreApproval
    <3>6. Live' = Live \ {m.next} /\ \A j \in Live' : rounds'[j] = table[j]
      BY <3>4, <3>5 DEF Without, Live
    <3>. QED  BY <1>7, <3>2, <3>4, <3>6 DEF RowsFollow, DecisionStays, Removes
  <2>. QED  BY <1>7, <2>1, <2>2 DEF RestoreApproval
<1>. QED  BY <1>2, <1>3, <1>4, <1>5, <1>6, <1>7 DEF RecordCall, RoundOrNone

(* So does any executed call. *)
LEMMA CallOnRows ==
    ASSUME NEW m, Carries(m), RecordsInv, Executes(m)
    PROVE  RowsFollow(m)
<1>1. CASE rounds' = rounds
  BY <1>1 DEF RowsFollow, DecisionStays, Live
<1>. QED  BY <1>1, RecordCallOnRows DEF Executes, EventCall, BookingCall, serviceVars, recordVars

----------------------------------------------------------------------------
(* Who may undo a decision, or move its event.                             *)

(* Every request to decide a round, and every request to move its event,   *)
(* is answered.                                                            *)
DecisionsAnswered ==
    \A f \in AllFailures : <<f, "decide">> \notin Faults /\ <<f, "moveDecided">> \notin Faults

(* The steps of a request that has decided a round, and whose event has    *)
(* not been moved yet; and the call that undoes it.                        *)
OwnerPcs == {"resetVenue", "resetEquipment", "moveEvent", "reopen"}
Owns(r, i, t) == r.pc \in OwnerPcs /\ r.round = i /\ r.stamp = t
Undoes(m, i, t) == m.call = "reopen" /\ m.round = i /\ m.stamp = t

(* The decision that was made at t stands, and has moved no event. *)
Stands(i, t) ==
    /\ i \in Live /\ t # 0 /\ rounds[i].decidedAt = t
    /\ \A e \in Events : i \notin events[e].decided

(* Each decision that has not moved its event is in the hands of the one   *)
(* request, or the one belated call, that made it.                         *)
StampsOK ==
    /\ MovesAreNotUndone
    /\ \A w \in Workers : requests[w].pc \notin {"findDecision", "findMove"}
    /\ \A m \in late : m.call \notin {"decide", "moveDecided"}
    /\ \A i \in RoundIds : \A t :
          /\ \A w \in Workers : Owns(requests[w], i, t) => Stands(i, t)
          /\ \A m \in late : Undoes(m, i, t) => Stands(i, t)
          /\ \A v, w \in Workers : Owns(requests[v], i, t) /\ Owns(requests[w], i, t) => v = w
          /\ \A m, n \in late : Undoes(m, i, t) /\ Undoes(n, i, t) => m = n
          /\ \A w \in Workers, m \in late : ~(Owns(requests[w], i, t) /\ Undoes(m, i, t))

(* A round that moved an event is a decided one: in terms of its time.     *)
LEMMA MovedAreDecided ==
    ASSUME DecisionIsWhole
    PROVE  MovesAreNotUndone <=> \A e \in Events : \A i \in events[e].decided \cap Live : rounds[i].decidedAt # 0
BY DEF DecisionIsWhole, MovesAreNotUndone

(* A call that undoes a decision or moves an event is made by its owner.   *)
Founded(m) == m.call \in {"reopen", "moveDecided"} => \E t : Stands(m.round, t)

(* What an event has to do with the rounds that moved it, after a call. *)
LEMMA CallOnMoves ==
    ASSUME Inv, NEW m, Carries(m), Executes(m)
    PROVE  /\ UNCHANGED events \/ UNCHANGED recordVars
           /\ \A e \in Events : \/ events'[e].decided = events[e].decided
                                \/ /\ m.call = "moveDecided" /\ UNCHANGED recordVars
                                   /\ events'[e].decided = events[e].decided \cup {m.round}
<1>1. CASE UNCHANGED events
  BY <1>1
<1>2. CASE EventCall(m)
  <2>1. EventsInv /\ UNCHANGED recordVars /\ events \in [Events -> EventRecord]
    BY <1>2 DEF Inv, ServiceInv, EventsInv, EventsTypeOK, EventCall
  <2>2. ASSUME NEW e \in Events, NEW new \in EventRecord, Saves(e, new),
               \/ new.decided = events[e].decided
               \/ m.call = "moveDecided" /\ new.decided = events[e].decided \cup {m.round}
        PROVE  \A f \in Events : \/ events'[f].decided = events[f].decided
                                 \/ /\ m.call = "moveDecided"
                                    /\ events'[f].decided = events[f].decided \cup {m.round}
    BY <2>1, <2>2 DEF Saves
  <2>. QED  BY <1>1, <1>2, <2>1, <2>2, EventCallRounds DEF Leaves, Decides, Moves, WaitsFor
<1>. QED  BY <1>1, <1>2 DEF Executes, RecordCall, BookingCall, serviceVars

(* No other call makes a standing decision fall, and none makes a round    *)
(* that moved an event open again.                                         *)
LEMMA CallOnStanding ==
    ASSUME Inv, MovesAreNotUndone, NEW m, Carries(m), Executes(m), Founded(m)
    PROVE  /\ MovesAreNotUndone'
           /\ \A i, t : Stands(i, t) => \/ Stands(i, t)'
                                        \/ m.round = i /\ m.call \in {"reopen", "moveDecided"}
<1>1. RecordsInv /\ DecisionIsWhole /\ DecisionIsWhole' /\ \A e \in Events : events[e].decided \subseteq used
  BY ExecutesIsAStep DEF Inv, ServiceInv, RecordsInv, HandsOK
<1>2. RowsFollow(m)
  BY <1>1, CallOnRows
<1>3. \A e \in Events : \A i \in events[e].decided \cap Live : rounds[i].decidedAt # 0
  BY <1>1, MovedAreDecided
<1>4. ASSUME NEW e \in Events, NEW i \in events'[e].decided \cap Live'
      PROVE  rounds'[i].decidedAt # 0
  <2>1. CASE i \in events[e].decided
    <3>1. i \in Live
      BY <1>1, <1>2, <1>4, <2>1 DEF RowsFollow
    <3>2. DecisionStays(m, i) \/ DecisionMade(m, i) \/ DecisionUndone(m, i)
      BY <1>2, <1>4, <3>1 DEF RowsFollow
    <3>3. ~DecisionUndone(m, i)
      BY <2>1 DEF DecisionUndone, Founded, Stands
    <3>. QED  BY <1>3, <2>1, <3>1, <3>2, <3>3 DEF DecisionStays, DecisionMade
  <2>2. CASE i \notin events[e].decided
    <3>1. m.call = "moveDecided" /\ UNCHANGED recordVars /\ i = m.round
      BY <1>4, <2>2, CallOnMoves
    <3>. QED  BY <3>1 DEF Founded, Stands, recordVars
  <2>. QED  BY <2>1, <2>2
<1>5. MovesAreNotUndone'
  BY <1>1, <1>4 DEF DecisionIsWhole, MovesAreNotUndone
<1>6. ASSUME NEW i, NEW t, Stands(i, t), ~(m.round = i /\ m.call \in {"reopen", "moveDecided"})
      PROVE  Stands(i, t)'
  <2>1. i \in Live /\ t # 0 /\ rounds[i].decidedAt = t /\ \A e \in Events : i \notin events[e].decided
    BY <1>6 DEF Stands
  <2>2. i \in Live'
    BY <1>2, <2>1 DEF RowsFollow
  <2>3. DecisionStays(m, i) \/ DecisionMade(m, i) \/ DecisionUndone(m, i)
    BY <1>2, <2>1, <2>2 DEF RowsFollow
  <2>4. rounds'[i].decidedAt = t
    BY <1>6, <2>1, <2>3 DEF DecisionStays, DecisionMade, DecisionUndone
  <2>5. \A e \in Events : i \notin events'[e].decided
    BY <1>6, <2>1, CallOnMoves
  <2>. QED  BY <2>1, <2>2, <2>4, <2>5 DEF Stands
<1>. QED  BY <1>5, <1>6

(* A decision stands once it is made, and none did before.                 *)
LEMMA DecisionStands ==
    ASSUME Inv, MovesAreNotUndone, NEW m, m.call = "decide", Carries(m), Executes(m), Accepts(m),
           NEW t, t = clock'
    PROVE  Stands(m.round, t)' /\ \A u : ~Stands(m.round, u)
<1> PICK i : i = m.round
  OBVIOUS
<1>1. DecideRound(i, m.status) /\ UNCHANGED events
  BY DEF Executes, RecordCall, EventCall, BookingCall
<1>2. RecordsTypeOK /\ i \in Live /\ Undecided(i)
  BY <1>1 DEF Inv, ServiceInv, RecordsInv, DecideRound, CanDecide
<1>3. clock' = clock + 1 /\ clock \in Nat /\ m.status \in RecordStatuses /\ rounds[i] \in Round
  BY <1>1, <1>2, ClockIsNat, Rows DEF DecideRound, Carries, RecordStatuses
<1> PICK row : row = Decided(rounds[i], m.status, clock + 1)
  OBVIOUS
<1>4. row.decidedAt = t /\ t # 0
  BY <1>3, DecidedRow
<1>5. rounds' = [rounds EXCEPT ![i] = row]
  BY <1>1 DEF DecideRound
<1>6. Live' = Live /\ rounds'[i] = row
  BY ONLY <1>2, <1>5, UpdatedTable
<1>7. \A e \in Events : i \notin events'[e].decided
  BY <1>1, <1>2 DEF MovesAreNotUndone, Undecided
<1>. QED  BY <1>2, <1>4, <1>6, <1>7 DEF Stands, Undecided

(* Who owns what after worker w went on with q: what it gives up may fall, *)
(* and what it passes on to a belated call it gives up.                    *)
LEMMA StampsMove ==
    ASSUME Inv, StampsOK, NEW w \in Workers, NEW m, NEW q, requests' = [requests EXCEPT ![w] = q],
           MovesAreNotUndone', q.pc \notin {"findDecision", "findMove"},
           late' = late \/ (late' = late \cup {m} /\ m.call \notin {"decide", "moveDecided"}),
           \A i \in RoundIds : \A t :
              Stands(i, t) => Stands(i, t)' \/ (late' = late /\ Owns(requests[w], i, t) /\ ~Owns(q, i, t)),
           \A i \in RoundIds : \A t :
              Undoes(m, i, t) /\ late' # late => Owns(requests[w], i, t) /\ ~Owns(q, i, t),
           \A i \in RoundIds : \A t :
              Owns(q, i, t) => Owns(requests[w], i, t) \/ (Stands(i, t)' /\ ~Stands(i, t))
    PROVE  StampsOK'
<1>1. requests'[w] = q /\ \A v \in Workers : v # w => requests'[v] = requests[v]
  BY DEF Inv, ServiceInv, RequestsOK
<1>2. \A v \in Workers : requests'[v].pc \notin {"findDecision", "findMove"}
  BY <1>1 DEF StampsOK
<1>3. \A n \in late' : n.call \notin {"decide", "moveDecided"}
  BY DEF StampsOK
<1>4. ASSUME NEW i \in RoundIds, NEW t
      PROVE  /\ \A v \in Workers : Owns(requests'[v], i, t) => Stands(i, t)'
             /\ \A n \in late' : Undoes(n, i, t) => Stands(i, t)'
             /\ \A u, v \in Workers : Owns(requests'[u], i, t) /\ Owns(requests'[v], i, t) => u = v
             /\ \A n, o \in late' : Undoes(n, i, t) /\ Undoes(o, i, t) => n = o
             /\ \A v \in Workers, n \in late' : ~(Owns(requests'[v], i, t) /\ Undoes(n, i, t))
  <2>1. /\ \A v \in Workers : Owns(requests[v], i, t) => Stands(i, t)
        /\ \A n \in late : Undoes(n, i, t) => Stands(i, t)
        /\ \A u, v \in Workers : Owns(requests[u], i, t) /\ Owns(requests[v], i, t) => u = v
        /\ \A n, o \in late : Undoes(n, i, t) /\ Undoes(o, i, t) => n = o
        /\ \A v \in Workers, n \in late : ~(Owns(requests[v], i, t) /\ Undoes(n, i, t))
    BY DEF StampsOK
  <2>2. Owns(q, i, t) => Owns(requests[w], i, t) \/ (Stands(i, t)' /\ ~Stands(i, t))
    OBVIOUS
  <2>3. /\ late' \in {late, late \cup {m}}
        /\ Stands(i, t) => Stands(i, t)' \/ (late' = late /\ Owns(requests[w], i, t) /\ ~Owns(q, i, t))
        /\ Undoes(m, i, t) /\ late' # late => Owns(requests[w], i, t) /\ ~Owns(q, i, t)
    OBVIOUS
  <2>4. Owns(q, i, t) => Stands(i, t)'
    BY ONLY <2>1, <2>2, <2>3
  <2>5. ASSUME NEW v \in Workers, Owns(requests'[v], i, t)
        PROVE  Stands(i, t)'
    BY ONLY <1>1, <2>1, <2>3, <2>4, <2>5
  <2>6. ASSUME NEW n \in late', Undoes(n, i, t)
        PROVE  Stands(i, t)'
    BY ONLY <2>1, <2>3, <2>6
  <2>7. Owns(q, i, t) => /\ \A v \in Workers : v # w => ~Owns(requests[v], i, t)
                         /\ \A n \in late' : ~Undoes(n, i, t)
    BY ONLY <2>1, <2>2, <2>3
  <2>8. \A u, v \in Workers : Owns(requests'[u], i, t) /\ Owns(requests'[v], i, t) => u = v
    BY ONLY <1>1, <2>1, <2>7
  <2>9. \A n, o \in late' : Undoes(n, i, t) /\ Undoes(o, i, t) => n = o
    BY ONLY <2>1, <2>3
  <2>10. \A v \in Workers, n \in late' : ~(Owns(requests'[v], i, t) /\ Undoes(n, i, t))
    BY ONLY <1>1, <2>1, <2>3, <2>7
  <2>. QED  BY <2>5, <2>6, <2>8, <2>9, <2>10
<1>. QED  BY <1>2, <1>3, <1>4 DEF StampsOK

(* A request that owns nothing, or no more than it did.                    *)
OwnsNoMore(q, r) ==
    /\ q.pc \notin {"findDecision", "findMove"}
    /\ \A i \in RoundIds : \A t : Owns(q, i, t) => Owns(r, i, t)

(* A step that calls nobody. *)
LEMMA ReadKeepsStamps ==
    ASSUME Inv, StampsOK, NEW w \in Workers, NEW q, OwnsNoMore(q, requests[w]),
           Becomes(w, q), UNCHANGED <<serviceVars, late>>
    PROVE  StampsOK'
<1>1. UNCHANGED <<rounds, events>>
  BY DEF serviceVars, recordVars
<1>2. MovesAreNotUndone'
  BY <1>1 DEF StampsOK, MovesAreNotUndone, Live
<1>3. \A i \in RoundIds : \A t : Stands(i, t) => Stands(i, t)'
  BY <1>1 DEF Stands, Live
<1>. QED  BY <1>2, <1>3, StampsMove DEF OwnsNoMore, Becomes

(* A call that neither makes nor undoes a decision nor moves an event.     *)
LEMMA CallKeepsStamps ==
    ASSUME Inv, StampsOK, NEW w \in Workers, NEW m, Carries(m),
           m.call \notin {"decide", "moveDecided", "reopen"},
           NEW done, NEW refused, NEW failed, OwnsNoMore(done, requests[w]),
           OwnsNoMore(refused, requests[w]), OwnsNoMore(failed, requests[w]),
           Calls(w, m, done, refused, failed)
    PROVE  StampsOK'
<1>1. \E q \in {done, refused, failed} :
        /\ requests' = [requests EXCEPT ![w] = q] /\ OwnsNoMore(q, requests[w])
        /\ \/ Executes(m) /\ late' = late
           \/ UNCHANGED serviceVars /\ late' \in {late, late \cup {m}}
  BY DEF Calls, Becomes
<1> PICK q \in {done, refused, failed} :
        /\ requests' = [requests EXCEPT ![w] = q] /\ OwnsNoMore(q, requests[w])
        /\ \/ Executes(m) /\ late' = late
           \/ UNCHANGED serviceVars /\ late' \in {late, late \cup {m}}
  BY <1>1
<1>2. MovesAreNotUndone' /\ \A i \in RoundIds : \A t : Stands(i, t) => Stands(i, t)'
  <2>1. CASE Executes(m)
    BY <2>1, CallOnStanding DEF StampsOK, Founded
  <2>2. CASE UNCHANGED serviceVars
    BY <2>2 DEF serviceVars, recordVars, StampsOK, MovesAreNotUndone, Stands, Live
  <2>. QED  BY <2>1, <2>2
<1>3. \A i \in RoundIds : \A t : ~Undoes(m, i, t)
  BY DEF Undoes
<1>. QED  BY <1>2, <1>3, StampsMove DEF OwnsNoMore

(* What a request that goes on to step p with x for one of its variables   *)
(* has for the others.                                                     *)
LEMMA ToFields ==
    ASSUME Inv, NEW w \in Workers, NEW p
    PROVE  LET r == requests[w] IN
           /\ /\ To(w, p).pc = p /\ To(w, p).kind = r.kind /\ To(w, p).event = r.event
              /\ To(w, p).round = r.round /\ To(w, p).next = r.next /\ To(w, p).stamp = r.stamp
           /\ \A x : LET q == [To(w, p) EXCEPT !.round = x]
                     IN  q.pc = p /\ q.kind = r.kind /\ q.event = r.event /\ q.round = x
           /\ \A x : LET q == [To(w, p) EXCEPT !.next = x]
                     IN  q.pc = p /\ q.kind = r.kind /\ q.event = r.event /\ q.next = x
           /\ \A x : LET q == [To(w, p) EXCEPT !.flags = x]
                     IN  q.pc = p /\ q.kind = r.kind /\ q.event = r.event /\ q.round = r.round
           /\ \A t : LET q == [To(w, p) EXCEPT !.stamp = t]
                     IN  q.pc = p /\ q.kind = r.kind /\ q.event = r.event /\ q.round = r.round /\ q.stamp = t
<1> PICK r \in Request : r = requests[w]
  BY Serving
<1>1. To(w, p) = [r EXCEPT !.pc = p]
  BY DEF To
<1>. QED  BY <1>1 DEF Request

(* The steps at which a request has no decision in its hands. *)
PlainPcs == Pcs \ (OwnerPcs \cup {"findDecision", "findMove"})

(* There it owns nothing. *)
LEMMA PlainOwnsNothing ==
    ASSUME NEW q, q.pc \in PlainPcs, NEW r
    PROVE  OwnsNoMore(q, r)
BY DEF PlainPcs, OwnsNoMore, Owns

(* So does a request that goes on to one of them. *)
LEMMA PlainGoesOn ==
    ASSUME Inv, NEW w \in Workers, NEW p \in PlainPcs, NEW r
    PROVE  /\ OwnsNoMore(To(w, p), r)
           /\ \A x : /\ OwnsNoMore([To(w, p) EXCEPT !.round = x], r)
                     /\ OwnsNoMore([To(w, p) EXCEPT !.next = x], r)
                     /\ OwnsNoMore([To(w, p) EXCEPT !.flags = x], r)
<1>1. OwnsNoMore(To(w, p), r)
  BY ToFields, PlainOwnsNothing
<1>2. ASSUME NEW x
      PROVE  /\ OwnsNoMore([To(w, p) EXCEPT !.round = x], r)
             /\ OwnsNoMore([To(w, p) EXCEPT !.next = x], r)
             /\ OwnsNoMore([To(w, p) EXCEPT !.flags = x], r)
  <2> PICK a, b, c : /\ a = [To(w, p) EXCEPT !.round = x]
                     /\ b = [To(w, p) EXCEPT !.next = x]
                     /\ c = [To(w, p) EXCEPT !.flags = x]
    OBVIOUS
  <2>1. a.pc = p /\ b.pc = p /\ c.pc = p
    BY ToFields
  <2>2. OwnsNoMore(a, r) /\ OwnsNoMore(b, r) /\ OwnsNoMore(c, r)
    BY <2>1, PlainOwnsNothing
  <2>. QED  BY <2>2
<1>. QED  BY <1>1, <1>2

(* No request at all owns nothing. *)
LEMMA DoneOwnsNothing ==
    ASSUME NEW r
    PROVE  OwnsNoMore(NoRequest, r)
<1>1. NoRequest.pc \in PlainPcs
  BY DoneFields DEF PlainPcs, Pcs, OwnerPcs
<1>. QED  BY <1>1, PlainOwnsNothing

(* An owner that goes on owns what it owned. *)
LEMMA OwnerGoesOn ==
    ASSUME Inv, NEW w \in Workers, requests[w].pc \in OwnerPcs, NEW p \in OwnerPcs
    PROVE  OwnsNoMore(To(w, p), requests[w])
<1>1. p \notin {"findDecision", "findMove"}
  BY DEF OwnerPcs
<1>. QED  BY <1>1, ToFields DEF OwnsNoMore, Owns

(* A submission decides nothing. *)
LEMMA SubmitStepKeepsStamps ==
    ASSUME Inv, StampsOK, NEW w \in Workers, SubmitStep(w)
    PROVE  StampsOK'
<1> PICK r \in Request : r = requests[w]
  BY Serving
<1>1. Knows(r)
  BY Serving
<1>2. OwnsNoMore(Done, r)
  BY DoneOwnsNothing DEF Done
<1>3. ASSUME NEW p \in {"createRound", "submitEvent", "deleteRound"}
      PROVE  OwnsNoMore(To(w, p), r) /\ \A x : OwnsNoMore([To(w, p) EXCEPT !.round = x], r)
  <2>1. p \in PlainPcs
    BY <1>3 DEF PlainPcs, Pcs, SubmitPcs, OwnerPcs
  <2>. QED  BY <2>1, PlainGoesOn
<1>4. r.pc \in SubmitPcs => r.event \in Events /\ r.by \in Coordinators
  BY <1>1 DEF Knows, SubmitPcs, Decisions
<1>5. ASSUME CheckReadiness(w) PROVE StampsOK'
  <2>1. Reads(w, To(w, "createRound")) \/ Reads(w, Done)
    BY <1>5 DEF CheckReadiness
  <2>. QED  BY <1>2, <1>3, <2>1, ReadKeepsStamps DEF Reads
<1>6. ASSUME CallCreate(w) PROVE StampsOK'
  <2>1. r.pc \in SubmitPcs
    BY <1>6 DEF CallCreate, At, SubmitPcs
  <2> PICK m : m = [call |-> "create", event |-> r.event]
    OBVIOUS
  <2>2. Carries(m) /\ m.call \notin {"decide", "moveDecided", "reopen"}
    BY <1>4, <2>1 DEF Carries, EventCalls, BookingCalls
  <2> PICK done : done = [To(w, "submitEvent") EXCEPT !.round = NewRound]
    OBVIOUS
  <2>3. Calls(w, m, done, Done, Done)
    BY <1>6 DEF CallCreate
  <2>4. OwnsNoMore(done, r)
    BY <1>3
  <2>. QED  BY <1>2, <2>2, <2>3, <2>4, CallKeepsStamps
<1>7. ASSUME CallSubmitEvent(w) PROVE StampsOK'
  <2>1. r.pc \in SubmitPcs /\ r.round \in RoundIds
    BY <1>1, <1>7 DEF CallSubmitEvent, At, SubmitPcs, Knows, RoundPcs
  <2> PICK m : m = [call |-> "submitEvent", event |-> r.event, by |-> r.by, round |-> r.round]
    OBVIOUS
  <2>2. Carries(m) /\ m.call \notin {"decide", "moveDecided", "reopen"}
    BY <1>4, <2>1 DEF Carries, EventCalls, BookingCalls
  <2>3. Calls(w, m, Done, To(w, "deleteRound"), To(w, "deleteRound"))
    BY <1>7 DEF CallSubmitEvent
  <2>. QED  BY <1>2, <1>3, <2>2, <2>3, CallKeepsStamps
<1>8. ASSUME CallDelete(w) PROVE StampsOK'
  <2> PICK m : m = [call |-> "delete", round |-> r.round]
    OBVIOUS
  <2>2. Carries(m) /\ m.call \notin {"decide", "moveDecided", "reopen"}
    BY DEF Carries, EventCalls, BookingCalls
  <2>3. Calls(w, m, Done, Done, Done)
    BY <1>8 DEF CallDelete
  <2>. QED  BY <1>2, <2>2, <2>3, CallKeepsStamps
<1>. QED  BY <1>5, <1>6, <1>7, <1>8 DEF SubmitStep

(* Neither does a re-check. *)
LEMMA RecheckStepKeepsStamps ==
    ASSUME Inv, StampsOK, NEW w \in Workers, RecheckStep(w)
    PROVE  StampsOK'
<1> PICK r \in Request : r = requests[w]
  BY Serving
<1>1. Knows(r) /\ r.next \in RoundOrNone
  BY Serving
<1>2. OwnsNoMore(Done, r)
  BY DoneOwnsNothing DEF Done
<1>3. ASSUME NEW p \in {"withdraw", "readVenue", "restore", "saveDetails", "withdrawEvent"}
      PROVE  /\ OwnsNoMore(To(w, p), r) /\ \A x : OwnsNoMore([To(w, p) EXCEPT !.round = x], r)
             /\ \A x : OwnsNoMore([To(w, p) EXCEPT !.next = x], r)
  <2>1. p \in PlainPcs
    BY <1>3 DEF PlainPcs, Pcs, WithdrawPcs, VenuePcs, OwnerPcs
  <2>. QED  BY <2>1, PlainGoesOn
<1>4. ASSUME NEW q, OwnsNoMore(q, r), Reads(w, q) \/ ReadFails(w, q) PROVE StampsOK'
  BY <1>4, ReadKeepsStamps DEF Reads, ReadFails
<1>5. ASSUME ReadApproval(w) PROVE StampsOK'
  <2>1. Reads(w, Done) \/ \E i : Reads(w, [To(w, "withdraw") EXCEPT !.round = i])
    BY <1>5 DEF ReadApproval
  <2>. QED  BY <1>2, <1>3, <1>4, <2>1
<1>6. ASSUME CallWithdraw(w) PROVE StampsOK'
  <2> PICK m : m = [call |-> "withdraw", round |-> r.round, opens |-> (r.kind = "recheck")]
    OBVIOUS
  <2>1. Carries(m) /\ m.call \notin {"decide", "moveDecided", "reopen"}
    BY DEF Carries, EventCalls, BookingCalls
  <2> PICK new : new = IF r.kind = "recheck" THEN NewRound ELSE NoRound
    OBVIOUS
  <2> PICK done : done = [To(w, "readVenue") EXCEPT !.next = new]
    OBVIOUS
  <2>2. Calls(w, m, done, Done, Done)
    BY <1>6 DEF CallWithdraw
  <2>3. OwnsNoMore(done, r)
    BY <1>3
  <2>. QED  BY <1>2, <2>1, <2>2, <2>3, CallKeepsStamps
<1>7. ASSUME ReadVenue(w) PROVE StampsOK'
  <2>1. \E p \in {"restore", "saveDetails", "withdrawEvent"} : Reads(w, To(w, p)) \/ ReadFails(w, To(w, p))
    BY <1>7 DEF ReadVenue
  <2>. QED  BY <1>3, <1>4, <2>1
<1>8. ASSUME CallSaveDetails(w) PROVE StampsOK'
  <2>1. /\ r.event \in Events /\ r.by \in Coordinators /\ r.details \in Details
        /\ r.round \in RoundIds /\ r.next \in RoundIds
    BY <1>1, <1>8 DEF CallSaveDetails, At, Knows, RoundPcs, Decisions
  <2> PICK m : m = [call |-> "saveDetails", event |-> r.event, by |-> r.by,
                    details |-> r.details, round |-> r.round, next |-> r.next]
    OBVIOUS
  <2>2. Carries(m) /\ m.call \notin {"decide", "moveDecided", "reopen"}
    BY <2>1 DEF Carries, EventCalls, BookingCalls
  <2>3. Calls(w, m, Done, To(w, "restore"), To(w, "restore"))
    BY <1>8 DEF CallSaveDetails
  <2>. QED  BY <1>2, <1>3, <2>2, <2>3, CallKeepsStamps
<1>9. ASSUME CallRestore(w) PROVE StampsOK'
  <2> PICK m : m = [call |-> "restore", round |-> r.round, next |-> r.next]
    OBVIOUS
  <2>1. Carries(m) /\ m.call \notin {"decide", "moveDecided", "reopen"}
    BY <1>1 DEF Carries, EventCalls, BookingCalls
  <2>2. Calls(w, m, Done, Done, Done)
    BY <1>9 DEF CallRestore
  <2>. QED  BY <1>2, <2>1, <2>2, CallKeepsStamps
<1>. QED  BY <1>5, <1>6, <1>7, <1>8, <1>9 DEF RecheckStep

(* Nor does a change of a booking. *)
LEMMA VenueChangeStepKeepsStamps ==
    ASSUME Inv, StampsOK, NEW w \in Workers, VenueChangeStep(w)
    PROVE  StampsOK'
<1> PICK r \in Request : r = requests[w]
  BY Serving
<1>1. Knows(r)
  BY Serving
<1>2. OwnsNoMore(Done, r)
  BY DoneOwnsNothing DEF Done
<1>3. ASSUME NEW p \in {"readApproval", "restore", "changeBooking", "readWithdrawn", "reinstate", "restoreEvent"}
      PROVE  OwnsNoMore(To(w, p), r)
  <2>1. p \in PlainPcs
    BY <1>3 DEF PlainPcs, Pcs, WithdrawPcs, VenuePcs, OwnerPcs
  <2>. QED  BY <2>1, PlainGoesOn
<1>4. ASSUME NEW q, OwnsNoMore(q, r), Reads(w, q) \/ ReadFails(w, q) PROVE StampsOK'
  BY <1>4, ReadKeepsStamps DEF Reads, ReadFails
<1>5. /\ r.pc \in VenuePcs => r.event \in Events /\ r.by \in Coordinators /\ r.kind \in VenueChanges
      /\ r.pc \in RoundPcs => r.round \in RoundIds
  BY <1>1 DEF Knows, VenuePcs, VenueChanges, Decisions
<1>6. ASSUME ReadEvent(w) PROVE StampsOK'
  <2>1. Reads(w, To(w, "readApproval")) \/ Reads(w, Done)
    BY <1>6 DEF ReadEvent
  <2>. QED  BY <1>2, <1>3, <1>4, <2>1
<1>7. ASSUME CallWithdrawEvent(w) PROVE StampsOK'
  <2>1. r.pc \in VenuePcs /\ r.pc \in RoundPcs
    BY <1>7 DEF CallWithdrawEvent, At, VenuePcs, RoundPcs
  <2> PICK m : m = [call |-> "withdrawEvent", event |-> r.event, by |-> r.by, round |-> r.round]
    OBVIOUS
  <2>2. Carries(m) /\ m.call \notin {"decide", "moveDecided", "reopen"}
    BY <1>5, <2>1 DEF Carries, EventCalls, BookingCalls
  <2> PICK done : done = IF r.waited THEN To(w, "changeBooking") ELSE Done
    OBVIOUS
  <2>3. Calls(w, m, done, To(w, "restore"), To(w, "restore"))
    BY <1>7 DEF CallWithdrawEvent
  <2>4. OwnsNoMore(done, r)
    BY <1>2, <1>3
  <2>. QED  BY <1>3, <2>2, <2>3, <2>4, CallKeepsStamps
<1>8. ASSUME GivesUpWaiting(w) PROVE StampsOK'
  <2> PICK q : q = NotWaited(r)
    OBVIOUS
  <2>1. q.pc = r.pc
    BY NotWaitedFields
  <2>2. q.pc \in PlainPcs
    BY <1>8, <2>1 DEF GivesUpWaiting, PlainPcs, Pcs, WithdrawPcs, VenuePcs, OwnerPcs
  <2>3. requests' = [requests EXCEPT ![w] = NotWaited(requests[w])] /\ UNCHANGED <<serviceVars, late>>
    BY <1>8 DEF GivesUpWaiting, NotWaited
  <2>. QED  BY <2>2, <2>3, PlainOwnsNothing, ReadKeepsStamps DEF Becomes
<1>9. ASSUME CallChangeBooking(w) PROVE StampsOK'
  <2>1. r.pc \in VenuePcs
    BY <1>9 DEF CallChangeBooking, At, VenuePcs
  <2> PICK m : m = [call |-> "changeBooking", event |-> r.event, status |-> BookingStatusOf(r.kind)]
    OBVIOUS
  <2>2. Carries(m) /\ m.call \notin {"decide", "moveDecided", "reopen"}
    <3>1. BookingStatusOf(r.kind) \in {"Pending Review", "Cancelled"}
      BY DEF BookingStatusOf
    <3>. QED  BY <1>5, <2>1, <3>1 DEF Carries, EventCalls, BookingCalls
  <2> PICK putBack : putBack = IF r.round = NoRound THEN Done ELSE To(w, "readWithdrawn")
    OBVIOUS
  <2>3. OwnsNoMore(putBack, r)
    BY <1>2, <1>3
  <2>4. CASE Calls(w, m, Done, putBack, putBack)
    BY <1>2, <2>2, <2>3, <2>4, CallKeepsStamps
  <2>5. CASE Becomes(w, putBack) /\ UNCHANGED <<serviceVars, late, failures>>
    BY <2>3, <2>5, ReadKeepsStamps
  <2>. QED  BY <1>9, <2>4, <2>5 DEF CallChangeBooking
<1>10. ASSUME ReadWithdrawn(w) PROVE StampsOK'
  <2>1. Reads(w, To(w, "reinstate")) \/ Reads(w, Done) \/ ReadFails(w, Done)
    BY <1>10 DEF ReadWithdrawn
  <2>. QED  BY <1>2, <1>3, <1>4, <2>1
<1>11. ASSUME CallReinstate(w) PROVE StampsOK'
  <2> PICK m : m = [call |-> "restore", round |-> r.round, next |-> NoRound]
    OBVIOUS
  <2>1. Carries(m) /\ m.call \notin {"decide", "moveDecided", "reopen"}
    BY DEF Carries, EventCalls, BookingCalls, RoundOrNone
  <2>2. Calls(w, m, To(w, "restoreEvent"), Done, Done)
    BY <1>11 DEF CallReinstate
  <2>. QED  BY <1>2, <1>3, <2>1, <2>2, CallKeepsStamps
<1>12. ASSUME CallRestoreEvent(w) PROVE StampsOK'
  <2>1. r.pc \in VenuePcs /\ r.pc \in RoundPcs
    BY <1>12 DEF CallRestoreEvent, At, VenuePcs, RoundPcs
  <2> PICK m : m = [call |-> "restoreEvent", event |-> r.event, by |-> r.by, round |-> r.round]
    OBVIOUS
  <2>2. Carries(m) /\ m.call \notin {"decide", "moveDecided", "reopen"}
    BY <1>5, <2>1 DEF Carries, EventCalls, BookingCalls
  <2>3. Calls(w, m, Done, Done, Done)
    BY <1>12 DEF CallRestoreEvent
  <2>. QED  BY <1>2, <2>2, <2>3, CallKeepsStamps
<1>. QED  BY <1>6, <1>7, <1>8, <1>9, <1>10, <1>11, <1>12 DEF VenueChangeStep

(* What a decision reads: while decisions are answered, no request looks   *)
(* for one, so none takes over another's.                                  *)
LEMMA DecideReadsKeepStamps ==
    ASSUME Inv, StampsOK, NEW w \in Workers,
           FindOpenRound(w) \/ ReadArrangements(w) \/ FindDecision(w) \/ FindMove(w)
    PROVE  StampsOK'
<1> PICK r \in Request : r = requests[w]
  BY Serving
<1>1. r.pc \notin {"findDecision", "findMove"}
  BY DEF StampsOK
<1>2. ~FindDecision(w) /\ ~FindMove(w)
  BY <1>1 DEF FindDecision, FindMove, At
<1>3. OwnsNoMore(Done, r)
  BY DoneOwnsNothing DEF Done
<1>4. ASSUME NEW p \in {"readArrangements", "decide"}
      PROVE  \A x : OwnsNoMore([To(w, p) EXCEPT !.round = x], r) /\ OwnsNoMore([To(w, p) EXCEPT !.flags = x], r)
  <2>1. p \in PlainPcs
    BY <1>4 DEF PlainPcs, Pcs, DecidePcs, OwnerPcs
  <2>. QED  BY <2>1, PlainGoesOn
<1>5. ASSUME NEW q, OwnsNoMore(q, r), Reads(w, q) PROVE StampsOK'
  BY <1>5, ReadKeepsStamps DEF Reads
<1>6. ASSUME FindOpenRound(w) PROVE StampsOK'
  <2>1. Reads(w, Done) \/ \E p \in {"readArrangements", "decide"} : \E i : Reads(w, [To(w, p) EXCEPT !.round = i])
    BY <1>6 DEF FindOpenRound
  <2>. QED  BY <1>3, <1>4, <1>5, <2>1
<1>7. ASSUME ReadArrangements(w) PROVE StampsOK'
  <2>1. Reads(w, Done) \/ \E S : Reads(w, [To(w, "decide") EXCEPT !.flags = S])
    <3>1. To(w, "decide").flags = r.flags
      BY DEF To, Request
    <3>. QED  BY <1>7, <3>1 DEF ReadArrangements
  <2>. QED  BY <1>3, <1>4, <1>5, <2>1
<1>. QED  BY <1>2, <1>6, <1>7

(* The call that decides: it is answered, and what it decided is its own.  *)
LEMMA DecideKeepsStamps ==
    ASSUME DecisionsAnswered, Inv, StampsOK, NEW w \in Workers, CallDecide(w)
    PROVE  StampsOK'
<1> PICK r \in Request : r = requests[w]
  BY Serving
<1>1. r.pc = "decide"
  BY DEF CallDecide, At
<1> PICK m : m = [call |-> "decide", round |-> r.round, status |-> RecordStatusOf(r.kind)]
  OBVIOUS
<1>2. m.call = "decide" /\ m.round = r.round /\ Carries(m)
  <2>1. r.kind \in Decisions
    BY <1>1, Serving DEF Knows, DecidePcs
  <2>2. RecordStatusOf(r.kind) \in DecisionStatuses
    BY <2>1 DEF Decisions, RecordStatusOf, DecisionStatuses
  <2>. QED  BY <2>2 DEF Carries, EventCalls, BookingCalls
<1> PICK t : t = clock'
  OBVIOUS
<1> PICK p \in {"resetVenue", "resetEquipment", "moveEvent"} : p = AfterDecision(r.flags)
  BY DEF AfterDecision
<1> PICK done : done = [To(w, p) EXCEPT !.stamp = t]
  OBVIOUS
<1>3. done.pc = p /\ done.round = r.round /\ done.stamp = t
  BY ToFields
<1>4. Calls(w, m, done, Done, To(w, "findDecision"))
  BY DEF CallDecide, NewStamp
<1>5. Executes(m) /\ late' = late /\ Becomes(w, IF Accepts(m) THEN done ELSE Done)
  BY <1>2, <1>4 DEF Calls, DecisionsAnswered, AllFailures
<1>6. MovesAreNotUndone' /\ \A i \in RoundIds : \A u : Stands(i, u) => Stands(i, u)'
  BY <1>2, <1>5, CallOnStanding DEF StampsOK, Founded
<1>7. CASE Accepts(m)
  <2>1. Stands(r.round, t)' /\ ~Stands(r.round, t)
    BY <1>2, <1>5, <1>7, DecisionStands DEF StampsOK
  <2>2. \A i, u : Owns(done, i, u) => i = r.round /\ u = t
    BY <1>3 DEF Owns
  <2>3. \A i \in RoundIds : \A u : Owns(done, i, u) => Stands(i, u)' /\ ~Stands(i, u)
    BY <2>1, <2>2
  <2>4. done.pc \notin {"findDecision", "findMove"} /\ requests' = [requests EXCEPT ![w] = done]
    BY <1>3, <1>5, <1>7 DEF Becomes
  <2>. QED  BY <1>5, <1>6, <2>3, <2>4, StampsMove
<1>8. CASE ~Accepts(m)
  BY <1>5, <1>8, DoneOwnsNothing, ReadKeepsStamps DEF Executes, Done
<1>. QED  BY <1>7, <1>8

(* The calls that reset what was flagged. *)
LEMMA ResetKeepsStamps ==
    ASSUME Inv, StampsOK, NEW w \in Workers, CallResetVenue(w) \/ CallResetEquipment(w)
    PROVE  StampsOK'
<1> PICK r \in Request : r = requests[w]
  BY Serving
<1>1. r.pc \in OwnerPcs /\ r.event \in Events
  BY Serving DEF CallResetVenue, CallResetEquipment, At, OwnerPcs, Knows
<1>2. ASSUME NEW p \in {"resetEquipment", "moveEvent", "reopen"} PROVE OwnsNoMore(To(w, p), r)
  BY <1>1, <1>2, OwnerGoesOn DEF OwnerPcs
<1>3. ASSUME CallResetVenue(w) PROVE StampsOK'
  <2> PICK m : m = [call |-> "resetBooking", event |-> r.event]
    OBVIOUS
  <2>1. Carries(m) /\ m.call \notin {"decide", "moveDecided", "reopen"}
    BY <1>1 DEF Carries, EventCalls, BookingCalls
  <2> PICK p : p = AfterDecision(r.flags \ {"venue"})
    OBVIOUS
  <2>2. p \in {"resetEquipment", "moveEvent"}
    BY DEF AfterDecision
  <2>3. Calls(w, m, To(w, p), To(w, "reopen"), To(w, "reopen"))
    BY <1>3 DEF CallResetVenue
  <2>. QED  BY <1>2, <2>1, <2>2, <2>3, CallKeepsStamps
<1>4. ASSUME CallResetEquipment(w) PROVE StampsOK'
  <2> PICK m : m = [call |-> "resetEquipment", event |-> r.event]
    OBVIOUS
  <2>1. Carries(m) /\ m.call \notin {"decide", "moveDecided", "reopen"}
    BY <1>1 DEF Carries, EventCalls, BookingCalls
  <2>2. Calls(w, m, To(w, "moveEvent"), To(w, "reopen"), To(w, "reopen"))
    BY <1>4 DEF CallResetEquipment
  <2>. QED  BY <1>2, <2>1, <2>2, CallKeepsStamps
<1>. QED  BY <1>3, <1>4

(* What the owner of a round holds is what the round's decision was. *)
LEMMA OwnersRound ==
    ASSUME Inv, StampsOK, NEW w \in Workers, requests[w].pc \in OwnerPcs
    PROVE  /\ requests[w].round \in RoundIds /\ Stands(requests[w].round, requests[w].stamp)
           /\ \A t : Stands(requests[w].round, t) => Owns(requests[w], requests[w].round, t)
<1> PICK i, u : i = requests[w].round /\ u = requests[w].stamp
  OBVIOUS
<1>1. i \in RoundIds /\ Owns(requests[w], i, u)
  BY Serving DEF Knows, OwnerPcs, RoundPcs, Owns
<1>2. Stands(i, u)
  BY <1>1 DEF StampsOK
<1>3. \A t : Stands(i, t) => t = u
  BY <1>2 DEF Stands
<1>. QED  BY <1>1, <1>2, <1>3

(* The call that moves the event: it is answered, and made by the owner.   *)
LEMMA MoveKeepsStamps ==
    ASSUME DecisionsAnswered, Inv, StampsOK, NEW w \in Workers, CallMoveDecided(w)
    PROVE  StampsOK'
<1> PICK r \in Request : r = requests[w]
  BY Serving
<1>1. r.pc = "moveEvent" /\ r.pc \in OwnerPcs
  BY DEF CallMoveDecided, At, OwnerPcs
<1>2. r.round \in RoundIds /\ Stands(r.round, r.stamp) /\ \A t : Stands(r.round, t) => Owns(r, r.round, t)
  BY <1>1, OwnersRound
<1> PICK m : m = [call |-> "moveDecided", event |-> r.event, round |-> r.round,
                  status |-> EventStatusOf(r.kind), venue |-> r.venue]
  OBVIOUS
<1>3. m.call = "moveDecided" /\ m.round = r.round /\ Carries(m)
  <2>1. r.kind \in Decisions /\ r.event \in Events /\ r.venue \in BOOLEAN
    BY <1>1, Serving DEF Knows, DecidePcs
  <2>2. EventStatusOf(r.kind) \in SafetyTargets
    BY <2>1 DEF Decisions, EventStatusOf, SafetyTargets
  <2>. QED  BY <1>2, <2>1, <2>2 DEF Carries, EventCalls, BookingCalls
<1> PICK done : done = Moved(w)
  OBVIOUS
<1>4. done.pc \in {"release", "idle"}
  BY ToFields, DoneFields DEF Moved, Done
<1>5. Calls(w, m, done, To(w, "reopen"), To(w, "findMove"))
  BY DEF CallMoveDecided
<1>6. Executes(m) /\ late' = late /\ Becomes(w, IF Accepts(m) THEN done ELSE To(w, "reopen"))
  BY <1>3, <1>5 DEF Calls, DecisionsAnswered, AllFailures
<1>7. CASE Accepts(m)
  <2>1. Founded(m)
    BY <1>2, <1>3 DEF Founded
  <2>2. MovesAreNotUndone' /\ \A i, t : Stands(i, t) => Stands(i, t)' \/ i = r.round
    BY <1>3, <1>6, <2>1, CallOnStanding DEF StampsOK
  <2>3. \A i, t : ~Owns(done, i, t)
    BY <1>4 DEF Owns, OwnerPcs
  <2>4. requests' = [requests EXCEPT ![w] = done] /\ done.pc \notin {"findDecision", "findMove"}
    BY <1>4, <1>6, <1>7 DEF Becomes
  <2>5. \A i \in RoundIds : \A t : Stands(i, t) => Stands(i, t)' \/ (Owns(requests[w], i, t) /\ ~Owns(done, i, t))
    BY <1>2, <2>2, <2>3
  <2>. QED  BY <1>6, <2>2, <2>3, <2>4, <2>5, StampsMove
<1>8. CASE ~Accepts(m)
  <2>1. OwnsNoMore(To(w, "reopen"), r)
    BY <1>1, OwnerGoesOn DEF OwnerPcs
  <2>. QED  BY <1>6, <1>8, <2>1, ReadKeepsStamps DEF Executes
<1>. QED  BY <1>7, <1>8

(* The call that undoes the decision passes it on, if it is belated. *)
LEMMA ReopenKeepsStamps ==
    ASSUME Inv, StampsOK, NEW w \in Workers, CallReopen(w)
    PROVE  StampsOK'
<1> PICK r \in Request : r = requests[w]
  BY Serving
<1>1. r.pc \in OwnerPcs
  BY DEF CallReopen, At, OwnerPcs
<1>2. r.round \in RoundIds /\ Stands(r.round, r.stamp) /\ \A t : Stands(r.round, t) => Owns(r, r.round, t)
  BY <1>1, OwnersRound
<1> PICK m : m = [call |-> "reopen", round |-> r.round, stamp |-> r.stamp]
  OBVIOUS
<1>3. m.call = "reopen" /\ m.round = r.round /\ m.stamp = r.stamp /\ Carries(m)
  BY DEF Carries, EventCalls, BookingCalls
<1>4. /\ requests' = [requests EXCEPT ![w] = NoRequest]
      /\ \/ Executes(m) /\ late' = late
         \/ UNCHANGED serviceVars /\ late' \in {late, late \cup {m}}
  BY DEF CallReopen, Calls, Becomes, Done
<1>5. NoRequest.pc \notin {"findDecision", "findMove"} /\ \A i, t : ~Owns(NoRequest, i, t)
  BY DoneFields DEF Owns, OwnerPcs
<1>6. \A i \in RoundIds : \A t : Undoes(m, i, t) => Owns(requests[w], i, t) /\ ~Owns(NoRequest, i, t)
  BY <1>1, <1>3, <1>5 DEF Undoes, Owns
<1>7. CASE Executes(m) /\ late' = late
  <2>1. MovesAreNotUndone' /\ \A i, t : Stands(i, t) => Stands(i, t)' \/ i = r.round
    BY <1>2, <1>3, <1>7, CallOnStanding DEF StampsOK, Founded
  <2>2. \A i \in RoundIds : \A t : Stands(i, t) =>
            Stands(i, t)' \/ (late' = late /\ Owns(requests[w], i, t) /\ ~Owns(NoRequest, i, t))
    BY <1>2, <1>5, <1>7, <2>1
  <2>. QED  BY <1>4, <1>5, <1>6, <1>7, <2>1, <2>2, StampsMove
<1>8. CASE UNCHANGED serviceVars /\ late' \in {late, late \cup {m}}
  <2>1. UNCHANGED <<rounds, events>>
    BY <1>8 DEF serviceVars, recordVars
  <2>2. MovesAreNotUndone' /\ \A i \in RoundIds : \A t : Stands(i, t) => Stands(i, t)'
    BY <2>1 DEF StampsOK, MovesAreNotUndone, Stands, Live
  <2>3. late' = late \/ (late' = late \cup {m} /\ m.call \notin {"decide", "moveDecided"})
    BY <1>3, <1>8
  <2>. QED  BY <1>4, <1>5, <1>6, <2>2, <2>3, StampsMove
<1>. QED  BY <1>4, <1>7, <1>8

(* The call that releases the bookings of a rejected event. *)
LEMMA ReleaseKeepsStamps ==
    ASSUME Inv, StampsOK, NEW w \in Workers, CallRelease(w)
    PROVE  StampsOK'
<1> PICK r \in Request : r = requests[w]
  BY Serving
<1>1. r.event \in Events
  BY Serving DEF CallRelease, At, Knows
<1> PICK m : m = [call |-> "releaseBooking", event |-> r.event]
  OBVIOUS
<1>2. Carries(m) /\ m.call \notin {"decide", "moveDecided", "reopen"}
  BY <1>1 DEF Carries, EventCalls, BookingCalls
<1>3. Calls(w, m, Done, Done, Done)
  BY DEF CallRelease
<1>. QED  BY <1>2, <1>3, DoneOwnsNothing, CallKeepsStamps DEF Done

(* A belated call: if it undoes a decision, it is the only one that could. *)
LEMMA LateCallKeepsStamps ==
    ASSUME Inv, StampsOK, LateCall
    PROVE  StampsOK'
<1> PICK m \in late : Executes(m) /\ late' = late \ {m} /\ UNCHANGED <<requests, started, failures>>
  BY DEF LateCall
<1>1. Carries(m) /\ m.call \notin {"decide", "moveDecided"} /\ Live \subseteq RoundIds
  BY DEF Inv, ServiceInv, RequestsOK, RecordsInv, RecordsTypeOK, StampsOK
<1>2. /\ MovesAreNotUndone'
      /\ \A i \in RoundIds : \A t : Stands(i, t) => Stands(i, t)' \/ Undoes(m, i, t)
  <2>1. CASE m.call # "reopen" \/ m.round \in RoundIds
    <3>1. m.call = "reopen" => Stands(m.round, m.stamp)
      BY <2>1 DEF StampsOK, Undoes
    <3>2. Founded(m)
      BY <1>1, <3>1 DEF Founded
    <3>3. /\ MovesAreNotUndone'
          /\ \A i, t : Stands(i, t) => Stands(i, t)' \/ (m.round = i /\ m.call = "reopen")
      BY <1>1, <3>2, CallOnStanding DEF StampsOK
    <3>4. \A i, t : Stands(i, t) /\ m.round = i /\ m.call = "reopen" => Undoes(m, i, t)
      BY <3>1 DEF Stands, Undoes
    <3>. QED  BY <3>3, <3>4
  <2>2. CASE m.call = "reopen" /\ m.round \notin RoundIds
    <3>1. ~Accepts(m)
      BY <1>1, <2>2 DEF Accepts, CanReopen
    <3>2. UNCHANGED <<rounds, events>>
      BY <3>1 DEF Executes, serviceVars, recordVars
    <3>. QED  BY <3>2 DEF StampsOK, MovesAreNotUndone, Stands, Live
  <2>. QED  BY <2>1, <2>2
<1>3. ASSUME NEW i \in RoundIds, NEW t
      PROVE  /\ \A v \in Workers : Owns(requests[v], i, t) => Stands(i, t)'
             /\ \A n \in late' : Undoes(n, i, t) => Stands(i, t)'
             /\ \A u, v \in Workers : Owns(requests[u], i, t) /\ Owns(requests[v], i, t) => u = v
             /\ \A n, o \in late' : Undoes(n, i, t) /\ Undoes(o, i, t) => n = o
             /\ \A v \in Workers, n \in late' : ~(Owns(requests[v], i, t) /\ Undoes(n, i, t))
  <2>1. /\ \A v \in Workers : Owns(requests[v], i, t) => Stands(i, t)
        /\ \A n \in late : Undoes(n, i, t) => Stands(i, t)
        /\ \A u, v \in Workers : Owns(requests[u], i, t) /\ Owns(requests[v], i, t) => u = v
        /\ \A n, o \in late : Undoes(n, i, t) /\ Undoes(o, i, t) => n = o
        /\ \A v \in Workers, n \in late : ~(Owns(requests[v], i, t) /\ Undoes(n, i, t))
    BY DEF StampsOK
  <2>2. Stands(i, t) => Stands(i, t)' \/ Undoes(m, i, t)
    BY <1>2
  <2>3. late' = late \ {m} /\ m \in late
    OBVIOUS
  <2>. QED  BY ONLY <2>1, <2>2, <2>3
<1>4. requests' = requests /\ late' \subseteq late
  OBVIOUS
<1>5. /\ \A w \in Workers : requests'[w].pc \notin {"findDecision", "findMove"}
      /\ \A n \in late' : n.call \notin {"decide", "moveDecided"}
  BY <1>4 DEF StampsOK
<1>. QED  BY <1>2, <1>3, <1>4, <1>5 DEF StampsOK

(* Every request begins at one of five steps. *)
LEMMA Beginnings ==
    ASSUME NEW w \in Workers, Begin(w)
    PROVE  \E q : /\ q.pc \in {"findRound", "readiness", "readApproval", "readEvent", "changeBooking"}
                  /\ Begins(w, q)
<1>1. ASSUME NEW e, NEW kind, NEW flags, BeginDecide(w, e, kind, flags)
      PROVE  \E q : q.pc = "findRound" /\ Begins(w, q)
  BY <1>1 DEF BeginDecide, New, NoRequest
<1>2. ASSUME NEW e, NEW c, BeginSubmit(w, e, c)
      PROVE  \E q : q.pc = "readiness" /\ Begins(w, q)
  BY <1>2 DEF BeginSubmit, New, NoRequest
<1>3. ASSUME NEW e, NEW c, NEW d, BeginRecheck(w, e, c, d)
      PROVE  \E q : q.pc = "readApproval" /\ Begins(w, q)
  BY <1>3 DEF BeginRecheck, New, NoRequest
<1>4. ASSUME NEW e, NEW c, NEW kind, BeginVenueChange(w, e, c, kind)
      PROVE  \E q : q.pc \in {"readEvent", "changeBooking"} /\ Begins(w, q)
  <2> PICK p : p = IF Status(e) = "Confirmed" THEN "readEvent" ELSE "changeBooking"
    OBVIOUS
  <2> PICK q : q = [New(e, kind, p) EXCEPT !.by = c]
    OBVIOUS
  <2>1. Begins(w, q)
    BY <1>4 DEF BeginVenueChange
  <2>2. q.pc = p
    BY DEF New, NoRequest
  <2>3. p \in {"readEvent", "changeBooking"}
    OBVIOUS
  <2>. QED  BY ONLY <2>1, <2>2, <2>3
<1>. QED  BY <1>1, <1>2, <1>3, <1>4 DEF Begin

(* A request that begins owns nothing. *)
LEMMA BeginKeepsStamps ==
    ASSUME Inv, StampsOK, NEW w \in Workers, Begin(w)
    PROVE  StampsOK'
<1> PICK q : /\ q.pc \in {"findRound", "readiness", "readApproval", "readEvent", "changeBooking"}
             /\ Begins(w, q)
  BY Beginnings
<1>2. q.pc \in PlainPcs
  BY DEF PlainPcs, Pcs, SubmitPcs, DecidePcs, WithdrawPcs, VenuePcs, OwnerPcs
<1>. QED  BY <1>2, PlainOwnsNothing, ReadKeepsStamps DEF Begins

(* Staff and the coordinators decide no round and move no event. *)
LEMMA OthersKeepStamps ==
    ASSUME Inv, StampsOK, StaffStep \/ CoordinatorStep
    PROVE  StampsOK'
<1>1. UNCHANGED rounds /\ UNCHANGED <<requests, late>> /\ EventsInv /\ events \in [Events -> EventRecord]
  BY DEF StaffStep, CoordinatorStep, recordVars, Inv, ServiceInv, EventsInv, EventsTypeOK
<1>2. \A e \in Events : events'[e].decided = events[e].decided
  <2>1. CASE StaffStep
    BY <2>1 DEF StaffStep
  <2>2. CASE CoordinatorStep
    <3>1. PICK e \in Events, c \in Coordinators :
             (\E d \in Details : EditDetails(e, c, d)) \/ RecordProgress(e, c) \/ Reassign(e, c)
      BY <2>2 DEF CoordinatorStep
    <3>2. events[e] \in EventRecord
      BY <1>1
    <3>3. ASSUME NEW row, row.decided = events[e].decided, Saves(e, row)
          PROVE  \A f \in Events : events'[f].decided = events[f].decided
      BY <1>1, <3>3 DEF Saves
    <3>4. ASSUME NEW d \in Details, EditDetails(e, c, d)
          PROVE  Saves(e, Edited(events[e], d)) /\ Edited(events[e], d).decided = events[e].decided
      BY <3>2, <3>4, LeavingRows DEF EditDetails, SaveDetails, CanSaveDetails, Leaves
    <3>5. ASSUME RecordProgress(e, c)
          PROVE  /\ Saves(e, [events[e] EXCEPT !.undo = NoRound])
                 /\ [events[e] EXCEPT !.undo = NoRound].decided = events[e].decided
      BY <3>2, <3>5, LeavingRows DEF RecordProgress, Leaves
    <3>6. ASSUME Reassign(e, c)
          PROVE  Saves(e, Reassigned(events[e], c)) /\ Reassigned(events[e], c).decided = events[e].decided
      BY <3>2, <3>6, LeavingRows DEF Reassign, Leaves
    <3>. QED  BY <3>1, <3>3, <3>4, <3>5, <3>6
  <2>. QED  BY <2>1, <2>2
<1>3. MovesAreNotUndone' /\ \A i, t : Stands(i, t)' <=> Stands(i, t)
  BY <1>1, <1>2 DEF StampsOK, MovesAreNotUndone, Stands, Live
<1>. QED  BY <1>1, <1>3 DEF StampsOK

(* At first no decision is in anyone's hands. *)
LEMMA InitHasStamps ==
    ASSUME ServiceInit
    PROVE  StampsOK
<1>1. \A w \in Workers : requests[w].pc = "idle"
  BY DoneFields DEF ServiceInit
<1>2. late = {} /\ \A e \in Events : events[e].decided = {}
  BY DEF ServiceInit, EventsInit, NewlyApproved
<1>. QED  BY <1>1, <1>2 DEF StampsOK, MovesAreNotUndone, Owns, OwnerPcs

(* While decisions are answered, every step leaves each standing decision  *)
(* with the one that made it.                                              *)
LEMMA NextKeepsStamps ==
    ASSUME DecisionsAnswered, Inv, StampsOK, [Next]_vars
    PROVE  StampsOK'
<1>1. CASE UNCHANGED vars
  <2>1. UNCHANGED <<rounds, events, requests, late>>
    BY <1>1 DEF vars, serviceVars, recordVars
  <2>2. MovesAreNotUndone' /\ \A i, t : Stands(i, t)' <=> Stands(i, t)
    BY <2>1 DEF StampsOK, MovesAreNotUndone, Stands, Live
  <2>. QED  BY <2>1, <2>2 DEF StampsOK
<1>2. ASSUME NEW w \in Workers, DecideStep(w) PROVE StampsOK'
  BY <1>2, DecideReadsKeepStamps, DecideKeepsStamps, ResetKeepsStamps, MoveKeepsStamps, ReopenKeepsStamps,
     ReleaseKeepsStamps DEF DecideStep
<1>3. ASSUME NEW w \in Workers, Begin(w) \/ Step(w) PROVE StampsOK'
  BY <1>2, <1>3, BeginKeepsStamps, SubmitStepKeepsStamps, RecheckStepKeepsStamps, VenueChangeStepKeepsStamps
     DEF Step
<1>. QED  BY <1>1, <1>3, OthersKeepStamps, LateCallKeepsStamps DEF Next

(* _decide's "Don't undo a decision that already succeeded end to end": if *)
(* every decision and every move is answered, whatever else is lost,       *)
(* delayed or compensated, a round whose decision moved its event is never *)
(* open again.                                                             *)
THEOREM DecisionsAreNotUndone == DecisionsAnswered => (Spec => []MovesAreNotUndone)
<1>1. ServiceInit => Inv /\ StampsOK
  BY ServiceInitHasInv, InitHasStamps
<1>2. DecisionsAnswered /\ (Inv /\ StampsOK) /\ [Next]_vars => (Inv /\ StampsOK)'
  BY ServiceNextKeepsInv, NextKeepsStamps
<1>3. StampsOK => MovesAreNotUndone
  BY DEF StampsOK
<1> SUFFICES ASSUME DecisionsAnswered PROVE Spec => []MovesAreNotUndone
  OBVIOUS
<1>4. (Inv /\ StampsOK) /\ [Next]_vars => (Inv /\ StampsOK)'
  BY <1>2
<1>. QED  BY <1>1, <1>3, <1>4, PTL DEF Spec

----------------------------------------------------------------------------
(* What a decision moves an event to, while nothing is withdrawn.          *)

(* The requests are submissions and decisions: no approval is withdrawn.   *)
ReviewKinds == {"submit"} \cup Decisions
OnlyReviews == Kinds \subseteq ReviewKinds

(* The steps between a decision and its move. *)
MovingPcs == OwnerPcs \ {"reopen"}

(* Whoever is about to move an event has its round decided as it was asked. *)
ReviewOK ==
    /\ \A w \in Workers : requests[w].kind \in ReviewKinds \cup {"none"}
    /\ \A m \in late : m.call \notin {"withdraw", "restore"}
    /\ \A w \in Workers : requests[w].pc \in MovingPcs =>
          rounds[requests[w].round].status = RecordStatusOf(requests[w].kind)

(* What FollowsTheRecord says of a step. *)
Follows ==
    \A e \in Events : Status(e) = "Pending Safety Check" /\ Status(e)' \in SafetyTargets =>
        \E i \in Live, k \in Decisions :
            /\ i = events[e].submitted
            /\ rounds[i].status = RecordStatusOf(k)
            /\ Status(e)' = EventStatusOf(k)

(* A row that is edited, noted on or handed over keeps waiting for its     *)
(* decision.                                                               *)
LEMMA WaitingGoesOn ==
    ASSUME NEW row \in EventRecord, row.status = "Pending Safety Check"
    PROVE  /\ [row EXCEPT !.undo = NoRound].status = "Pending Safety Check"
           /\ \A c \in Coordinators : Reassigned(row, c).status = "Pending Safety Check"
BY DEF EventRecord, Reassigned

(* Of the calls to the Event Service only the decision of the round that   *)
(* the event waits for takes it out of its pending check.                  *)
LEMMA OnlyDecisionsMove ==
    ASSUME NEW m, Carries(m), EventsInv, EventCall(m), NEW e \in Events,
           Status(e) = "Pending Safety Check", Status(e)' # "Pending Safety Check"
    PROVE  /\ m.call = "moveDecided" /\ m.event = e /\ m.round = events[e].submitted
           /\ Status(e)' = m.status
<1>1. events \in [Events -> EventRecord]
  BY DEF EventsInv, EventsTypeOK
<1>2. ASSUME NEW f \in Events, NEW row, Saves(f, row)
      PROVE  f = e /\ Status(e)' = row.status
  BY <1>1, <1>2 DEF Saves, Status
<1>3. CASE m.call = "submitEvent" /\ SubmitEvent(m.event, m.by, m.round)
  <2>1. m.event \in Events
    BY <1>3 DEF Carries, EventCalls
  <2>. QED  BY <1>2, <1>3, <2>1 DEF SubmitEvent, CanSubmit
<1>4. CASE m.call = "moveDecided" /\ MoveDecided(m.event, m.round, m.status, m.venue)
  <2>1. m.event \in Events /\ m.round \in RoundIds /\ m.status \in SafetyTargets
    BY <1>4 DEF Carries, EventCalls
  <2>2. Saves(m.event, MovedBy(events[m.event], m.round, m.status)) /\ events[m.event].submitted = m.round
    BY <1>4 DEF MoveDecided, CanMoveDecided
  <2>3. m.event = e /\ Status(e)' = MovedBy(events[m.event], m.round, m.status).status
    BY <1>2, <2>1, <2>2
  <2> PICK row \in EventRecord, i \in RoundIds, s \in SafetyTargets :
          row = events[m.event] /\ i = m.round /\ s = m.status
    BY <1>1, <2>1
  <2>4. MovedBy(row, i, s).status = s
    BY MovedRow
  <2>5. MovedBy(events[m.event], m.round, m.status).status = m.status
    BY <2>4
  <2>. QED  BY <1>4, <2>2, <2>3, <2>5
<1>5. CASE m.call = "withdrawEvent" /\ WithdrawEvent(m.event, m.by, m.round)
  <2>1. m.event \in Events
    BY <1>5 DEF Carries, EventCalls
  <2>. QED  BY <1>2, <1>5, <2>1 DEF WithdrawEvent, CanWithdrawEvent
<1>6. CASE m.call = "restoreEvent" /\ RestoreEvent(m.event, m.by, m.round)
  <2>1. m.event \in Events
    BY <1>6 DEF Carries, EventCalls
  <2>. QED  BY <1>2, <1>6, <2>1 DEF RestoreEvent, CanRestoreEvent
<1>7. CASE m.call = "saveDetails" /\ SaveDetails(m.event, m.by, m.details, m.round, m.next)
  <2>1. m.event \in Events
    BY <1>7 DEF Carries, EventCalls
  <2>2. ~UNCHANGED events
    BY DEF Status
  <2>. QED  BY <1>2, <1>7, <2>1, <2>2 DEF SaveDetails, CanSaveDetails
<1>. QED  BY <1>3, <1>4, <1>5, <1>6, <1>7 DEF EventCall

(* So any other call leaves it there. *)
LEMMA OtherCallsFollow ==
    ASSUME Inv, NEW m, Carries(m), Executes(m), m.call # "moveDecided"
    PROVE  Follows
<1>1. CASE UNCHANGED events
  BY <1>1 DEF Follows, Status, SafetyTargets
<1>2. CASE EventCall(m)
  <2>1. EventsInv
    BY DEF Inv, ServiceInv
  <2>2. ASSUME NEW e \in Events, Status(e) = "Pending Safety Check", Status(e)' \in SafetyTargets
        PROVE  FALSE
    <3>1. Status(e)' # "Pending Safety Check"
      BY <2>2 DEF SafetyTargets
    <3>. QED  BY <1>2, <2>1, <2>2, <3>1, OnlyDecisionsMove
  <2>. QED  BY <2>2 DEF Follows
<1>. QED  BY <1>1, <1>2 DEF Executes, RecordCall, BookingCall, serviceVars

(* A decision that stands keeps its status, unless it is withdrawn.        *)
LEMMA StandingStatus ==
    ASSUME Inv, NEW m, Carries(m), Executes(m), m.call \notin {"withdraw", "restore"}
    PROVE  \A i, t : Stands(i, t) /\ Stands(i, t)' => rounds'[i].status = rounds[i].status
<1>1. RowsFollow(m)
  BY CallOnRows DEF Inv, ServiceInv
<1>2. ASSUME NEW i, NEW t, Stands(i, t), Stands(i, t)'
      PROVE  rounds'[i].status = rounds[i].status
  <2>1. i \in Live \cap Live' /\ t # 0 /\ rounds[i].decidedAt = t /\ rounds'[i].decidedAt = t
    BY <1>2 DEF Stands
  <2>2. DecisionStays(m, i) \/ DecisionMade(m, i) \/ DecisionUndone(m, i)
    BY <1>1, <2>1 DEF RowsFollow
  <2>. QED  BY <2>1, <2>2 DEF DecisionStays, DecisionMade, DecisionUndone
<1>. QED  BY <1>2

(* What the others are about to move keeps its status. *)
LEMMA ReviewMoves ==
    ASSUME Inv, StampsOK, StampsOK', ReviewOK, NEW w \in Workers, NEW q,
           requests' = [requests EXCEPT ![w] = q], q.kind \in ReviewKinds \cup {"none"},
           \A m \in late' : m.call \notin {"withdraw", "restore"},
           \A i, t : Stands(i, t) /\ Stands(i, t)' => rounds'[i].status = rounds[i].status,
           q.pc \in MovingPcs => rounds'[q.round].status = RecordStatusOf(q.kind)
    PROVE  ReviewOK'
<1>1. requests'[w] = q /\ \A v \in Workers : v # w => requests'[v] = requests[v]
  BY DEF Inv, ServiceInv, RequestsOK
<1>2. ASSUME NEW v \in Workers, v # w, requests[v].pc \in MovingPcs
      PROVE  rounds'[requests[v].round].status = RecordStatusOf(requests[v].kind)
  <2> PICK i, t : i = requests[v].round /\ t = requests[v].stamp
    OBVIOUS
  <2>1. i \in RoundIds /\ Stands(i, t) /\ Owns(requests[v], i, t) /\ requests'[v] = requests[v]
    BY <1>1, <1>2, OwnersRound DEF MovingPcs, Owns
  <2>2. Stands(i, t)'
    BY <2>1 DEF StampsOK
  <2>. QED  BY <1>2, <2>1, <2>2 DEF ReviewOK
<1>3. \A v \in Workers : /\ requests'[v].kind \in ReviewKinds \cup {"none"}
                         /\ requests'[v].pc \in MovingPcs =>
                               rounds'[requests'[v].round].status = RecordStatusOf(requests'[v].kind)
  BY <1>1, <1>2 DEF ReviewOK
<1>. QED  BY <1>3 DEF ReviewOK

(* A step that is no request's. *)
LEMMA NobodyMoves ==
    ASSUME StampsOK, StampsOK', Inv, ReviewOK, requests' = requests, late' \subseteq late,
           \A i, t : Stands(i, t) /\ Stands(i, t)' => rounds'[i].status = rounds[i].status
    PROVE  ReviewOK'
<1>1. ASSUME NEW v \in Workers, requests[v].pc \in MovingPcs
      PROVE  rounds'[requests[v].round].status = RecordStatusOf(requests[v].kind)
  <2> PICK i, t : i = requests[v].round /\ t = requests[v].stamp
    OBVIOUS
  <2>1. i \in RoundIds /\ Stands(i, t) /\ Owns(requests'[v], i, t)
    BY <1>1, OwnersRound DEF MovingPcs, Owns
  <2>2. Stands(i, t)'
    BY <2>1 DEF StampsOK
  <2>. QED  BY <1>1, <2>1, <2>2 DEF ReviewOK
<1>. QED  BY <1>1 DEF ReviewOK

(* A request that goes on with what it decided, or with nothing decided.   *)
Continues(q, r) ==
    /\ q.kind \in ReviewKinds \cup {"none"}
    /\ q.pc \in MovingPcs => /\ r.pc \in MovingPcs /\ q.kind = r.kind
                             /\ q.round = r.round /\ q.stamp = r.stamp

(* No request at all is of no kind. *)
LEMMA DoneKind == NoRequest.kind = "none"
BY DEF NoRequest

(* A request that goes on to a step with nothing decided. *)
LEMMA StillGoesOn ==
    ASSUME Inv, NEW w \in Workers, requests[w].kind \in ReviewKinds \cup {"none"},
           NEW p, p \notin MovingPcs, NEW r
    PROVE  /\ Continues(To(w, p), r)
           /\ \A x : /\ Continues([To(w, p) EXCEPT !.round = x], r)
                     /\ Continues([To(w, p) EXCEPT !.flags = x], r)
<1>1. ASSUME NEW q, q.pc = p, q.kind = requests[w].kind PROVE Continues(q, r)
  BY <1>1 DEF Continues
<1>2. Continues(To(w, p), r)
  BY <1>1, ToFields
<1>3. ASSUME NEW x
      PROVE  /\ Continues([To(w, p) EXCEPT !.round = x], r)
             /\ Continues([To(w, p) EXCEPT !.flags = x], r)
  <2> PICK a, b : a = [To(w, p) EXCEPT !.round = x] /\ b = [To(w, p) EXCEPT !.flags = x]
    OBVIOUS
  <2>1. a.pc = p /\ b.pc = p /\ a.kind = requests[w].kind /\ b.kind = requests[w].kind
    BY ToFields
  <2>. QED  BY <1>1, <2>1
<1>. QED  BY <1>2, <1>3

(* A step that calls nobody. *)
LEMMA ReadFollows ==
    ASSUME Inv, StampsOK, StampsOK', ReviewOK, NEW w \in Workers, NEW q, Continues(q, requests[w]),
           Becomes(w, q), UNCHANGED <<serviceVars, late>>
    PROVE  ReviewOK' /\ Follows
<1>1. UNCHANGED <<rounds, events>>
  BY DEF serviceVars, recordVars
<1>2. Follows
  BY <1>1 DEF Follows, Status, SafetyTargets
<1>3. q.pc \in MovingPcs => rounds'[q.round].status = RecordStatusOf(q.kind)
  BY <1>1 DEF Continues, ReviewOK
<1>. QED  BY <1>1, <1>2, <1>3, ReviewMoves DEF Continues, Becomes, ReviewOK

(* A call that decides nothing and moves nothing. *)
LEMMA CallFollows ==
    ASSUME Inv, StampsOK, StampsOK', ReviewOK, NEW w \in Workers, NEW m, Carries(m),
           m.call \notin {"withdraw", "restore", "moveDecided"},
           NEW done, NEW refused, NEW failed, Continues(done, requests[w]),
           Continues(refused, requests[w]), Continues(failed, requests[w]),
           Calls(w, m, done, refused, failed)
    PROVE  ReviewOK' /\ Follows
<1> PICK r \in Request : r = requests[w]
  BY Serving
<1>1. \E q \in {done, refused, failed} :
        /\ requests' = [requests EXCEPT ![w] = q] /\ Continues(q, r)
        /\ \/ Executes(m) /\ late' = late
           \/ UNCHANGED serviceVars /\ late' \in {late, late \cup {m}}
  BY DEF Calls, Becomes
<1> PICK q \in {done, refused, failed} :
        /\ requests' = [requests EXCEPT ![w] = q] /\ Continues(q, r)
        /\ \/ Executes(m) /\ late' = late
           \/ UNCHANGED serviceVars /\ late' \in {late, late \cup {m}}
  BY <1>1
<1>2. /\ Follows
      /\ \A i, t : Stands(i, t) /\ Stands(i, t)' => rounds'[i].status = rounds[i].status
  <2>1. CASE Executes(m)
    BY <2>1, OtherCallsFollow, StandingStatus
  <2>2. CASE UNCHANGED serviceVars
    BY <2>2 DEF serviceVars, recordVars, Follows, Status, SafetyTargets
  <2>. QED  BY <2>1, <2>2
<1>3. ASSUME q.pc \in MovingPcs PROVE rounds'[q.round].status = RecordStatusOf(q.kind)
  <2> PICK i, t : i = r.round /\ t = r.stamp
    OBVIOUS
  <2>1. r.pc \in MovingPcs /\ q.kind = r.kind /\ q.round = i /\ q.stamp = t
    BY <1>3 DEF Continues
  <2>2. i \in RoundIds /\ Stands(i, t) /\ rounds[i].status = RecordStatusOf(q.kind)
    BY <2>1, OwnersRound DEF MovingPcs, ReviewOK
  <2>3. requests'[w] = q
    BY DEF Inv, ServiceInv, RequestsOK
  <2>4. Owns(requests'[w], i, t)
    BY <1>3, <2>1, <2>3 DEF Owns, MovingPcs
  <2>5. Stands(i, t)'
    BY <2>2, <2>4 DEF StampsOK
  <2>. QED  BY <1>2, <2>1, <2>2, <2>5
<1>4. \A n \in late' : n.call \notin {"withdraw", "restore"}
  BY DEF ReviewOK
<1>. QED  BY <1>2, <1>3, <1>4, ReviewMoves DEF Continues

(* A submission decides nothing. *)
LEMMA SubmitStepFollows ==
    ASSUME Inv, StampsOK, StampsOK', ReviewOK, NEW w \in Workers, SubmitStep(w)
    PROVE  ReviewOK' /\ Follows
<1> PICK r \in Request : r = requests[w]
  BY Serving
<1>1. Knows(r) /\ r.kind \in ReviewKinds \cup {"none"}
  BY Serving DEF ReviewOK
<1>2. Continues(Done, r)
  BY DoneFields, DoneKind DEF Done, Continues, MovingPcs, OwnerPcs
<1>3. ASSUME NEW p \in {"createRound", "submitEvent", "deleteRound"}
      PROVE  Continues(To(w, p), r) /\ \A x : Continues([To(w, p) EXCEPT !.round = x], r)
  <2>1. p \notin MovingPcs
    BY <1>3 DEF MovingPcs, OwnerPcs
  <2>. QED  BY <1>1, <2>1, StillGoesOn
<1>4. r.pc \in SubmitPcs => r.event \in Events /\ r.by \in Coordinators
  BY <1>1 DEF Knows, SubmitPcs, Decisions
<1>5. ASSUME CheckReadiness(w) PROVE ReviewOK' /\ Follows
  <2>1. Reads(w, To(w, "createRound")) \/ Reads(w, Done)
    BY <1>5 DEF CheckReadiness
  <2>. QED  BY <1>2, <1>3, <2>1, ReadFollows DEF Reads
<1>6. ASSUME CallCreate(w) PROVE ReviewOK' /\ Follows
  <2>1. r.pc \in SubmitPcs
    BY <1>6 DEF CallCreate, At, SubmitPcs
  <2> PICK m : m = [call |-> "create", event |-> r.event]
    OBVIOUS
  <2>2. Carries(m) /\ m.call \notin {"withdraw", "restore", "moveDecided"}
    BY <1>4, <2>1 DEF Carries, EventCalls, BookingCalls
  <2> PICK done : done = [To(w, "submitEvent") EXCEPT !.round = NewRound]
    OBVIOUS
  <2>3. Calls(w, m, done, Done, Done)
    BY <1>6 DEF CallCreate
  <2>4. Continues(done, r)
    BY <1>3
  <2>. QED  BY <1>2, <2>2, <2>3, <2>4, CallFollows
<1>7. ASSUME CallSubmitEvent(w) PROVE ReviewOK' /\ Follows
  <2>1. r.pc \in SubmitPcs /\ r.round \in RoundIds
    BY <1>1, <1>7 DEF CallSubmitEvent, At, SubmitPcs, Knows, RoundPcs
  <2> PICK m : m = [call |-> "submitEvent", event |-> r.event, by |-> r.by, round |-> r.round]
    OBVIOUS
  <2>2. Carries(m) /\ m.call \notin {"withdraw", "restore", "moveDecided"}
    BY <1>4, <2>1 DEF Carries, EventCalls, BookingCalls
  <2>3. Calls(w, m, Done, To(w, "deleteRound"), To(w, "deleteRound"))
    BY <1>7 DEF CallSubmitEvent
  <2>. QED  BY <1>2, <1>3, <2>2, <2>3, CallFollows
<1>8. ASSUME CallDelete(w) PROVE ReviewOK' /\ Follows
  <2> PICK m : m = [call |-> "delete", round |-> r.round]
    OBVIOUS
  <2>2. Carries(m) /\ m.call \notin {"withdraw", "restore", "moveDecided"}
    BY DEF Carries, EventCalls, BookingCalls
  <2>3. Calls(w, m, Done, Done, Done)
    BY <1>8 DEF CallDelete
  <2>. QED  BY <1>2, <2>2, <2>3, CallFollows
<1>. QED  BY <1>5, <1>6, <1>7, <1>8 DEF SubmitStep

(* What a decision reads. *)
LEMMA DecideReadsFollow ==
    ASSUME Inv, StampsOK, StampsOK', ReviewOK, NEW w \in Workers,
           FindOpenRound(w) \/ ReadArrangements(w) \/ FindDecision(w) \/ FindMove(w)
    PROVE  ReviewOK' /\ Follows
<1> PICK r \in Request : r = requests[w]
  BY Serving
<1>1. r.pc \notin {"findDecision", "findMove"} /\ r.kind \in ReviewKinds \cup {"none"}
  BY DEF StampsOK, ReviewOK
<1>2. ~FindDecision(w) /\ ~FindMove(w)
  BY <1>1 DEF FindDecision, FindMove, At
<1>3. Continues(Done, r)
  BY DoneFields, DoneKind DEF Done, Continues, MovingPcs, OwnerPcs
<1>4. ASSUME NEW p \in {"readArrangements", "decide"}
      PROVE  \A x : Continues([To(w, p) EXCEPT !.round = x], r) /\ Continues([To(w, p) EXCEPT !.flags = x], r)
  <2>1. p \notin MovingPcs
    BY <1>4 DEF MovingPcs, OwnerPcs
  <2>. QED  BY <1>1, <2>1, StillGoesOn
<1>5. ASSUME NEW q, Continues(q, r), Reads(w, q) PROVE ReviewOK' /\ Follows
  BY <1>5, ReadFollows DEF Reads
<1>6. ASSUME FindOpenRound(w) PROVE ReviewOK' /\ Follows
  <2>1. Reads(w, Done) \/ \E p \in {"readArrangements", "decide"} : \E i : Reads(w, [To(w, p) EXCEPT !.round = i])
    BY <1>6 DEF FindOpenRound
  <2>. QED  BY <1>3, <1>4, <1>5, <2>1
<1>7. ASSUME ReadArrangements(w) PROVE ReviewOK' /\ Follows
  <2>1. Reads(w, Done) \/ \E S : Reads(w, [To(w, "decide") EXCEPT !.flags = S])
    <3>1. To(w, "decide").flags = r.flags
      BY DEF To, Request
    <3>. QED  BY <1>7, <3>1 DEF ReadArrangements
  <2>. QED  BY <1>3, <1>4, <1>5, <2>1
<1>. QED  BY <1>2, <1>6, <1>7

(* The call that decides: the row then reads as it was asked. *)
LEMMA DecideFollows ==
    ASSUME DecisionsAnswered, Inv, StampsOK, StampsOK', ReviewOK, NEW w \in Workers, CallDecide(w)
    PROVE  ReviewOK' /\ Follows
<1> PICK r \in Request : r = requests[w]
  BY Serving
<1>1. r.pc = "decide" /\ Knows(r) /\ r.kind \in Decisions /\ r.round \in RoundIds
  BY Serving DEF CallDecide, At, Knows, DecidePcs, RoundPcs
<1> PICK m : m = [call |-> "decide", round |-> r.round, status |-> RecordStatusOf(r.kind)]
  OBVIOUS
<1>2. /\ m.call = "decide" /\ m.round = r.round /\ m.status = RecordStatusOf(r.kind)
      /\ Carries(m)
  <2>1. RecordStatusOf(r.kind) \in DecisionStatuses
    BY <1>1 DEF Decisions, RecordStatusOf, DecisionStatuses
  <2>. QED  BY <2>1 DEF Carries, EventCalls, BookingCalls
<1> PICK t : t = clock'
  OBVIOUS
<1> PICK p \in MovingPcs : p = AfterDecision(r.flags)
  BY DEF AfterDecision, MovingPcs, OwnerPcs
<1> PICK done : done = [To(w, p) EXCEPT !.stamp = t]
  OBVIOUS
<1>3. done.pc = p /\ done.kind = r.kind /\ done.round = r.round /\ done.stamp = t
  BY ToFields
<1>4. Calls(w, m, done, Done, To(w, "findDecision"))
  BY DEF CallDecide, NewStamp
<1>5. Executes(m) /\ late' = late /\ Becomes(w, IF Accepts(m) THEN done ELSE Done)
  BY <1>2, <1>4 DEF Calls, DecisionsAnswered, AllFailures
<1>6. CASE Accepts(m)
  <2>1. Stands(r.round, t)' /\ rounds[r.round].decidedAt = 0 /\ r.round \in Live
    <3>1. DecideRound(r.round, m.status)
      BY <1>2, <1>5, <1>6 DEF Executes, RecordCall, EventCall, BookingCall
    <3>2. r.round \in Live /\ rounds[r.round].decidedAt = 0
      BY <3>1 DEF DecideRound, CanDecide, Undecided
    <3>. QED  BY <1>2, <1>5, <1>6, <3>2, DecisionStands DEF StampsOK
  <2>2. rounds'[r.round].status = RecordStatusOf(r.kind)
    <3>1. RowsFollow(m)
      BY <1>2, <1>5, CallOnRows DEF Inv, ServiceInv
    <3>2. r.round \in Live \cap Live' /\ t # 0 /\ rounds'[r.round].decidedAt = t
      BY <2>1 DEF Stands
    <3>3. DecisionStays(m, r.round) \/ DecisionMade(m, r.round) \/ DecisionUndone(m, r.round)
      BY <3>1, <3>2 DEF RowsFollow
    <3>. QED  BY <1>2, <2>1, <3>2, <3>3 DEF DecisionStays, DecisionMade, DecisionUndone
  <2>3. /\ Follows
        /\ \A i, u : Stands(i, u) /\ Stands(i, u)' => rounds'[i].status = rounds[i].status
    BY <1>2, <1>5, OtherCallsFollow, StandingStatus
  <2>4. /\ requests' = [requests EXCEPT ![w] = done] /\ done.kind \in ReviewKinds \cup {"none"}
        /\ rounds'[done.round].status = RecordStatusOf(done.kind)
    BY <1>1, <1>3, <1>5, <1>6, <2>2 DEF Becomes, ReviewKinds
  <2>. QED  BY <1>5, <2>3, <2>4, ReviewMoves DEF ReviewOK
<1>7. CASE ~Accepts(m)
  <2>1. Continues(Done, r)
    BY DoneFields, DoneKind DEF Done, Continues, MovingPcs, OwnerPcs
  <2>. QED  BY <1>5, <1>7, <2>1, ReadFollows DEF Executes
<1>. QED  BY <1>6, <1>7

(* The calls that reset what was flagged. *)
LEMMA ResetFollows ==
    ASSUME Inv, StampsOK, StampsOK', ReviewOK, NEW w \in Workers, CallResetVenue(w) \/ CallResetEquipment(w)
    PROVE  ReviewOK' /\ Follows
<1> PICK r \in Request : r = requests[w]
  BY Serving
<1>1. r.pc \in MovingPcs /\ r.event \in Events /\ r.kind \in ReviewKinds \cup {"none"}
  BY Serving DEF CallResetVenue, CallResetEquipment, At, MovingPcs, OwnerPcs, Knows, ReviewOK
<1>2. ASSUME NEW p PROVE Continues(To(w, p), r)
  <2> PICK q : q = To(w, p)
    OBVIOUS
  <2>1. q.kind = r.kind /\ q.round = r.round /\ q.stamp = r.stamp
    BY ToFields
  <2>. QED  BY <1>1, <2>1 DEF Continues
<1>3. ASSUME CallResetVenue(w) PROVE ReviewOK' /\ Follows
  <2> PICK m : m = [call |-> "resetBooking", event |-> r.event]
    OBVIOUS
  <2>1. Carries(m) /\ m.call \notin {"withdraw", "restore", "moveDecided"}
    BY <1>1 DEF Carries, EventCalls, BookingCalls
  <2> PICK p : p = AfterDecision(r.flags \ {"venue"})
    OBVIOUS
  <2>2. Calls(w, m, To(w, p), To(w, "reopen"), To(w, "reopen"))
    BY <1>3 DEF CallResetVenue
  <2>. QED  BY <1>2, <2>1, <2>2, CallFollows
<1>4. ASSUME CallResetEquipment(w) PROVE ReviewOK' /\ Follows
  <2> PICK m : m = [call |-> "resetEquipment", event |-> r.event]
    OBVIOUS
  <2>1. Carries(m) /\ m.call \notin {"withdraw", "restore", "moveDecided"}
    BY <1>1 DEF Carries, EventCalls, BookingCalls
  <2>2. Calls(w, m, To(w, "moveEvent"), To(w, "reopen"), To(w, "reopen"))
    BY <1>4 DEF CallResetEquipment
  <2>. QED  BY <1>2, <2>1, <2>2, CallFollows
<1>. QED  BY <1>3, <1>4

(* The call that moves the event, as its round was decided. *)
LEMMA MoveFollows ==
    ASSUME DecisionsAnswered, Inv, StampsOK, StampsOK', ReviewOK, NEW w \in Workers, CallMoveDecided(w)
    PROVE  ReviewOK' /\ Follows
<1> PICK r \in Request : r = requests[w]
  BY Serving
<1>1. r.pc = "moveEvent" /\ r.pc \in OwnerPcs /\ r.pc \in MovingPcs /\ r.kind \in Decisions /\ r.event \in Events
  BY Serving DEF CallMoveDecided, At, OwnerPcs, MovingPcs, Knows, DecidePcs
<1>2. r.round \in RoundIds /\ r.round \in Live /\ rounds[r.round].status = RecordStatusOf(r.kind)
  BY <1>1, OwnersRound DEF Stands, ReviewOK
<1> PICK m : m = [call |-> "moveDecided", event |-> r.event, round |-> r.round,
                  status |-> EventStatusOf(r.kind), venue |-> r.venue]
  OBVIOUS
<1>3. m.call = "moveDecided" /\ m.round = r.round /\ m.status = EventStatusOf(r.kind) /\ Carries(m)
  <2>1. r.venue \in BOOLEAN
    BY Serving
  <2>2. EventStatusOf(r.kind) \in SafetyTargets
    BY <1>1 DEF Decisions, EventStatusOf, SafetyTargets
  <2>. QED  BY <1>1, <1>2, <2>1, <2>2 DEF Carries, EventCalls, BookingCalls
<1> PICK done : done = Moved(w)
  OBVIOUS
<1>4. done.pc \notin MovingPcs /\ done.kind \in ReviewKinds \cup {"none"}
  BY <1>1, ToFields, DoneFields, DoneKind DEF Moved, Done, MovingPcs, OwnerPcs, ReviewKinds
<1>5. Calls(w, m, done, To(w, "reopen"), To(w, "findMove"))
  BY DEF CallMoveDecided
<1>6. Executes(m) /\ late' = late /\ Becomes(w, IF Accepts(m) THEN done ELSE To(w, "reopen"))
  BY <1>3, <1>5 DEF Calls, DecisionsAnswered, AllFailures
<1>7. CASE Accepts(m)
  <2>1. EventCall(m) /\ UNCHANGED recordVars
    BY <1>3, <1>6, <1>7 DEF Executes, RecordCall, EventCall, BookingCall
  <2>2. Follows
    <3>1. EventsInv
      BY DEF Inv, ServiceInv
    <3>2. ASSUME NEW e \in Events, Status(e) = "Pending Safety Check", Status(e)' \in SafetyTargets
          PROVE  \E i \in Live, k \in Decisions :
                    /\ i = events[e].submitted
                    /\ rounds[i].status = RecordStatusOf(k)
                    /\ Status(e)' = EventStatusOf(k)
      <4>1. Status(e)' # "Pending Safety Check"
        BY <3>2 DEF SafetyTargets
      <4>2. m.round = events[e].submitted /\ Status(e)' = m.status
        BY <1>3, <2>1, <3>1, <3>2, <4>1, OnlyDecisionsMove
      <4>. QED  BY <1>1, <1>2, <1>3, <4>2
    <3>. QED  BY <3>2 DEF Follows
  <2>3. \A i, t : Stands(i, t) /\ Stands(i, t)' => rounds'[i].status = rounds[i].status
    BY <2>1 DEF recordVars
  <2>4. requests' = [requests EXCEPT ![w] = done]
    BY <1>6, <1>7 DEF Becomes
  <2>. QED  BY <1>4, <1>6, <2>2, <2>3, <2>4, ReviewMoves DEF ReviewOK
<1>8. CASE ~Accepts(m)
  <2>1. Continues(To(w, "reopen"), r)
    BY <1>1, ToFields DEF Continues, MovingPcs, ReviewKinds
  <2>. QED  BY <1>6, <1>8, <2>1, ReadFollows DEF Executes
<1>. QED  BY <1>7, <1>8

(* The calls that end a decision. *)
LEMMA LastCallsFollow ==
    ASSUME Inv, StampsOK, StampsOK', ReviewOK, NEW w \in Workers, CallReopen(w) \/ CallRelease(w)
    PROVE  ReviewOK' /\ Follows
<1> PICK r \in Request : r = requests[w]
  BY Serving
<1>1. Continues(Done, r)
  BY DoneFields, DoneKind DEF Done, Continues, MovingPcs, OwnerPcs
<1>2. ASSUME CallReopen(w) PROVE ReviewOK' /\ Follows
  <2> PICK m : m = [call |-> "reopen", round |-> r.round, stamp |-> r.stamp]
    OBVIOUS
  <2>1. Carries(m) /\ m.call \notin {"withdraw", "restore", "moveDecided"}
    BY DEF Carries, EventCalls, BookingCalls
  <2>2. Calls(w, m, Done, Done, Done)
    BY <1>2 DEF CallReopen
  <2>. QED  BY <1>1, <2>1, <2>2, CallFollows
<1>3. ASSUME CallRelease(w) PROVE ReviewOK' /\ Follows
  <2> PICK m : m = [call |-> "releaseBooking", event |-> r.event]
    OBVIOUS
  <2>1. Carries(m) /\ m.call \notin {"withdraw", "restore", "moveDecided"}
    BY <1>3, Serving DEF Carries, EventCalls, BookingCalls, CallRelease, At, Knows
  <2>2. Calls(w, m, Done, Done, Done)
    BY <1>3 DEF CallRelease
  <2>. QED  BY <1>1, <2>1, <2>2, CallFollows
<1>. QED  BY <1>2, <1>3

(* No request is a re-check or a change of a booking.                      *)
LEMMA OnlyReviewSteps ==
    ASSUME Inv, ReviewOK, NEW w \in Workers
    PROVE  ~RecheckStep(w) /\ ~VenueChangeStep(w)
<1>1. /\ requests[w].kind \notin VenueChanges \cup {"recheck"}
      /\ Knows(requests[w])
  BY Serving DEF ReviewOK, ReviewKinds, Decisions, VenueChanges
<1>2. requests[w].pc \notin WithdrawPcs \cup VenuePcs \cup {"saveDetails"}
  BY <1>1 DEF Knows
<1>3. ~RecheckStep(w)
  BY <1>2 DEF RecheckStep, ReadApproval, CallWithdraw, ReadVenue, CallSaveDetails, CallRestore, At, WithdrawPcs
<1>4. ~GivesUpWaiting(w)
  BY <1>1 DEF GivesUpWaiting
<1>5. ~VenueChangeStep(w)
  BY <1>2, <1>4 DEF VenueChangeStep, ReadEvent, CallWithdrawEvent, CallChangeBooking, ReadWithdrawn,
                    CallReinstate, CallRestoreEvent, At, VenuePcs
<1>. QED  BY <1>3, <1>5

(* A request that begins has decided nothing. *)
LEMMA BeginFollows ==
    ASSUME OnlyReviews, Inv, StampsOK, StampsOK', ReviewOK, NEW w \in Workers, Begin(w)
    PROVE  ReviewOK' /\ Follows
<1> PICK q : /\ q.pc \in {"findRound", "readiness", "readApproval", "readEvent", "changeBooking"}
             /\ Begins(w, q)
  BY Beginnings
<1>1. Continues(q, requests[w])
  BY DEF Begins, OnlyReviews, Continues, MovingPcs, OwnerPcs
<1>. QED  BY <1>1, ReadFollows DEF Begins

(* A belated call decides nothing and moves nothing. *)
LEMMA LateCallFollows ==
    ASSUME Inv, StampsOK, StampsOK', ReviewOK, LateCall
    PROVE  ReviewOK' /\ Follows
<1> PICK m \in late : Executes(m) /\ late' = late \ {m} /\ UNCHANGED <<requests, started, failures>>
  BY DEF LateCall
<1>1. Carries(m) /\ m.call \notin {"moveDecided", "withdraw", "restore"}
  BY DEF Inv, ServiceInv, RequestsOK, StampsOK, ReviewOK
<1>2. /\ Follows
      /\ \A i, t : Stands(i, t) /\ Stands(i, t)' => rounds'[i].status = rounds[i].status
  BY <1>1, OtherCallsFollow, StandingStatus
<1>. QED  BY <1>2, NobodyMoves

(* Staff and the coordinators decide no round and move no event. *)
LEMMA OthersFollow ==
    ASSUME Inv, StampsOK, StampsOK', ReviewOK, StaffStep \/ CoordinatorStep
    PROVE  ReviewOK' /\ Follows
<1>1. UNCHANGED rounds /\ UNCHANGED <<requests, late>> /\ events \in [Events -> EventRecord]
  BY DEF StaffStep, CoordinatorStep, recordVars, Inv, ServiceInv, EventsInv, EventsTypeOK
<1>2. CASE StaffStep
  BY <1>1, <1>2, NobodyMoves DEF StaffStep, Follows, Status, SafetyTargets
<1>3. CASE CoordinatorStep
  <2>1. PICK f \in Events, c \in Coordinators :
           (\E d \in Details : EditDetails(f, c, d)) \/ RecordProgress(f, c) \/ Reassign(f, c)
    BY <1>3 DEF CoordinatorStep
  <2>2. ASSUME NEW row, Saves(f, row), NEW e \in Events,
               Status(f) = "Pending Safety Check" => row.status = "Pending Safety Check",
               Status(e) = "Pending Safety Check"
        PROVE  Status(e)' = "Pending Safety Check"
    BY <1>1, <2>2 DEF Saves, Status
  <2>3. events[f] \in EventRecord
    BY <1>1
  <2>4. ASSUME NEW e \in Events, Status(e) = "Pending Safety Check"
        PROVE  Status(e)' = "Pending Safety Check"
    <3>1. ASSUME NEW d \in Details, EditDetails(f, c, d) PROVE Status(e)' = "Pending Safety Check"
      <4>1. Saves(f, Edited(events[f], d)) /\ Status(f) # "Pending Safety Check"
        BY <3>1 DEF EditDetails, SaveDetails, CanSaveDetails
      <4>. QED  BY <2>2, <2>4, <4>1
    <3>2. ASSUME RecordProgress(f, c) PROVE Status(e)' = "Pending Safety Check"
      BY <2>2, <2>3, <2>4, <3>2, WaitingGoesOn DEF RecordProgress, Status
    <3>3. ASSUME Reassign(f, c) PROVE Status(e)' = "Pending Safety Check"
      BY <2>2, <2>3, <2>4, <3>3, WaitingGoesOn DEF Reassign, Status
    <3>. QED  BY <2>1, <3>1, <3>2, <3>3
  <2>. QED  BY <1>1, <2>4, NobodyMoves DEF Follows, SafetyTargets
<1>. QED  BY <1>2, <1>3

(* At first nothing is decided. *)
LEMMA InitHasReview ==
    ASSUME ServiceInit
    PROVE  ReviewOK
<1>1. \A w \in Workers : requests[w].pc = "idle" /\ requests[w].kind = "none"
  BY DoneFields, DoneKind DEF ServiceInit
<1>2. late = {}
  BY DEF ServiceInit
<1>. QED  BY <1>1, <1>2 DEF ReviewOK, MovingPcs, OwnerPcs

(* Every step moves events as their rounds were decided. *)
LEMMA NextFollows ==
    ASSUME DecisionsAnswered, OnlyReviews, Inv, StampsOK, StampsOK', ReviewOK, Next
    PROVE  ReviewOK' /\ Follows
<1>1. ASSUME NEW w \in Workers, DecideStep(w) PROVE ReviewOK' /\ Follows
  BY <1>1, DecideReadsFollow, DecideFollows, ResetFollows, MoveFollows, LastCallsFollow DEF DecideStep
<1>2. ASSUME NEW w \in Workers, Begin(w) \/ Step(w) PROVE ReviewOK' /\ Follows
  BY <1>1, <1>2, BeginFollows, SubmitStepFollows, OnlyReviewSteps DEF Step
<1>. QED  BY <1>2, OthersFollow, LateCallFollows DEF Next

(* "A stale read in step 3 still can't confirm the wrong round": while     *)
(* decisions are answered and no approval is withdrawn, an event is moved  *)
(* by a decision only as the record of the round it was submitted with     *)
(* reads at that moment, however many reviews overlap, and whatever else   *)
(* is lost, delayed or compensated.                                        *)
THEOREM MovesFollowTheRecord == DecisionsAnswered /\ OnlyReviews => (Spec => FollowsTheRecord)
<1> SUFFICES ASSUME DecisionsAnswered, OnlyReviews PROVE Spec => FollowsTheRecord
  OBVIOUS
<1> DEFINE I == Inv /\ StampsOK /\ ReviewOK
<1>1. ServiceInit => I
  BY ServiceInitHasInv, InitHasStamps, InitHasReview
<1>2. I /\ [Next]_vars => I'
  <2>1. CASE UNCHANGED vars
    <3>1. UNCHANGED <<rounds, requests, late>>
      BY <2>1 DEF vars, serviceVars, recordVars
    <3>2. ReviewOK => ReviewOK'
      BY <3>1 DEF ReviewOK
    <3>. QED  BY <2>1, <3>2, ServiceNextKeepsInv, NextKeepsStamps
  <2>2. CASE Next
    BY <2>2, ServiceNextKeepsInv, NextKeepsStamps, NextFollows
  <2>. QED  BY <2>1, <2>2
<1>3. I /\ [Next]_vars =>
        [\A e \in Events : Status(e) = "Pending Safety Check" /\ Status(e)' \in SafetyTargets =>
              \E i \in Live, k \in Decisions :
                  /\ i = events[e].submitted
                  /\ rounds[i].status = RecordStatusOf(k)
                  /\ Status(e)' = EventStatusOf(k)]_vars
  BY NextKeepsStamps, NextFollows DEF Follows
<1>. QED  BY <1>1, <1>2, <1>3, PTL DEF Spec, FollowsTheRecord

----------------------------------------------------------------------------
(* An event that waits for a decision can get one.                         *)

(* An undo of a decision arrives, soon or late, and every submission and   *)
(* every re-check's save is answered or never arrives.                     *)
UndoArrives == <<"undelivered", "reopen">> \notin Faults
SubmissionsAnswered ==
    \A c \in {"submitEvent", "saveDetails"} : <<"lost", c>> \notin Faults /\ <<"late", c>> \notin Faults

(* The request that has opened round i, until the event waits for it or    *)
(* the round is removed again.                                             *)
Keeps(r, i) ==
    \/ r.pc \in {"submitEvent", "deleteRound"} /\ r.round = i
    \/ r.kind = "recheck" /\ r.pc \in {"readVenue", "saveDetails", "restore"} /\ r.next = i

(* Nobody but the request that opened a round removes it, and not after an *)
(* event waited for it.                                                    *)
KeptOK ==
    /\ \A m \in late : m.call \notin {"submitEvent", "saveDetails"}
    /\ \A i \in RoundIds :
          /\ \A w \in Workers : Keeps(requests[w], i) => Unspent(i)
          /\ \A m \in late : Removes(m, i) => Unspent(i)
          /\ \A v, w \in Workers : Keeps(requests[v], i) /\ Keeps(requests[w], i) => v = w
          /\ \A w \in Workers, m \in late : ~(Keeps(requests[w], i) /\ Removes(m, i))

(* Requests and events have to do with rounds of their own event only, and *)
(* a request that has opened no round keeps none.                          *)
Placed(r) ==
    /\ r.pc = "submitEvent" => r.round \in RoundsOf(r.event)
    /\ r.pc = "withdraw" => r.round \in used /\ (r.round \in Live => r.round \in RoundsOf(r.event))
    /\ r.kind = "recheck" /\ r.pc \in {"readVenue", "saveDetails"} => r.next \in RoundsOf(r.event)
    /\ r.kind # "recheck" /\ r.pc \in {"readVenue", "withdrawEvent", "restore"} => r.next = NoRound
EventsPlaced ==
    \A e \in Events : /\ Status(e) = "Pending Safety Check" => events[e].submitted \in RoundsOf(e)
                      /\ events[e].decided \cap Live \subseteq RoundsOf(e)
PlacedOK == EventsPlaced /\ \A w \in Workers : Placed(requests[w])

(* A decision that has moved no event is in somebody's hands.              *)
Unsettled(i) == rounds[i].decidedAt # 0 /\ \A e \in Events : i \notin events[e].decided
Held(i) ==
    \/ \E w \in Workers : \E t : Owns(requests[w], i, t)
    \/ \E m \in late : \E t : Undoes(m, i, t)
HeldOK == \A i \in Live : Unsettled(i) => Held(i)

WaitOK == KeptOK /\ PlacedOK /\ HeldOK

(* Whoever keeps a round after a step of w: w itself, if it kept it or has *)
(* just opened it, or another as before.                                   *)
LEMMA KeepersMove ==
    ASSUME Inv, KeptOK, NEW w \in Workers, NEW m, NEW q, requests' = [requests EXCEPT ![w] = q],
           late' = late \/ (late' = late \cup {m} /\ m.call \notin {"submitEvent", "saveDetails"}),
           \A i \in RoundIds :
              Unspent(i) => Unspent(i)' \/ (late' = late /\ Keeps(requests[w], i) /\ ~Keeps(q, i)),
           \A i \in RoundIds :
              Removes(m, i) /\ late' # late => Keeps(requests[w], i) /\ ~Keeps(q, i),
           \A i \in RoundIds :
              Keeps(q, i) => Keeps(requests[w], i) \/ (Unspent(i)' /\ ~Unspent(i))
    PROVE  KeptOK'
<1>1. requests'[w] = q /\ \A v \in Workers : v # w => requests'[v] = requests[v]
  BY DEF Inv, ServiceInv, RequestsOK
<1>2. \A n \in late' : n.call \notin {"submitEvent", "saveDetails"}
  BY DEF KeptOK
<1>3. ASSUME NEW i \in RoundIds
      PROVE  /\ \A v \in Workers : Keeps(requests'[v], i) => Unspent(i)'
             /\ \A n \in late' : Removes(n, i) => Unspent(i)'
             /\ \A u, v \in Workers : Keeps(requests'[u], i) /\ Keeps(requests'[v], i) => u = v
             /\ \A v \in Workers, n \in late' : ~(Keeps(requests'[v], i) /\ Removes(n, i))
  <2>1. /\ \A v \in Workers : Keeps(requests[v], i) => Unspent(i)
        /\ \A n \in late : Removes(n, i) => Unspent(i)
        /\ \A u, v \in Workers : Keeps(requests[u], i) /\ Keeps(requests[v], i) => u = v
        /\ \A v \in Workers, n \in late : ~(Keeps(requests[v], i) /\ Removes(n, i))
    BY DEF KeptOK
  <2>2. Keeps(q, i) => Keeps(requests[w], i) \/ (Unspent(i)' /\ ~Unspent(i))
    OBVIOUS
  <2>3. /\ late' \in {late, late \cup {m}}
        /\ Unspent(i) => Unspent(i)' \/ (late' = late /\ Keeps(requests[w], i) /\ ~Keeps(q, i))
        /\ Removes(m, i) /\ late' # late => Keeps(requests[w], i) /\ ~Keeps(q, i)
    OBVIOUS
  <2>4. Keeps(q, i) => Unspent(i)'
    BY ONLY <2>1, <2>2, <2>3
  <2>5. ASSUME NEW v \in Workers, Keeps(requests'[v], i)
        PROVE  Unspent(i)'
    BY ONLY <1>1, <2>1, <2>3, <2>4, <2>5
  <2>6. ASSUME NEW n \in late', Removes(n, i)
        PROVE  Unspent(i)'
    BY ONLY <2>1, <2>3, <2>6
  <2>7. Keeps(q, i) => /\ \A v \in Workers : v # w => ~Keeps(requests[v], i)
                       /\ \A n \in late' : ~Removes(n, i)
    BY ONLY <2>1, <2>2, <2>3
  <2>8. \A u, v \in Workers : Keeps(requests'[u], i) /\ Keeps(requests'[v], i) => u = v
    BY ONLY <1>1, <2>1, <2>7
  <2>9. \A v \in Workers, n \in late' : ~(Keeps(requests'[v], i) /\ Removes(n, i))
    BY ONLY <1>1, <2>1, <2>3, <2>7
  <2>. QED  BY <2>5, <2>6, <2>8, <2>9
<1>. QED  BY <1>2, <1>3 DEF KeptOK

(* What stays in the table stays with its event; ids are not used twice.   *)
LEMMA RoundsStay ==
    ASSUME Inv, NEW m, RowsFollow(m), NEW e
    PROVE  /\ \A i \in RoundsOf(e) : ~Removes(m, i) => i \in RoundsOf(e)'
           /\ \A i \in used : (i \in Live => i \in RoundsOf(e)) => (i \in Live' => i \in RoundsOf(e)')
           /\ \A i \in used : i \in Live' => i \in Live
BY DEF RowsFollow, RoundsOf, Live

(* What a request relies on stays where it is, unless the call removes     *)
(* what it keeps.                                                          *)
LEMMA PlaceStays ==
    ASSUME Inv, NEW m, RowsFollow(m), used \subseteq used', NEW r, Placed(r),
           \A i \in Live : Keeps(r, i) => ~Removes(m, i)
    PROVE  Placed(r)'
<1> PICK e, i, j : e = r.event /\ i = r.round /\ j = r.next
  OBVIOUS
<1>1. r.pc = "submitEvent" => i \in RoundsOf(e)'
  BY RoundsStay DEF Placed, Keeps, RoundsOf
<1>2. r.pc = "withdraw" => i \in used' /\ (i \in Live' => i \in RoundsOf(e)')
  BY RoundsStay DEF Placed
<1>3. r.kind = "recheck" /\ r.pc \in {"readVenue", "saveDetails"} => j \in RoundsOf(e)'
  BY RoundsStay DEF Placed, Keeps, RoundsOf
<1>. QED  BY <1>1, <1>2, <1>3 DEF Placed

(* An event waits for a round of its own, and was moved by its own.        *)
LEMMA EventsStayPlaced ==
    ASSUME Inv, EventsPlaced, NEW m, Carries(m), Executes(m),
           \A i \in RoundIds : Due(m, i) => i \in RoundsOf(m.event),
           \A i \in RoundIds : Removes(m, i) => Unspent(i)
    PROVE  EventsPlaced'
<1>1. RowsFollow(m) /\ EventsInv /\ events \in [Events -> EventRecord]
  BY CallOnRows DEF Inv, ServiceInv, EventsInv, EventsTypeOK
<1>2. /\ \A i \in Live : i \in RoundIds
      /\ \A e \in Events : events[e].decided \subseteq used
  BY DEF Inv, ServiceInv, RecordsInv, RecordsTypeOK, HandsOK
<1>3. CASE UNCHANGED events
  <2>1. ASSUME NEW e \in Events, Status(e) = "Pending Safety Check"
        PROVE  events[e].submitted \in RoundsOf(e)'
    <3>1. events[e].submitted \in RoundsOf(e) /\ events[e].submitted \in RoundIds
      BY <1>2, <2>1 DEF EventsPlaced, RoundsOf
    <3>2. ~Removes(m, events[e].submitted)
      BY <3>1 DEF Unspent
    <3>. QED  BY <1>1, <3>1, <3>2, RoundsStay
  <2>2. ASSUME NEW e \in Events
        PROVE  events[e].decided \cap Live' \subseteq RoundsOf(e)'
    BY <1>1, <1>2, RoundsStay DEF EventsPlaced
  <2>. QED  BY <1>3, <2>1, <2>2 DEF EventsPlaced, Status
<1>4. CASE EventCall(m) /\ ~UNCHANGED events
  <2>1. UNCHANGED rounds
    BY <1>4 DEF EventCall, recordVars
  <2>2. PICK e \in Events, new \in EventRecord :
           /\ Saves(e, new)
           /\ \/ Leaves(events[e], new)
              \/ Decides(events[e], new) /\ Moves(m, events[e], new)
              \/ \E i \in RoundIds : Due(m, i) /\ WaitsFor(events[e], new, i) /\ e = m.event
    BY <1>1, <1>4, EventCallRounds
  <2>3. events'[e] = new /\ \A f \in Events : f # e => events'[f] = events[f]
    BY <1>1, <2>2 DEF Saves
  <2>4. /\ new.status = "Pending Safety Check" => new.submitted \in RoundsOf(e)
        /\ new.decided \cap Live \subseteq RoundsOf(e)
    <3>1. /\ events[e].status = "Pending Safety Check" => events[e].submitted \in RoundsOf(e)
          /\ events[e].decided \cap Live \subseteq RoundsOf(e)
      BY DEF EventsPlaced, Status
    <3>2. CASE Leaves(events[e], new)
      BY <3>1, <3>2 DEF Leaves
    <3>3. CASE Decides(events[e], new)
      BY <3>1, <3>3 DEF Decides
    <3>4. CASE \E i \in RoundIds : Due(m, i) /\ WaitsFor(events[e], new, i) /\ e = m.event
      BY <3>1, <3>4 DEF WaitsFor
    <3>. QED  BY <2>2, <3>2, <3>3, <3>4
  <2>. QED  BY <2>1, <2>3, <2>4 DEF EventsPlaced, Status, RoundsOf, Live
<1>. QED  BY <1>3, <1>4 DEF Executes, RecordCall, BookingCall, serviceVars

(* A decision comes into the hands of the request that made it, and leaves *)
(* them when it is undone, has moved its event, or is left to a belated    *)
(* call.                                                                   *)
LEMMA HeldMoves ==
    ASSUME Inv, HeldOK, NEW w \in Workers, NEW q, requests' = [requests EXCEPT ![w] = q],
           late \subseteq late', NEW m, Carries(m), Executes(m),
           m.call = "decide" => \E t : Owns(q, m.round, t),
           \A i \in RoundIds : \A t : Owns(requests[w], i, t) =>
              \/ \E u : Owns(q, i, u)
              \/ ~Unsettled(i)'
              \/ \E n \in late' : \E u : Undoes(n, i, u)
    PROVE  HeldOK'
<1>1. requests'[w] = q /\ \A v \in Workers : v # w => requests'[v] = requests[v]
  BY DEF Inv, ServiceInv, RequestsOK
<1>2. RowsFollow(m) /\ \A i \in Live : i \in RoundIds
  BY CallOnRows DEF Inv, ServiceInv, RecordsInv, RecordsTypeOK
<1>3. \A e \in Events : events[e].decided \subseteq events'[e].decided
  BY CallOnMoves
<1>4. ASSUME NEW i \in Live', Unsettled(i)'
      PROVE  Held(i)'
  <2>1. i \in Live
    BY <1>2, <1>4 DEF RowsFollow, Unsettled
  <2>2. CASE DecisionMade(m, i)
    BY <1>1, <2>2 DEF DecisionMade, Held
  <2>3. CASE DecisionStays(m, i)
    <3>1. Unsettled(i)
      BY <1>3, <1>4, <2>3 DEF Unsettled, DecisionStays
    <3>2. Held(i)
      BY <2>1, <3>1 DEF HeldOK
    <3>3. CASE \E v \in Workers : \E t : Owns(requests[v], i, t)
      BY <1>1, <1>2, <1>4, <2>1, <3>3 DEF Held
    <3>. QED  BY <3>2, <3>3 DEF Held
  <2>4. ~DecisionUndone(m, i)
    BY <1>4 DEF DecisionUndone, Unsettled
  <2>. QED  BY <1>2, <1>4, <2>1, <2>2, <2>3, <2>4 DEF RowsFollow
<1>. QED  BY <1>4 DEF HeldOK

(* Nothing happens to the rounds and the events: what w gives up it has    *)
(* passed on to a belated call.                                            *)
LEMMA UnexecutedWaits ==
    ASSUME Inv, WaitOK, NEW w \in Workers, NEW q, requests' = [requests EXCEPT ![w] = q],
           UNCHANGED serviceVars, Placed(q), NEW m,
           \/ late' = late
           \/ /\ late' = late \cup {m} /\ m.call \notin {"submitEvent", "saveDetails"}
              /\ \A i \in RoundIds : Removes(m, i) => Keeps(requests[w], i) /\ ~Keeps(q, i),
           \A i \in RoundIds : Keeps(q, i) => Keeps(requests[w], i),
           \A i \in RoundIds : \A t : Owns(requests[w], i, t) =>
              (\E u : Owns(q, i, u)) \/ (\E n \in late' : \E u : Undoes(n, i, u))
    PROVE  WaitOK'
<1>1. requests'[w] = q /\ \A v \in Workers : v # w => requests'[v] = requests[v]
  BY DEF Inv, ServiceInv, RequestsOK
<1>2. UNCHANGED <<rounds, used, events>> /\ Live \subseteq RoundIds
  BY DEF serviceVars, recordVars, Inv, ServiceInv, RecordsInv, RecordsTypeOK
<1>3. KeptOK'
  <2>1. \A i \in RoundIds : Unspent(i)' <=> Unspent(i)
    BY <1>2 DEF Unspent
  <2>. QED  BY <2>1, KeepersMove DEF WaitOK
<1>4. PlacedOK'
  <2>1. \A r : Placed(r)' <=> Placed(r)
    BY <1>2 DEF Placed, RoundsOf, Live
  <2>2. EventsPlaced'
    BY <1>2 DEF WaitOK, PlacedOK, EventsPlaced, Status, RoundsOf, Live
  <2>. QED  BY <1>1, <2>1, <2>2 DEF WaitOK, PlacedOK
<1>5. HeldOK'
  <2>1. ASSUME NEW i \in Live, Unsettled(i) PROVE Held(i)'
    <3>1. i \in RoundIds /\ Held(i)
      BY <1>2, <2>1 DEF WaitOK, HeldOK
    <3>. QED  BY <1>1, <3>1 DEF Held
  <2>. QED  BY <1>2, <2>1 DEF HeldOK, Unsettled, Live
<1>. QED  BY <1>3, <1>4, <1>5 DEF WaitOK

(* The call is executed: what it removes or makes an event wait for, and   *)
(* what it settles, w gives up.                                            *)
LEMMA ExecutedWaits ==
    ASSUME Inv, WaitOK, NEW w \in Workers, NEW q, requests' = [requests EXCEPT ![w] = q],
           NEW m, Carries(m), Executes(m), late' = late, Placed(q)',
           \A i \in RoundIds : Removes(m, i) \/ Due(m, i) => Keeps(requests[w], i) /\ ~Keeps(q, i),
           \A i \in RoundIds : Due(m, i) => i \in RoundsOf(m.event),
           \A i \in RoundIds : Keeps(q, i) => Keeps(requests[w], i) \/ (Unspent(i)' /\ ~Unspent(i)),
           m.call = "decide" => \E t : Owns(q, m.round, t),
           \A i \in RoundIds : \A t : Owns(requests[w], i, t) => (\E u : Owns(q, i, u)) \/ ~Unsettled(i)'
    PROVE  WaitOK'
<1>1. requests'[w] = q /\ \A v \in Workers : v # w => requests'[v] = requests[v]
  BY DEF Inv, ServiceInv, RequestsOK
<1>2. RowsFollow(m) /\ Live \subseteq RoundIds
  BY CallOnRows DEF Inv, ServiceInv, RecordsInv, RecordsTypeOK
<1>3. \A i \in RoundIds : Removes(m, i) \/ Due(m, i) => Unspent(i)
  BY DEF WaitOK, KeptOK
<1>4. used \subseteq used' /\ \A i \in RoundIds : Unspent(i) /\ ~Due(m, i) => Unspent(i)'
  BY <1>3, ExecutedRounds
<1>5. KeptOK'
  <2>1. \A i \in RoundIds : Unspent(i) => Unspent(i)' \/ (late' = late /\ Keeps(requests[w], i) /\ ~Keeps(q, i))
    BY <1>4
  <2>. QED  BY <2>1, KeepersMove DEF WaitOK
<1>6. EventsPlaced'
  BY <1>3, EventsStayPlaced DEF WaitOK, PlacedOK
<1>7. ASSUME NEW v \in Workers, v # w PROVE Placed(requests[v])'
  <2> PICK r : r = requests[v]
    OBVIOUS
  <2>1. Placed(r) /\ \A i \in RoundIds : ~(Keeps(r, i) /\ Keeps(requests[w], i))
    BY <1>7 DEF WaitOK, PlacedOK, KeptOK
  <2>2. \A i \in Live : Keeps(r, i) => ~Removes(m, i)
    BY <1>2, <2>1
  <2>3. Placed(r)'
    BY <1>2, <1>4, <2>1, <2>2, PlaceStays
  <2>. QED  BY <2>3
<1>8. PlacedOK'
  BY <1>1, <1>6, <1>7 DEF PlacedOK
<1>9. HeldOK'
  BY HeldMoves DEF WaitOK
<1>. QED  BY <1>5, <1>8, <1>9 DEF WaitOK

(* A request that keeps no more than it did and gives up no decision.      *)
WaitsOn(q, r) ==
    /\ Placed(q)
    /\ \A i \in RoundIds : Keeps(q, i) => Keeps(r, i)
    /\ \A i \in RoundIds : \A t : Owns(r, i, t) => Owns(q, i, t)

(* A step that calls nobody. *)
LEMMA ReadWaits ==
    ASSUME Inv, WaitOK, NEW w \in Workers, NEW q, WaitsOn(q, requests[w]),
           Becomes(w, q), UNCHANGED <<serviceVars, late>>
    PROVE  WaitOK'
<1> PICK m : m = [call |-> "read"]
  OBVIOUS
<1>1. requests' = [requests EXCEPT ![w] = q] /\ UNCHANGED serviceVars /\ late' = late
  BY DEF Becomes
<1>2. /\ Placed(q)
      /\ \A i \in RoundIds : Keeps(q, i) => Keeps(requests[w], i)
      /\ \A i \in RoundIds : \A t : Owns(requests[w], i, t) =>
            (\E u : Owns(q, i, u)) \/ (\E n \in late' : \E u : Undoes(n, i, u))
  BY DEF WaitsOn
<1>. QED  BY <1>1, <1>2, UnexecutedWaits

(* A call that neither makes nor undoes a decision, and makes no event     *)
(* wait: what it removes its caller kept and gives up.                     *)
LEMMA CallWaits ==
    ASSUME Inv, WaitOK, NEW w \in Workers, NEW m, Carries(m),
           m.call \notin {"decide", "submitEvent", "saveDetails"},
           NEW done, NEW refused, NEW failed, Calls(w, m, done, refused, failed),
           WaitsOn(done, requests[w]), WaitsOn(refused, requests[w]), WaitsOn(failed, requests[w]),
           \A i \in RoundIds : Removes(m, i) => /\ Keeps(requests[w], i)
                                                /\ ~Keeps(done, i) /\ ~Keeps(refused, i) /\ ~Keeps(failed, i)
    PROVE  WaitOK'
<1>6. \E q \in {done, refused, failed} :
        /\ requests' = [requests EXCEPT ![w] = q]
        /\ \/ Executes(m) /\ late' = late
           \/ UNCHANGED serviceVars /\ late' \in {late, late \cup {m}}
  BY DEF Calls, Becomes
<1> PICK q \in {done, refused, failed} :
        /\ requests' = [requests EXCEPT ![w] = q]
        /\ \/ Executes(m) /\ late' = late
           \/ UNCHANGED serviceVars /\ late' \in {late, late \cup {m}}
  BY <1>6
<1>1. WaitsOn(q, requests[w]) /\ \A i \in RoundIds : Removes(m, i) => Keeps(requests[w], i) /\ ~Keeps(q, i)
  OBVIOUS
<1>2. /\ Placed(q)
      /\ \A i \in RoundIds : Keeps(q, i) => Keeps(requests[w], i)
      /\ \A i \in RoundIds : \A t : Owns(requests[w], i, t) => \E u : Owns(q, i, u)
  BY <1>1 DEF WaitsOn
<1>3. requests' = [requests EXCEPT ![w] = q] /\ \A i \in RoundIds : ~Due(m, i)
  BY DEF Due
<1>4. CASE Executes(m) /\ late' = late
  <2>1. RowsFollow(m) /\ used \subseteq used' /\ Live \subseteq RoundIds
    BY <1>4, CallOnRows, ExecutesIsAStep DEF Inv, ServiceInv, RecordsInv, RecordsTypeOK
  <2>2. Placed(q)'
    <3>1. \A i \in Live : Keeps(q, i) => ~Removes(m, i)
      BY <1>1, <2>1
    <3>. QED  BY <1>2, <2>1, <3>1, PlaceStays
  <2>. QED  BY <1>1, <1>2, <1>3, <1>4, <2>2, ExecutedWaits
<1>5. CASE UNCHANGED serviceVars /\ late' \in {late, late \cup {m}}
  <2>1. \/ late' = late
        \/ /\ late' = late \cup {m} /\ m.call \notin {"submitEvent", "saveDetails"}
           /\ \A i \in RoundIds : Removes(m, i) => Keeps(requests[w], i) /\ ~Keeps(q, i)
    BY <1>1, <1>5
  <2>. QED  BY <1>2, <1>3, <1>5, <2>1, UnexecutedWaits
<1>. QED  BY <1>4, <1>5

(* The steps at which a request keeps no round and relies on none. *)
FreePcs == Pcs \ (OwnerPcs \cup {"submitEvent", "deleteRound", "withdraw", "readVenue", "saveDetails",
                             "withdrawEvent", "restore"})

(* A request that owns nothing may always go on to one of them. *)
LEMMA FreeWaits ==
    ASSUME NEW r, r.pc \notin OwnerPcs, NEW q, q.pc \in FreePcs
    PROVE  WaitsOn(q, r) /\ \A i : ~Keeps(q, i)
BY DEF FreePcs, WaitsOn, Placed, Keeps, Owns

(* So may it end. *)
LEMMA DoneWaits ==
    ASSUME NEW r, r.pc \notin OwnerPcs
    PROVE  WaitsOn(Done, r) /\ \A i : ~Keeps(Done, i)
<1>1. Done.pc \in FreePcs
  BY DoneFields DEF Done, FreePcs, Pcs, OwnerPcs
<1>. QED  BY <1>1, FreeWaits

(* It may go on to one with a new value for one of its variables. *)
LEMMA FreeGoesOn ==
    ASSUME Inv, NEW w \in Workers, requests[w].pc \notin OwnerPcs, NEW p \in FreePcs
    PROVE  /\ WaitsOn(To(w, p), requests[w]) /\ \A i : ~Keeps(To(w, p), i)
           /\ \A x : /\ WaitsOn([To(w, p) EXCEPT !.round = x], requests[w])
                     /\ WaitsOn([To(w, p) EXCEPT !.flags = x], requests[w])
<1>1. WaitsOn(To(w, p), requests[w]) /\ \A i : ~Keeps(To(w, p), i)
  BY ToFields, FreeWaits
<1>2. ASSUME NEW x
      PROVE  /\ WaitsOn([To(w, p) EXCEPT !.round = x], requests[w])
             /\ WaitsOn([To(w, p) EXCEPT !.flags = x], requests[w])
  <2> PICK a, b : a = [To(w, p) EXCEPT !.round = x] /\ b = [To(w, p) EXCEPT !.flags = x]
    OBVIOUS
  <2>1. a.pc = p /\ b.pc = p
    BY ToFields
  <2>2. WaitsOn(a, requests[w]) /\ WaitsOn(b, requests[w])
    BY <2>1, FreeWaits
  <2>. QED  BY <2>2
<1>. QED  BY <1>1, <1>2

(* An owner goes on as one. *)
LEMMA OwnerWaits ==
    ASSUME Inv, NEW w \in Workers, requests[w].pc \in OwnerPcs, NEW p \in OwnerPcs
    PROVE  WaitsOn(To(w, p), requests[w]) /\ \A i : ~Keeps(To(w, p), i)
<1> PICK q : q = To(w, p)
  OBVIOUS
<1>1. q.pc = p /\ q.round = requests[w].round /\ q.stamp = requests[w].stamp
  BY ToFields
<1>2. WaitsOn(q, requests[w]) /\ \A i : ~Keeps(q, i)
  BY <1>1 DEF OwnerPcs, WaitsOn, Placed, Keeps, Owns
<1>. QED  BY <1>2

(* A keeper goes on as one, in the order of the handlers. *)
LEMMA KeeperWaits ==
    ASSUME Inv, PlacedOK, NEW w \in Workers, NEW p,
           \/ requests[w].pc = "submitEvent" /\ p = "deleteRound"
           \/ requests[w].pc = "readVenue" /\ p \in {"saveDetails", "withdrawEvent", "restore"}
           \/ requests[w].pc = "saveDetails" /\ p = "restore"
           \/ requests[w].pc = "withdrawEvent" /\ p = "restore"
    PROVE  WaitsOn(To(w, p), requests[w])
<1> PICK r : r = requests[w]
  OBVIOUS
<1> PICK q : q = To(w, p)
  OBVIOUS
<1>1. q.pc = p /\ q.round = r.round /\ q.next = r.next /\ q.kind = r.kind /\ q.event = r.event
  BY ToFields
<1>2. /\ Placed(r) /\ (r.pc = "withdrawEvent" => r.kind # "recheck")
      /\ r.pc = "saveDetails" => r.kind = "recheck"
  BY Serving DEF PlacedOK, Knows, VenuePcs, VenueChanges
<1>3. r.pc \notin OwnerPcs
  BY DEF OwnerPcs
<1>4. WaitsOn(q, r)
  BY <1>1, <1>2, <1>3 DEF WaitsOn, Placed, Keeps, Owns
<1>. QED  BY <1>4

(* A submission: the round it opens it keeps until its event waits for it, *)
(* or until the round is removed.                                          *)
LEMMA OpensItsRound ==
    ASSUME Inv, NEW m, Carries(m), Executes(m), Accepts(m), NEW i, i = NewRound,
           \/ m.call = "create"
           \/ m.call = "withdraw" /\ m.opens
    PROVE  /\ i \in RoundIds /\ Unspent(i)' /\ ~Unspent(i)
           /\ m.call = "create" => i \in RoundsOf(m.event)'
           /\ m.call = "withdraw" => m.round \in Live /\ \A e : m.round \in RoundsOf(e) => i \in RoundsOf(e)'
<1>1. i \in RoundIds /\ i \in used' \ used /\ UNCHANGED events
  BY OpensARound
<1>2. RowsFollow(m) /\ Live \subseteq used /\ RecordCall(m)
  BY CallOnRows DEF Inv, ServiceInv, RecordsInv, RecordsTypeOK, Executes, EventCall, BookingCall
<1>3. \E j, table, row : used' = used \cup {j} /\ rounds' = With(table, j, row)
  <2>1. CASE m.call = "create"
    BY <1>2, <2>1 DEF RecordCall, CreateRound
  <2>2. CASE m.call = "withdraw" /\ m.opens
    BY <1>2, <2>2, IdsAssumption DEF RecordCall, WithdrawApproval, Fresh
  <2>. QED  BY <2>1, <2>2
<1>4. i \in Live' \ Live
  <2> PICK j, table, row : used' = used \cup {j} /\ rounds' = With(table, j, row)
    BY <1>3
  <2>1. j \in DOMAIN rounds' /\ j = i
    BY <1>1 DEF With
  <2>. QED  BY <1>1, <1>2, <2>1 DEF Live
<1>5. Unspent(i)' /\ ~Unspent(i)
  <2>1. \A e \in Events : events[e].submitted \in used \cup {NoRound} /\ events[e].decided \subseteq used
    BY DEF Inv, HandsOK
  <2>2. \A e \in Events : i # events'[e].submitted /\ i \notin events'[e].decided
    BY <1>1, <2>1, IdsAssumption
  <2>. QED  BY <1>1, <2>2 DEF Unspent
<1>6. m.call = "withdraw" => m.round \in Live
  BY <1>2 DEF RecordCall, WithdrawApproval, CanWithdraw
<1>. QED  BY <1>1, <1>2, <1>4, <1>5, <1>6 DEF RowsFollow, RoundsOf, Live

(* The call that opens a round. *)
LEMMA CreateWaits ==
    ASSUME Inv, WaitOK, NEW w \in Workers, CallCreate(w)
    PROVE  WaitOK'
<1> PICK r \in Request : r = requests[w]
  BY Serving
<1>1. r.pc = "createRound" /\ r.pc \notin OwnerPcs /\ r.event \in Events
  BY Serving DEF CallCreate, At, OwnerPcs, Knows
<1> PICK m : m = [call |-> "create", event |-> r.event]
  OBVIOUS
<1>2. m.call = "create" /\ m.event = r.event /\ Carries(m)
  BY <1>1 DEF Carries, EventCalls, BookingCalls
<1> PICK i : i = NewRound
  OBVIOUS
<1> PICK done : done = [To(w, "submitEvent") EXCEPT !.round = i]
  OBVIOUS
<1>3. done.pc = "submitEvent" /\ done.round = i /\ done.event = r.event
  BY ToFields
<1>4. Calls(w, m, done, Done, Done)
  BY DEF CallCreate
<1>5. WaitsOn(Done, r) /\ \A j : ~Keeps(Done, j)
  BY <1>1, DoneWaits
<1>6. CASE Executes(m) /\ Accepts(m) /\ late' = late /\ requests' = [requests EXCEPT ![w] = done]
  <2>1. Unspent(i)' /\ ~Unspent(i) /\ i \in RoundsOf(r.event)'
    BY <1>2, <1>6, OpensItsRound
  <2>2. Placed(done)'
    BY <1>3, <2>1 DEF Placed
  <2>3. \A j \in RoundIds : Keeps(done, j) => Unspent(j)' /\ ~Unspent(j)
    BY <1>3, <2>1 DEF Keeps
  <2>4. \A j : ~Removes(m, j) /\ ~Due(m, j)
    BY <1>2 DEF Removes, Due
  <2>5. \A j, t : ~Owns(requests[w], j, t)
    BY <1>1 DEF Owns
  <2>. QED  BY <1>2, <1>6, <2>2, <2>3, <2>4, <2>5, ExecutedWaits
<1>7. CASE Calls(w, m, Done, Done, Done)
  <2>1. \A j : ~Removes(m, j)
    BY <1>2 DEF Removes
  <2>. QED  BY <1>2, <1>5, <1>7, <2>1, CallWaits
<1>8. \/ Executes(m) /\ Accepts(m) /\ late' = late /\ requests' = [requests EXCEPT ![w] = done]
      \/ Calls(w, m, Done, Done, Done)
  BY <1>4 DEF Calls, Becomes
<1>. QED  BY <1>6, <1>7, <1>8

(* The call that makes the event wait for the round: while it is answered, *)
(* the round stays with its request until then.                            *)
LEMMA SubmitEventWaits ==
    ASSUME SubmissionsAnswered, Inv, WaitOK, NEW w \in Workers, CallSubmitEvent(w)
    PROVE  WaitOK'
<1> PICK r \in Request : r = requests[w]
  BY Serving
<1>1. r.pc = "submitEvent" /\ r.pc \notin OwnerPcs
  BY DEF CallSubmitEvent, At, OwnerPcs
<1>2. r.round \in RoundIds /\ r.event \in Events /\ r.by \in Coordinators
  BY <1>1, Serving DEF Knows, SubmitPcs, RoundPcs, Decisions
<1> PICK m : m = [call |-> "submitEvent", event |-> r.event, by |-> r.by, round |-> r.round]
  OBVIOUS
<1>3. m.call = "submitEvent" /\ m.event = r.event /\ m.round = r.round /\ Carries(m)
  BY <1>2 DEF Carries, EventCalls, BookingCalls
<1> PICK back : back = To(w, "deleteRound")
  OBVIOUS
<1>4. Calls(w, m, Done, back, back)
  BY DEF CallSubmitEvent
<1>5. WaitsOn(Done, r) /\ \A j : ~Keeps(Done, j)
  BY <1>1, DoneWaits
<1>6. WaitsOn(back, r)
  BY <1>1, KeeperWaits DEF WaitOK
<1>7. \A j, t : ~Owns(requests[w], j, t)
  BY <1>1 DEF Owns
<1>8. CASE Executes(m) /\ late' = late /\ requests' = [requests EXCEPT ![w] = Done]
  <2>1. \A j : Removes(m, j) \/ Due(m, j) => j = r.round
    BY <1>3 DEF Removes, Due
  <2>2. Keeps(requests[w], r.round) /\ r.round \in RoundsOf(m.event)
    BY <1>1, <1>3 DEF Keeps, WaitOK, PlacedOK, Placed
  <2>3. Placed(Done)'
    BY DoneFields DEF Placed, Done
  <2>. QED  BY <1>3, <1>5, <1>7, <1>8, <2>1, <2>2, <2>3, ExecutedWaits
<1>9. CASE Becomes(w, back) /\ UNCHANGED <<serviceVars, late>>
  BY <1>6, <1>9, ReadWaits
<1>10. \/ Executes(m) /\ late' = late /\ requests' = [requests EXCEPT ![w] = Done]
       \/ Becomes(w, back) /\ UNCHANGED <<serviceVars, late>>
  BY <1>3, <1>4 DEF Calls, Becomes, SubmissionsAnswered, Executes
<1>. QED  BY <1>8, <1>9, <1>10

(* A submission. *)
LEMMA SubmitStepWaits ==
    ASSUME SubmissionsAnswered, Inv, WaitOK, NEW w \in Workers, SubmitStep(w)
    PROVE  WaitOK'
<1> PICK r \in Request : r = requests[w]
  BY Serving
<1>1. ASSUME CheckReadiness(w) PROVE WaitOK'
  <2>1. r.pc \notin OwnerPcs /\ "createRound" \in FreePcs
    BY <1>1 DEF CheckReadiness, At, OwnerPcs, FreePcs, Pcs, SubmitPcs
  <2>2. WaitsOn(Done, r) /\ WaitsOn(To(w, "createRound"), r)
    BY <2>1, DoneWaits, FreeGoesOn
  <2>3. Reads(w, To(w, "createRound")) \/ Reads(w, Done)
    BY <1>1 DEF CheckReadiness
  <2>. QED  BY <2>2, <2>3, ReadWaits DEF Reads
<1>2. ASSUME CallDelete(w) PROVE WaitOK'
  <2>1. r.pc = "deleteRound" /\ r.pc \notin OwnerPcs
    BY <1>2 DEF CallDelete, At, OwnerPcs
  <2> PICK m : m = [call |-> "delete", round |-> r.round]
    OBVIOUS
  <2>2. Carries(m) /\ m.call \notin {"decide", "submitEvent", "saveDetails"}
    BY DEF Carries, EventCalls, BookingCalls
  <2>3. Calls(w, m, Done, Done, Done)
    BY <1>2 DEF CallDelete
  <2>4. WaitsOn(Done, r) /\ \A j : ~Keeps(Done, j)
    BY <2>1, DoneWaits
  <2>5. \A i \in RoundIds : Removes(m, i) => Keeps(r, i)
    BY <2>1 DEF Removes, Keeps
  <2>. QED  BY <2>2, <2>3, <2>4, <2>5, CallWaits
<1>. QED  BY <1>1, <1>2, CreateWaits, SubmitEventWaits DEF SubmitStep

(* What a decision reads, while no request looks for one. *)
LEMMA DecideReadsWait ==
    ASSUME Inv, StampsOK, WaitOK, NEW w \in Workers,
           FindOpenRound(w) \/ ReadArrangements(w) \/ FindDecision(w) \/ FindMove(w)
    PROVE  WaitOK'
<1> PICK r \in Request : r = requests[w]
  BY Serving
<1>1. ~FindDecision(w) /\ ~FindMove(w)
  BY DEF StampsOK, FindDecision, FindMove, At
<1>2. r.pc \notin OwnerPcs
  BY <1>1 DEF FindOpenRound, ReadArrangements, At, OwnerPcs
<1>3. WaitsOn(Done, r)
  BY <1>2, DoneWaits
<1>4. ASSUME NEW p \in {"readArrangements", "decide"}
      PROVE  \A x : WaitsOn([To(w, p) EXCEPT !.round = x], r) /\ WaitsOn([To(w, p) EXCEPT !.flags = x], r)
  <2>1. p \in FreePcs
    BY <1>4 DEF FreePcs, Pcs, DecidePcs, OwnerPcs
  <2>. QED  BY <1>2, <2>1, FreeGoesOn
<1>5. ASSUME NEW q, WaitsOn(q, r), Reads(w, q) PROVE WaitOK'
  BY <1>5, ReadWaits DEF Reads
<1>6. ASSUME FindOpenRound(w) PROVE WaitOK'
  <2>1. Reads(w, Done) \/ \E p \in {"readArrangements", "decide"} : \E i : Reads(w, [To(w, p) EXCEPT !.round = i])
    BY <1>6 DEF FindOpenRound
  <2>. QED  BY <1>3, <1>4, <1>5, <2>1
<1>7. ASSUME ReadArrangements(w) PROVE WaitOK'
  <2>1. Reads(w, Done) \/ \E S : Reads(w, [To(w, "decide") EXCEPT !.flags = S])
    <3>1. To(w, "decide").flags = r.flags
      BY DEF To, Request
    <3>. QED  BY <1>7, <3>1 DEF ReadArrangements
  <2>. QED  BY <1>3, <1>4, <1>5, <2>1
<1>. QED  BY <1>1, <1>6, <1>7

(* The decision comes into the hands of the request that makes it. *)
LEMMA DecideWaits ==
    ASSUME DecisionsAnswered, Inv, WaitOK, NEW w \in Workers, CallDecide(w)
    PROVE  WaitOK'
<1> PICK r \in Request : r = requests[w]
  BY Serving
<1>1. r.pc = "decide" /\ r.pc \notin OwnerPcs
  BY DEF CallDecide, At, OwnerPcs
<1> PICK m : m = [call |-> "decide", round |-> r.round, status |-> RecordStatusOf(r.kind)]
  OBVIOUS
<1>2. m.call = "decide" /\ m.round = r.round /\ Carries(m)
  <2>1. r.kind \in Decisions
    BY <1>1, Serving DEF Knows, DecidePcs
  <2>2. RecordStatusOf(r.kind) \in DecisionStatuses
    BY <2>1 DEF Decisions, RecordStatusOf, DecisionStatuses
  <2>. QED  BY <2>2 DEF Carries, EventCalls, BookingCalls
<1> PICK t : t = clock'
  OBVIOUS
<1> PICK p \in {"resetVenue", "resetEquipment", "moveEvent"} : p = AfterDecision(r.flags)
  BY DEF AfterDecision
<1> PICK done : done = [To(w, p) EXCEPT !.stamp = t]
  OBVIOUS
<1>3. done.pc = p /\ done.round = r.round /\ done.stamp = t
  BY ToFields
<1>4. Calls(w, m, done, Done, To(w, "findDecision"))
  BY DEF CallDecide, NewStamp
<1>5. Executes(m) /\ late' = late /\ Becomes(w, IF Accepts(m) THEN done ELSE Done)
  BY <1>2, <1>4 DEF Calls, DecisionsAnswered, AllFailures
<1>6. CASE Accepts(m)
  <2>1. \A i : ~Keeps(done, i)
    BY <1>3 DEF Keeps
  <2>2. Placed(done)' /\ \E u : Owns(done, m.round, u)
    BY <1>2, <1>3 DEF Placed, Owns, OwnerPcs
  <2>3. \A i : ~Removes(m, i) /\ ~Due(m, i)
    BY <1>2 DEF Removes, Due
  <2>4. \A i, u : ~Owns(requests[w], i, u)
    BY <1>1 DEF Owns
  <2>5. requests' = [requests EXCEPT ![w] = done]
    BY <1>5, <1>6 DEF Becomes
  <2>. QED  BY <1>2, <1>5, <2>1, <2>2, <2>3, <2>4, <2>5, ExecutedWaits
<1>7. CASE ~Accepts(m)
  BY <1>1, <1>5, <1>7, DoneWaits, ReadWaits DEF Executes
<1>. QED  BY <1>6, <1>7

(* The calls that reset what was flagged leave it there. *)
LEMMA ResetWaits ==
    ASSUME Inv, WaitOK, NEW w \in Workers, CallResetVenue(w) \/ CallResetEquipment(w)
    PROVE  WaitOK'
<1> PICK r \in Request : r = requests[w]
  BY Serving
<1>1. r.pc \in OwnerPcs /\ r.event \in Events
  BY Serving DEF CallResetVenue, CallResetEquipment, At, OwnerPcs, Knows
<1>2. ASSUME NEW p \in {"resetEquipment", "moveEvent", "reopen"} PROVE WaitsOn(To(w, p), r)
  BY <1>1, <1>2, OwnerWaits DEF OwnerPcs
<1>3. ASSUME CallResetVenue(w) PROVE WaitOK'
  <2> PICK m : m = [call |-> "resetBooking", event |-> r.event]
    OBVIOUS
  <2>1. /\ Carries(m) /\ m.call \notin {"decide", "submitEvent", "saveDetails"}
        /\ \A i : ~Removes(m, i)
    BY <1>1 DEF Carries, EventCalls, BookingCalls, Removes
  <2> PICK p : p = AfterDecision(r.flags \ {"venue"})
    OBVIOUS
  <2>2. p \in {"resetEquipment", "moveEvent"}
    BY DEF AfterDecision
  <2>3. Calls(w, m, To(w, p), To(w, "reopen"), To(w, "reopen"))
    BY <1>3 DEF CallResetVenue
  <2>. QED  BY <1>2, <2>1, <2>2, <2>3, CallWaits
<1>4. ASSUME CallResetEquipment(w) PROVE WaitOK'
  <2> PICK m : m = [call |-> "resetEquipment", event |-> r.event]
    OBVIOUS
  <2>1. /\ Carries(m) /\ m.call \notin {"decide", "submitEvent", "saveDetails"}
        /\ \A i : ~Removes(m, i)
    BY <1>1 DEF Carries, EventCalls, BookingCalls, Removes
  <2>2. Calls(w, m, To(w, "moveEvent"), To(w, "reopen"), To(w, "reopen"))
    BY <1>4 DEF CallResetEquipment
  <2>. QED  BY <1>2, <2>1, <2>2, CallWaits
<1>. QED  BY <1>3, <1>4

(* The decision that has moved its event is settled. *)
LEMMA MoveSettles ==
    ASSUME Inv, NEW m, m.call = "moveDecided", Carries(m), Executes(m), Accepts(m)
    PROVE  \E e \in Events : m.round \in events'[e].decided
<1> PICK e, i, s : e = m.event /\ i = m.round /\ s = m.status
  OBVIOUS
<1>1. MoveDecided(e, i, s, m.venue)
  BY DEF Executes, RecordCall, EventCall, BookingCall
<1>2. /\ e \in Events /\ events[e].status = "Pending Safety Check" /\ events[e].submitted = i
      /\ i \in RoundIds /\ s \in SafetyTargets /\ events \in [Events -> EventRecord]
  BY <1>1 DEF MoveDecided, CanMoveDecided, Status, Inv, ServiceInv, EventsInv, EventsTypeOK, Carries, EventCalls
<1> PICK new : new = MovedBy(events[e], i, s)
  OBVIOUS
<1>3. i \in new.decided
  <2>1. events[e] \in EventRecord
    BY <1>2
  <2>2. Decides(events[e], new)
    BY <1>2, <2>1, MovedRows
  <2>. QED  BY <1>2, <2>2 DEF Decides
<1>4. events'[e] = new
  BY <1>1, <1>2 DEF MoveDecided, Saves
<1>. QED  BY <1>2, <1>3, <1>4

(* The call that moves the event by the decision. *)
LEMMA MoveWaits ==
    ASSUME DecisionsAnswered, Inv, WaitOK, NEW w \in Workers, CallMoveDecided(w)
    PROVE  WaitOK'
<1> PICK r \in Request : r = requests[w]
  BY Serving
<1>1. r.pc = "moveEvent" /\ r.pc \in OwnerPcs
  BY DEF CallMoveDecided, At, OwnerPcs
<1> PICK m : m = [call |-> "moveDecided", event |-> r.event, round |-> r.round,
                  status |-> EventStatusOf(r.kind), venue |-> r.venue]
  OBVIOUS
<1>2. m.call = "moveDecided" /\ m.round = r.round /\ Carries(m)
  <2>1. r.kind \in Decisions /\ r.event \in Events /\ r.venue \in BOOLEAN /\ r.round \in RoundIds
    BY <1>1, Serving DEF Knows, DecidePcs, RoundPcs
  <2>2. EventStatusOf(r.kind) \in SafetyTargets
    BY <2>1 DEF Decisions, EventStatusOf, SafetyTargets
  <2>. QED  BY <2>1, <2>2 DEF Carries, EventCalls, BookingCalls
<1> PICK done : done = Moved(w)
  OBVIOUS
<1>3. done.pc \in {"release", "idle"}
  BY ToFields, DoneFields DEF Moved, Done
<1>4. Calls(w, m, done, To(w, "reopen"), To(w, "findMove"))
  BY DEF CallMoveDecided
<1>5. Executes(m) /\ late' = late /\ Becomes(w, IF Accepts(m) THEN done ELSE To(w, "reopen"))
  BY <1>2, <1>4 DEF Calls, DecisionsAnswered, AllFailures
<1>6. CASE Accepts(m)
  <2>1. \A i : ~Keeps(done, i)
    BY <1>3 DEF Keeps
  <2>2. Placed(done)'
    BY <1>3 DEF Placed
  <2>3. \A i : ~Removes(m, i) /\ ~Due(m, i)
    BY <1>2 DEF Removes, Due
  <2>4. \A i, t : Owns(requests[w], i, t) => ~Unsettled(i)'
    <3>1. \E e \in Events : r.round \in events'[e].decided
      BY <1>2, <1>5, <1>6, MoveSettles
    <3>. QED  BY <3>1 DEF Owns, Unsettled
  <2>5. requests' = [requests EXCEPT ![w] = done]
    BY <1>5, <1>6 DEF Becomes
  <2>. QED  BY <1>2, <1>5, <2>1, <2>2, <2>3, <2>4, <2>5, ExecutedWaits
<1>7. CASE ~Accepts(m)
  <2>1. WaitsOn(To(w, "reopen"), r)
    BY <1>1, OwnerWaits DEF OwnerPcs
  <2>. QED  BY <1>5, <1>7, <2>1, ReadWaits DEF Executes
<1>. QED  BY <1>6, <1>7

(* The undo of a standing decision undoes it. *)
LEMMA UndoSettles ==
    ASSUME Inv, NEW m, m.call = "reopen", Carries(m), Executes(m), Stands(m.round, m.stamp)
    PROVE  Accepts(m) /\ ~Unsettled(m.round)'
<1> PICK i : i = m.round
  OBVIOUS
<1>1. i \in Live /\ m.stamp # 0 /\ rounds[i].decidedAt = m.stamp
  BY DEF Stands
<1>2. Accepts(m)
  BY <1>1 DEF Accepts, CanReopen
<1>3. ReopenRound(i, m.stamp)
  BY <1>2 DEF Executes, RecordCall, EventCall, BookingCall
<1>4. RecordsTypeOK /\ "Pending" \in RecordStatuses /\ 0 \in Nat /\ rounds[i] \in Round
  BY <1>1, Rows DEF Inv, ServiceInv, RecordsInv, RecordStatuses
<1> PICK row : row = Decided(rounds[i], "Pending", 0)
  OBVIOUS
<1>5. row.decidedAt = 0
  BY <1>4, DecidedRow
<1>6. rounds' = [rounds EXCEPT ![i] = row]
  BY <1>3 DEF ReopenRound
<1>7. rounds'[i] = row
  BY ONLY <1>1, <1>4, <1>6, UpdatedTable
<1>. QED  BY <1>2, <1>5, <1>7 DEF Unsettled

(* The call that undoes the decision arrives, or is belated. *)
LEMMA ReopenWaits ==
    ASSUME UndoArrives, Inv, StampsOK, WaitOK, NEW w \in Workers, CallReopen(w)
    PROVE  WaitOK'
<1> PICK r \in Request : r = requests[w]
  BY Serving
<1>1. r.pc = "reopen" /\ r.pc \in OwnerPcs
  BY DEF CallReopen, At, OwnerPcs
<1>2. Stands(r.round, r.stamp)
  BY <1>1, OwnersRound
<1> PICK m : m = [call |-> "reopen", round |-> r.round, stamp |-> r.stamp]
  OBVIOUS
<1>3. m.call = "reopen" /\ m.round = r.round /\ m.stamp = r.stamp /\ Carries(m)
  BY DEF Carries, EventCalls, BookingCalls
<1>4. \A i : ~Removes(m, i) /\ ~Due(m, i)
  BY <1>3 DEF Removes, Due
<1>5. requests' = [requests EXCEPT ![w] = NoRequest]
  BY DEF CallReopen, Calls, Becomes, Done
<1>6. NoRequest.pc = "idle" /\ \A i : ~Keeps(NoRequest, i)
  BY DoneFields DEF Keeps
<1>7. Placed(NoRequest) /\ Placed(NoRequest)'
  BY <1>6 DEF Placed
<1>8. \A i, t : Owns(requests[w], i, t) => i = m.round /\ t = m.stamp
  BY <1>3 DEF Owns
<1>9. CASE Executes(m) /\ late' = late
  <2>1. ~Unsettled(m.round)'
    BY <1>2, <1>3, <1>9, UndoSettles
  <2>. QED  BY <1>3, <1>4, <1>5, <1>6, <1>7, <1>8, <1>9, <2>1, ExecutedWaits
<1>10. CASE UNCHANGED serviceVars /\ late' = late \cup {m}
  <2>1. \A i, t : Owns(requests[w], i, t) => \E n \in late' : \E u : Undoes(n, i, u)
    BY <1>3, <1>8, <1>10 DEF Undoes
  <2>. QED  BY <1>3, <1>4, <1>5, <1>6, <1>7, <1>10, <2>1, UnexecutedWaits
<1>. QED  BY <1>3, <1>9, <1>10 DEF CallReopen, Calls, UndoArrives

(* The release of a rejected event's bookings. *)
LEMMA ReleaseWaits ==
    ASSUME Inv, WaitOK, NEW w \in Workers, CallRelease(w)
    PROVE  WaitOK'
<1> PICK r \in Request : r = requests[w]
  BY Serving
<1>1. r.event \in Events /\ r.pc \notin OwnerPcs
  BY Serving DEF CallRelease, At, Knows, OwnerPcs
<1> PICK m : m = [call |-> "releaseBooking", event |-> r.event]
  OBVIOUS
<1>2. /\ Carries(m) /\ m.call \notin {"decide", "submitEvent", "saveDetails"}
      /\ \A i : ~Removes(m, i)
  BY <1>1 DEF Carries, EventCalls, BookingCalls, Removes
<1>3. Calls(w, m, Done, Done, Done)
  BY DEF CallRelease
<1>. QED  BY <1>1, <1>2, <1>3, DoneWaits, CallWaits

(* A re-check, or a change of a booking, reads which approval it is about. *)
LEMMA ReadApprovalWaits ==
    ASSUME Inv, WaitOK, NEW w \in Workers, ReadApproval(w)
    PROVE  WaitOK'
<1> PICK r \in Request : r = requests[w]
  BY Serving
<1>1. r.pc \notin OwnerPcs
  BY DEF ReadApproval, At, OwnerPcs
<1>2. ASSUME NEW i \in RoundsOf(r.event) PROVE WaitsOn([To(w, "withdraw") EXCEPT !.round = i], r)
  <2> PICK q : q = [To(w, "withdraw") EXCEPT !.round = i]
    OBVIOUS
  <2>1. q.pc = "withdraw" /\ q.round = i /\ q.event = r.event
    BY ToFields
  <2>2. i \in used
    BY DEF RoundsOf, Inv, ServiceInv, RecordsInv, RecordsTypeOK
  <2>3. WaitsOn(q, r)
    BY <1>1, <1>2, <2>1, <2>2 DEF WaitsOn, Placed, Keeps, Owns
  <2>. QED  BY <2>3
<1>3. Reads(w, Done) \/ \E i \in RoundsOf(r.event) : Reads(w, [To(w, "withdraw") EXCEPT !.round = i])
  BY DEF ReadApproval
<1>4. ASSUME NEW q, WaitsOn(q, r), Reads(w, q) PROVE WaitOK'
  BY <1>4, ReadWaits DEF Reads
<1>. QED  BY <1>1, <1>2, <1>3, <1>4, DoneWaits

(* The withdrawal, which opens the next round for a re-check. *)
LEMMA WithdrawWaits ==
    ASSUME Inv, WaitOK, NEW w \in Workers, CallWithdraw(w)
    PROVE  WaitOK'
<1> PICK r \in Request : r = requests[w]
  BY Serving
<1>1. r.pc = "withdraw" /\ r.pc \notin OwnerPcs
  BY DEF CallWithdraw, At, OwnerPcs
<1> PICK opens : opens = (r.kind = "recheck")
  OBVIOUS
<1> PICK m : m = [call |-> "withdraw", round |-> r.round, opens |-> opens]
  OBVIOUS
<1>2. m.call = "withdraw" /\ m.round = r.round /\ m.opens = opens /\ Carries(m)
  BY DEF Carries, EventCalls, BookingCalls
<1> PICK i : i = NewRound
  OBVIOUS
<1> PICK next : next = IF opens THEN i ELSE NoRound
  OBVIOUS
<1> PICK done : done = [To(w, "readVenue") EXCEPT !.next = next]
  OBVIOUS
<1>3. done.pc = "readVenue" /\ done.next = next /\ done.kind = r.kind /\ done.event = r.event
  BY ToFields
<1>4. Calls(w, m, done, Done, Done)
  BY DEF CallWithdraw
<1>5. WaitsOn(Done, r) /\ \A j : ~Keeps(Done, j)
  BY <1>1, DoneWaits
<1>6. \A j : ~Removes(m, j) /\ ~Due(m, j)
  BY <1>2 DEF Removes, Due
<1>7. CASE Executes(m) /\ Accepts(m) /\ late' = late /\ requests' = [requests EXCEPT ![w] = done]
  <2>1. CASE r.kind = "recheck"
    <3>1. /\ Unspent(i)' /\ ~Unspent(i) /\ r.round \in Live
          /\ \A e : r.round \in RoundsOf(e) => i \in RoundsOf(e)'
      BY <1>2, <1>7, <2>1, OpensItsRound
    <3>2. r.round \in RoundsOf(r.event)
      BY <1>1, <3>1 DEF WaitOK, PlacedOK, Placed
    <3>3. Placed(done)' /\ \A j \in RoundIds : Keeps(done, j) => Unspent(j)' /\ ~Unspent(j)
      BY <1>3, <2>1, <3>1, <3>2 DEF Placed, Keeps
    <3>4. \A j, t : ~Owns(requests[w], j, t)
      BY <1>1 DEF Owns
    <3>. QED  BY <1>2, <1>6, <1>7, <3>3, <3>4, ExecutedWaits
  <2>2. CASE r.kind # "recheck"
    <3>1. Placed(done)' /\ \A j \in RoundIds : ~Keeps(done, j)
      BY <1>3, <2>2 DEF Placed, Keeps
    <3>2. \A j, t : ~Owns(requests[w], j, t)
      BY <1>1 DEF Owns
    <3>. QED  BY <1>2, <1>6, <1>7, <3>1, <3>2, ExecutedWaits
  <2>. QED  BY <2>1, <2>2
<1>8. CASE Calls(w, m, Done, Done, Done)
  BY <1>2, <1>5, <1>6, <1>8, CallWaits
<1>9. \/ Executes(m) /\ Accepts(m) /\ late' = late /\ requests' = [requests EXCEPT ![w] = done]
      \/ Calls(w, m, Done, Done, Done)
  BY <1>4 DEF Calls, Becomes
<1>. QED  BY <1>7, <1>8, <1>9

(* The save that makes the event wait for that round. *)
LEMMA SaveDetailsWaits ==
    ASSUME SubmissionsAnswered, Inv, WaitOK, NEW w \in Workers, CallSaveDetails(w)
    PROVE  WaitOK'
<1> PICK r \in Request : r = requests[w]
  BY Serving
<1>1. r.pc = "saveDetails" /\ r.pc \notin OwnerPcs
  BY DEF CallSaveDetails, At, OwnerPcs
<1>2. /\ r.round \in RoundIds /\ r.next \in RoundIds /\ r.event \in Events /\ r.by \in Coordinators
      /\ r.details \in Details /\ r.kind = "recheck"
  BY <1>1, Serving DEF Knows, RoundPcs, Decisions
<1> PICK m : m = [call |-> "saveDetails", event |-> r.event, by |-> r.by,
                  details |-> r.details, round |-> r.round, next |-> r.next]
  OBVIOUS
<1>3. m.call = "saveDetails" /\ m.event = r.event /\ m.next = r.next /\ Carries(m)
  BY <1>2 DEF Carries, EventCalls, BookingCalls
<1> PICK back : back = To(w, "restore")
  OBVIOUS
<1>4. Calls(w, m, Done, back, back)
  BY DEF CallSaveDetails
<1>5. WaitsOn(Done, r) /\ \A j : ~Keeps(Done, j)
  BY <1>1, DoneWaits
<1>6. WaitsOn(back, r)
  BY <1>1, KeeperWaits DEF WaitOK
<1>7. \A j, t : ~Owns(requests[w], j, t)
  BY <1>1 DEF Owns
<1>8. CASE Executes(m) /\ late' = late /\ requests' = [requests EXCEPT ![w] = Done]
  <2>1. \A j : Removes(m, j) \/ Due(m, j) => j = r.next
    BY <1>3 DEF Removes, Due
  <2>2. Keeps(requests[w], r.next) /\ r.next \in RoundsOf(m.event)
    BY <1>1, <1>2, <1>3 DEF Keeps, WaitOK, PlacedOK, Placed
  <2>3. Placed(Done)'
    BY DoneFields DEF Placed, Done
  <2>. QED  BY <1>3, <1>5, <1>7, <1>8, <2>1, <2>2, <2>3, ExecutedWaits
<1>9. CASE Becomes(w, back) /\ UNCHANGED <<serviceVars, late>>
  BY <1>6, <1>9, ReadWaits
<1>10. \/ Executes(m) /\ late' = late /\ requests' = [requests EXCEPT ![w] = Done]
       \/ Becomes(w, back) /\ UNCHANGED <<serviceVars, late>>
  BY <1>3, <1>4 DEF Calls, Becomes, SubmissionsAnswered, Executes
<1>. QED  BY <1>8, <1>9, <1>10

(* A re-check. *)
LEMMA RecheckStepWaits ==
    ASSUME SubmissionsAnswered, Inv, WaitOK, NEW w \in Workers, RecheckStep(w)
    PROVE  WaitOK'
<1> PICK r \in Request : r = requests[w]
  BY Serving
<1>1. ASSUME ReadVenue(w) PROVE WaitOK'
  <2>1. r.pc = "readVenue" /\ r.pc \notin OwnerPcs
    BY <1>1 DEF ReadVenue, At, OwnerPcs
  <2>2. ASSUME NEW p \in {"restore", "saveDetails", "withdrawEvent"} PROVE WaitsOn(To(w, p), r)
    BY <2>1, KeeperWaits DEF WaitOK
  <2>3. \E p \in {"restore", "saveDetails", "withdrawEvent"} : Reads(w, To(w, p)) \/ ReadFails(w, To(w, p))
    BY <1>1 DEF ReadVenue
  <2>4. ASSUME NEW q, WaitsOn(q, r), Reads(w, q) \/ ReadFails(w, q) PROVE WaitOK'
    BY <2>4, ReadWaits DEF Reads, ReadFails
  <2>. QED  BY <2>2, <2>3, <2>4
<1>2. ASSUME CallRestore(w) PROVE WaitOK'
  <2>1. r.pc = "restore" /\ r.pc \notin OwnerPcs /\ r.next \in RoundOrNone
    BY <1>2, Serving DEF CallRestore, At, OwnerPcs
  <2> PICK m : m = [call |-> "restore", round |-> r.round, next |-> r.next]
    OBVIOUS
  <2>2. m.call = "restore" /\ m.next = r.next /\ Carries(m) /\ m.call \notin {"decide", "submitEvent", "saveDetails"}
    BY <2>1 DEF Carries, EventCalls, BookingCalls
  <2>3. Calls(w, m, Done, Done, Done)
    BY <1>2 DEF CallRestore
  <2>4. WaitsOn(Done, r) /\ \A j : ~Keeps(Done, j)
    BY <2>1, DoneWaits
  <2>5. r.kind = "recheck" \/ r.next = NoRound
    BY <2>1 DEF WaitOK, PlacedOK, Placed
  <2>6. \A i \in RoundIds : Removes(m, i) => Keeps(r, i)
    BY <2>1, <2>2, <2>5, IdsAssumption DEF Removes, Keeps
  <2>. QED  BY <2>2, <2>3, <2>4, <2>6, CallWaits
<1>. QED  BY <1>1, <1>2, ReadApprovalWaits, WithdrawWaits, SaveDetailsWaits DEF RecheckStep

(* A change of a booking opens no round. *)
LEMMA VenueChangeStepWaits ==
    ASSUME Inv, WaitOK, NEW w \in Workers, VenueChangeStep(w)
    PROVE  WaitOK'
<1> PICK r \in Request : r = requests[w]
  BY Serving
<1>1. /\ r.pc \in VenuePcs => r.event \in Events /\ r.by \in Coordinators /\ r.kind \in VenueChanges
      /\ r.pc \in RoundPcs => r.round \in RoundIds
  BY Serving DEF Knows, VenuePcs, VenueChanges, Decisions
<1>2. r.pc \notin OwnerPcs
  BY DEF VenueChangeStep, ReadEvent, CallWithdrawEvent, GivesUpWaiting, CallChangeBooking, ReadWithdrawn,
         CallReinstate, CallRestoreEvent, At, OwnerPcs
<1>3. WaitsOn(Done, r)
  BY <1>2, DoneWaits
<1>4. ASSUME NEW p \in {"readApproval", "changeBooking", "readWithdrawn", "reinstate", "restoreEvent"}
      PROVE  WaitsOn(To(w, p), r)
  <2>1. p \in FreePcs
    BY <1>4 DEF FreePcs, Pcs, WithdrawPcs, VenuePcs, OwnerPcs
  <2>. QED  BY <1>2, <2>1, FreeGoesOn
<1>5. ASSUME NEW q, WaitsOn(q, r), Reads(w, q) \/ ReadFails(w, q) PROVE WaitOK'
  BY <1>5, ReadWaits DEF Reads, ReadFails
<1>6. ASSUME ReadEvent(w) PROVE WaitOK'
  <2>1. Reads(w, To(w, "readApproval")) \/ Reads(w, Done)
    BY <1>6 DEF ReadEvent
  <2>. QED  BY <1>3, <1>4, <1>5, <2>1
<1>7. ASSUME CallWithdrawEvent(w) PROVE WaitOK'
  <2>1. r.pc = "withdrawEvent" /\ r.pc \in VenuePcs /\ r.pc \in RoundPcs
    BY <1>7 DEF CallWithdrawEvent, At, VenuePcs, RoundPcs
  <2> PICK m : m = [call |-> "withdrawEvent", event |-> r.event, by |-> r.by, round |-> r.round]
    OBVIOUS
  <2>2. /\ Carries(m) /\ m.call \notin {"decide", "submitEvent", "saveDetails"}
        /\ \A i : ~Removes(m, i)
    BY <1>1, <2>1 DEF Carries, EventCalls, BookingCalls, Removes
  <2> PICK done : done = IF r.waited THEN To(w, "changeBooking") ELSE Done
    OBVIOUS
  <2>3. Calls(w, m, done, To(w, "restore"), To(w, "restore"))
    BY <1>7 DEF CallWithdrawEvent
  <2>4. WaitsOn(done, r)
    BY <1>3, <1>4
  <2>5. WaitsOn(To(w, "restore"), r)
    BY <2>1, KeeperWaits DEF WaitOK
  <2>. QED  BY <2>2, <2>3, <2>4, <2>5, CallWaits
<1>8. ASSUME GivesUpWaiting(w) PROVE WaitOK'
  <2> PICK q : q = NotWaited(r)
    OBVIOUS
  <2>1. q.pc = r.pc /\ q.kind = r.kind /\ q.event = r.event /\ q.round = r.round /\ q.next = r.next
    BY NotWaitedFields DEF SameKnowledge
  <2>2. Placed(r)
    BY DEF WaitOK, PlacedOK
  <2>3. WaitsOn(q, r)
    BY <1>2, <2>1, <2>2 DEF WaitsOn, Placed, Keeps, Owns
  <2>4. requests' = [requests EXCEPT ![w] = NotWaited(requests[w])] /\ UNCHANGED <<serviceVars, late>>
    BY <1>8 DEF GivesUpWaiting, NotWaited
  <2>. QED  BY <2>3, <2>4, ReadWaits DEF Becomes
<1>9. ASSUME CallChangeBooking(w) PROVE WaitOK'
  <2>1. r.pc \in VenuePcs
    BY <1>9 DEF CallChangeBooking, At, VenuePcs
  <2> PICK m : m = [call |-> "changeBooking", event |-> r.event, status |-> BookingStatusOf(r.kind)]
    OBVIOUS
  <2>2. /\ Carries(m) /\ m.call \notin {"decide", "submitEvent", "saveDetails"}
        /\ \A i : ~Removes(m, i)
    <3>1. BookingStatusOf(r.kind) \in {"Pending Review", "Cancelled"}
      BY DEF BookingStatusOf
    <3>. QED  BY <1>1, <2>1, <3>1 DEF Carries, EventCalls, BookingCalls, Removes
  <2> PICK putBack : putBack = IF r.round = NoRound THEN Done ELSE To(w, "readWithdrawn")
    OBVIOUS
  <2>3. WaitsOn(putBack, r)
    BY <1>3, <1>4
  <2>4. CASE Calls(w, m, Done, putBack, putBack)
    BY <1>3, <2>2, <2>3, <2>4, CallWaits
  <2>5. CASE Becomes(w, putBack) /\ UNCHANGED <<serviceVars, late, failures>>
    BY <2>3, <2>5, ReadWaits
  <2>. QED  BY <1>9, <2>4, <2>5 DEF CallChangeBooking
<1>10. ASSUME ReadWithdrawn(w) PROVE WaitOK'
  <2>1. Reads(w, To(w, "reinstate")) \/ Reads(w, Done) \/ ReadFails(w, Done)
    BY <1>10 DEF ReadWithdrawn
  <2>. QED  BY <1>3, <1>4, <1>5, <2>1
<1>11. ASSUME CallReinstate(w) PROVE WaitOK'
  <2> PICK m : m = [call |-> "restore", round |-> r.round, next |-> NoRound]
    OBVIOUS
  <2>1. /\ Carries(m) /\ m.call \notin {"decide", "submitEvent", "saveDetails"}
        /\ \A i \in RoundIds : ~Removes(m, i)
    BY IdsAssumption DEF Carries, EventCalls, BookingCalls, RoundOrNone, Removes
  <2>2. Calls(w, m, To(w, "restoreEvent"), Done, Done)
    BY <1>11 DEF CallReinstate
  <2>. QED  BY <1>3, <1>4, <2>1, <2>2, CallWaits
<1>12. ASSUME CallRestoreEvent(w) PROVE WaitOK'
  <2>1. r.pc \in VenuePcs /\ r.pc \in RoundPcs
    BY <1>12 DEF CallRestoreEvent, At, VenuePcs, RoundPcs
  <2> PICK m : m = [call |-> "restoreEvent", event |-> r.event, by |-> r.by, round |-> r.round]
    OBVIOUS
  <2>2. /\ Carries(m) /\ m.call \notin {"decide", "submitEvent", "saveDetails"}
        /\ \A i : ~Removes(m, i)
    BY <1>1, <2>1 DEF Carries, EventCalls, BookingCalls, Removes
  <2>3. Calls(w, m, Done, Done, Done)
    BY <1>12 DEF CallRestoreEvent
  <2>. QED  BY <1>3, <2>2, <2>3, CallWaits
<1>. QED  BY <1>6, <1>7, <1>8, <1>9, <1>10, <1>11, <1>12 DEF VenueChangeStep

(* A belated call: a round it removes nobody else keeps, and a decision it *)
(* undoes is undone.                                                       *)
LEMMA LateCallWaits ==
    ASSUME Inv, StampsOK, WaitOK, LateCall
    PROVE  WaitOK'
<1> PICK m \in late : Executes(m) /\ late' = late \ {m} /\ UNCHANGED <<requests, started, failures>>
  BY DEF LateCall
<1>1. /\ Carries(m) /\ m.call \notin {"decide", "submitEvent", "saveDetails"}
      /\ Live \subseteq RoundIds /\ RecordsInv
  BY DEF Inv, ServiceInv, RequestsOK, RecordsInv, RecordsTypeOK, StampsOK, WaitOK, KeptOK
<1>2. \A i : ~Due(m, i)
  BY <1>1 DEF Due
<1>3. \A i \in RoundIds : Removes(m, i) => Unspent(i) /\ \A w \in Workers : ~Keeps(requests[w], i)
  BY DEF WaitOK, KeptOK
<1>4. RowsFollow(m) /\ used \subseteq used' /\ \A i \in RoundIds : Unspent(i) => Unspent(i)'
  BY <1>1, <1>2, CallOnRows, ExecutedRounds
<1>5. late' \subseteq late /\ requests' = requests
  OBVIOUS
<1>6. KeptOK'
  <2>1. \A n \in late' : n.call \notin {"submitEvent", "saveDetails"}
    BY <1>5 DEF WaitOK, KeptOK
  <2>2. ASSUME NEW i \in RoundIds
        PROVE  /\ \A w \in Workers : Keeps(requests[w], i) => Unspent(i)'
               /\ \A n \in late' : Removes(n, i) => Unspent(i)'
               /\ \A v, w \in Workers : Keeps(requests[v], i) /\ Keeps(requests[w], i) => v = w
               /\ \A w \in Workers, n \in late' : ~(Keeps(requests[w], i) /\ Removes(n, i))
    BY <1>4, <1>5 DEF WaitOK, KeptOK
  <2>. QED  BY <1>5, <2>1, <2>2 DEF KeptOK
<1>7. PlacedOK'
  <2>1. EventsPlaced'
    BY <1>1, <1>2, <1>3, EventsStayPlaced DEF WaitOK, PlacedOK
  <2>2. ASSUME NEW w \in Workers PROVE Placed(requests[w])'
    <3> PICK r : r = requests[w]
      OBVIOUS
    <3>1. Placed(r) /\ \A i \in Live : Keeps(r, i) => ~Removes(m, i)
      BY <1>1, <1>3 DEF WaitOK, PlacedOK
    <3>2. Placed(r)'
      BY <1>4, <3>1, PlaceStays
    <3>. QED  BY <3>2
  <2>. QED  BY <1>5, <2>1, <2>2 DEF PlacedOK
<1>8. HeldOK'
  <2>1. ASSUME NEW i \in Live', Unsettled(i)' PROVE Held(i)'
    <3>1. i \in Live /\ ~DecisionUndone(m, i) /\ ~DecisionMade(m, i)
      BY <1>1, <1>4, <2>1 DEF RowsFollow, Unsettled, DecisionUndone, DecisionMade
    <3>2. Unsettled(i)
      <4>1. DecisionStays(m, i)
        BY <1>4, <2>1, <3>1 DEF RowsFollow
      <4>2. \A e \in Events : events[e].decided \subseteq events'[e].decided
        BY <1>1, CallOnMoves
      <4>. QED  BY <2>1, <4>1, <4>2 DEF Unsettled, DecisionStays
    <3>3. Held(i)
      BY <3>1, <3>2 DEF WaitOK, HeldOK
    <3>4. \A u : ~Undoes(m, i, u)
      <4> SUFFICES ASSUME NEW u, Undoes(m, i, u) PROVE FALSE
        OBVIOUS
      <4>1. m.call = "reopen" /\ m.round = i /\ Stands(m.round, m.stamp)
        BY <1>1, <3>1 DEF StampsOK, Undoes
      <4>2. ~Unsettled(m.round)'
        BY <1>1, <4>1, UndoSettles
      <4>. QED  BY <2>1, <4>1, <4>2
    <3>5. (\E w \in Workers : \E t : Owns(requests[w], i, t)) \/ (\E n \in late' : \E t : Undoes(n, i, t))
      BY <3>3, <3>4 DEF Held
    <3>. QED  BY <1>5, <3>5 DEF Held
  <2>. QED  BY <2>1 DEF HeldOK
<1>. QED  BY <1>6, <1>7, <1>8 DEF WaitOK

(* A request that begins has nothing in its hands. *)
LEMMA BeginWaits ==
    ASSUME Inv, WaitOK, NEW w \in Workers, Begin(w)
    PROVE  WaitOK'
<1> PICK q : /\ q.pc \in {"findRound", "readiness", "readApproval", "readEvent", "changeBooking"}
             /\ Begins(w, q)
  BY Beginnings
<1>1. q.pc \in FreePcs
  BY DEF FreePcs, Pcs, SubmitPcs, DecidePcs, WithdrawPcs, VenuePcs, OwnerPcs
<1>2. requests[w].pc \notin OwnerPcs
  BY DEF Begins, At, OwnerPcs
<1>3. WaitsOn(q, requests[w])
  BY <1>1, <1>2, FreeWaits
<1>. QED  BY <1>3, ReadWaits DEF Begins

(* Staff and the coordinators leave the rounds, and what an event has to   *)
(* do with them.                                                           *)
LEMMA OthersLeaveRounds ==
    ASSUME Inv, StaffStep \/ CoordinatorStep
    PROVE  \A e \in Events : Leaves(events[e], events'[e])
<1>1. EventsInv /\ events \in [Events -> EventRecord]
  BY DEF Inv, ServiceInv, EventsInv, EventsTypeOK
<1>2. CASE StaffStep
  BY <1>2 DEF StaffStep, Leaves
<1>3. CASE CoordinatorStep
  <2>1. PICK e \in Events, c \in Coordinators :
           (\E d \in Details : EditDetails(e, c, d)) \/ RecordProgress(e, c) \/ Reassign(e, c)
    BY <1>3 DEF CoordinatorStep
  <2>2. events[e] \in EventRecord
    BY <1>1
  <2>3. ASSUME NEW row, Leaves(events[e], row), Saves(e, row)
        PROVE  \A f \in Events : Leaves(events[f], events'[f])
    BY <1>1, <2>3 DEF Saves, Leaves
  <2>4. ASSUME NEW d \in Details, EditDetails(e, c, d)
        PROVE  Saves(e, Edited(events[e], d)) /\ Leaves(events[e], Edited(events[e], d))
    BY <2>2, <2>4, LeavingRows DEF EditDetails, SaveDetails, CanSaveDetails
  <2>5. ASSUME RecordProgress(e, c)
        PROVE  /\ Saves(e, [events[e] EXCEPT !.undo = NoRound])
               /\ Leaves(events[e], [events[e] EXCEPT !.undo = NoRound])
    BY <2>2, <2>5, LeavingRows DEF RecordProgress
  <2>6. ASSUME Reassign(e, c)
        PROVE  Saves(e, Reassigned(events[e], c)) /\ Leaves(events[e], Reassigned(events[e], c))
    BY <2>2, <2>6, LeavingRows DEF Reassign
  <2>. QED  BY <2>1, <2>3, <2>4, <2>5, <2>6
<1>. QED  BY <1>2, <1>3

(* A step that touches no round and no request keeps everything in place,  *)
(* whatever else it saves of the events.                                   *)
LEMMA OthersWait ==
    ASSUME Inv, WaitOK, UNCHANGED <<rounds, used, requests, late>>,
           \A e \in Events : Leaves(events[e], events'[e])
    PROVE  WaitOK'
<1>1. /\ \A i : Unspent(i)' <=> Unspent(i)
      /\ \A i : Unsettled(i)' <=> Unsettled(i)
      /\ \A i : Held(i)' <=> Held(i)
  BY DEF Leaves, Unspent, Unsettled, Held
<1>2. \A r : Placed(r)' <=> Placed(r)
  BY DEF Placed, RoundsOf, Live
<1>3. EventsPlaced'
  BY DEF WaitOK, PlacedOK, EventsPlaced, Leaves, Status, RoundsOf, Live
<1>4. PlacedOK'
  BY <1>2, <1>3 DEF WaitOK, PlacedOK
<1>. QED  BY <1>1, <1>4 DEF WaitOK, KeptOK, HeldOK, Live

(* At first there are no rounds. *)
LEMMA InitWaits ==
    ASSUME ServiceInit
    PROVE  WaitOK
<1>1. \A w \in Workers : requests[w].pc = "idle"
  BY DoneFields DEF ServiceInit
<1>2. late = {} /\ Live = {} /\ \A e \in Events : events[e].decided = {} /\ Status(e) = "Approved"
  BY DEF ServiceInit, RecordsInit, EventsInit, NewlyApproved, Status, Live
<1>. QED  BY <1>1, <1>2 DEF WaitOK, KeptOK, PlacedOK, EventsPlaced, HeldOK, Keeps, Placed

(* Every step keeps each round with the one who opened it, and each        *)
(* decision with the one who made it.                                      *)
LEMMA NextWaits ==
    ASSUME DecisionsAnswered, UndoArrives, SubmissionsAnswered, Inv, StampsOK, WaitOK, [Next]_vars
    PROVE  WaitOK'
<1>1. CASE UNCHANGED vars
  BY <1>1, OthersWait DEF vars, serviceVars, recordVars, Leaves
<1>2. CASE StaffStep \/ CoordinatorStep
  <2>1. UNCHANGED <<rounds, used, requests, late>>
    BY <1>2 DEF StaffStep, CoordinatorStep, recordVars
  <2>. QED  BY <1>2, <2>1, OthersLeaveRounds, OthersWait
<1>3. ASSUME NEW w \in Workers, DecideStep(w) PROVE WaitOK'
  BY <1>3, DecideReadsWait, DecideWaits, ResetWaits, MoveWaits, ReopenWaits, ReleaseWaits DEF DecideStep
<1>4. ASSUME NEW w \in Workers, Begin(w) \/ Step(w) PROVE WaitOK'
  BY <1>3, <1>4, BeginWaits, SubmitStepWaits, RecheckStepWaits, VenueChangeStepWaits DEF Step
<1>. QED  BY <1>1, <1>2, <1>4, LateCallWaits DEF Next

(* When every request has ended, no decision is in anybody's hands.        *)
LEMMA SettledWaits ==
    ASSUME Inv, WaitOK
    PROVE  WaitsForAnOpenRound
<1> SUFFICES ASSUME Settled, NEW e \in Events, Status(e) = "Pending Safety Check"
             PROVE  events[e].submitted \in OpenRounds(e)
  BY DEF WaitsForAnOpenRound
<1> PICK i : i = events[e].submitted
  OBVIOUS
<1>1. i \in RoundsOf(e) /\ i \in Live /\ rounds[i].event = e
  BY DEF WaitOK, PlacedOK, EventsPlaced, RoundsOf
<1>2. ~Held(i)
  BY DoneFields DEF Settled, Held, Owns, OwnerPcs, Done
<1>3. \A f \in Events : i \notin events[f].decided
  <2>1. \A f \in Events : i \in events[f].decided => f = e
    BY <1>1 DEF WaitOK, PlacedOK, EventsPlaced, RoundsOf
  <2>. QED  BY <2>1 DEF Inv, HandsOK, WaitsForANewRound
<1>4. rounds[i].decidedAt = 0
  BY <1>1, <1>2, <1>3 DEF WaitOK, HeldOK, Unsettled
<1>5. rounds[i].status = "Pending"
  BY <1>1, <1>4 DEF Inv, ServiceInv, RecordsInv, DecisionIsWhole
<1>. QED  BY <1>1, <1>5 DEF OpenRounds

(* _compensate_decision leaves no event stuck: while decisions and         *)
(* submissions are answered, and an undo reaches the record sooner or      *)
(* later, an event that is Pending Safety Check once every request has     *)
(* ended has its own round open, and can be decided.  Whatever else is     *)
(* lost, delayed or compensated, and however many reviews, re-checks and   *)
(* changes of bookings overlap.                                            *)
THEOREM WaitingEventsCanBeDecided ==
    DecisionsAnswered /\ UndoArrives /\ SubmissionsAnswered => (Spec => []WaitsForAnOpenRound)
<1> SUFFICES ASSUME DecisionsAnswered, UndoArrives, SubmissionsAnswered
             PROVE  Spec => []WaitsForAnOpenRound
  OBVIOUS
<1> DEFINE I == Inv /\ StampsOK /\ WaitOK
<1>1. ServiceInit => I
  BY ServiceInitHasInv, InitHasStamps, InitWaits
<1>2. I /\ [Next]_vars => I'
  BY ServiceNextKeepsInv, NextKeepsStamps, NextWaits
<1>3. I => WaitsForAnOpenRound
  BY SettledWaits
<1>. QED  BY <1>1, <1>2, <1>3, PTL DEF Spec

----------------------------------------------------------------------------
(* One request at a time.                                                  *)

(* No two requests about the same event are in progress at once. *)
OneAtATime ==
    \A v, w \in Workers :
        v # w /\ requests[v].pc # "idle" /\ requests[w].pc # "idle" => requests[v].event # requests[w].event

(* The failures that the handlers compensate: *)
FailuresAreCompensated ==
    /\ \A c \in RecordCalls \cup EventCalls : <<"late", c>> \notin Faults
    /\ \A c \in {"delete", "reopen", "restore"} : <<"undelivered", c>> \notin Faults
    /\ \A c \in {"create", "withdraw", "submitEvent", "saveDetails"} : <<"lost", c>> \notin Faults
    /\ \/ MaxFailures <= 1
       \/ <<"undelivered", "read">> \notin Faults
       \/ <<"lost", "decide">> \notin Faults /\ <<"lost", "moveDecided">> \notin Faults

(* The rounds of an event in a table, and which of them are open. *)
RowsOf(tab, e) == {i \in DOMAIN tab : tab[i].event = e}
LastRow(tab, e, i) == i \in RowsOf(tab, e) /\ \A j \in RowsOf(tab, e) : tab[j].number <= tab[i].number
NoneOpen(tab, e) == \A j \in RowsOf(tab, e) : tab[j].status # "Pending"
OnlyOpen(tab, e, i) ==
    LastRow(tab, e, i) /\ tab[i].status = "Pending" /\ \A j \in RowsOf(tab, e) : tab[j].status = "Pending" => j = i
LastIs(tab, e, i, s) == LastRow(tab, e, i) /\ tab[i].status = s /\ NoneOpen(tab, e)
Succeeded(tab, e, i, j) ==
    /\ i \in RowsOf(tab, e) /\ tab[i].status = "Approval Withdrawn"
    /\ OnlyOpen(tab, e, j) /\ tab[j].number = tab[i].number + 1

SameRows(tab, new, e) ==
    RowsOf(new, e) = RowsOf(tab, e) /\ \A i \in RowsOf(tab, e) : new[i] = tab[i]
Elsewhere(tab, new, e) == \A f \in Events : f # e => SameRows(tab, new, f)

(* The latest round is one: no other has its number. *)
LEMMA OneLatest ==
    ASSUME RecordsInv, NEW e, NEW i, NEW j, LastRow(rounds, e, i), LastRow(rounds, e, j)
    PROVE  i = j
<1>1. RecordsTypeOK /\ UniqueNumbers /\ i \in Live /\ j \in Live
  BY DEF RecordsInv, LastRow, RowsOf, Live
<1>2. rounds[i].number \in Nat /\ rounds[j].number \in Nat
  BY <1>1, Rows
<1>3. rounds[i].number = rounds[j].number /\ rounds[i].event = rounds[j].event
  BY <1>2 DEF LastRow, RowsOf
<1>. QED  BY <1>1, <1>3 DEF UniqueNumbers

(* A round created for an event with none open is its latest and only open *)
(* one.                                                                    *)
LEMMA CreateOpens ==
    ASSUME RecordsInv, NEW e \in Events, NEW i, CreateRound(e, i), NoneOpen(rounds, e)
    PROVE  OnlyOpen(rounds', e, i) /\ Elsewhere(rounds, rounds', e)
<1>1. RecordsTypeOK /\ \A j \in Live : rounds[j].number \in Nat
  BY Rows DEF RecordsInv
<1>2. PICK n \in {rounds[j].number + 1 : j \in RoundsOf(e)} \cup {1} :
         NextNumber(e, n) /\ rounds' = With(rounds, i, OpenRound(e, n))
  BY DEF CreateRound
<1> PICK row : row = OpenRound(e, n)
  OBVIOUS
<1>3. row.event = e /\ row.status = "Pending" /\ row.number = n
  BY DEF OpenRound
<1>4. i \notin Live
  BY <1>1 DEF CreateRound, Fresh, RecordsTypeOK
<1>5. /\ DOMAIN rounds' = DOMAIN rounds \cup {i} /\ rounds'[i] = row
      /\ \A j \in DOMAIN rounds : rounds'[j] = rounds[j]
  <2>1. i \notin DOMAIN rounds /\ rounds' = With(rounds, i, row)
    BY <1>2, <1>4 DEF Live
  <2>. QED  BY ONLY <2>1, InsertedRow DEF Live
<1>6. \A j \in RowsOf(rounds, e) : rounds[j].number <= n
  BY <1>1, <1>2 DEF NextNumber, RowsOf, RoundsOf, Live, IsLatest
<1>7. n \in Nat
  BY <1>1, <1>2 DEF RoundsOf
<1>8. RowsOf(rounds', e) = RowsOf(rounds, e) \cup {i}
  BY <1>3, <1>5 DEF RowsOf
<1>9. OnlyOpen(rounds', e, i)
  BY <1>3, <1>5, <1>6, <1>7, <1>8 DEF OnlyOpen, LastRow, NoneOpen, RowsOf
<1>10. Elsewhere(rounds, rounds', e)
  BY <1>3, <1>4, <1>5 DEF Elsewhere, SameRows, RowsOf, Live
<1>. QED  BY <1>9, <1>10

(* The only open round can be deleted, and then none is open. *)
LEMMA DeleteCloses ==
    ASSUME RecordsInv, NEW e \in Events, NEW i, OnlyOpen(rounds, e, i)
    PROVE  /\ CanDelete(i)
           /\ DeleteRound(i) => NoneOpen(rounds', e) /\ Elsewhere(rounds, rounds', e)
<1>1. i \in Live /\ rounds[i].event = e /\ rounds[i].status = "Pending"
  BY DEF OnlyOpen, LastRow, RowsOf, Live
<1>2. CanDelete(i)
  BY <1>1 DEF RecordsInv, DecisionIsWhole, CanDelete, Undecided
<1>3. ASSUME DeleteRound(i) PROVE NoneOpen(rounds', e) /\ Elsewhere(rounds, rounds', e)
  <2>1. DOMAIN rounds' = DOMAIN rounds \ {i} /\ \A j \in DOMAIN rounds' : rounds'[j] = rounds[j]
    BY <1>3 DEF DeleteRound, Without
  <2>2. NoneOpen(rounds', e)
    BY <2>1 DEF OnlyOpen, NoneOpen, RowsOf
  <2>3. Elsewhere(rounds, rounds', e)
    BY <1>1, <2>1 DEF Elsewhere, SameRows, RowsOf
  <2>. QED  BY <2>2, <2>3
<1>. QED  BY <1>2, <1>3

(* An UPDATE of the status of the latest round.                            *)
LEMMA UpdateOfLatest ==
    ASSUME RecordsInv, NEW e \in Events, NEW i, LastRow(rounds, e, i),
           NEW row, rounds' = [rounds EXCEPT ![i] = row],
           row.event = rounds[i].event, row.number = rounds[i].number
    PROVE  /\ LastRow(rounds', e, i) /\ rounds'[i] = row /\ Elsewhere(rounds, rounds', e)
           /\ RowsOf(rounds', e) = RowsOf(rounds, e)
           /\ \A j \in RowsOf(rounds, e) \ {i} : rounds'[j] = rounds[j]
<1>1. i \in Live /\ RecordsTypeOK /\ rounds[i].event = e
  BY DEF LastRow, RowsOf, Live, RecordsInv
<1>2. Live' = Live /\ rounds'[i] = row /\ \A j \in Live \ {i} : rounds'[j] = rounds[j]
  BY <1>1, UpdatedTable
<1>3. \A j \in Live : rounds'[j].event = rounds[j].event /\ rounds'[j].number = rounds[j].number
  BY <1>2
<1>4. \A f : RowsOf(rounds', f) = RowsOf(rounds, f)
  BY <1>2, <1>3 DEF RowsOf, Live
<1>5. LastRow(rounds', e, i)
  BY <1>3, <1>4 DEF LastRow, RowsOf, Live
<1>6. Elsewhere(rounds, rounds', e)
  BY <1>1, <1>2, <1>4 DEF Elsewhere, SameRows, RowsOf, Live
<1>. QED  BY <1>2, <1>4, <1>5, <1>6 DEF RowsOf, Live

(* A decision of the only open round leaves none open.                     *)
LEMMA DecideCloses ==
    ASSUME RecordsInv, NEW e \in Events, NEW i, OnlyOpen(rounds, e, i), NEW s \in DecisionStatuses,
           DecideRound(i, s)
    PROVE  LastIs(rounds', e, i, s) /\ rounds'[i].decidedAt = clock' /\ Elsewhere(rounds, rounds', e)
<1>1. i \in Live /\ RecordsTypeOK /\ LastRow(rounds, e, i) /\ RecordsInv /\ e \in Events
  BY DEF OnlyOpen, LastRow, RowsOf, Live, RecordsInv
<1>2. rounds[i] \in Round /\ clock \in Nat /\ clock' = clock + 1 /\ s \in RecordStatuses /\ s # "Pending"
  BY <1>1, Rows, ClockIsNat DEF DecideRound, RecordStatuses, DecisionStatuses
<1> PICK row : row = Decided(rounds[i], s, clock + 1)
  OBVIOUS
<1>3. row.event = rounds[i].event /\ row.number = rounds[i].number /\ row.status = s /\ row.decidedAt = clock'
  BY <1>2, DecidedRow
<1>4. rounds' = [rounds EXCEPT ![i] = row]
  BY DEF DecideRound
<1>5. /\ LastRow(rounds', e, i) /\ rounds'[i] = row /\ Elsewhere(rounds, rounds', e)
      /\ RowsOf(rounds', e) = RowsOf(rounds, e)
      /\ \A j \in RowsOf(rounds, e) \ {i} : rounds'[j] = rounds[j]
  BY ONLY <1>1, <1>3, <1>4, UpdateOfLatest
<1>. QED  BY <1>2, <1>3, <1>5 DEF LastIs, NoneOpen, OnlyOpen

(* The undo of the decision made last opens its round again.               *)
LEMMA ReopenOpens ==
    ASSUME RecordsInv, NEW e \in Events, NEW i, NEW s \in DecisionStatuses, LastIs(rounds, e, i, s),
           NEW t, t = rounds[i].decidedAt
    PROVE  /\ CanReopen(i, t)
           /\ ReopenRound(i, t) => OnlyOpen(rounds', e, i) /\ Elsewhere(rounds, rounds', e)
<1>1. i \in Live /\ RecordsTypeOK /\ LastRow(rounds, e, i) /\ s # "Pending" /\ RecordsInv /\ e \in Events
  BY DEF LastIs, LastRow, RowsOf, Live, RecordsInv, DecisionStatuses
<1>2. CanReopen(i, t)
  BY <1>1 DEF CanReopen, LastIs, RecordsInv, DecisionIsWhole
<1>3. ASSUME ReopenRound(i, t) PROVE OnlyOpen(rounds', e, i) /\ Elsewhere(rounds, rounds', e)
  <2>1. "Pending" \in RecordStatuses /\ 0 \in Nat /\ rounds[i] \in Round
    BY <1>1, Rows DEF RecordStatuses
  <2> PICK row : row = Decided(rounds[i], "Pending", 0)
    OBVIOUS
  <2>2. row.event = rounds[i].event /\ row.number = rounds[i].number /\ row.status = "Pending"
    BY <2>1, DecidedRow
  <2>3. rounds' = [rounds EXCEPT ![i] = row]
    BY <1>3 DEF ReopenRound
  <2>4. /\ LastRow(rounds', e, i) /\ rounds'[i] = row /\ Elsewhere(rounds, rounds', e)
        /\ RowsOf(rounds', e) = RowsOf(rounds, e)
        /\ \A j \in RowsOf(rounds, e) \ {i} : rounds'[j] = rounds[j]
    BY ONLY <1>1, <2>2, <2>3, UpdateOfLatest
  <2>. QED  BY <2>2, <2>4 DEF LastIs, NoneOpen, OnlyOpen
<1>. QED  BY <1>2, <1>3

(* The withdrawal of the latest round's approval, with no round after it.  *)
LEMMA WithdrawCloses ==
    ASSUME RecordsInv, NEW e \in Events, NEW i, LastIs(rounds, e, i, "Safety Approved"),
           WithdrawApproval(i, NoRound)
    PROVE  LastIs(rounds', e, i, "Approval Withdrawn") /\ Elsewhere(rounds, rounds', e)
<1>1. i \in Live /\ RecordsTypeOK /\ LastRow(rounds, e, i) /\ RecordsInv /\ e \in Events
  BY DEF LastIs, LastRow, RowsOf, Live, RecordsInv
<1> PICK row : row = Withdrawn(rounds[i])
  OBVIOUS
<1>2. row.event = rounds[i].event /\ row.number = rounds[i].number /\ row.status = "Approval Withdrawn"
  BY <1>1, Rows, WithdrawnRow
<1>3. rounds' = [rounds EXCEPT ![i] = row]
  BY IdsAssumption DEF WithdrawApproval, Fresh
<1>4. /\ LastRow(rounds', e, i) /\ rounds'[i] = row /\ Elsewhere(rounds, rounds', e)
      /\ RowsOf(rounds', e) = RowsOf(rounds, e)
      /\ \A j \in RowsOf(rounds, e) \ {i} : rounds'[j] = rounds[j]
  BY ONLY <1>1, <1>2, <1>3, UpdateOfLatest
<1>. QED  BY <1>2, <1>4 DEF LastIs, NoneOpen

(* The withdrawal that opens the next round.                               *)
LEMMA WithdrawOpens ==
    ASSUME RecordsInv, NEW e \in Events, NEW i, LastIs(rounds, e, i, "Safety Approved"),
           NEW j \in RoundIds, WithdrawApproval(i, j)
    PROVE  Succeeded(rounds', e, i, j) /\ Elsewhere(rounds, rounds', e)
<1>1. i \in Live /\ RecordsTypeOK /\ LastRow(rounds, e, i) /\ rounds[i].event = e
  BY DEF LastIs, LastRow, RowsOf, Live, RecordsInv
<1>2. \A k \in Live : rounds[k].number \in Nat
  BY <1>1, Rows
<1> PICK row : row = Withdrawn(rounds[i])
  OBVIOUS
<1>3. row.event = e /\ row.number = rounds[i].number /\ row.status = "Approval Withdrawn"
  BY <1>1, Rows, WithdrawnRow
<1> PICK table : table = [rounds EXCEPT ![i] = row]
  OBVIOUS
<1>4. /\ DOMAIN table = Live /\ table[i] = row
      /\ \A k \in Live \ {i} : table[k] = rounds[k]
  BY <1>1 DEF RecordsTypeOK, Live
<1> PICK open : open = OpenRound(e, rounds[i].number + 1)
  OBVIOUS
<1>5. open.event = e /\ open.number = rounds[i].number + 1 /\ open.status = "Pending"
  BY DEF OpenRound
<1>6. j \notin DOMAIN table /\ rounds' = With(table, j, open)
  BY <1>1, <1>4, IdsAssumption DEF WithdrawApproval, Fresh, RecordsTypeOK
<1>7. Live' = DOMAIN table \cup {j} /\ rounds'[j] = open /\ \A k \in DOMAIN table : rounds'[k] = table[k]
  BY ONLY <1>6, InsertedRow
<1>8. /\ DOMAIN rounds' = Live \cup {j} /\ i # j /\ j \notin Live
      /\ rounds'[j] = open /\ rounds'[i] = row /\ \A k \in Live \ {i} : rounds'[k] = rounds[k]
  BY <1>1, <1>4, <1>6, <1>7 DEF Live
<1>9. RowsOf(rounds', e) = RowsOf(rounds, e) \cup {j}
  BY <1>1, <1>3, <1>5, <1>8 DEF RowsOf, Live
<1>10. \A k \in RowsOf(rounds, e) : rounds'[k].number <= rounds[i].number /\ rounds'[k].number \in Nat
  BY <1>1, <1>2, <1>3, <1>8 DEF LastRow, RowsOf, Live
<1>11. LastRow(rounds', e, j)
  <2> PICK n : n = rounds[i].number
    OBVIOUS
  <2>6. n \in Nat
    BY <1>1, <1>2
  <2>7. open.number = n + 1 /\ rounds'[j] = open
    BY <1>5, <1>8
  <2>1. n \in Nat /\ rounds'[j].number = n + 1
    BY ONLY <2>6, <2>7
  <2>2. ASSUME NEW k \in RowsOf(rounds, e) PROVE rounds'[k].number <= rounds'[j].number
    <3> PICK a : a = rounds'[k].number
      OBVIOUS
    <3>1. a \in Nat /\ a <= n
      BY <1>10
    <3>2. a <= n + 1
      BY ONLY <2>1, <3>1
    <3>. QED  BY <2>1, <3>2
  <2>3. rounds'[j].number <= rounds'[j].number
    BY ONLY <2>1
  <2>4. \A k \in RowsOf(rounds', e) : rounds'[k].number <= rounds'[j].number
    BY <1>9, <2>2, <2>3
  <2>5. j \in RowsOf(rounds', e)
    BY <1>9
  <2>. QED  BY <2>4, <2>5 DEF LastRow
<1>12. \A k \in RowsOf(rounds', e) : rounds'[k].status = "Pending" => k = j
  BY <1>3, <1>8, <1>9 DEF LastIs, NoneOpen, RowsOf, Live
<1>13. Succeeded(rounds', e, i, j)
  BY <1>1, <1>3, <1>5, <1>8, <1>9, <1>11, <1>12 DEF Succeeded, OnlyOpen, RowsOf, Live
<1>14. Elsewhere(rounds, rounds', e)
  BY <1>1, <1>3, <1>5, <1>8 DEF Elsewhere, SameRows, RowsOf, Live
<1>. QED  BY <1>13, <1>14

(* The undo of a withdrawal, without a round opened since: the approval is *)
(* the event's latest round again.                                         *)
LEMMA RestoreReinstates ==
    ASSUME RecordsInv, NEW e \in Events, NEW i, LastIs(rounds, e, i, "Approval Withdrawn")
    PROVE  /\ CanRestore(i, NoRound)
           /\ RestoreApproval(i, NoRound) =>
                 LastIs(rounds', e, i, "Safety Approved") /\ Elsewhere(rounds, rounds', e)
<1>1. i \in Live /\ RecordsTypeOK /\ LastRow(rounds, e, i) /\ RecordsInv /\ e \in Events
      /\ rounds[i].status = "Approval Withdrawn" /\ rounds[i].event = e
  BY DEF LastIs, LastRow, RowsOf, Live, RecordsInv
<1>2. CanRestore(i, NoRound) /\ ~AlreadyRestored(i)
  BY <1>1 DEF CanRestore, CanReinstate, AlreadyRestored, IsLatest, RoundsOf, LastRow, RowsOf, Live
<1>3. ASSUME RestoreApproval(i, NoRound)
      PROVE  LastIs(rounds', e, i, "Safety Approved") /\ Elsewhere(rounds, rounds', e)
  <2> PICK row : row = Reinstated(rounds[i])
    OBVIOUS
  <2>1. row.event = rounds[i].event /\ row.number = rounds[i].number /\ row.status = "Safety Approved"
    BY <1>1, Rows, ReinstatedRow
  <2> PICK table : table = [rounds EXCEPT ![i] = row]
    OBVIOUS
  <2>2. DOMAIN table = Live /\ NoRound \notin Live
    BY <1>1, IdsAssumption DEF RecordsTypeOK, Live
  <2>3. rounds' = Without(table, NoRound)
    BY <1>2, <1>3 DEF RestoreApproval
  <2>4. rounds' = [k \in Live |-> table[k]]
    BY <2>2, <2>3 DEF Without
  <2>5. rounds' = [rounds EXCEPT ![i] = row]
    BY <2>4 DEF Live
  <2>6. /\ LastRow(rounds', e, i) /\ rounds'[i] = row /\ Elsewhere(rounds, rounds', e)
        /\ RowsOf(rounds', e) = RowsOf(rounds, e)
        /\ \A j \in RowsOf(rounds, e) \ {i} : rounds'[j] = rounds[j]
    BY ONLY <1>1, <2>1, <2>5, UpdateOfLatest
  <2>. QED  BY <2>1, <2>6 DEF LastIs, NoneOpen
<1>. QED  BY <1>2, <1>3

(* The undo of a withdrawal that removes the round opened with it.         *)
LEMMA RestoreCloses ==
    ASSUME RecordsInv, NEW e \in Events, NEW i, NEW j \in RoundIds, Succeeded(rounds, e, i, j)
    PROVE  /\ CanRestore(i, j)
           /\ RestoreApproval(i, j) =>
                 LastIs(rounds', e, i, "Safety Approved") /\ Elsewhere(rounds, rounds', e)
<1>1. /\ i \in Live /\ j \in Live /\ RecordsTypeOK /\ UniqueNumbers /\ DecisionIsWhole
      /\ rounds[i].event = e /\ rounds[j].event = e /\ rounds[j].number = rounds[i].number + 1
      /\ rounds[i].status = "Approval Withdrawn" /\ rounds[j].status = "Pending"
  BY DEF Succeeded, OnlyOpen, LastRow, RowsOf, Live, RecordsInv
<1>2. CanRestore(i, j) /\ ~AlreadyRestored(i)
  BY <1>1, IdsAssumption
     DEF CanRestore, CanReinstate, AlreadyRestored, IsOpenSuccessor, Undecided, DecisionIsWhole
<1>3. ASSUME RestoreApproval(i, j)
      PROVE  LastIs(rounds', e, i, "Safety Approved") /\ Elsewhere(rounds, rounds', e)
  <2> PICK row : row = Reinstated(rounds[i])
    OBVIOUS
  <2>1. row.event = e /\ row.number = rounds[i].number /\ row.status = "Safety Approved"
    BY <1>1, Rows, ReinstatedRow
  <2> PICK table : table = [rounds EXCEPT ![i] = row]
    OBVIOUS
  <2>2. DOMAIN table = Live /\ table[i] = row /\ \A k \in Live \ {i} : table[k] = rounds[k]
    BY <1>1 DEF RecordsTypeOK, Live
  <2>3. rounds' = Without(table, j)
    BY <1>2, <1>3 DEF RestoreApproval
  <2>4. DOMAIN rounds' = Live \ {j} /\ \A k \in Live \ {j} : rounds'[k] = table[k]
    BY <2>2, <2>3 DEF Without
  <2>5. \A k \in Live : rounds[k].number \in Nat
    BY <1>1, Rows
  <2>6. i # j
    BY <1>1
  <2>7. \A k \in RowsOf(rounds, e) \ {j} : rounds[k].number <= rounds[i].number
    <3> TAKE k \in RowsOf(rounds, e) \ {j}
    <3>1. rounds[k].number <= rounds[j].number /\ k \in Live /\ rounds[k].event = e
      BY DEF Succeeded, OnlyOpen, LastRow, RowsOf, Live
    <3>2. rounds[k].number # rounds[j].number
      BY <1>1, <3>1 DEF UniqueNumbers
    <3> PICK a, b : a = rounds[k].number /\ b = rounds[i].number
      OBVIOUS
    <3>3. a \in Nat /\ b \in Nat /\ a <= b + 1 /\ a # b + 1
      BY <1>1, <2>5, <3>1, <3>2
    <3>4. a <= b
      BY ONLY <3>3
    <3>. QED  BY <3>4
  <2>8. RowsOf(rounds', e) = RowsOf(rounds, e) \ {j}
    BY <1>1, <2>1, <2>2, <2>4, <2>6 DEF RowsOf, Live
  <2>9. i \in RowsOf(rounds', e) /\ rounds'[i] = row
    BY <1>1, <2>2, <2>4, <2>6, <2>8 DEF RowsOf, Live
  <2>10. \A k \in RowsOf(rounds', e) : k # i => rounds'[k] = rounds[k]
    BY <2>2, <2>4, <2>8 DEF RowsOf, Live
  <2>11. LastRow(rounds', e, i)
    BY <1>1, <2>1, <2>5, <2>7, <2>8, <2>9, <2>10 DEF LastRow
  <2>12. NoneOpen(rounds', e)
    BY <2>1, <2>8, <2>9, <2>10 DEF NoneOpen, Succeeded, OnlyOpen
  <2>13. Elsewhere(rounds, rounds', e)
    BY <1>1, <2>1, <2>2, <2>4 DEF Elsewhere, SameRows, RowsOf, Live
  <2>. QED  BY <2>1, <2>9, <2>11, <2>12, <2>13 DEF LastIs
<1>. QED  BY <1>2, <1>3

----------------------------------------------------------------------------
(* What a request finds at each of its steps while it is the only one      *)
(* about its event.                                                        *)

(* No request about event e is in progress: its row and its rounds agree.  *)
Calm(row, tab, e) ==
    /\ row.status = "Pending Safety Check" => OnlyOpen(tab, e, row.submitted)
    /\ row.status = "Confirmed" => LastIs(tab, e, row.approval, "Safety Approved")
    /\ row.status \notin {"Pending Safety Check", "Confirmed"} => NoneOpen(tab, e)

(* An answer of call c may have been lost: n calls have failed. *)
LostOne(c, n) == <<"lost", c>> \in Faults /\ n > 0

Preparing == {"Approved", "Safety Changes Requested"}
Prepares(r, row, tab) == row.status \in Preparing /\ NoneOpen(tab, r.event)
Opened(r, row, tab) == row.status \in Preparing /\ OnlyOpen(tab, r.event, r.round)
Waits(r, row, tab) ==
    row.status = "Pending Safety Check" /\ row.submitted = r.round /\ OnlyOpen(tab, r.event, r.round)
Judged(r, row, tab) ==
    /\ row.status = "Pending Safety Check" /\ row.submitted = r.round
    /\ LastIs(tab, r.event, r.round, RecordStatusOf(r.kind))
Approved(r, row, tab) ==
    row.status = "Confirmed" /\ row.approval = r.round /\ LastIs(tab, r.event, r.round, "Safety Approved")
Withdrew(r, tab) ==
    IF r.kind = "recheck" THEN Succeeded(tab, r.event, r.round, r.next)
    ELSE r.next = NoRound /\ LastIs(tab, r.event, r.round, "Approval Withdrawn")

(* A submission, a decision, a withdrawal and a change of a booking.      *)
SubmitOrder(r, row, tab) ==
    /\ r.pc \in {"readiness", "createRound"} => Prepares(r, row, tab)
    /\ r.pc \in {"submitEvent", "deleteRound"} => Opened(r, row, tab)
DecideOrder(r, row, tab, n) ==
    /\ r.pc = "findRound" => row.status = "Pending Safety Check" /\ Calm(row, tab, r.event)
    /\ r.pc \in {"readArrangements", "decide"} => Waits(r, row, tab)
    /\ r.pc = "findDecision" => Waits(r, row, tab) \/ (Judged(r, row, tab) /\ LostOne("decide", n))
    /\ r.pc \in OwnerPcs => Judged(r, row, tab) /\ r.stamp = tab[r.round].decidedAt
    /\ r.pc = "findMove" =>
          \/ Judged(r, row, tab) /\ r.stamp = tab[r.round].decidedAt
          \/ Calm(row, tab, r.event) /\ row.status = EventStatusOf(r.kind) /\ LostOne("moveDecided", n)
    /\ r.pc = "release" => row.status = "Cancelled" /\ NoneOpen(tab, r.event)
WithdrawOrder(r, row, tab) ==
    /\ r.pc \in {"readEvent", "readApproval"} => row.status = "Confirmed" /\ Calm(row, tab, r.event)
    /\ r.pc = "withdraw" => Approved(r, row, tab)
    /\ r.pc \in {"readVenue", "saveDetails", "withdrawEvent"} =>
          row.status = "Confirmed" /\ row.approval = r.round /\ Withdrew(r, tab)
    /\ r.pc = "restore" =>
          /\ \/ row.status = "Confirmed" /\ row.approval = r.round
             \/ row.status = "Approved" /\ r.kind # "recheck"
          /\ Withdrew(r, tab)
    /\ r.kind = "recheck" => row.status = "Confirmed" /\ row.details # r.details
VenueOrder(r, row, tab) ==
    /\ r.pc = "changeBooking" /\ r.round = NoRound => Prepares(r, row, tab)
    /\ r.pc \in {"changeBooking", "readWithdrawn", "reinstate"} /\ r.round # NoRound =>
          row.status = "Approved" /\ LastIs(tab, r.event, r.round, "Approval Withdrawn")
    /\ r.pc = "restoreEvent" => row.status = "Approved" /\ LastIs(tab, r.event, r.round, "Safety Approved")

InOrder(r, row, tab, n) ==
    SubmitOrder(r, row, tab) /\ DecideOrder(r, row, tab, n) /\ WithdrawOrder(r, row, tab) /\ VenueOrder(r, row, tab)

Busy(e) == \E w \in Workers : requests[w].pc # "idle" /\ requests[w].event = e

SerialOK ==
    /\ \A m \in late : m.call \in BookingCalls
    /\ \A w \in Workers : requests[w].pc # "idle" =>
          InOrder(requests[w], events[requests[w].event], rounds, failures)
    /\ \A e \in Events : ~Busy(e) => Calm(events[e], rounds, e)

(* Nothing of that changes while the rounds of the event stay, and its     *)
(* status, its rounds and, once Confirmed, its details.                    *)
SameStory(row, new) ==
    /\ new.submitted = row.submitted /\ new.approval = row.approval
    /\ new.status = row.status \/ {new.status, row.status} \subseteq {"Submitted", "Under Review"}
    /\ row.status = "Confirmed" => new.details = row.details

(* The same rounds tell the same.                                          *)
LEMMA SameRowsTellTheSame ==
    ASSUME NEW tab, NEW new, NEW e, SameRows(tab, new, e)
    PROVE  /\ NoneOpen(tab, e) => NoneOpen(new, e)
           /\ \A i : OnlyOpen(tab, e, i) => OnlyOpen(new, e, i)
           /\ \A i, s : LastIs(tab, e, i, s) => LastIs(new, e, i, s) /\ new[i] = tab[i]
           /\ \A i, j : Succeeded(tab, e, i, j) => Succeeded(new, e, i, j)
<1>1. RowsOf(new, e) = RowsOf(tab, e) /\ \A i \in RowsOf(tab, e) : new[i] = tab[i]
  BY DEF SameRows
<1>2. NoneOpen(tab, e) => NoneOpen(new, e)
  BY <1>1 DEF NoneOpen
<1>3. \A i : LastRow(tab, e, i) => LastRow(new, e, i) /\ new[i] = tab[i]
  BY <1>1 DEF LastRow
<1>4. \A i : OnlyOpen(tab, e, i) => OnlyOpen(new, e, i) /\ new[i] = tab[i]
  BY <1>1, <1>3 DEF OnlyOpen
<1>5. \A i, j : Succeeded(tab, e, i, j) => Succeeded(new, e, i, j)
  BY <1>1, <1>4 DEF Succeeded
<1>. QED  BY <1>2, <1>3, <1>4, <1>5 DEF LastIs

(* An event that nobody works on stays calm.                               *)
LEMMA CalmStays ==
    ASSUME NEW row, NEW new, NEW tab, NEW tab2, NEW e,
           SameStory(row, new), SameRows(tab, tab2, e), Calm(row, tab, e)
    PROVE  Calm(new, tab2, e)
BY SameRowsTellTheSame DEF Calm, SameStory

(* A request that takes no step stays in order. *)
LEMMA OrderStays ==
    ASSUME NEW r, NEW row, NEW new, NEW tab, NEW tab2, NEW n \in Nat, NEW k \in Nat, n <= k,
           Knows(r), SameStory(row, new), SameRows(tab, tab2, r.event), InOrder(r, row, tab, n)
    PROVE  InOrder(r, new, tab2, k)
<1>1. \A c : LostOne(c, n) => LostOne(c, k)
  BY DEF LostOne
<1>2. r.pc = "findMove" => EventStatusOf(r.kind) \in SafetyTargets
  BY DEF Knows, DecidePcs, Decisions, EventStatusOf, SafetyTargets
<1>3. Calm(row, tab, r.event) => Calm(new, tab2, r.event)
  BY CalmStays
<1>4. /\ NoneOpen(tab, r.event) => NoneOpen(tab2, r.event)
      /\ \A i : OnlyOpen(tab, r.event, i) => OnlyOpen(tab2, r.event, i)
      /\ \A i, s : LastIs(tab, r.event, i, s) => LastIs(tab2, r.event, i, s) /\ tab2[i] = tab[i]
      /\ \A i, j : Succeeded(tab, r.event, i, j) => Succeeded(tab2, r.event, i, j)
  BY SameRowsTellTheSame
<1>5. /\ Prepares(r, row, tab) => Prepares(r, new, tab2)
      /\ Opened(r, row, tab) => Opened(r, new, tab2)
      /\ Waits(r, row, tab) => Waits(r, new, tab2)
      /\ Judged(r, row, tab) => Judged(r, new, tab2) /\ tab2[r.round] = tab[r.round]
      /\ Approved(r, row, tab) => Approved(r, new, tab2)
      /\ Withdrew(r, tab) => Withdrew(r, tab2)
  BY <1>4 DEF Prepares, Opened, Waits, Judged, Approved, Withdrew, SameStory, Preparing
<1>6. \A s : row.status = s /\ s \notin {"Submitted", "Under Review"} => new.status = s
  BY DEF SameStory
<1>7. SubmitOrder(r, new, tab2)
  BY <1>5 DEF InOrder, SubmitOrder
<1>8. DecideOrder(r, new, tab2, k)
  <2>1. r.pc = "findMove" =>
            \/ Judged(r, new, tab2) /\ r.stamp = tab2[r.round].decidedAt
            \/ Calm(new, tab2, r.event) /\ new.status = EventStatusOf(r.kind) /\ LostOne("moveDecided", k)
    BY <1>1, <1>2, <1>3, <1>5, <1>6 DEF InOrder, DecideOrder, SafetyTargets
  <2>. QED  BY <1>1, <1>3, <1>4, <1>5, <1>6, <2>1 DEF InOrder, DecideOrder
<1>9. WithdrawOrder(r, new, tab2)
  <2>1. r.kind = "recheck" => new.status = "Confirmed" /\ new.details # r.details
    BY <1>6 DEF InOrder, WithdrawOrder, SameStory
  <2>. QED  BY <1>3, <1>5, <1>6, <2>1 DEF InOrder, WithdrawOrder, SameStory
<1>10. VenueOrder(r, new, tab2)
  BY <1>4, <1>5, <1>6 DEF InOrder, VenueOrder
<1>. QED  BY <1>7, <1>8, <1>9, <1>10 DEF InOrder

(* A request at step q of the event e, or none, in keeping with its row.   *)
Fits(q, e, row, tab, n) ==
    IF q.pc = "idle" THEN Calm(row, tab, e) ELSE q.event = e /\ InOrder(q, row, tab, n)

(* A step that only touches event e. *)
OnlyTouches(e) == Elsewhere(rounds, rounds', e) /\ \A f \in Events : f # e => events'[f] = events[f]

(* What is untouched. *)
LEMMA Untouched ==
    ASSUME NEW row, NEW tab, NEW e
    PROVE  SameStory(row, row) /\ SameRows(tab, tab, e)
BY DEF SameStory, SameRows

(* No two requests work on one event, so each has its event to itself.     *)
LEMMA WorksAlone ==
    ASSUME OneAtATime, NEW w \in Workers, requests[w].pc # "idle"
    PROVE  \A v \in Workers : v # w /\ requests[v].pc # "idle" => requests[v].event # requests[w].event
BY DEF OneAtATime

(* A request takes its step on its event.                                  *)
LEMMA TakesItsStep ==
    ASSUME Inv, SerialOK, OneAtATime, NEW w \in Workers, requests[w].pc # "idle",
           NEW e, e = requests[w].event, NEW q, requests' = [requests EXCEPT ![w] = q],
           \A m \in late' : m.call \in BookingCalls,
           failures' \in Nat, failures <= failures',
           OnlyTouches(e), Fits(q, e, events'[e], rounds', failures')
    PROVE  SerialOK'
<1>1. requests \in [Workers -> Request] /\ failures \in Nat /\ e \in Events
  BY Serving DEF Inv, ServiceInv, RequestsOK, Knows
<1>2. requests'[w] = q /\ \A v \in Workers : v # w => requests'[v] = requests[v]
  BY <1>1
<1>3. ASSUME NEW v \in Workers, requests'[v].pc # "idle"
      PROVE  InOrder(requests'[v], events'[requests'[v].event], rounds', failures')
  <2>1. CASE v = w
    BY <1>2, <1>3, <2>1 DEF Fits
  <2>2. CASE v # w
    <3> PICK r, f : r = requests[v] /\ f = r.event
      OBVIOUS
    <3>1. r = requests'[v] /\ r.pc # "idle" /\ f # e /\ Knows(r) /\ f \in Events
      BY <1>2, <1>3, <2>2, WorksAlone, Serving DEF Knows
    <3> PICK row, new, tab, tab2, n, k : /\ row = events[f] /\ new = events'[f] /\ tab = rounds
                                         /\ tab2 = rounds' /\ n = failures /\ k = failures'
      OBVIOUS
    <3>2. InOrder(r, row, tab, n)
      BY <3>1 DEF SerialOK
    <3>3. SameRows(tab, tab2, r.event) /\ new = row /\ n \in Nat /\ k \in Nat /\ n <= k
      BY <1>1, <3>1 DEF OnlyTouches, Elsewhere
    <3>4. InOrder(r, new, tab2, k)
      BY <3>1, <3>2, <3>3, Untouched, OrderStays
    <3>. QED  BY <3>1, <3>4
  <2>. QED  BY <2>1, <2>2
<1>4. ASSUME NEW f \in Events, ~Busy(f)' PROVE Calm(events'[f], rounds', f)
  <2>1. CASE f = e
    <3>1. q.pc = "idle"
      BY <1>2, <1>4, <2>1 DEF Busy, Fits
    <3>. QED  BY <2>1, <3>1 DEF Fits
  <2>2. CASE f # e
    <3>1. ~Busy(f)
      BY <1>2, <1>4, <2>2 DEF Busy
    <3>2. Calm(events[f], rounds, f) /\ events'[f] = events[f] /\ SameRows(rounds, rounds', f)
      BY <2>2, <3>1 DEF SerialOK, OnlyTouches, Elsewhere
    <3> PICK row, tab, tab2 : row = events[f] /\ tab = rounds /\ tab2 = rounds'
      OBVIOUS
    <3>3. Calm(row, tab2, f)
      BY <3>2, Untouched, CalmStays
    <3>. QED  BY <3>2, <3>3
  <2>. QED  BY <2>1, <2>2
<1>. QED  BY <1>3, <1>4 DEF SerialOK

(* A step that calls nobody touches nothing.                               *)
LEMMA ReadFits ==
    ASSUME Inv, SerialOK, OneAtATime, NEW w \in Workers, requests[w].pc # "idle",
           NEW q, Becomes(w, q), UNCHANGED <<serviceVars, late>>,
           \/ failures' = failures
           \/ failures' = failures + 1,
           Fits(q, requests[w].event, events[requests[w].event], rounds, failures')
    PROVE  SerialOK'
<1> PICK e : e = requests[w].event
  OBVIOUS
<1>1. rounds' = rounds /\ events' = events /\ late' = late
  BY DEF serviceVars, recordVars
<1>2. OnlyTouches(e)
  BY <1>1, Untouched DEF OnlyTouches, Elsewhere
<1>3. failures \in Nat /\ failures' \in Nat /\ failures <= failures'
  BY DEF Inv, ServiceInv, RequestsOK
<1>. QED  BY <1>1, <1>2, <1>3, TakesItsStep DEF Becomes, SerialOK

(* A call touches what it is about; answered, refused, lost or late, it    *)
(* leaves its caller with a step that fits.                                *)
LEMMA CallFits ==
    ASSUME Inv, SerialOK, OneAtATime, NEW w \in Workers, requests[w].pc # "idle",
           NEW e, e = requests[w].event,
           NEW m, NEW done, NEW refused, NEW failed, Calls(w, m, done, refused, failed),
           <<"late", m.call>> \in Faults => m.call \in BookingCalls,
           Executes(m) /\ Accepts(m) => OnlyTouches(e) /\ Fits(done, e, events'[e], rounds', failures),
           ~Accepts(m) => Fits(refused, e, events[e], rounds, failures),
           ~Accepts(m) \/ <<"undelivered", m.call>> \in Faults \/ <<"late", m.call>> \in Faults =>
               Fits(failed, e, events[e], rounds, failures + 1),
           Executes(m) /\ Accepts(m) /\ <<"lost", m.call>> \in Faults =>
               Fits(failed, e, events'[e], rounds', failures + 1)
    PROVE  SerialOK'
<1>1. failures \in Nat /\ failures + 1 \in Nat /\ failures <= failures /\ failures <= failures + 1
  BY DEF Inv, ServiceInv, RequestsOK
<1>2. UNCHANGED serviceVars => OnlyTouches(e) /\ events' = events /\ rounds' = rounds
  BY Untouched DEF OnlyTouches, Elsewhere, serviceVars, recordVars
<1>3. Executes(m) /\ ~Accepts(m) => UNCHANGED serviceVars
  BY DEF Executes
<1>4. CASE Executes(m) /\ Becomes(w, IF Accepts(m) THEN done ELSE refused) /\ UNCHANGED <<late, failures>>
  <2> PICK q : q = IF Accepts(m) THEN done ELSE refused
    OBVIOUS
  <2>1. OnlyTouches(e) /\ Fits(q, e, events'[e], rounds', failures')
    BY <1>2, <1>3, <1>4
  <2>2. requests' = [requests EXCEPT ![w] = q] /\ \A n \in late' : n.call \in BookingCalls
    BY <1>4 DEF Becomes, SerialOK
  <2>. QED  BY <1>1, <1>4, <2>1, <2>2, TakesItsStep
<1>5. CASE /\ failures' = failures + 1
           /\ \/ <<"undelivered", m.call>> \in Faults /\ UNCHANGED <<serviceVars, late>>
              \/ <<"lost", m.call>> \in Faults /\ Executes(m) /\ UNCHANGED late
              \/ <<"late", m.call>> \in Faults /\ late' = late \cup {m} /\ UNCHANGED serviceVars
           /\ Becomes(w, failed)
  <2>1. OnlyTouches(e) /\ Fits(failed, e, events'[e], rounds', failures + 1)
    BY <1>2, <1>3, <1>5
  <2>2. requests' = [requests EXCEPT ![w] = failed] /\ \A n \in late' : n.call \in BookingCalls
    BY <1>5 DEF Becomes, SerialOK
  <2>3. failures' \in Nat /\ failures <= failures' /\ Fits(failed, e, events'[e], rounds', failures')
    BY <1>1, <1>5, <2>1
  <2>. QED  BY <2>1, <2>2, <2>3, TakesItsStep
<1>. QED  BY <1>4, <1>5 DEF Calls

(* A step that touches no round and no request, and of the events nothing  *)
(* that a request relies on.                                               *)
LEMMA OthersStayInOrder ==
    ASSUME Inv, SerialOK, UNCHANGED <<rounds, requests, failures>>, late' \subseteq late,
           \A e \in Events : SameStory(events[e], events'[e])
    PROVE  SerialOK'
<1>1. failures \in Nat /\ failures <= failures
  BY DEF Inv, ServiceInv, RequestsOK
<1> PICK tab, n : tab = rounds /\ n = failures
  OBVIOUS
<1>2. ASSUME NEW w \in Workers, requests[w].pc # "idle"
      PROVE  InOrder(requests[w], events'[requests[w].event], tab, n)
  <2> PICK r, row, new : r = requests[w] /\ row = events[r.event] /\ new = events'[r.event]
    OBVIOUS
  <2>1. Knows(r) /\ r.event \in Events /\ InOrder(r, row, tab, n)
    BY <1>2, Serving DEF Knows, SerialOK
  <2>2. SameStory(row, new) /\ SameRows(tab, tab, r.event)
    BY <2>1, Untouched
  <2>3. InOrder(r, new, tab, n)
    BY <1>1, <2>1, <2>2, OrderStays
  <2>. QED  BY <2>3
<1>3. ASSUME NEW e \in Events, ~Busy(e) PROVE Calm(events'[e], tab, e)
  <2> PICK row, new : row = events[e] /\ new = events'[e]
    OBVIOUS
  <2>1. Calm(row, tab, e) /\ SameStory(row, new) /\ SameRows(tab, tab, e)
    BY <1>3, Untouched DEF SerialOK
  <2>2. Calm(new, tab, e)
    BY <2>1, CalmStays
  <2>. QED  BY <2>2
<1>4. \A e \in Events : Busy(e)' <=> Busy(e)
  BY DEF Busy
<1>. QED  BY <1>2, <1>3, <1>4 DEF SerialOK

(* The coordinators' own saves are such steps: the high-impact details of  *)
(* a Confirmed event they cannot save.                                     *)
LEMMA CoordinatorsStayInOrder ==
    ASSUME Inv, CoordinatorStep
    PROVE  \A e \in Events : SameStory(events[e], events'[e])
<1>1. events \in [Events -> EventRecord]
  BY DEF Inv, ServiceInv, EventsInv, EventsTypeOK
<1>2. PICK e \in Events, c \in Coordinators :
         (\E d \in Details : EditDetails(e, c, d)) \/ RecordProgress(e, c) \/ Reassign(e, c)
  BY DEF CoordinatorStep
<1> PICK row \in EventRecord : row = events[e]
  BY <1>1
<1>3. ASSUME NEW new, SameStory(row, new), Saves(e, new)
      PROVE  \A f \in Events : SameStory(events[f], events'[f])
  <2>1. events'[e] = new /\ \A f \in Events : f # e => events'[f] = events[f]
    BY <1>1, <1>3 DEF Saves
  <2>. QED  BY <1>3, <2>1, Untouched
<1>4. ASSUME NEW d \in Details, EditDetails(e, c, d)
      PROVE  \E new : SameStory(row, new) /\ Saves(e, new)
  <2>1. Saves(e, Edited(row, d)) /\ row.status # "Confirmed"
    BY <1>4 DEF EditDetails, SaveDetails, CanSaveDetails, Status
  <2>2. SameStory(row, Edited(row, d))
    BY <2>1 DEF SameStory, Edited, EventRecord
  <2>. QED  BY <2>1, <2>2
<1>5. ASSUME RecordProgress(e, c)
      PROVE  \E new : SameStory(row, new) /\ Saves(e, new)
  <2>1. Saves(e, [row EXCEPT !.undo = NoRound]) /\ SameStory(row, [row EXCEPT !.undo = NoRound])
    BY <1>5 DEF RecordProgress, SameStory, EventRecord
  <2>. QED  BY <2>1
<1>6. ASSUME Reassign(e, c)
      PROVE  \E new : SameStory(row, new) /\ Saves(e, new)
  <2> PICK new : new = Reassigned(row, c)
    OBVIOUS
  <2>1. new.submitted = row.submitted /\ new.approval = row.approval /\ new.details = row.details
    BY DEF Reassigned, EventRecord
  <2>2. new.status = row.status \/ {new.status, row.status} \subseteq {"Submitted", "Under Review"}
    BY ReassignedRow
  <2>. QED  BY <1>6, <2>1, <2>2 DEF Reassign, SameStory
<1>. QED  BY <1>2, <1>3, <1>4, <1>5, <1>6

(* Only calls about bookings arrive late. *)
LEMMA LateCallsStayInOrder ==
    ASSUME Inv, SerialOK, LateCall
    PROVE  SerialOK'
<1> PICK m \in late : Executes(m) /\ late' = late \ {m} /\ UNCHANGED <<requests, started, failures>>
  BY DEF LateCall
<1>1. m.call \in BookingCalls
  BY DEF SerialOK
<1>2. rounds' = rounds /\ events' = events
  BY <1>1 DEF Executes, RecordCall, EventCall, BookingCall, BookingCalls, serviceVars, recordVars
<1>. QED  BY <1>2, Untouched, OthersStayInOrder

(* A request begins with what its first step relies on.                    *)
LEMMA BeginsInOrder ==
    ASSUME Inv, SerialOK, OneAtATime', NEW w \in Workers, NEW q, Begins(w, q), q.pc # "idle",
           NEW e \in Events, q.event = e,
           Calm(events[e], rounds, e) => InOrder(q, events[e], rounds, failures)
    PROVE  SerialOK'
<1>1. requests \in [Workers -> Request] /\ requests[w].pc = "idle"
  BY DEF Inv, ServiceInv, RequestsOK, Begins, At
<1>2. requests'[w] = q /\ \A v \in Workers : v # w => requests'[v] = requests[v]
  BY <1>1 DEF Begins, Becomes
<1>3. rounds' = rounds /\ events' = events /\ late' = late /\ failures' = failures
  BY DEF Begins, serviceVars, recordVars
<1>4. ~Busy(e)
  BY <1>1, <1>2 DEF Busy, OneAtATime
<1>5. InOrder(q, events[e], rounds, failures)
  BY <1>4 DEF SerialOK
<1>6. ASSUME NEW v \in Workers, requests'[v].pc # "idle"
      PROVE  InOrder(requests'[v], events[requests'[v].event], rounds, failures)
  BY <1>2, <1>5, <1>6 DEF SerialOK
<1>7. \A f \in Events : Busy(f) => Busy(f)'
  BY <1>1, <1>2 DEF Busy
<1>. QED  BY <1>3, <1>6, <1>7 DEF SerialOK

(* The first step of each request. *)
LEMMA BeginStaysInOrder ==
    ASSUME Inv, SerialOK, OneAtATime', NEW w \in Workers, Begin(w)
    PROVE  SerialOK'
<1> PICK e \in Events :
        \/ \E kind \in Decisions, flags \in SUBSET {"venue", "equipment"} : BeginDecide(w, e, kind, flags)
        \/ \E c \in Coordinators :
               \/ BeginSubmit(w, e, c)
               \/ \E d \in Details : BeginRecheck(w, e, c, d)
               \/ \E kind \in VenueChanges : BeginVenueChange(w, e, c, kind)
  BY DEF Begin
<1> PICK row, tab, n : row = events[e] /\ tab = rounds /\ n = failures
  OBVIOUS
<1>1. ASSUME NEW kind \in Decisions, NEW flags, BeginDecide(w, e, kind, flags)
      PROVE  SerialOK'
  <2> PICK q : q = [New(e, kind, "findRound") EXCEPT
                       !.venue = (kind = "approve" /\ events[e].baseline = "recorded"), !.flags = flags]
    OBVIOUS
  <2>1. Begins(w, q) /\ row.status = "Pending Safety Check"
    BY <1>1 DEF BeginDecide, Status
  <2>2. q.pc = "findRound" /\ q.event = e /\ q.kind = kind /\ q.kind # "recheck"
    BY DEF New, NoRequest, Decisions
  <2>3. Calm(row, tab, e) => InOrder(q, row, tab, n)
    BY <2>1, <2>2 DEF InOrder, SubmitOrder, DecideOrder, WithdrawOrder, VenueOrder, OwnerPcs
  <2>. QED  BY <2>1, <2>2, <2>3, BeginsInOrder
<1>2. ASSUME NEW c \in Coordinators, BeginSubmit(w, e, c)
      PROVE  SerialOK'
  <2> PICK q : q = [New(e, "submit", "readiness") EXCEPT !.by = c]
    OBVIOUS
  <2>1. Begins(w, q) /\ row.status \in Preparing
    BY <1>2 DEF BeginSubmit, Status, Preparing
  <2>2. q.pc = "readiness" /\ q.event = e /\ q.kind = "submit"
    BY DEF New, NoRequest
  <2>3. Calm(row, tab, e) => InOrder(q, row, tab, n)
    BY <2>1, <2>2
       DEF InOrder, SubmitOrder, DecideOrder, WithdrawOrder, VenueOrder, OwnerPcs, Calm, Prepares, Preparing
  <2>. QED  BY <2>1, <2>2, <2>3, BeginsInOrder
<1>3. ASSUME NEW c \in Coordinators, NEW d \in Details, BeginRecheck(w, e, c, d)
      PROVE  SerialOK'
  <2> PICK q : q = [New(e, "recheck", "readApproval") EXCEPT !.by = c, !.details = d]
    OBVIOUS
  <2>1. Begins(w, q) /\ row.status = "Confirmed" /\ row.details # d
    BY <1>3 DEF BeginRecheck, Status, Changes
  <2>2. q.pc = "readApproval" /\ q.event = e /\ q.kind = "recheck" /\ q.details = d
    BY DEF New, NoRequest
  <2>3. Calm(row, tab, e) => InOrder(q, row, tab, n)
    BY <2>1, <2>2 DEF InOrder, SubmitOrder, DecideOrder, WithdrawOrder, VenueOrder, OwnerPcs
  <2>. QED  BY <2>1, <2>2, <2>3, BeginsInOrder
<1>4. ASSUME NEW c \in Coordinators, NEW kind \in VenueChanges, BeginVenueChange(w, e, c, kind)
      PROVE  SerialOK'
  <2> PICK p : p = IF Status(e) = "Confirmed" THEN "readEvent" ELSE "changeBooking"
    OBVIOUS
  <2> PICK q : q = [New(e, kind, p) EXCEPT !.by = c]
    OBVIOUS
  <2>1. Begins(w, q) /\ (row.status \in Preparing \/ row.status = "Confirmed")
    BY <1>4 DEF BeginVenueChange, Status, Preparing
  <2>2. q.pc = p /\ q.event = e /\ q.kind = kind /\ q.round = NoRound /\ q.kind # "recheck"
    BY DEF New, NoRequest, VenueChanges
  <2>3. \/ p = "readEvent" /\ row.status = "Confirmed"
        \/ p = "changeBooking" /\ row.status \in Preparing
    BY <2>1 DEF Status
  <2>4. Calm(row, tab, e) => InOrder(q, row, tab, n)
    BY <2>2, <2>3
       DEF InOrder, SubmitOrder, DecideOrder, WithdrawOrder, VenueOrder, OwnerPcs, Calm, Prepares, Preparing
  <2>5. q.pc # "idle"
    BY <2>2, <2>3
  <2>. QED  BY <2>1, <2>2, <2>4, <2>5, BeginsInOrder
<1>. QED  BY <1>1, <1>2, <1>3, <1>4

(* At first every event is calm: it has no rounds. *)
LEMMA InitIsInOrder ==
    ASSUME ServiceInit
    PROVE  SerialOK
<1>1. \A w \in Workers : requests[w].pc = "idle"
  BY DoneFields DEF ServiceInit
<1>2. late = {} /\ DOMAIN rounds = {} /\ \A e \in Events : events[e].status = "Approved"
  BY DEF ServiceInit, RecordsInit, EventsInit, NewlyApproved
<1>. QED  BY <1>1, <1>2 DEF SerialOK, Calm, NoneOpen, RowsOf

(* A request r at its next step p. *)
Like(q, r, p) == q.pc = p /\ q.kind = r.kind /\ q.event = r.event /\ q.details = r.details

(* What the record of the next step says.                                  *)
LEMMA LikeFields ==
    ASSUME Inv, NEW w \in Workers, NEW p
    PROVE  LET r == requests[w] IN
           /\ /\ Like(To(w, p), r, p) /\ To(w, p).round = r.round /\ To(w, p).next = r.next
              /\ To(w, p).stamp = r.stamp
           /\ \A x : LET q == [To(w, p) EXCEPT !.round = x]
                     IN  Like(q, r, p) /\ q.round = x /\ q.next = r.next
           /\ \A x : LET q == [To(w, p) EXCEPT !.next = x]
                     IN  Like(q, r, p) /\ q.round = r.round /\ q.next = x
           /\ \A x : LET q == [To(w, p) EXCEPT !.flags = x]
                     IN  Like(q, r, p) /\ q.round = r.round
           /\ \A t : LET q == [To(w, p) EXCEPT !.stamp = t]
                     IN  Like(q, r, p) /\ q.round = r.round /\ q.stamp = t
<1> PICK r \in Request : r = requests[w]
  BY Serving
<1>1. To(w, p) = [r EXCEPT !.pc = p]
  BY DEF To
<1>. QED  BY <1>1 DEF Request, Like

(* What a call to the record, one to the Event Service and one about       *)
(* bookings leaves alone.                                                  *)
LEMMA CallLeaves ==
    ASSUME NEW m, Executes(m)
    PROVE  /\ m.call \in RecordCalls /\ Accepts(m) => RecordCall(m) /\ events' = events
           /\ m.call \in EventCalls /\ Accepts(m) => EventCall(m) /\ rounds' = rounds
           /\ m.call \in BookingCalls => events' = events /\ rounds' = rounds
BY DEF Executes, RecordCall, EventCall, BookingCall, RecordCalls, EventCalls, BookingCalls, serviceVars, recordVars

(* One save of an event touches that event. *)
LEMMA SaveTouches ==
    ASSUME Inv, NEW e \in Events, NEW new, Saves(e, new), rounds' = rounds
    PROVE  OnlyTouches(e) /\ events'[e] = new
<1>1. events \in [Events -> EventRecord]
  BY DEF Inv, ServiceInv, EventsInv, EventsTypeOK
<1>2. events'[e] = new /\ \A f \in Events : f # e => events'[f] = events[f]
  BY <1>1 DEF Saves
<1>. QED  BY <1>2, Untouched DEF OnlyTouches, Elsewhere

(* What a call about the records touches.                                  *)
LEMMA RecordTouches ==
    ASSUME NEW e, events' = events, Elsewhere(rounds, rounds', e)
    PROVE  OnlyTouches(e) /\ events'[e] = events[e]
BY DEF OnlyTouches

(* A request that ends leaves its event calm.                              *)
LEMMA EndsCalm ==
    ASSUME NEW e, NEW row, NEW tab, NEW n, Calm(row, tab, e)
    PROVE  Fits(Done, e, row, tab, n)
BY DoneFields DEF Fits, Done

(* The round that was opened last. *)
LEMMA TheNewRound ==
    ASSUME NEW i, i \notin used, used' = used \cup {i}
    PROVE  NewRound = i
<1>1. NewRound \in used' /\ NewRound \notin used
  BY DEF NewRound
<1>. QED  BY <1>1

(* A submission stays in order. *)
LEMMA SubmitStaysInOrder ==
    ASSUME FailuresAreCompensated, Inv, SerialOK, OneAtATime, NEW w \in Workers, SubmitStep(w)
    PROVE  SerialOK'
<1> PICK r \in Request : r = requests[w]
  BY Serving
<1> PICK e, row, tab, n : e = r.event /\ row = events[e] /\ tab = rounds /\ n = failures
  OBVIOUS
<1>1. r.pc \in SubmitPcs /\ r.pc # "idle"
  BY DEF SubmitStep, CheckReadiness, CallCreate, CallSubmitEvent, CallDelete, At, SubmitPcs
<1>2. r.kind = "submit" /\ e \in Events /\ RecordsInv
  BY <1>1, Serving DEF Knows, Inv, ServiceInv
<1>3. InOrder(r, row, tab, n)
  BY <1>1 DEF SerialOK
<1>4. row \in EventRecord
  BY <1>2 DEF Inv, ServiceInv, EventsInv, EventsTypeOK
<1>5. ASSUME NEW k, row.status \in Preparing, NoneOpen(tab, e) PROVE Fits(Done, e, row, tab, k)
  BY <1>5, EndsCalm DEF Calm, Preparing
<1>6. ASSUME CheckReadiness(w) PROVE SerialOK'
  <2>1. r.pc = "readiness" /\ row.status \in Preparing /\ NoneOpen(tab, e)
    BY <1>3, <1>6 DEF CheckReadiness, At, InOrder, SubmitOrder, Prepares
  <2> PICK on : on = To(w, "createRound")
    OBVIOUS
  <2>2. Like(on, r, "createRound")
    BY LikeFields
  <2>3. Fits(on, e, row, tab, n)
    BY <1>2, <2>1, <2>2
       DEF Like, Fits, InOrder, SubmitOrder, DecideOrder, WithdrawOrder, VenueOrder, OwnerPcs, Prepares
  <2>4. Reads(w, on) \/ Reads(w, Done)
    BY <1>6 DEF CheckReadiness
  <2>. QED  BY <1>1, <1>5, <2>1, <2>3, <2>4, ReadFits DEF Reads
<1>7. ASSUME CallCreate(w) PROVE SerialOK'
  <2>1. r.pc = "createRound" /\ row.status \in Preparing /\ NoneOpen(tab, e)
    BY <1>3, <1>7 DEF CallCreate, At, InOrder, SubmitOrder, Prepares
  <2> PICK m : m = [call |-> "create", event |-> e]
    OBVIOUS
  <2> PICK done : done = [To(w, "submitEvent") EXCEPT !.round = NewRound]
    OBVIOUS
  <2>2. Calls(w, m, done, Done, Done)
    BY <1>7 DEF CallCreate
  <2>3. m.call = "create" /\ m.event = e /\ <<"late", m.call>> \notin Faults /\ <<"lost", m.call>> \notin Faults
    BY DEF FailuresAreCompensated, RecordCalls
  <2>4. Like(done, r, "submitEvent") /\ done.round = NewRound
    BY LikeFields
  <2>5. ASSUME Executes(m), Accepts(m)
        PROVE  OnlyTouches(e) /\ Fits(done, e, events'[e], rounds', n)
    <3>1. events' = events /\ \E i : CreateRound(e, i)
      BY <2>3, <2>5, CallLeaves DEF RecordCalls, RecordCall
    <3> PICK i : CreateRound(e, i)
      BY <3>1
    <3>2. OnlyOpen(rounds', e, i) /\ Elsewhere(rounds, rounds', e)
      BY <1>2, <2>1, CreateOpens
    <3>3. done.round = i
      BY <2>4, TheNewRound DEF CreateRound, Fresh
    <3> PICK tab2 : tab2 = rounds'
      OBVIOUS
    <3>4. Fits(done, e, row, tab2, n)
      BY <1>2, <2>1, <2>4, <3>2, <3>3
         DEF Like, Fits, InOrder, SubmitOrder, DecideOrder, WithdrawOrder, VenueOrder, OwnerPcs, Opened
    <3>. QED  BY <3>1, <3>2, <3>4, RecordTouches
  <2>. QED  BY <1>1, <1>5, <2>1, <2>2, <2>3, <2>5, CallFits
<1>8. ASSUME CallSubmitEvent(w) PROVE SerialOK'
  <2>1. r.pc = "submitEvent" /\ row.status \in Preparing /\ OnlyOpen(tab, e, r.round)
    BY <1>3, <1>8 DEF CallSubmitEvent, At, InOrder, SubmitOrder, Opened
  <2> PICK m : m = [call |-> "submitEvent", event |-> e, by |-> r.by, round |-> r.round]
    OBVIOUS
  <2> PICK back : back = To(w, "deleteRound")
    OBVIOUS
  <2>2. Calls(w, m, Done, back, back)
    BY <1>8 DEF CallSubmitEvent
  <2>3. /\ m.call = "submitEvent" /\ m.event = e /\ m.by = r.by /\ m.round = r.round /\ r.round \in RoundIds
        /\ <<"late", m.call>> \notin Faults /\ <<"lost", m.call>> \notin Faults
    BY <2>1, Serving DEF FailuresAreCompensated, EventCalls, Knows, RoundPcs
  <2>4. Like(back, r, "deleteRound") /\ back.round = r.round
    BY LikeFields
  <2>5. ASSUME NEW k PROVE Fits(back, e, row, tab, k)
    BY <1>2, <2>1, <2>4
       DEF Like, Fits, InOrder, SubmitOrder, DecideOrder, WithdrawOrder, VenueOrder, OwnerPcs, Opened
  <2>6. ASSUME Executes(m), Accepts(m)
        PROVE  OnlyTouches(e) /\ Fits(Done, e, events'[e], rounds', n)
    <3>1. rounds' = tab /\ SubmitEvent(e, r.by, r.round)
      BY <2>3, <2>6, CallLeaves DEF EventCalls, EventCall
    <3> PICK new : new = Submitted(row, r.round)
      OBVIOUS
    <3>2. Saves(e, new)
      BY <3>1 DEF SubmitEvent
    <3>3. OnlyTouches(e) /\ events'[e] = new
      BY <1>2, <3>1, <3>2, SaveTouches
    <3>4. new.status = "Pending Safety Check" /\ new.submitted = r.round
      BY <1>4 DEF Submitted, EventRecord
    <3>5. Fits(Done, e, new, tab, n)
      BY <2>1, <3>4, EndsCalm DEF Calm
    <3>. QED  BY <3>1, <3>3, <3>5
  <2>. QED  BY <1>1, <2>2, <2>3, <2>5, <2>6, CallFits
<1>9. ASSUME CallDelete(w) PROVE SerialOK'
  <2>1. r.pc = "deleteRound" /\ row.status \in Preparing /\ OnlyOpen(tab, e, r.round)
    BY <1>3, <1>9 DEF CallDelete, At, InOrder, SubmitOrder, Opened
  <2> PICK m : m = [call |-> "delete", round |-> r.round]
    OBVIOUS
  <2>2. Calls(w, m, Done, Done, Done)
    BY <1>9 DEF CallDelete
  <2>3. /\ m.call = "delete" /\ m.round = r.round
        /\ <<"late", m.call>> \notin Faults /\ <<"undelivered", m.call>> \notin Faults
    BY DEF FailuresAreCompensated, RecordCalls
  <2>4. Accepts(m)
    BY <1>2, <2>1, <2>3, DeleteCloses DEF Accepts
  <2>5. ASSUME NEW k, Executes(m)
        PROVE  OnlyTouches(e) /\ Fits(Done, e, events'[e], rounds', k)
    <3>1. events' = events /\ DeleteRound(r.round)
      BY <2>3, <2>4, <2>5, CallLeaves DEF RecordCalls, RecordCall
    <3>2. NoneOpen(rounds', e) /\ Elsewhere(rounds, rounds', e)
      BY <1>2, <2>1, <3>1, DeleteCloses
    <3> PICK tab2 : tab2 = rounds'
      OBVIOUS
    <3>3. Fits(Done, e, row, tab2, k)
      BY <2>1, <3>2, EndsCalm DEF Calm, Preparing
    <3>. QED  BY <3>1, <3>2, <3>3, RecordTouches
  <2>. QED  BY <1>1, <2>2, <2>3, <2>4, <2>5, CallFits
<1>. QED  BY <1>6, <1>7, <1>8, <1>9 DEF SubmitStep

(* What a decision knows of its request. *)
LEMMA DecidingInOrder ==
    ASSUME Inv, SerialOK, NEW w \in Workers, requests[w].pc \in DecidePcs
    PROVE  /\ requests[w].pc # "idle" /\ requests[w].kind \in Decisions /\ requests[w].event \in Events
           /\ RecordsInv /\ events[requests[w].event] \in EventRecord
           /\ InOrder(requests[w], events[requests[w].event], rounds, failures)
           /\ RecordStatusOf(requests[w].kind) \in DecisionStatuses
           /\ EventStatusOf(requests[w].kind) \in SafetyTargets
<1> PICK r \in Request : r = requests[w] /\ Knows(r)
  BY Serving
<1>1. r.pc # "idle" /\ r.kind \in Decisions /\ r.event \in Events
  BY DEF Knows, DecidePcs
<1>2. RecordStatusOf(r.kind) \in DecisionStatuses /\ EventStatusOf(r.kind) \in SafetyTargets
  BY <1>1 DEF RecordStatusOf, EventStatusOf, Decisions, DecisionStatuses, SafetyTargets
<1>. QED  BY <1>1, <1>2 DEF SerialOK, Inv, ServiceInv, EventsInv, EventsTypeOK

(* A decision or a move whose answer was lost is looked for: that read     *)
(* does not fail as well.                                                  *)
LEMMA NoSecondFailure ==
    ASSUME FailuresAreCompensated, Inv, NEW c \in {"decide", "moveDecided"}, LostOne(c, failures),
           failures < MaxFailures, <<"undelivered", "read">> \in Faults
    PROVE  FALSE
<1>1. failures \in Nat /\ MaxFailures \in Nat /\ failures > 0
  BY ServiceAssumption DEF Inv, ServiceInv, RequestsOK, LostOne
<1>2. ~(MaxFailures <= 1)
  BY <1>1
<1>. QED  BY <1>2 DEF FailuresAreCompensated, LostOne

(* The reads of a decision.                                                *)
LEMMA DecideReadsInOrder ==
    ASSUME FailuresAreCompensated, Inv, SerialOK, OneAtATime, NEW w \in Workers,
           FindOpenRound(w) \/ ReadArrangements(w) \/ FindDecision(w) \/ FindMove(w)
    PROVE  SerialOK'
<1> PICK r \in Request : r = requests[w]
  BY Serving
<1> PICK e, row, tab, n : e = r.event /\ row = events[e] /\ tab = rounds /\ n = failures
  OBVIOUS
<1>1. r.pc \in DecidePcs
  BY DEF FindOpenRound, ReadArrangements, FindDecision, FindMove, At, DecidePcs
<1>2. /\ r.pc # "idle" /\ r.kind \in Decisions /\ r.kind # "recheck" /\ e \in Events
      /\ RecordsInv /\ row \in EventRecord /\ InOrder(r, row, tab, n)
      /\ RecordStatusOf(r.kind) \in DecisionStatuses
      /\ EventStatusOf(r.kind) \in SafetyTargets
  BY <1>1, DecidingInOrder DEF Decisions
<1>3. ASSUME NEW q, Fits(q, e, row, tab, n), Reads(w, q) PROVE SerialOK'
  BY <1>2, <1>3, ReadFits DEF Reads
<1>4. ASSUME NEW q, Fits(q, e, row, tab, n + 1), ReadFails(w, q) PROVE SerialOK'
  BY <1>2, <1>4, ReadFits DEF ReadFails
<1>5. ASSUME NEW k, Waits(r, row, tab) PROVE Fits(Done, e, row, tab, k)
  BY <1>5, EndsCalm DEF Waits, Calm
<1>6. ASSUME FindOpenRound(w) PROVE SerialOK'
  <2>1. row.status = "Pending Safety Check" /\ Calm(row, tab, e)
    BY <1>2, <1>6 DEF FindOpenRound, At, InOrder, DecideOrder
  <2>2. ASSUME NEW i \in RoundsOf(e), IsNewestOpen(i), NEW p \in {"readArrangements", "decide"},
               Reads(w, [To(w, p) EXCEPT !.round = i])
        PROVE  SerialOK'
    <3> PICK q : q = [To(w, p) EXCEPT !.round = i]
      OBVIOUS
    <3>1. Like(q, r, p) /\ q.round = i
      BY LikeFields
    <3>2. i = row.submitted /\ OnlyOpen(tab, e, i)
      BY <2>1, <2>2 DEF IsNewestOpen, Calm, OnlyOpen, RoundsOf, RowsOf, Live
    <3>3. Fits(q, e, row, tab, n)
      BY <1>2, <2>1, <3>1, <3>2
         DEF Like, Fits, InOrder, SubmitOrder, DecideOrder, WithdrawOrder, VenueOrder, OwnerPcs, Waits
    <3>. QED  BY <1>3, <2>2, <3>3
  <2>3. Fits(Done, e, row, tab, n)
    BY <2>1, EndsCalm
  <2>. QED  BY <1>3, <1>6, <2>2, <2>3 DEF FindOpenRound
<1>7. ASSUME ReadArrangements(w) PROVE SerialOK'
  <2>1. Waits(r, row, tab)
    BY <1>2, <1>7 DEF ReadArrangements, At, InOrder, DecideOrder
  <2> PICK q : q = [To(w, "decide") EXCEPT !.flags = r.flags \cap Resettable(r.event)]
    OBVIOUS
  <2>2. Like(q, r, "decide") /\ q.round = r.round
    BY LikeFields
  <2>3. Fits(q, e, row, tab, n)
    BY <1>2, <2>1, <2>2
       DEF Like, Fits, InOrder, SubmitOrder, DecideOrder, WithdrawOrder, VenueOrder, OwnerPcs, Waits
  <2>4. To(w, "decide").flags = r.flags
    BY DEF To, Request
  <2>5. Reads(w, q) \/ Reads(w, Done)
    BY <1>7, <2>4 DEF ReadArrangements
  <2>. QED  BY <1>3, <1>5, <2>1, <2>3, <2>5
<1>8. ASSUME FindDecision(w) PROVE SerialOK'
  <2>1. Waits(r, row, tab) \/ (Judged(r, row, tab) /\ LostOne("decide", n))
    BY <1>2, <1>8 DEF FindDecision, At, InOrder, DecideOrder
  <2> PICK p : p = AfterDecision(r.flags)
    OBVIOUS
  <2> PICK q : q = [To(w, p) EXCEPT !.stamp = rounds[r.round].decidedAt]
    OBVIOUS
  <2>2. p \in OwnerPcs
    BY DEF AfterDecision, OwnerPcs
  <2>3. Like(q, r, p) /\ q.round = r.round /\ q.stamp = tab[r.round].decidedAt
    BY LikeFields
  <2>4. CASE Waits(r, row, tab)
    <3>1. rounds[r.round].status # RecordStatusOf(r.kind)
      BY <1>2, <2>4 DEF Waits, OnlyOpen, DecisionStatuses
    <3>2. Reads(w, Done) \/ ReadFails(w, Done)
      BY <1>8, <3>1 DEF FindDecision
    <3>. QED  BY <1>3, <1>4, <1>5, <2>4, <3>2
  <2>5. CASE Judged(r, row, tab) /\ LostOne("decide", n)
    <3>1. r.round \in Live /\ rounds[r.round].status = RecordStatusOf(r.kind)
      BY <2>5 DEF Judged, LastIs, LastRow, RowsOf, Live
    <3>2. ~ReadFails(w, Done)
      BY <2>5, NoSecondFailure DEF ReadFails
    <3>3. Reads(w, q)
      BY <1>8, <3>1, <3>2 DEF FindDecision
    <3>4. Fits(q, e, row, tab, n)
      BY <1>2, <2>2, <2>3, <2>5
         DEF Like, Fits, InOrder, SubmitOrder, DecideOrder, WithdrawOrder, VenueOrder, OwnerPcs, Judged
    <3>. QED  BY <1>3, <3>3, <3>4
  <2>. QED  BY <2>1, <2>4, <2>5
<1>9. ASSUME FindMove(w) PROVE SerialOK'
  <2>1. \/ Judged(r, row, tab) /\ r.stamp = tab[r.round].decidedAt
        \/ Calm(row, tab, e) /\ row.status = EventStatusOf(r.kind) /\ LostOne("moveDecided", n)
    BY <1>2, <1>9 DEF FindMove, At, InOrder, DecideOrder, OwnerPcs
  <2>2. CASE Judged(r, row, tab) /\ r.stamp = tab[r.round].decidedAt
    <3> PICK q : q = To(w, "reopen")
      OBVIOUS
    <3>1. Like(q, r, "reopen") /\ q.round = r.round /\ q.stamp = r.stamp
      BY LikeFields
    <3>2. Status(e) # EventStatusOf(r.kind)
      BY <1>2, <2>2 DEF Judged, Status, SafetyTargets
    <3>3. Reads(w, q) \/ ReadFails(w, q)
      BY <1>9, <3>2 DEF FindMove
    <3>4. ASSUME NEW k PROVE Fits(q, e, row, tab, k)
      BY <1>2, <2>2, <3>1
         DEF Like, Fits, InOrder, SubmitOrder, DecideOrder, WithdrawOrder, VenueOrder, OwnerPcs, Judged
    <3>. QED  BY <1>3, <1>4, <3>3, <3>4
  <2>3. CASE Calm(row, tab, e) /\ row.status = EventStatusOf(r.kind) /\ LostOne("moveDecided", n)
    <3>1. ~ReadFails(w, To(w, "reopen"))
      BY <2>3, NoSecondFailure DEF ReadFails
    <3>2. Reads(w, Moved(w))
      BY <1>9, <2>3, <3>1 DEF FindMove, Status
    <3>3. Moved(w) = IF r.kind = "reject" THEN To(w, "release") ELSE Done
      BY DEF Moved
    <3> PICK q : q = To(w, "release")
      OBVIOUS
    <3>4. Like(q, r, "release")
      BY LikeFields
    <3>5. r.kind = "reject" => row.status = "Cancelled" /\ NoneOpen(tab, e)
      BY <2>3 DEF EventStatusOf, Calm
    <3>6. r.kind = "reject" => Fits(q, e, row, tab, n)
      BY <1>2, <3>4, <3>5
         DEF Like, Fits, InOrder, SubmitOrder, DecideOrder, WithdrawOrder, VenueOrder, OwnerPcs
    <3>7. Fits(Done, e, row, tab, n)
      BY <2>3, EndsCalm
    <3>. QED  BY <1>3, <3>2, <3>3, <3>6, <3>7
  <2>. QED  BY <2>1, <2>2, <2>3
<1>. QED  BY <1>6, <1>7, <1>8, <1>9

(* A call about a booking or a request for equipment touches no event.     *)
LEMMA BookingCallFits ==
    ASSUME Inv, SerialOK, OneAtATime, NEW w \in Workers, requests[w].pc # "idle",
           NEW m, m.call \in BookingCalls, NEW done, NEW refused, NEW failed,
           Calls(w, m, done, refused, failed),
           \A k, q : q \in {done, refused, failed} =>
               Fits(q, requests[w].event, events[requests[w].event], rounds, k)
    PROVE  SerialOK'
<1> PICK e : e = requests[w].event
  OBVIOUS
<1>1. Executes(m) => rounds' = rounds /\ events' = events
  BY CallLeaves
<1>2. Executes(m) => OnlyTouches(e)
  BY <1>1, Untouched DEF OnlyTouches, Elsewhere
<1>3. \A k, q : q \in {done, refused, failed} => Fits(q, e, events[e], rounds, k)
  OBVIOUS
<1>4. /\ Executes(m) => Fits(done, e, events'[e], rounds', failures) /\ Fits(failed, e, events'[e], rounds', failures + 1)
      /\ Fits(refused, e, events[e], rounds, failures) /\ Fits(failed, e, events[e], rounds, failures + 1)
  BY <1>1, <1>3
<1>. QED  BY <1>2, <1>4, CallFits

(* The call that decides the round.                                        *)
LEMMA DecideInOrder ==
    ASSUME FailuresAreCompensated, Inv, SerialOK, OneAtATime, NEW w \in Workers, CallDecide(w)
    PROVE  SerialOK'
<1> PICK r \in Request : r = requests[w]
  BY Serving
<1> PICK e, row, tab, n : e = r.event /\ row = events[e] /\ tab = rounds /\ n = failures
  OBVIOUS
<1>1. r.pc = "decide" /\ r.pc \in DecidePcs
  BY DEF CallDecide, At, DecidePcs
<1>2. /\ r.pc # "idle" /\ r.kind \in Decisions /\ r.kind # "recheck" /\ e \in Events
      /\ RecordsInv /\ row \in EventRecord /\ InOrder(r, row, tab, n)
      /\ RecordStatusOf(r.kind) \in DecisionStatuses
  BY <1>1, DecidingInOrder DEF Decisions
<1>3. Waits(r, row, tab)
  BY <1>1, <1>2 DEF InOrder, DecideOrder
<1> PICK m : m = [call |-> "decide", round |-> r.round, status |-> RecordStatusOf(r.kind)]
  OBVIOUS
<1> PICK p : p = AfterDecision(r.flags)
  OBVIOUS
<1> PICK done : done = [To(w, p) EXCEPT !.stamp = NewStamp]
  OBVIOUS
<1> PICK look : look = To(w, "findDecision")
  OBVIOUS
<1>4. Calls(w, m, done, Done, look)
  BY DEF CallDecide
<1>5. m.call = "decide" /\ m.round = r.round /\ m.status = RecordStatusOf(r.kind) /\ <<"late", m.call>> \notin Faults
  BY DEF FailuresAreCompensated, RecordCalls
<1>6. p \in OwnerPcs
  BY DEF AfterDecision, OwnerPcs
<1>7. /\ Like(done, r, p) /\ done.round = r.round /\ done.stamp = clock'
      /\ Like(look, r, "findDecision") /\ look.round = r.round
  BY LikeFields DEF NewStamp
<1>8. Fits(Done, e, row, tab, n)
  BY <1>3, EndsCalm DEF Waits, Calm
<1>9. Fits(look, e, row, tab, n + 1)
  BY <1>2, <1>3, <1>7
     DEF Like, Fits, InOrder, SubmitOrder, DecideOrder, WithdrawOrder, VenueOrder, OwnerPcs, Waits
<1>10. ASSUME Executes(m), Accepts(m)
       PROVE  /\ OnlyTouches(e) /\ Fits(done, e, events'[e], rounds', n)
              /\ <<"lost", m.call>> \in Faults => Fits(look, e, events'[e], rounds', n + 1)
  <2>1. events' = events /\ DecideRound(r.round, RecordStatusOf(r.kind))
    BY <1>5, <1>10, CallLeaves DEF RecordCalls, RecordCall
  <2>2. /\ LastIs(rounds', e, r.round, RecordStatusOf(r.kind))
        /\ rounds'[r.round].decidedAt = clock' /\ Elsewhere(rounds, rounds', e)
    BY <1>2, <1>3, <2>1, DecideCloses DEF Waits
  <2> PICK tab2 : tab2 = rounds'
    OBVIOUS
  <2>3. Judged(r, row, tab2) /\ done.stamp = tab2[r.round].decidedAt
    BY <1>3, <1>7, <2>2 DEF Judged, Waits
  <2>4. Fits(done, e, row, tab2, n)
    BY <1>2, <1>6, <1>7, <2>3
       DEF Like, Fits, InOrder, SubmitOrder, DecideOrder, WithdrawOrder, VenueOrder, OwnerPcs, Judged
  <2>5. n + 1 > 0
    BY DEF Inv, ServiceInv, RequestsOK
  <2>6. <<"lost", m.call>> \in Faults => LostOne("decide", n + 1)
    BY <1>5, <2>5 DEF LostOne
  <2>7. LostOne("decide", n + 1) => Fits(look, e, row, tab2, n + 1)
    BY <1>2, <1>7, <2>3
       DEF Like, Fits, InOrder, SubmitOrder, DecideOrder, WithdrawOrder, VenueOrder, OwnerPcs, Judged
  <2>. QED  BY <2>1, <2>2, <2>4, <2>6, <2>7, RecordTouches
<1>. QED  BY <1>2, <1>4, <1>5, <1>8, <1>9, <1>10, CallFits

(* Between the decision and the move of the event.                         *)
LEMMA OwnersInOrder ==
    ASSUME Inv, SerialOK, NEW w \in Workers, requests[w].pc \in OwnerPcs, NEW p \in OwnerPcs, NEW k
    PROVE  Fits(To(w, p), requests[w].event, events[requests[w].event], rounds, k)
<1> PICK r \in Request : r = requests[w]
  BY Serving
<1> PICK e, row, tab, n : e = r.event /\ row = events[e] /\ tab = rounds /\ n = failures
  OBVIOUS
<1>1. r.pc \in DecidePcs
  BY DEF OwnerPcs, DecidePcs
<1>2. r.kind # "recheck" /\ InOrder(r, row, tab, n)
  BY <1>1, DecidingInOrder DEF Decisions
<1>3. Judged(r, row, tab) /\ r.stamp = tab[r.round].decidedAt
  BY <1>2 DEF InOrder, DecideOrder
<1> PICK q : q = To(w, p)
  OBVIOUS
<1>4. Like(q, r, p) /\ q.round = r.round /\ q.stamp = r.stamp
  BY LikeFields
<1>5. Fits(q, e, row, tab, k)
  BY <1>2, <1>3, <1>4
     DEF Like, Fits, InOrder, SubmitOrder, DecideOrder, WithdrawOrder, VenueOrder, OwnerPcs, Judged
<1>. QED  BY <1>5

(* The resets of what a decision has flagged.                              *)
LEMMA ResetsInOrder ==
    ASSUME Inv, SerialOK, OneAtATime, NEW w \in Workers, CallResetVenue(w) \/ CallResetEquipment(w)
    PROVE  SerialOK'
<1> PICK r \in Request : r = requests[w]
  BY Serving
<1>1. r.pc \in OwnerPcs /\ r.pc # "idle"
  BY DEF CallResetVenue, CallResetEquipment, At, OwnerPcs
<1>2. ASSUME NEW p \in OwnerPcs, NEW k
      PROVE  Fits(To(w, p), requests[w].event, events[requests[w].event], rounds, k)
  BY <1>1, OwnersInOrder
<1>3. ASSUME CallResetVenue(w) PROVE SerialOK'
  <2> PICK m : m = [call |-> "resetBooking", event |-> r.event]
    OBVIOUS
  <2> PICK p : p = AfterDecision(r.flags \ {"venue"})
    OBVIOUS
  <2>1. m.call \in BookingCalls /\ p \in OwnerPcs /\ "reopen" \in OwnerPcs
    BY DEF BookingCalls, AfterDecision, OwnerPcs
  <2>2. Calls(w, m, To(w, p), To(w, "reopen"), To(w, "reopen"))
    BY <1>3 DEF CallResetVenue
  <2>. QED  BY <1>1, <1>2, <2>1, <2>2, BookingCallFits
<1>4. ASSUME CallResetEquipment(w) PROVE SerialOK'
  <2> PICK m : m = [call |-> "resetEquipment", event |-> r.event]
    OBVIOUS
  <2>1. m.call \in BookingCalls /\ "moveEvent" \in OwnerPcs /\ "reopen" \in OwnerPcs
    BY DEF BookingCalls, OwnerPcs
  <2>2. Calls(w, m, To(w, "moveEvent"), To(w, "reopen"), To(w, "reopen"))
    BY <1>4 DEF CallResetEquipment
  <2>. QED  BY <1>1, <1>2, <2>1, <2>2, BookingCallFits
<1>. QED  BY <1>3, <1>4

(* The call that moves the event.                                          *)
LEMMA MoveInOrder ==
    ASSUME FailuresAreCompensated, Inv, SerialOK, OneAtATime, NEW w \in Workers, CallMoveDecided(w)
    PROVE  SerialOK'
<1> PICK r \in Request : r = requests[w]
  BY Serving
<1> PICK e, row, tab, n : e = r.event /\ row = events[e] /\ tab = rounds /\ n = failures
  OBVIOUS
<1>1. r.pc = "moveEvent" /\ r.pc \in DecidePcs /\ r.pc \in OwnerPcs /\ r.pc \in RoundPcs
  BY DEF CallMoveDecided, At, DecidePcs, OwnerPcs, RoundPcs
<1>2. /\ r.pc # "idle" /\ r.kind \in Decisions /\ r.kind # "recheck" /\ e \in Events
      /\ RecordsInv /\ row \in EventRecord /\ InOrder(r, row, tab, n)
      /\ EventStatusOf(r.kind) \in SafetyTargets /\ r.round \in RoundIds
  BY <1>1, DecidingInOrder, Serving DEF Decisions, Knows
<1>3. Judged(r, row, tab) /\ r.stamp = tab[r.round].decidedAt
  BY <1>1, <1>2 DEF InOrder, DecideOrder
<1> PICK m : m = [call |-> "moveDecided", event |-> e, round |-> r.round,
                  status |-> EventStatusOf(r.kind), venue |-> r.venue]
  OBVIOUS
<1> PICK done, undo, look : done = Moved(w) /\ undo = To(w, "reopen") /\ look = To(w, "findMove")
  OBVIOUS
<1>4. Calls(w, m, done, undo, look)
  BY DEF CallMoveDecided
<1>5. /\ m.call = "moveDecided" /\ m.event = e /\ m.round = r.round /\ m.status = EventStatusOf(r.kind)
      /\ m.venue = r.venue /\ <<"late", m.call>> \notin Faults
  BY DEF FailuresAreCompensated, EventCalls
<1>6. Fits(undo, e, row, tab, n)
  BY <1>1, OwnersInOrder DEF OwnerPcs
<1>7. Like(look, r, "findMove") /\ look.round = r.round /\ look.stamp = r.stamp
  BY LikeFields
<1>8. Fits(look, e, row, tab, n + 1)
  BY <1>2, <1>3, <1>7
     DEF Like, Fits, InOrder, SubmitOrder, DecideOrder, WithdrawOrder, VenueOrder, OwnerPcs, Judged
<1>9. ASSUME Executes(m), Accepts(m)
      PROVE  /\ OnlyTouches(e) /\ Fits(done, e, events'[e], rounds', n)
             /\ <<"lost", m.call>> \in Faults => Fits(look, e, events'[e], rounds', n + 1)
  <2>1. rounds' = tab /\ MoveDecided(e, r.round, EventStatusOf(r.kind), r.venue)
    BY <1>5, <1>9, CallLeaves DEF EventCalls, EventCall
  <2> PICK new : new = MovedBy(row, r.round, EventStatusOf(r.kind))
    OBVIOUS
  <2>2. Saves(e, new)
    BY <2>1 DEF MoveDecided
  <2>3. OnlyTouches(e) /\ events'[e] = new
    BY <1>2, <2>1, <2>2, SaveTouches
  <2>4. /\ new.status = EventStatusOf(r.kind)
        /\ EventStatusOf(r.kind) = "Confirmed" => new.approval = r.round
    BY <1>2, MovedRow
  <2>5. new.status = "Confirmed" => RecordStatusOf(r.kind) = "Safety Approved" /\ new.approval = r.round
    BY <1>2, <2>4 DEF Decisions, EventStatusOf, RecordStatusOf
  <2>6. Calm(new, tab, e)
    BY <1>2, <1>3, <2>4, <2>5 DEF Calm, Judged, LastIs, SafetyTargets
  <2> PICK rel : rel = To(w, "release")
    OBVIOUS
  <2>7. Like(rel, r, "release") /\ done = IF r.kind = "reject" THEN rel ELSE Done
    BY LikeFields DEF Moved
  <2>8. r.kind = "reject" => new.status = "Cancelled" /\ NoneOpen(tab, e)
    BY <2>4, <2>6 DEF EventStatusOf, Calm
  <2>9. r.kind = "reject" => Fits(rel, e, new, tab, n)
    BY <1>2, <2>7, <2>8
       DEF Like, Fits, InOrder, SubmitOrder, DecideOrder, WithdrawOrder, VenueOrder, OwnerPcs
  <2>10. Fits(done, e, new, tab, n)
    BY <2>6, <2>7, <2>9, EndsCalm
  <2>11. n + 1 > 0
    BY DEF Inv, ServiceInv, RequestsOK
  <2>12. <<"lost", m.call>> \in Faults => LostOne("moveDecided", n + 1)
    BY <1>5, <2>11 DEF LostOne
  <2>13. LostOne("moveDecided", n + 1) => Fits(look, e, new, tab, n + 1)
    BY <1>2, <1>7, <2>4, <2>6
       DEF Like, Fits, InOrder, SubmitOrder, DecideOrder, WithdrawOrder, VenueOrder, OwnerPcs
  <2>. QED  BY <2>1, <2>3, <2>10, <2>12, <2>13
<1>. QED  BY <1>2, <1>4, <1>5, <1>6, <1>8, <1>9, CallFits

(* The call that undoes the decision.                                      *)
LEMMA ReopenInOrder ==
    ASSUME FailuresAreCompensated, Inv, SerialOK, OneAtATime, NEW w \in Workers, CallReopen(w)
    PROVE  SerialOK'
<1> PICK r \in Request : r = requests[w]
  BY Serving
<1> PICK e, row, tab, n : e = r.event /\ row = events[e] /\ tab = rounds /\ n = failures
  OBVIOUS
<1>1. r.pc = "reopen" /\ r.pc \in DecidePcs /\ r.pc \in OwnerPcs
  BY DEF CallReopen, At, DecidePcs, OwnerPcs
<1>2. /\ r.pc # "idle" /\ e \in Events /\ RecordsInv /\ InOrder(r, row, tab, n)
      /\ RecordStatusOf(r.kind) \in DecisionStatuses
  BY <1>1, DecidingInOrder
<1>3. Judged(r, row, tab) /\ r.stamp = tab[r.round].decidedAt
  BY <1>1, <1>2 DEF InOrder, DecideOrder
<1> PICK m : m = [call |-> "reopen", round |-> r.round, stamp |-> r.stamp]
  OBVIOUS
<1>4. Calls(w, m, Done, Done, Done)
  BY DEF CallReopen
<1>5. /\ m.call = "reopen" /\ m.round = r.round /\ m.stamp = r.stamp
      /\ <<"late", m.call>> \notin Faults /\ <<"undelivered", m.call>> \notin Faults
  BY DEF FailuresAreCompensated, RecordCalls
<1>6. Accepts(m)
  BY <1>2, <1>3, <1>5, ReopenOpens DEF Accepts, Judged
<1>7. ASSUME NEW k, Executes(m)
      PROVE  OnlyTouches(e) /\ Fits(Done, e, events'[e], rounds', k)
  <2>1. events' = events /\ ReopenRound(r.round, r.stamp)
    BY <1>5, <1>6, <1>7, CallLeaves DEF RecordCalls, RecordCall
  <2>2. OnlyOpen(rounds', e, r.round) /\ Elsewhere(rounds, rounds', e)
    BY <1>2, <1>3, <2>1, ReopenOpens DEF Judged
  <2> PICK tab2 : tab2 = rounds'
    OBVIOUS
  <2>3. Fits(Done, e, row, tab2, k)
    BY <1>3, <2>2, EndsCalm DEF Calm, Judged
  <2>. QED  BY <2>1, <2>2, <2>3, RecordTouches
<1>. QED  BY <1>2, <1>4, <1>5, <1>6, <1>7, CallFits

(* The release of a cancelled event's booking.                             *)
LEMMA ReleaseInOrder ==
    ASSUME Inv, SerialOK, OneAtATime, NEW w \in Workers, CallRelease(w)
    PROVE  SerialOK'
<1> PICK r \in Request : r = requests[w]
  BY Serving
<1> PICK e, row, tab, n : e = r.event /\ row = events[e] /\ tab = rounds /\ n = failures
  OBVIOUS
<1>1. r.pc = "release" /\ r.pc \in DecidePcs
  BY DEF CallRelease, At, DecidePcs
<1>2. r.pc # "idle" /\ InOrder(r, row, tab, n)
  BY <1>1, DecidingInOrder
<1>3. Calm(row, tab, e)
  BY <1>1, <1>2 DEF InOrder, DecideOrder, Calm
<1> PICK m : m = [call |-> "releaseBooking", event |-> r.event]
  OBVIOUS
<1>4. Calls(w, m, Done, Done, Done) /\ m.call \in BookingCalls
  BY DEF CallRelease, BookingCalls
<1>5. \A k : Fits(Done, e, row, tab, k)
  BY <1>3, EndsCalm
<1>. QED  BY <1>2, <1>4, <1>5, BookingCallFits

(* What a withdrawal knows of its request. *)
LEMMA WithdrawingInOrder ==
    ASSUME Inv, SerialOK, NEW w \in Workers, requests[w].pc \in WithdrawPcs \cup VenuePcs \cup {"saveDetails"}
    PROVE  /\ requests[w].pc # "idle" /\ requests[w].event \in Events
           /\ RecordsInv /\ events[requests[w].event] \in EventRecord
           /\ InOrder(requests[w], events[requests[w].event], rounds, failures)
           /\ requests[w].kind \notin Decisions /\ requests[w].kind # "submit"
<1> PICK r \in Request : r = requests[w] /\ Knows(r)
  BY Serving
<1>1. r.pc # "idle" /\ r.event \in Events /\ r.kind \in VenueChanges \cup {"recheck"}
  BY DEF Knows, WithdrawPcs, VenuePcs
<1>. QED  BY <1>1 DEF SerialOK, Inv, ServiceInv, EventsInv, EventsTypeOK, Decisions, VenueChanges

(* The reads of a withdrawal: of the approval to withdraw, and of the      *)
(* venue that the attendees knew.                                          *)
LEMMA WithdrawReadsInOrder ==
    ASSUME Inv, SerialOK, OneAtATime, NEW w \in Workers, ReadApproval(w) \/ ReadVenue(w)
    PROVE  SerialOK'
<1> PICK r \in Request : r = requests[w]
  BY Serving
<1> PICK e, row, tab, n : e = r.event /\ row = events[e] /\ tab = rounds /\ n = failures
  OBVIOUS
<1>1. r.pc \in WithdrawPcs
  BY DEF ReadApproval, ReadVenue, At, WithdrawPcs
<1>2. r.pc # "idle" /\ e \in Events /\ RecordsInv /\ InOrder(r, row, tab, n)
  BY <1>1, WithdrawingInOrder
<1>3. r.kind = "recheck" => row.status = "Confirmed" /\ row.details # r.details
  BY <1>2 DEF InOrder, WithdrawOrder
<1>4. ASSUME NEW q, Fits(q, e, row, tab, n), Reads(w, q) PROVE SerialOK'
  BY <1>2, <1>4, ReadFits DEF Reads
<1>5. ASSUME NEW q, Fits(q, e, row, tab, n + 1), ReadFails(w, q) PROVE SerialOK'
  BY <1>2, <1>5, ReadFits DEF ReadFails
<1>6. ASSUME ReadApproval(w) PROVE SerialOK'
  <2>1. row.status = "Confirmed" /\ Calm(row, tab, e)
    BY <1>2, <1>6 DEF ReadApproval, At, InOrder, WithdrawOrder
  <2>2. Fits(Done, e, row, tab, n)
    BY <2>1, EndsCalm
  <2>3. LastIs(tab, e, row.approval, "Safety Approved")
    BY <2>1 DEF Calm
  <2>4. ASSUME NEW i \in RoundsOf(e), IsLatest(i), Reads(w, [To(w, "withdraw") EXCEPT !.round = i])
        PROVE  SerialOK'
    <3> PICK q : q = [To(w, "withdraw") EXCEPT !.round = i]
      OBVIOUS
    <3>1. Like(q, r, "withdraw") /\ q.round = i
      BY LikeFields
    <3>2. i = row.approval
      <4>1. LastRow(rounds, e, i)
        BY <2>4 DEF LastRow, IsLatest, RoundsOf, RowsOf, Live
      <4>2. LastRow(rounds, e, row.approval)
        BY <2>3 DEF LastIs
      <4> PICK j : j = row.approval
        OBVIOUS
      <4>3. i = j
        BY <1>2, <4>1, <4>2, OneLatest
      <4>. QED  BY <4>3
    <3>3. Fits(q, e, row, tab, n)
      BY <1>2, <1>3, <2>1, <2>3, <3>1, <3>2
         DEF Like, Fits, InOrder, SubmitOrder, DecideOrder, WithdrawOrder, VenueOrder, OwnerPcs, Approved
    <3>. QED  BY <1>4, <2>4, <3>3
  <2>. QED  BY <1>4, <1>6, <2>2, <2>4 DEF ReadApproval
<1>7. ASSUME ReadVenue(w) PROVE SerialOK'
  <2>1. row.status = "Confirmed" /\ row.approval = r.round /\ Withdrew(r, tab)
    BY <1>2, <1>7 DEF ReadVenue, At, InOrder, WithdrawOrder
  <2>2. ASSUME NEW p \in {"restore", "saveDetails", "withdrawEvent"}, NEW k
        PROVE  Fits(To(w, p), e, row, tab, k)
    <3> PICK q : q = To(w, p)
      OBVIOUS
    <3>1. Like(q, r, p) /\ q.round = r.round /\ q.next = r.next
      BY LikeFields
    <3>2. Withdrew(q, tab)
      BY <2>1, <3>1 DEF Like, Withdrew
    <3>3. Fits(q, e, row, tab, k)
      BY <1>2, <1>3, <2>1, <3>1, <3>2
         DEF Like, Fits, InOrder, SubmitOrder, DecideOrder, WithdrawOrder, VenueOrder, OwnerPcs
    <3>. QED  BY <3>3
  <2>3. \/ \E p \in {"restore", "saveDetails", "withdrawEvent"} : Reads(w, To(w, p))
        \/ ReadFails(w, To(w, "restore"))
    BY <1>7 DEF ReadVenue
  <2>. QED  BY <1>4, <1>5, <2>2, <2>3
<1>. QED  BY <1>6, <1>7

(* The withdrawal of the approval. *)
LEMMA WithdrawInOrder ==
    ASSUME FailuresAreCompensated, Inv, SerialOK, OneAtATime, NEW w \in Workers, CallWithdraw(w)
    PROVE  SerialOK'
<1> PICK r \in Request : r = requests[w]
  BY Serving
<1> PICK e, row, tab, n : e = r.event /\ row = events[e] /\ tab = rounds /\ n = failures
  OBVIOUS
<1>1. r.pc = "withdraw" /\ r.pc \in WithdrawPcs
  BY DEF CallWithdraw, At, WithdrawPcs
<1>2. r.pc # "idle" /\ e \in Events /\ RecordsInv /\ InOrder(r, row, tab, n)
  BY <1>1, WithdrawingInOrder
<1>3. /\ r.kind = "recheck" => row.status = "Confirmed" /\ row.details # r.details
      /\ row.status = "Confirmed" /\ row.approval = r.round /\ LastIs(tab, e, r.round, "Safety Approved")
  BY <1>1, <1>2 DEF InOrder, WithdrawOrder, Approved
<1> PICK opens : opens = (r.kind = "recheck")
  OBVIOUS
<1> PICK m : m = [call |-> "withdraw", round |-> r.round, opens |-> opens]
  OBVIOUS
<1> PICK new : new = IF opens THEN NewRound ELSE NoRound
  OBVIOUS
<1> PICK done : done = [To(w, "readVenue") EXCEPT !.next = new]
  OBVIOUS
<1>4. Calls(w, m, done, Done, Done)
  BY DEF CallWithdraw
<1>5. /\ m.call = "withdraw" /\ m.round = r.round /\ m.opens = opens
      /\ <<"late", m.call>> \notin Faults /\ <<"lost", m.call>> \notin Faults
  BY DEF FailuresAreCompensated, RecordCalls
<1>6. Like(done, r, "readVenue") /\ done.round = r.round /\ done.next = new
  BY LikeFields
<1>7. ASSUME NEW k PROVE Fits(Done, e, row, tab, k)
  BY <1>3, EndsCalm DEF Calm
<1>8. ASSUME Executes(m), Accepts(m)
      PROVE  OnlyTouches(e) /\ Fits(done, e, events'[e], rounds', n)
  <2>1. events' = events /\ RecordCall(m)
    BY <1>5, <1>8, CallLeaves DEF RecordCalls
  <2>2. /\ opens => \E i \in RoundIds : WithdrawApproval(r.round, i)
        /\ ~opens => WithdrawApproval(r.round, NoRound)
    BY <1>5, <2>1 DEF RecordCall
  <2> PICK tab2 : tab2 = rounds'
    OBVIOUS
  <2>3. Withdrew(done, tab2) /\ Elsewhere(rounds, rounds', e)
    <3>1. CASE opens
      <4>1. PICK i \in RoundIds : WithdrawApproval(r.round, i)
        BY <2>2, <3>1
      <4>2. Succeeded(rounds', e, r.round, i) /\ Elsewhere(rounds, rounds', e)
        BY <1>2, <1>3, <4>1, WithdrawOpens
      <4>3. done.next = i
        BY <1>6, <3>1, <4>1, TheNewRound, IdsAssumption DEF WithdrawApproval, Fresh
      <4>. QED  BY <1>6, <3>1, <4>2, <4>3 DEF Withdrew, Like
    <3>2. CASE ~opens
      <4>1. LastIs(rounds', e, r.round, "Approval Withdrawn") /\ Elsewhere(rounds, rounds', e)
        BY <1>2, <1>3, <2>2, <3>2, WithdrawCloses
      <4>. QED  BY <1>6, <3>2, <4>1 DEF Withdrew, Like
    <3>. QED  BY <3>1, <3>2
  <2>4. Fits(done, e, row, tab2, n)
    BY <1>2, <1>3, <1>6, <2>3
       DEF Like, Fits, InOrder, SubmitOrder, DecideOrder, WithdrawOrder, VenueOrder, OwnerPcs
  <2>. QED  BY <2>1, <2>3, <2>4, RecordTouches
<1>. QED  BY <1>2, <1>4, <1>5, <1>7, <1>8, CallFits

(* The edit that moves the event to the round opened for it.               *)
LEMMA SaveDetailsInOrder ==
    ASSUME FailuresAreCompensated, Inv, SerialOK, OneAtATime, NEW w \in Workers, CallSaveDetails(w)
    PROVE  SerialOK'
<1> PICK r \in Request : r = requests[w]
  BY Serving
<1> PICK e, row, tab, n : e = r.event /\ row = events[e] /\ tab = rounds /\ n = failures
  OBVIOUS
<1>1. r.pc = "saveDetails"
  BY DEF CallSaveDetails, At
<1>2. /\ r.pc # "idle" /\ e \in Events /\ RecordsInv /\ InOrder(r, row, tab, n) /\ row \in EventRecord
      /\ r.kind = "recheck" /\ r.details \in Details /\ r.next \in RoundIds
  BY <1>1, WithdrawingInOrder, Serving DEF Knows
<1>3. /\ row.status = "Confirmed" /\ row.details # r.details /\ row.approval = r.round
      /\ Succeeded(tab, e, r.round, r.next)
  BY <1>1, <1>2 DEF InOrder, WithdrawOrder, Withdrew
<1> PICK m : m = [call |-> "saveDetails", event |-> e, by |-> r.by,
                  details |-> r.details, round |-> r.round, next |-> r.next]
  OBVIOUS
<1> PICK undo : undo = To(w, "restore")
  OBVIOUS
<1>4. Calls(w, m, Done, undo, undo)
  BY DEF CallSaveDetails
<1>5. /\ m.call = "saveDetails" /\ m.event = e /\ m.by = r.by /\ m.details = r.details
      /\ m.round = r.round /\ m.next = r.next
      /\ <<"late", m.call>> \notin Faults /\ <<"lost", m.call>> \notin Faults
  BY DEF FailuresAreCompensated, EventCalls
<1>6. ASSUME NEW k PROVE Fits(undo, e, row, tab, k)
  <2>1. Like(undo, r, "restore") /\ undo.round = r.round /\ undo.next = r.next
    BY LikeFields
  <2>2. Withdrew(undo, tab)
    BY <1>2, <1>3, <2>1 DEF Like, Withdrew
  <2>. QED  BY <1>2, <1>3, <2>1, <2>2
            DEF Like, Fits, InOrder, SubmitOrder, DecideOrder, WithdrawOrder, VenueOrder, OwnerPcs
<1>7. ASSUME Executes(m), Accepts(m)
      PROVE  OnlyTouches(e) /\ Fits(Done, e, events'[e], rounds', n)
  <2>1. rounds' = tab /\ SaveDetails(e, r.by, r.details, r.round, r.next)
    BY <1>5, <1>7, CallLeaves DEF EventCalls, EventCall
  <2> PICK new : new = Rechecked(row, r.details, r.next)
    OBVIOUS
  <2>2. Saves(e, new)
    BY <1>3, <2>1 DEF SaveDetails, Changes, Status
  <2>3. OnlyTouches(e) /\ events'[e] = new
    BY <1>2, <2>1, <2>2, SaveTouches
  <2>4. new.status = "Pending Safety Check" /\ new.submitted = r.next
    <3>1. WaitsFor(row, new, r.next)
      BY <1>2, WaitingRows
    <3>. QED  BY <1>2, <3>1, RecheckedRow DEF WaitsFor, RoundOrNone
  <2>5. Fits(Done, e, new, tab, n)
    BY <1>3, <2>4, EndsCalm DEF Calm, Succeeded
  <2>. QED  BY <2>1, <2>3, <2>5
<1>. QED  BY <1>2, <1>4, <1>5, <1>6, <1>7, CallFits

(* The undo of the withdrawal. *)
LEMMA RestoreInOrder ==
    ASSUME FailuresAreCompensated, Inv, SerialOK, OneAtATime, NEW w \in Workers, CallRestore(w)
    PROVE  SerialOK'
<1> PICK r \in Request : r = requests[w]
  BY Serving
<1> PICK e, row, tab, n : e = r.event /\ row = events[e] /\ tab = rounds /\ n = failures
  OBVIOUS
<1>1. r.pc = "restore" /\ r.pc \in WithdrawPcs
  BY DEF CallRestore, At, WithdrawPcs
<1>2. r.pc # "idle" /\ e \in Events /\ RecordsInv /\ InOrder(r, row, tab, n)
  BY <1>1, WithdrawingInOrder
<1>3. /\ \/ row.status = "Confirmed" /\ row.approval = r.round
         \/ row.status = "Approved"
      /\ Withdrew(r, tab)
  BY <1>1, <1>2 DEF InOrder, WithdrawOrder
<1> PICK m : m = [call |-> "restore", round |-> r.round, next |-> r.next]
  OBVIOUS
<1>4. Calls(w, m, Done, Done, Done)
  BY DEF CallRestore
<1>5. /\ m.call = "restore" /\ m.round = r.round /\ m.next = r.next
      /\ <<"late", m.call>> \notin Faults /\ <<"undelivered", m.call>> \notin Faults
  BY DEF FailuresAreCompensated, RecordCalls
<1>6. /\ CanRestore(r.round, r.next)
      /\ RestoreApproval(r.round, r.next) =>
            LastIs(rounds', e, r.round, "Safety Approved") /\ Elsewhere(rounds, rounds', e)
  <2>1. CASE r.kind = "recheck"
    <3>1. Succeeded(tab, e, r.round, r.next)
      BY <1>3, <2>1 DEF Withdrew
    <3>2. r.next \in RoundIds
      BY <1>2, <3>1, Rows DEF Succeeded, OnlyOpen, LastRow, RowsOf, Live, RecordsInv
    <3>. QED  BY <1>2, <3>1, <3>2, RestoreCloses
  <2>2. CASE r.kind # "recheck"
    <3>1. r.next = NoRound /\ LastIs(tab, e, r.round, "Approval Withdrawn")
      BY <1>3, <2>2 DEF Withdrew
    <3>. QED  BY <1>2, <3>1, RestoreReinstates
  <2>. QED  BY <2>1, <2>2
<1>7. Accepts(m)
  BY <1>5, <1>6 DEF Accepts
<1>8. ASSUME NEW k, Executes(m)
      PROVE  OnlyTouches(e) /\ Fits(Done, e, events'[e], rounds', k)
  <2>1. events' = events /\ RestoreApproval(r.round, r.next)
    BY <1>5, <1>7, <1>8, CallLeaves DEF RecordCalls, RecordCall
  <2>2. LastIs(rounds', e, r.round, "Safety Approved") /\ Elsewhere(rounds, rounds', e)
    BY <1>6, <2>1
  <2> PICK tab2 : tab2 = rounds'
    OBVIOUS
  <2>3. Fits(Done, e, row, tab2, k)
    BY <1>3, <2>2, EndsCalm DEF Calm, LastIs
  <2>. QED  BY <2>1, <2>2, <2>3, RecordTouches
<1>. QED  BY <1>2, <1>4, <1>5, <1>7, <1>8, CallFits

(* A re-check, and a withdrawal for a change of a booking, stay in order.  *)
LEMMA RecheckStaysInOrder ==
    ASSUME FailuresAreCompensated, Inv, SerialOK, OneAtATime, NEW w \in Workers, RecheckStep(w)
    PROVE  SerialOK'
BY WithdrawReadsInOrder, WithdrawInOrder, SaveDetailsInOrder, RestoreInOrder DEF RecheckStep

(* A decision stays in order. *)
LEMMA DecideStaysInOrder ==
    ASSUME FailuresAreCompensated, Inv, SerialOK, OneAtATime, NEW w \in Workers, DecideStep(w)
    PROVE  SerialOK'
BY DecideReadsInOrder, DecideInOrder, ResetsInOrder, MoveInOrder, ReopenInOrder, ReleaseInOrder DEF DecideStep

(* The call that withdraws the event's confirmation.                       *)
LEMMA WithdrawEventInOrder ==
    ASSUME FailuresAreCompensated, Inv, SerialOK, OneAtATime, NEW w \in Workers, CallWithdrawEvent(w)
    PROVE  SerialOK'
<1> PICK r \in Request : r = requests[w]
  BY Serving
<1> PICK e, row, tab, n : e = r.event /\ row = events[e] /\ tab = rounds /\ n = failures
  OBVIOUS
<1>1. r.pc = "withdrawEvent" /\ r.pc \in VenuePcs /\ r.pc \in RoundPcs
  BY DEF CallWithdrawEvent, At, VenuePcs, RoundPcs
<1>2. /\ r.pc # "idle" /\ e \in Events /\ RecordsInv /\ InOrder(r, row, tab, n) /\ row \in EventRecord
      /\ r.kind # "recheck" /\ r.round \in RoundIds /\ r.round # NoRound
  BY <1>1, WithdrawingInOrder, Serving, IdsAssumption DEF Knows, VenueChanges
<1>3. /\ row.status = "Confirmed" /\ row.approval = r.round /\ Withdrew(r, tab)
      /\ r.next = NoRound /\ LastIs(tab, e, r.round, "Approval Withdrawn")
  BY <1>1, <1>2 DEF InOrder, WithdrawOrder, Withdrew
<1> PICK m : m = [call |-> "withdrawEvent", event |-> e, by |-> r.by, round |-> r.round]
  OBVIOUS
<1> PICK on, undo : on = To(w, "changeBooking") /\ undo = To(w, "restore")
  OBVIOUS
<1> PICK done : done = IF r.waited THEN on ELSE Done
  OBVIOUS
<1>4. Calls(w, m, done, undo, undo)
  BY DEF CallWithdrawEvent
<1>5. /\ m.call = "withdrawEvent" /\ m.event = e /\ m.by = r.by /\ m.round = r.round
      /\ <<"late", m.call>> \notin Faults
  BY DEF FailuresAreCompensated, EventCalls
<1>6. /\ Like(on, r, "changeBooking") /\ on.round = r.round
      /\ Like(undo, r, "restore") /\ undo.round = r.round /\ undo.next = r.next
  BY LikeFields
<1>7. Withdrew(undo, tab)
  BY <1>3, <1>6 DEF Like, Withdrew
<1>8. ASSUME NEW k, NEW new, (new.status = "Confirmed" /\ new.approval = r.round) \/ new.status = "Approved"
      PROVE  Fits(undo, e, new, tab, k)
  BY <1>2, <1>3, <1>6, <1>7, <1>8
     DEF Like, Fits, InOrder, SubmitOrder, DecideOrder, WithdrawOrder, VenueOrder, OwnerPcs
<1>9. ASSUME Executes(m), Accepts(m)
      PROVE  /\ OnlyTouches(e) /\ Fits(done, e, events'[e], rounds', n)
             /\ Fits(undo, e, events'[e], rounds', n + 1)
  <2>1. rounds' = tab /\ WithdrawEvent(e, r.by, r.round)
    BY <1>5, <1>9, CallLeaves DEF EventCalls, EventCall
  <2> PICK new : new = Unconfirmed(row, r.round)
    OBVIOUS
  <2>2. Saves(e, new)
    BY <2>1 DEF WithdrawEvent
  <2>3. OnlyTouches(e) /\ events'[e] = new
    BY <1>2, <2>1, <2>2, SaveTouches
  <2>4. new.status = "Approved"
    BY <1>2 DEF Unconfirmed, EventRecord
  <2>5. Fits(on, e, new, tab, n)
    BY <1>2, <1>3, <1>6, <2>4
       DEF Like, Fits, InOrder, SubmitOrder, DecideOrder, WithdrawOrder, VenueOrder, OwnerPcs
  <2>6. Fits(Done, e, new, tab, n)
    BY <1>3, <2>4, EndsCalm DEF Calm, LastIs
  <2>. QED  BY <1>8, <2>1, <2>3, <2>4, <2>5, <2>6
<1>. QED  BY <1>2, <1>3, <1>4, <1>5, <1>8, <1>9, CallFits

(* The reads of a change of a booking, and the change itself.              *)
LEMMA VenueReadsInOrder ==
    ASSUME Inv, SerialOK, OneAtATime, NEW w \in Workers, ReadEvent(w) \/ ReadWithdrawn(w)
    PROVE  SerialOK'
<1> PICK r \in Request : r = requests[w]
  BY Serving
<1> PICK e, row, tab, n : e = r.event /\ row = events[e] /\ tab = rounds /\ n = failures
  OBVIOUS
<1>1. r.pc \in VenuePcs
  BY DEF ReadEvent, ReadWithdrawn, At, VenuePcs
<1>2. /\ r.pc # "idle" /\ e \in Events /\ RecordsInv /\ InOrder(r, row, tab, n)
      /\ r.kind # "recheck"
  BY <1>1, WithdrawingInOrder, Serving DEF Knows, VenueChanges
<1>3. ASSUME NEW q, Fits(q, e, row, tab, n), Reads(w, q) PROVE SerialOK'
  BY <1>2, <1>3, ReadFits DEF Reads
<1>4. ASSUME NEW q, Fits(q, e, row, tab, n + 1), ReadFails(w, q) PROVE SerialOK'
  BY <1>2, <1>4, ReadFits DEF ReadFails
<1>5. ASSUME ReadEvent(w) PROVE SerialOK'
  <2>1. row.status = "Confirmed" /\ Calm(row, tab, e)
    BY <1>2, <1>5 DEF ReadEvent, At, InOrder, WithdrawOrder
  <2> PICK q : q = To(w, "readApproval")
    OBVIOUS
  <2>2. Like(q, r, "readApproval")
    BY LikeFields
  <2>3. Fits(q, e, row, tab, n)
    BY <1>2, <2>1, <2>2
       DEF Like, Fits, InOrder, SubmitOrder, DecideOrder, WithdrawOrder, VenueOrder, OwnerPcs
  <2>4. Fits(Done, e, row, tab, n)
    BY <2>1, EndsCalm
  <2>5. Reads(w, q) \/ Reads(w, Done)
    BY <1>5 DEF ReadEvent
  <2>. QED  BY <1>3, <2>3, <2>4, <2>5
<1>6. ASSUME ReadWithdrawn(w) PROVE SerialOK'
  <2>1. r.pc = "readWithdrawn" /\ r.round # NoRound
    BY <1>6, Serving, IdsAssumption DEF ReadWithdrawn, At, Knows, RoundPcs
  <2>2. row.status = "Approved" /\ LastIs(tab, e, r.round, "Approval Withdrawn")
    BY <1>2, <2>1 DEF InOrder, VenueOrder
  <2> PICK q : q = To(w, "reinstate")
    OBVIOUS
  <2>3. Like(q, r, "reinstate") /\ q.round = r.round
    BY LikeFields
  <2>4. Fits(q, e, row, tab, n)
    BY <1>2, <2>1, <2>2, <2>3
       DEF Like, Fits, InOrder, SubmitOrder, DecideOrder, WithdrawOrder, VenueOrder, OwnerPcs
  <2>5. ASSUME NEW k PROVE Fits(Done, e, row, tab, k)
    BY <2>2, EndsCalm DEF Calm, LastIs
  <2>6. Reads(w, q) \/ Reads(w, Done) \/ ReadFails(w, Done)
    BY <1>6 DEF ReadWithdrawn
  <2>. QED  BY <1>3, <1>4, <2>4, <2>5, <2>6
<1>. QED  BY <1>5, <1>6

(* The Venue Booking Service stops waiting. *)
LEMMA GivingUpStaysInOrder ==
    ASSUME Inv, SerialOK, OneAtATime, NEW w \in Workers, GivesUpWaiting(w)
    PROVE  SerialOK'
<1> PICK r \in Request : r = requests[w]
  BY Serving
<1> PICK e, row, tab, n : e = r.event /\ row = events[e] /\ tab = rounds /\ n = failures
  OBVIOUS
<1>1. r.pc \in WithdrawPcs \cup VenuePcs
  BY DEF GivesUpWaiting, WithdrawPcs, VenuePcs
<1>2. /\ r.pc # "idle" /\ InOrder(r, row, tab, n)
      /\ r.kind # "recheck"
      /\ r.pc \in {"readEvent", "readApproval", "withdraw", "readVenue", "withdrawEvent", "restore"}
  BY <1>1, WithdrawingInOrder DEF GivesUpWaiting, VenueChanges
<1> PICK q : q = NotWaited(r)
  OBVIOUS
<1>3. Like(q, r, r.pc) /\ q.round = r.round /\ q.next = r.next
  BY DEF NotWaited, Request, Like
<1>4. Withdrew(r, tab) => Withdrew(q, tab)
  BY <1>3 DEF Withdrew, Like
<1>5. Fits(q, e, row, tab, n + 1)
  BY <1>2, <1>3, <1>4
     DEF Like, Fits, InOrder, SubmitOrder, DecideOrder, WithdrawOrder, VenueOrder, OwnerPcs, Approved
<1>6. Becomes(w, q)
  <2>1. requests' = [requests EXCEPT ![w] = NotWaited(requests[w])]
    BY DEF GivesUpWaiting, NotWaited
  <2>. QED  BY <2>1 DEF Becomes
<1>7. UNCHANGED <<serviceVars, late>> /\ failures' = failures + 1
  BY DEF GivesUpWaiting
<1>. QED  BY <1>2, <1>5, <1>6, <1>7, ReadFits

(* The change of the booking. *)
LEMMA ChangeInOrder ==
    ASSUME Inv, SerialOK, OneAtATime, NEW w \in Workers, CallChangeBooking(w)
    PROVE  SerialOK'
<1> PICK r \in Request : r = requests[w]
  BY Serving
<1> PICK e, row, tab, n : e = r.event /\ row = events[e] /\ tab = rounds /\ n = failures
  OBVIOUS
<1>1. r.pc = "changeBooking" /\ r.pc \in VenuePcs
  BY DEF CallChangeBooking, At, VenuePcs
<1>2. r.pc # "idle" /\ InOrder(r, row, tab, n) /\ r.kind # "recheck"
  BY <1>1, WithdrawingInOrder, Serving DEF Knows, VenueChanges
<1>3. /\ r.round = NoRound => row.status \in Preparing /\ NoneOpen(tab, e)
      /\ r.round # NoRound => row.status = "Approved" /\ LastIs(tab, e, r.round, "Approval Withdrawn")
  BY <1>1, <1>2 DEF InOrder, VenueOrder, Prepares
<1>4. ASSUME NEW k PROVE Fits(Done, e, row, tab, k)
  BY <1>3, EndsCalm DEF Calm, Preparing, LastIs
<1> PICK undo : undo = To(w, "readWithdrawn")
  OBVIOUS
<1>5. Like(undo, r, "readWithdrawn") /\ undo.round = r.round
  BY LikeFields
<1>6. ASSUME NEW k, r.round # NoRound PROVE Fits(undo, e, row, tab, k)
  BY <1>2, <1>3, <1>5, <1>6
     DEF Like, Fits, InOrder, SubmitOrder, DecideOrder, WithdrawOrder, VenueOrder, OwnerPcs
<1> PICK putBack : putBack = IF r.round = NoRound THEN Done ELSE undo
  OBVIOUS
<1>7. \A k, q : q \in {Done, putBack} => Fits(q, e, row, tab, k)
  BY <1>4, <1>6
<1> PICK m : m = [call |-> "changeBooking", event |-> e, status |-> BookingStatusOf(r.kind)]
  OBVIOUS
<1>8. \/ Calls(w, m, Done, putBack, putBack)
      \/ Becomes(w, putBack) /\ UNCHANGED <<serviceVars, late, failures>>
  BY DEF CallChangeBooking
<1>9. CASE Calls(w, m, Done, putBack, putBack)
  <2>1. m.call \in BookingCalls
    BY DEF BookingCalls
  <2>. QED  BY <1>2, <1>7, <1>9, <2>1, BookingCallFits
<1>10. CASE Becomes(w, putBack) /\ UNCHANGED <<serviceVars, late, failures>>
  BY <1>2, <1>7, <1>10, ReadFits
<1>. QED  BY <1>8, <1>9, <1>10

(* The two calls that put the approval back: the record's, then the        *)
(* event's.                                                                *)
LEMMA ReinstateInOrder ==
    ASSUME FailuresAreCompensated, Inv, SerialOK, OneAtATime, NEW w \in Workers, CallReinstate(w)
    PROVE  SerialOK'
<1> PICK r \in Request : r = requests[w]
  BY Serving
<1> PICK e, row, tab, n : e = r.event /\ row = events[e] /\ tab = rounds /\ n = failures
  OBVIOUS
<1>1. r.pc = "reinstate" /\ r.pc \in VenuePcs /\ r.pc \in RoundPcs
  BY DEF CallReinstate, At, VenuePcs, RoundPcs
<1>2. /\ r.pc # "idle" /\ e \in Events /\ RecordsInv /\ InOrder(r, row, tab, n)
      /\ r.kind # "recheck" /\ r.round # NoRound
  BY <1>1, WithdrawingInOrder, Serving, IdsAssumption DEF Knows, VenueChanges
<1>3. row.status = "Approved" /\ LastIs(tab, e, r.round, "Approval Withdrawn")
  BY <1>1, <1>2 DEF InOrder, VenueOrder
<1> PICK m : m = [call |-> "restore", round |-> r.round, next |-> NoRound]
  OBVIOUS
<1> PICK on : on = To(w, "restoreEvent")
  OBVIOUS
<1>4. Calls(w, m, on, Done, Done)
  BY DEF CallReinstate
<1>5. m.call = "restore" /\ m.round = r.round /\ m.next = NoRound /\ <<"late", m.call>> \notin Faults
  BY DEF FailuresAreCompensated, RecordCalls
<1>6. Like(on, r, "restoreEvent") /\ on.round = r.round
  BY LikeFields
<1>7. ASSUME NEW k, NEW table, NEW s, LastIs(table, e, r.round, s) PROVE Fits(Done, e, row, table, k)
  BY <1>3, <1>7, EndsCalm DEF Calm, LastIs
<1>8. ASSUME Executes(m), Accepts(m)
      PROVE  /\ OnlyTouches(e) /\ Fits(on, e, events'[e], rounds', n)
             /\ Fits(Done, e, events'[e], rounds', n + 1)
  <2>1. events' = events /\ RestoreApproval(r.round, NoRound)
    BY <1>5, <1>8, CallLeaves DEF RecordCalls, RecordCall
  <2>2. LastIs(rounds', e, r.round, "Safety Approved") /\ Elsewhere(rounds, rounds', e)
    BY <1>2, <1>3, <2>1, RestoreReinstates
  <2> PICK tab2 : tab2 = rounds'
    OBVIOUS
  <2>3. Fits(on, e, row, tab2, n)
    BY <1>2, <1>3, <1>6, <2>2
       DEF Like, Fits, InOrder, SubmitOrder, DecideOrder, WithdrawOrder, VenueOrder, OwnerPcs
  <2>4. Fits(Done, e, row, tab2, n + 1)
    BY <1>7, <2>2
  <2>. QED  BY <2>1, <2>2, <2>3, <2>4, RecordTouches
<1>9. \A k : Fits(Done, e, row, tab, k)
  BY <1>3, <1>7
<1>. QED  BY <1>2, <1>4, <1>5, <1>8, <1>9, CallFits

(* The undo that makes the event Confirmed again: afterwards it is, with its *)
(* last round approved.                                                    *)
LEMMA RestoreEventInOrder ==
    ASSUME FailuresAreCompensated, Inv, SerialOK, OneAtATime, NEW w \in Workers, CallRestoreEvent(w)
    PROVE  SerialOK'
<1> PICK r \in Request : r = requests[w]
  BY Serving
<1> PICK e, row, tab, n : e = r.event /\ row = events[e] /\ tab = rounds /\ n = failures
  OBVIOUS
<1>1. r.pc = "restoreEvent" /\ r.pc \in VenuePcs
  BY DEF CallRestoreEvent, At, VenuePcs
<1>2. r.pc # "idle" /\ e \in Events /\ InOrder(r, row, tab, n) /\ row \in EventRecord
  BY <1>1, WithdrawingInOrder
<1>3. row.status = "Approved" /\ LastIs(tab, e, r.round, "Safety Approved")
  BY <1>1, <1>2 DEF InOrder, VenueOrder
<1> PICK m : m = [call |-> "restoreEvent", event |-> e, by |-> r.by, round |-> r.round]
  OBVIOUS
<1>4. Calls(w, m, Done, Done, Done)
  BY DEF CallRestoreEvent
<1>5. m.call = "restoreEvent" /\ m.event = e /\ m.by = r.by /\ m.round = r.round /\ <<"late", m.call>> \notin Faults
  BY DEF FailuresAreCompensated, EventCalls
<1>6. ASSUME NEW k PROVE Fits(Done, e, row, tab, k)
  BY <1>3, EndsCalm DEF Calm, LastIs
<1>7. ASSUME NEW k, Executes(m), Accepts(m)
      PROVE  OnlyTouches(e) /\ Fits(Done, e, events'[e], rounds', k)
  <2>1. rounds' = tab /\ RestoreEvent(e, r.by, r.round)
    BY <1>5, <1>7, CallLeaves DEF EventCalls, EventCall
  <2> PICK new : new = Confirmed(row, r.round)
    OBVIOUS
  <2>2. Saves(e, new)
    BY <2>1 DEF RestoreEvent
  <2>3. OnlyTouches(e) /\ events'[e] = new
    BY <1>2, <2>1, <2>2, SaveTouches
  <2>4. new.status = "Confirmed" /\ new.approval = r.round
    BY <1>2 DEF Confirmed, EventRecord
  <2>5. Fits(Done, e, new, tab, k)
    BY <1>3, <2>4, EndsCalm DEF Calm
  <2>. QED  BY <2>1, <2>3, <2>5
<1>. QED  BY <1>2, <1>4, <1>5, <1>6, <1>7, CallFits

(* A change of a booking stays in order. *)
LEMMA VenueChangeStaysInOrder ==
    ASSUME FailuresAreCompensated, Inv, SerialOK, OneAtATime, NEW w \in Workers, VenueChangeStep(w)
    PROVE  SerialOK'
BY WithdrawEventInOrder, VenueReadsInOrder, GivingUpStaysInOrder, ChangeInOrder, ReinstateInOrder,
   RestoreEventInOrder DEF VenueChangeStep

(* Every step of a request that has begun is that of a request in progress.*)
LEMMA NextStaysInOrder ==
    ASSUME FailuresAreCompensated, Inv, SerialOK, OneAtATime, OneAtATime', [Next]_vars
    PROVE  SerialOK'
<1>1. CASE UNCHANGED vars
  <2>1. UNCHANGED <<rounds, requests, failures>> /\ late' \subseteq late /\ events' = events
    BY <1>1 DEF vars, serviceVars, recordVars
  <2>. QED  BY <2>1, Untouched, OthersStayInOrder
<1>2. ASSUME NEW w \in Workers, Begin(w) PROVE SerialOK'
  BY <1>2, BeginStaysInOrder
<1>3. ASSUME NEW w \in Workers, Step(w) PROVE SerialOK'
  BY <1>3, SubmitStaysInOrder, DecideStaysInOrder, RecheckStaysInOrder, VenueChangeStaysInOrder DEF Step
<1>4. CASE StaffStep
  <2>1. UNCHANGED <<rounds, requests, failures>> /\ late' \subseteq late /\ events' = events
    BY <1>4 DEF StaffStep, recordVars
  <2>. QED  BY <2>1, Untouched, OthersStayInOrder
<1>5. CASE CoordinatorStep
  <2>1. UNCHANGED <<rounds, requests, failures>> /\ late' \subseteq late
    BY <1>5 DEF CoordinatorStep, recordVars
  <2>. QED  BY <1>5, <2>1, CoordinatorsStayInOrder, OthersStayInOrder
<1>6. CASE LateCall
  BY <1>6, LateCallsStayInOrder
<1>. QED  BY <1>1, <1>2, <1>3, <1>4, <1>5, <1>6 DEF Next

(* When every request has ended, order is what the properties promise.     *)
LEMMA OrderKeepsThePromises ==
    ASSUME Inv, SerialOK
    PROVE  ReviewAligned /\ ApprovalStands
<1> SUFFICES ASSUME Settled, NEW e \in Events
             PROVE  /\ OpenRounds(e) = IF Status(e) = "Pending Safety Check" THEN {events[e].submitted} ELSE {}
                    /\ Status(e) = "Confirmed" =>
                          \E i \in RoundsOf(e) : /\ i = events[e].approval
                                                 /\ rounds[i].status = "Safety Approved"
                                                 /\ IsLatest(i)
  BY DEF ReviewAligned, ApprovalStands
<1> PICK row, tab : row = events[e] /\ tab = rounds
  OBVIOUS
<1>1. ~Busy(e)
  BY DoneFields DEF Settled, Busy, Done
<1>2. Calm(row, tab, e)
  BY <1>1 DEF SerialOK
<1>3. RoundsOf(e) = RowsOf(tab, e)
  BY DEF RoundsOf, RowsOf, Live
<1>4. OpenRounds(e) = {i \in RowsOf(tab, e) : tab[i].status = "Pending"}
  BY <1>3 DEF OpenRounds
<1>5. CASE row.status = "Pending Safety Check"
  <2>1. OnlyOpen(tab, e, row.submitted)
    BY <1>2, <1>5 DEF Calm
  <2>. QED  BY <1>4, <1>5, <2>1 DEF OnlyOpen, LastRow, Status
<1>6. CASE row.status = "Confirmed"
  <2>1. LastIs(tab, e, row.approval, "Safety Approved")
    BY <1>2, <1>6 DEF Calm
  <2>2. OpenRounds(e) = {}
    BY <1>4, <2>1 DEF LastIs, NoneOpen
  <2>3. row.approval \in RoundsOf(e) /\ rounds[row.approval].status = "Safety Approved" /\ IsLatest(row.approval)
    BY <1>3, <2>1 DEF LastIs, LastRow, IsLatest, RowsOf
  <2>. QED  BY <1>6, <2>2, <2>3 DEF Status
<1>7. CASE row.status \notin {"Pending Safety Check", "Confirmed"}
  BY <1>2, <1>4, <1>7 DEF Calm, NoneOpen, Status
<1>. QED  BY <1>5, <1>6, <1>7

(* While no two requests about one event are in progress at once, and only *)
(* calls fail that a handler compensates, every request finds the record   *)
(* and the event at each of its steps as the steps before have left them;  *)
(* and an event that no request is about tells the story of its record,    *)
(* whatever is in progress elsewhere.                                      *)
THEOREM RequestsStayInOrder ==
    FailuresAreCompensated => (Spec /\ []OneAtATime => []SerialOK)
<1> SUFFICES ASSUME FailuresAreCompensated PROVE Spec /\ []OneAtATime => []SerialOK
  OBVIOUS
<1>1. ServiceInit => SerialOK
  BY InitIsInOrder
<1>2. Inv /\ SerialOK /\ OneAtATime /\ OneAtATime' /\ [Next]_vars => SerialOK'
  BY NextStaysInOrder
<1>. QED  BY <1>1, <1>2, ServiceInvariant, PTL DEF Spec

(* So the compensations keep what the composite promises for the end of    *)
(* its requests: once every request has ended, the record and the event    *)
(* tell one story -- an event is Pending Safety Check exactly when one     *)
(* round is open, and it is the one the event will accept a decision of -- *)
(* for any number of events, requests and workers.                         *)
THEOREM CompensationAlignsTheReviews ==
    FailuresAreCompensated => (Spec /\ []OneAtATime => []ReviewAligned)
<1> SUFFICES ASSUME FailuresAreCompensated PROVE Spec /\ []OneAtATime => []ReviewAligned
  OBVIOUS
<1>1. Spec /\ []OneAtATime => []SerialOK
  BY RequestsStayInOrder
<1>2. Inv /\ SerialOK => ReviewAligned
  BY OrderKeepsThePromises
<1>. QED  BY <1>1, <1>2, ServiceInvariant, PTL

(* Under the same conditions a Confirmed event keeps the approval that     *)
(* confirmed it, or has it back: once every request has ended, the round   *)
(* that confirmed it reads Safety Approved and is the event's latest, no   *)
(* matter at which call a withdrawal broke off.                            *)
THEOREM CompensationKeepsApprovals ==
    FailuresAreCompensated => (Spec /\ []OneAtATime => []ApprovalStands)
<1> SUFFICES ASSUME FailuresAreCompensated PROVE Spec /\ []OneAtATime => []ApprovalStands
  OBVIOUS
<1>1. Spec /\ []OneAtATime => []SerialOK
  BY RequestsStayInOrder
<1>2. Inv /\ SerialOK => ApprovalStands
  BY OrderKeepsThePromises
<1>. QED  BY <1>1, <1>2, ServiceInvariant, PTL

----------------------------------------------------------------------------
(* The bookings of Confirmed events.                                       *)

(* A change or a reset of a booking does not execute after its caller has  *)
(* given it up.                                                            *)
ChangesArriveInTime == \A c \in {"changeBooking", "resetBooking"} : <<"late", c>> \notin Faults

(* A belated call m changes no booking of a Confirmed event. *)
Harmless(m) ==
    \/ m.call = "resetEquipment"
    \/ m.call = "releaseBooking" /\ m.event \in Events /\ Status(m.event) = "Cancelled"

BookingsStay == \A e \in Events : Status(e) = "Confirmed" => venue'[e] = venue[e]
NewlyLate == \A m \in late' \ late : Harmless(m)

(* A read changes none. *)
LEMMA ReadLeavesBookings ==
    ASSUME NEW w, NEW q, Reads(w, q) \/ ReadFails(w, q)
    PROVE  BookingsStay /\ NewlyLate
BY DEF Reads, ReadFails, serviceVars, arrangementVars, BookingsStay, NewlyLate

(* Nor does a call to the record or to the Event Service. *)
LEMMA OtherCallLeavesBookings ==
    ASSUME FailuresAreCompensated, NEW w, NEW m, m.call \in RecordCalls \cup EventCalls,
           NEW done, NEW refused, NEW failed, Calls(w, m, done, refused, failed)
    PROVE  BookingsStay /\ NewlyLate
<1>1. <<"late", m.call>> \notin Faults
  BY DEF FailuresAreCompensated
<1>2. late' = late
  BY <1>1 DEF Calls
<1>3. Executes(m) => venue' = venue
  BY DEF Executes, RecordCall, EventCall, BookingCall, RecordCalls, EventCalls, serviceVars, arrangementVars
<1>4. venue' = venue
  BY <1>1, <1>3 DEF Calls, serviceVars, arrangementVars
<1>. QED  BY <1>2, <1>4 DEF BookingsStay, NewlyLate

(* Nor one about the booking of an event that is not Confirmed.            *)
LEMMA BookingCallLeavesOthers ==
    ASSUME Inv, NEW m, m.call \in BookingCalls, m.event \in Events, Executes(m)
    PROVE  /\ \A e \in Events : e # m.event => venue'[e] = venue[e]
           /\ m.call = "resetEquipment" => venue' = venue
<1>1. venue \in [Events -> BookingStatuses]
  BY DEF Inv, ServiceInv, ArrangementsTypeOK
<1>2. CASE UNCHANGED serviceVars
  BY <1>2 DEF serviceVars, arrangementVars
<1>3. CASE BookingCall(m)
  <2>1. \/ \E b : venue' = [venue EXCEPT ![m.event] = b]
        \/ venue' = venue
    BY <1>3 DEF BookingCall, ResetBooking, ResetEquipment, ReleaseBooking, ChangeBooking
  <2>2. m.call = "resetEquipment" => venue' = venue
    BY <1>3 DEF BookingCall, ResetEquipment
  <2>. QED  BY <1>1, <2>1, <2>2
<1>. QED  BY <1>2, <1>3 DEF Executes, RecordCall, EventCall, BookingCalls

(* A call about the booking of an event that is not Confirmed changes that of *)
(* no Confirmed event; and given up, it does not later either.             *)
LEMMA BookingCallLeavesConfirmed ==
    ASSUME ChangesArriveInTime, Inv, NEW w, NEW m, m.call \in BookingCalls, m.event \in Events,
           Status(m.event) # "Confirmed",
           m.call = "releaseBooking" => Status(m.event) = "Cancelled",
           NEW done, NEW refused, NEW failed, Calls(w, m, done, refused, failed)
    PROVE  BookingsStay /\ NewlyLate
<1>1. \/ Executes(m)
      \/ UNCHANGED serviceVars
  BY DEF Calls
<1>2. BookingsStay
  BY <1>1, BookingCallLeavesOthers DEF BookingsStay, serviceVars, arrangementVars
<1>3. \/ late' = late
      \/ late' = late \cup {m} /\ <<"late", m.call>> \in Faults
  BY DEF Calls
<1>4. <<"late", m.call>> \in Faults => Harmless(m)
  BY DEF ChangesArriveInTime, BookingCalls, Harmless
<1>. QED  BY <1>2, <1>3, <1>4 DEF NewlyLate

(* The steps of submissions, decisions, withdrawals and changes of         *)
(* bookings.                                                               *)
LEMMA SubmitLeavesBookings ==
    ASSUME FailuresAreCompensated, NEW w \in Workers, SubmitStep(w)
    PROVE  BookingsStay /\ NewlyLate
<1>1. ASSUME CheckReadiness(w) PROVE BookingsStay /\ NewlyLate
  BY <1>1, ReadLeavesBookings DEF CheckReadiness
<1>2. ASSUME NEW m, m.call \in {"create", "submitEvent", "delete"}, NEW done, NEW refused, NEW failed,
             Calls(w, m, done, refused, failed)
      PROVE  BookingsStay /\ NewlyLate
  BY <1>2, OtherCallLeavesBookings DEF RecordCalls, EventCalls
<1>3. ASSUME CallCreate(w) PROVE BookingsStay /\ NewlyLate
  <2> PICK m : m = [call |-> "create", event |-> requests[w].event]
    OBVIOUS
  <2>1. m.call = "create" /\ \E done : Calls(w, m, done, Done, Done)
    BY <1>3 DEF CallCreate
  <2>. QED  BY <1>2, <2>1
<1>4. ASSUME CallSubmitEvent(w) PROVE BookingsStay /\ NewlyLate
  <2> PICK m : m = [call |-> "submitEvent", event |-> requests[w].event,
                    by |-> requests[w].by, round |-> requests[w].round]
    OBVIOUS
  <2>1. m.call = "submitEvent" /\ \E q : Calls(w, m, Done, q, q)
    BY <1>4 DEF CallSubmitEvent
  <2>. QED  BY <1>2, <2>1
<1>5. ASSUME CallDelete(w) PROVE BookingsStay /\ NewlyLate
  <2> PICK m : m = [call |-> "delete", round |-> requests[w].round]
    OBVIOUS
  <2>1. m.call = "delete" /\ Calls(w, m, Done, Done, Done)
    BY <1>5 DEF CallDelete
  <2>. QED  BY <1>2, <2>1
<1>. QED  BY <1>1, <1>3, <1>4, <1>5 DEF SubmitStep

(* A decision resets the booking of an event that waits for it and releases *)
(* that of a cancelled one.                                                *)
LEMMA DecideLeavesBookings ==
    ASSUME FailuresAreCompensated, ChangesArriveInTime, Inv, SerialOK, NEW w \in Workers, DecideStep(w)
    PROVE  BookingsStay /\ NewlyLate
<1> PICK r \in Request : r = requests[w]
  BY Serving
<1> PICK e, row, tab, n : e = r.event /\ row = events[e] /\ tab = rounds /\ n = failures
  OBVIOUS
<1>1. r.pc \in DecidePcs
  BY DEF DecideStep, FindOpenRound, ReadArrangements, CallDecide, FindDecision, CallResetVenue,
         CallResetEquipment, CallMoveDecided, FindMove, CallReopen, CallRelease, At, DecidePcs
<1>2. e \in Events /\ InOrder(r, row, tab, n)
  BY <1>1, DecidingInOrder
<1>3. /\ r.pc \in OwnerPcs => row.status = "Pending Safety Check"
      /\ r.pc = "release" => row.status = "Cancelled"
  BY <1>2 DEF InOrder, DecideOrder, Judged
<1>4. ASSUME FindOpenRound(w) \/ ReadArrangements(w) \/ FindDecision(w) \/ FindMove(w)
      PROVE  BookingsStay /\ NewlyLate
  <2>1. \E q : Reads(w, q) \/ ReadFails(w, q)
    BY <1>4 DEF FindOpenRound, ReadArrangements, FindDecision, FindMove
  <2>. QED  BY <2>1, ReadLeavesBookings
<1>5. ASSUME NEW m, m.call \in {"decide", "moveDecided", "reopen"}, NEW done, NEW refused, NEW failed,
             Calls(w, m, done, refused, failed)
      PROVE  BookingsStay /\ NewlyLate
  BY <1>5, OtherCallLeavesBookings DEF RecordCalls, EventCalls
<1>6. ASSUME CallDecide(w) PROVE BookingsStay /\ NewlyLate
  <2> PICK m : m = [call |-> "decide", round |-> r.round, status |-> RecordStatusOf(r.kind)]
    OBVIOUS
  <2>1. m.call = "decide" /\ \E p, q : Calls(w, m, p, Done, q)
    BY <1>6 DEF CallDecide
  <2>. QED  BY <1>5, <2>1
<1>7. ASSUME CallMoveDecided(w) PROVE BookingsStay /\ NewlyLate
  <2> PICK m : m = [call |-> "moveDecided", event |-> r.event, round |-> r.round,
                    status |-> EventStatusOf(r.kind), venue |-> r.venue]
    OBVIOUS
  <2>1. m.call = "moveDecided" /\ \E p, q, o : Calls(w, m, p, q, o)
    BY <1>7 DEF CallMoveDecided
  <2>. QED  BY <1>5, <2>1
<1>8. ASSUME CallReopen(w) PROVE BookingsStay /\ NewlyLate
  <2> PICK m : m = [call |-> "reopen", round |-> r.round, stamp |-> r.stamp]
    OBVIOUS
  <2>1. m.call = "reopen" /\ Calls(w, m, Done, Done, Done)
    BY <1>8 DEF CallReopen
  <2>. QED  BY <1>5, <2>1
<1>9. ASSUME NEW m, m.call \in BookingCalls, m.event = e, row.status # "Confirmed",
             m.call = "releaseBooking" => row.status = "Cancelled",
             NEW done, NEW refused, NEW failed, Calls(w, m, done, refused, failed)
      PROVE  BookingsStay /\ NewlyLate
  BY <1>2, <1>9, BookingCallLeavesConfirmed DEF Status
<1>10. ASSUME CallResetVenue(w) PROVE BookingsStay /\ NewlyLate
  <2> PICK m : m = [call |-> "resetBooking", event |-> r.event]
    OBVIOUS
  <2>1. m.call = "resetBooking" /\ m.event = e /\ m.call \in BookingCalls /\ m.call # "releaseBooking"
    BY DEF BookingCalls
  <2>2. PICK p, q : Calls(w, m, p, q, q)
    BY <1>10 DEF CallResetVenue
  <2>3. row.status = "Pending Safety Check"
    BY <1>3, <1>10 DEF CallResetVenue, At, OwnerPcs
  <2>. QED  BY <1>9, <2>1, <2>2, <2>3
<1>11. ASSUME CallResetEquipment(w) PROVE BookingsStay /\ NewlyLate
  <2> PICK m : m = [call |-> "resetEquipment", event |-> r.event]
    OBVIOUS
  <2>1. m.call = "resetEquipment" /\ m.event = e /\ m.call \in BookingCalls /\ m.call # "releaseBooking"
    BY DEF BookingCalls
  <2>2. PICK p, q : Calls(w, m, p, q, q)
    BY <1>11 DEF CallResetEquipment
  <2>3. row.status = "Pending Safety Check"
    BY <1>3, <1>11 DEF CallResetEquipment, At, OwnerPcs
  <2>. QED  BY <1>9, <2>1, <2>2, <2>3
<1>12. ASSUME CallRelease(w) PROVE BookingsStay /\ NewlyLate
  <2> PICK m : m = [call |-> "releaseBooking", event |-> r.event]
    OBVIOUS
  <2>1. m.call = "releaseBooking" /\ m.event = e /\ Calls(w, m, Done, Done, Done)
    BY <1>12 DEF CallRelease
  <2>2. row.status = "Cancelled"
    BY <1>3, <1>12 DEF CallRelease, At
  <2>. QED  BY <1>9, <2>1, <2>2 DEF BookingCalls
<1>. QED  BY <1>4, <1>6, <1>7, <1>8, <1>10, <1>11, <1>12 DEF DecideStep

(* A re-check calls for no booking at all.                                 *)
LEMMA RecheckLeavesBookings ==
    ASSUME FailuresAreCompensated, NEW w \in Workers, RecheckStep(w)
    PROVE  BookingsStay /\ NewlyLate
<1> PICK r : r = requests[w]
  OBVIOUS
<1>1. ASSUME ReadApproval(w) \/ ReadVenue(w) PROVE BookingsStay /\ NewlyLate
  <2>1. \E q : Reads(w, q) \/ ReadFails(w, q)
    BY <1>1 DEF ReadApproval, ReadVenue
  <2>. QED  BY <2>1, ReadLeavesBookings
<1>2. ASSUME NEW m, m.call \in {"withdraw", "saveDetails", "restore"}, NEW done, NEW refused, NEW failed,
             Calls(w, m, done, refused, failed)
      PROVE  BookingsStay /\ NewlyLate
  BY <1>2, OtherCallLeavesBookings DEF RecordCalls, EventCalls
<1>3. ASSUME CallWithdraw(w) PROVE BookingsStay /\ NewlyLate
  <2> PICK m : m = [call |-> "withdraw", round |-> r.round, opens |-> r.kind = "recheck"]
    OBVIOUS
  <2>1. m.call = "withdraw" /\ \E q : Calls(w, m, q, Done, Done)
    BY <1>3 DEF CallWithdraw
  <2>. QED  BY <1>2, <2>1
<1>4. ASSUME CallSaveDetails(w) PROVE BookingsStay /\ NewlyLate
  <2> PICK m : m = [call |-> "saveDetails", event |-> r.event, by |-> r.by,
                    details |-> r.details, round |-> r.round, next |-> r.next]
    OBVIOUS
  <2>1. m.call = "saveDetails" /\ \E q : Calls(w, m, Done, q, q)
    BY <1>4 DEF CallSaveDetails
  <2>. QED  BY <1>2, <2>1
<1>5. ASSUME CallRestore(w) PROVE BookingsStay /\ NewlyLate
  <2> PICK m : m = [call |-> "restore", round |-> r.round, next |-> r.next]
    OBVIOUS
  <2>1. m.call = "restore" /\ Calls(w, m, Done, Done, Done)
    BY <1>5 DEF CallRestore
  <2>. QED  BY <1>2, <2>1
<1>. QED  BY <1>1, <1>3, <1>4, <1>5 DEF RecheckStep

(* A change of the booking calls for it only once the approval is withdrawn *)
(* and the event no longer Confirmed.                                      *)
LEMMA VenueChangeLeavesBookings ==
    ASSUME FailuresAreCompensated, ChangesArriveInTime, Inv, SerialOK, NEW w \in Workers, VenueChangeStep(w)
    PROVE  BookingsStay /\ NewlyLate
<1> PICK r \in Request : r = requests[w]
  BY Serving
<1>1. ASSUME ReadEvent(w) \/ ReadWithdrawn(w) PROVE BookingsStay /\ NewlyLate
  <2>1. \E q : Reads(w, q) \/ ReadFails(w, q)
    BY <1>1 DEF ReadEvent, ReadWithdrawn
  <2>. QED  BY <2>1, ReadLeavesBookings
<1>2. ASSUME GivesUpWaiting(w) PROVE BookingsStay /\ NewlyLate
  BY <1>2 DEF GivesUpWaiting, serviceVars, arrangementVars, BookingsStay, NewlyLate
<1>3. ASSUME NEW m, m.call \in {"withdrawEvent", "restore", "restoreEvent"}, NEW done, NEW refused, NEW failed,
             Calls(w, m, done, refused, failed)
      PROVE  BookingsStay /\ NewlyLate
  BY <1>3, OtherCallLeavesBookings DEF RecordCalls, EventCalls
<1>4. ASSUME CallWithdrawEvent(w) PROVE BookingsStay /\ NewlyLate
  <2> PICK m : m = [call |-> "withdrawEvent", event |-> r.event, by |-> r.by, round |-> r.round]
    OBVIOUS
  <2>1. m.call = "withdrawEvent" /\ \E p, q : Calls(w, m, p, q, q)
    BY <1>4 DEF CallWithdrawEvent
  <2>. QED  BY <1>3, <2>1
<1>5. ASSUME CallReinstate(w) PROVE BookingsStay /\ NewlyLate
  <2> PICK m : m = [call |-> "restore", round |-> r.round, next |-> NoRound]
    OBVIOUS
  <2>1. m.call = "restore" /\ \E q : Calls(w, m, q, Done, Done)
    BY <1>5 DEF CallReinstate
  <2>. QED  BY <1>3, <2>1
<1>6. ASSUME CallRestoreEvent(w) PROVE BookingsStay /\ NewlyLate
  <2> PICK m : m = [call |-> "restoreEvent", event |-> r.event, by |-> r.by, round |-> r.round]
    OBVIOUS
  <2>1. m.call = "restoreEvent" /\ Calls(w, m, Done, Done, Done)
    BY <1>6 DEF CallRestoreEvent
  <2>. QED  BY <1>3, <2>1
<1>7. ASSUME CallChangeBooking(w) PROVE BookingsStay /\ NewlyLate
  <2> PICK e, row, tab, n : e = r.event /\ row = events[e] /\ tab = rounds /\ n = failures
    OBVIOUS
  <2>1. r.pc = "changeBooking" /\ r.pc \in VenuePcs
    BY <1>7 DEF CallChangeBooking, At, VenuePcs
  <2>2. e \in Events /\ InOrder(r, row, tab, n)
    BY <2>1, WithdrawingInOrder
  <2>3. row.status \in Preparing
    BY <2>1, <2>2 DEF InOrder, VenueOrder, Prepares, Preparing
  <2>4. Status(e) # "Confirmed"
    BY <2>3 DEF Status, Preparing
  <2> PICK m : m = [call |-> "changeBooking", event |-> r.event, status |-> BookingStatusOf(r.kind)]
    OBVIOUS
  <2>5. m.call = "changeBooking" /\ m.event = e
    OBVIOUS
  <2>6. \/ \E q : Calls(w, m, Done, q, q)
        \/ UNCHANGED <<serviceVars, late>>
    BY <1>7 DEF CallChangeBooking
  <2>7. CASE \E q : Calls(w, m, Done, q, q)
    BY <2>2, <2>4, <2>5, <2>7, BookingCallLeavesConfirmed DEF BookingCalls
  <2>8. CASE UNCHANGED <<serviceVars, late>>
    BY <2>8 DEF serviceVars, arrangementVars, BookingsStay, NewlyLate
  <2>. QED  BY <2>6, <2>7, <2>8
<1>. QED  BY <1>1, <1>2, <1>4, <1>5, <1>6, <1>7 DEF VenueChangeStep

(* No belated call may change the booking of a Confirmed event. *)
LateOK == \A m \in late : Harmless(m)

(* The booking of a Confirmed event changes only by what was checked       *)
(* before.                                                                 *)
CheckedBefore ==
    \A e \in Events : Status(e) = "Confirmed" /\ venue'[e] # venue[e] =>
        \/ <<e, "review">> \in checked /\ venue[e] = "Pending Review"
        \/ <<e, "book">> \in checked /\ venue[e] \in {"Rejected", "Cancelled"}

(* Venue Staff and a new booking: the event was under review when their    *)
(* request was checked, so not while it is Confirmed.                      *)
LEMMA StaffCheckedBefore ==
    ASSUME Inv, StaffStep
    PROVE  CheckedBefore
<1>1. venue \in [Events -> BookingStatuses]
  BY DEF Inv, ServiceInv, ArrangementsTypeOK
<1>2. PICK f \in Events :
        \/ HasPassed(f, "review") /\ \E s \in {"Approved", "Rejected"} : ReviewBooking(f, s)
        \/ HasPassed(f, "book") /\ CreateBooking(f)
        \/ UNCHANGED venue
  BY DEF StaffStep, RequestEquipment, ReviewEquipment
<1>3. CASE HasPassed(f, "review") /\ \E s \in {"Approved", "Rejected"} : ReviewBooking(f, s)
  <2>1. venue[f] = "Pending Review" /\ \E s : venue' = [venue EXCEPT ![f] = s]
    BY <1>3 DEF ReviewBooking
  <2>2. \A e \in Events : e # f => venue'[e] = venue[e]
    BY <1>1, <2>1
  <2>3. Status(f) = "Confirmed" => <<f, "review">> \in checked
    BY <1>3 DEF HasPassed, PassesCheck, UnderReview
  <2>. QED  BY <2>1, <2>2, <2>3 DEF CheckedBefore
<1>4. CASE HasPassed(f, "book") /\ CreateBooking(f)
  <2>1. venue[f] \in {"Rejected", "Cancelled"} /\ \E s : venue' = [venue EXCEPT ![f] = s]
    BY <1>4 DEF CreateBooking
  <2>2. \A e \in Events : e # f => venue'[e] = venue[e]
    BY <1>1, <2>1
  <2>3. Status(f) = "Confirmed" => <<f, "book">> \in checked
    BY <1>4 DEF HasPassed, PassesCheck, UnderReview
  <2>. QED  BY <2>1, <2>2, <2>3 DEF CheckedBefore
<1>. QED  BY <1>2, <1>3, <1>4 DEF CheckedBefore

(* No step but theirs changes the booking of a Confirmed event, nor leaves *)
(* a call behind that may.                                                 *)
LEMMA NextLeavesBookings ==
    ASSUME FailuresAreCompensated, ChangesArriveInTime, Inv, SerialOK, LateOK, [Next]_vars
    PROVE  CheckedBefore /\ LateOK'
<1>1. \A e \in Events : Status(e) = "Cancelled" => Status(e)' = "Cancelled"
  <2>1. EventsInv /\ [EventsNext]_events
    BY ServiceNextKeepsInv DEF Passes, Inv, ServiceInv
  <2>. QED  BY <2>1, NextMovesRightly DEF MovesRightly, Status
<1>2. \A m : Harmless(m) => Harmless(m)'
  BY <1>1 DEF Harmless
<1>3. ASSUME BookingsStay, NewlyLate PROVE CheckedBefore /\ LateOK'
  BY <1>2, <1>3 DEF LateOK, NewlyLate, BookingsStay, CheckedBefore
<1>4. CASE UNCHANGED <<arrangementVars, late>>
  BY <1>3, <1>4 DEF arrangementVars, BookingsStay, NewlyLate
<1>5. ASSUME NEW w \in Workers, Begin(w) PROVE UNCHANGED <<arrangementVars, late>>
  <2>1. \E q : Begins(w, q)
    BY <1>5 DEF Begin, BeginDecide, BeginSubmit, BeginRecheck, BeginVenueChange
  <2>. QED  BY <2>1 DEF Begins, serviceVars
<1>6. ASSUME NEW w \in Workers, Step(w) PROVE BookingsStay /\ NewlyLate
  BY <1>6, SubmitLeavesBookings, DecideLeavesBookings, RecheckLeavesBookings, VenueChangeLeavesBookings DEF Step
<1>7. ASSUME StaffStep PROVE CheckedBefore /\ LateOK'
  <2>1. LateOK'
    BY <1>2, <1>7 DEF StaffStep, LateOK
  <2>. QED  BY <1>7, <2>1, StaffCheckedBefore
<1>8. ASSUME LateCall PROVE BookingsStay /\ NewlyLate
  <2>1. PICK m \in late : Executes(m) /\ late' = late \ {m}
    BY <1>8 DEF LateCall
  <2>2. Harmless(m) /\ Carries(m) /\ m.call \in BookingCalls
    BY DEF LateOK, Inv, ServiceInv, RequestsOK, Harmless, BookingCalls
  <2>3. m.event \in Events
    BY <2>2 DEF Carries
  <2>4. BookingsStay
    BY <2>1, <2>2, <2>3, BookingCallLeavesOthers DEF Harmless, BookingsStay
  <2>. QED  BY <2>1, <2>4 DEF NewlyLate
<1>9. CASE UNCHANGED vars
  BY <1>4, <1>9 DEF vars, serviceVars
<1>10. CASE CoordinatorStep
  BY <1>4, <1>10 DEF CoordinatorStep
<1>. QED  BY <1>3, <1>4, <1>5, <1>6, <1>7, <1>8, <1>9, <1>10 DEF Next

(* VENUE_CHANGE_WITHDRAW: no edit, cancellation, reset or release reaches  *)
(* the booking of a Confirmed event, not even one that its caller gave up  *)
(* on, and an approved booking stays; only a decision or a new booking     *)
(* that was checked before the event was Confirmed lands there, on a       *)
(* booking that is not approved -- if requests about one event follow one  *)
(* another, failures are compensated, and a change or reset given up does  *)
(* not happen later.                                                       *)
THEOREM BookingsOfConfirmedEventsStay ==
    FailuresAreCompensated /\ ChangesArriveInTime => (Spec /\ []OneAtATime => ChangesWithdrawTheApproval)
<1> SUFFICES ASSUME FailuresAreCompensated, ChangesArriveInTime
             PROVE  Spec /\ []OneAtATime => ChangesWithdrawTheApproval
  OBVIOUS
<1>1. Spec /\ []OneAtATime => []SerialOK
  BY RequestsStayInOrder
<1>2. ServiceInit => LateOK
  BY DEF ServiceInit, LateOK
<1>3. Inv /\ SerialOK /\ LateOK /\ [Next]_vars => LateOK'
  BY NextLeavesBookings
<1>4. Inv /\ SerialOK /\ LateOK /\ [Next]_vars
         => [\A e \in Events : Status(e) = "Confirmed" /\ venue'[e] # venue[e] =>
                \/ <<e, "review">> \in checked /\ venue[e] = "Pending Review"
                \/ <<e, "book">> \in checked /\ venue[e] \in {"Rejected", "Cancelled"}]_vars
  BY NextLeavesBookings DEF CheckedBefore
<1>. QED  BY <1>1, <1>2, <1>3, <1>4, ServiceInvariant, PTL DEF Spec, ChangesWithdrawTheApproval

==============================================================================
