------------------------ MODULE EventLifecycleProofs ------------------------
(***************************************************************************)
(* The whole Event Service, for any number of events, coordinators,        *)
(* rounds, times and names: whatever calls of its endpoints arrive in      *)
(* whatever order, what EventSafetyProofs shows of the safety endpoints    *)
(* holds, answers come back to who asked, a request is decided once, and   *)
(* the dates of an event stay in order.                                    *)
(*                                                                         *)
(* Each action writes one row and what is kept beside it, so the invariant *)
(* is about such a pair (PairOK), and each action has one lemma: the pair  *)
(* that it writes is good.                                                 *)
(***************************************************************************)
EXTENDS EventLifecycle, EventSafetyProofs

Values1 == [start : Times, end : Times, name : Names]
AskedRound == [by : Coordinators \cup {Unassigned}, seen : Values1]
AmendmentRound == [by : Coordinators \cup {Unassigned}, seen : Values1, fields : SUBSET Fields]
AtMostOne(S) == {<<>>} \cup {<<r>> : r \in S}

RequestRecord ==
    [name : Names, deadline : Times, clarifications : AtMostOne(AskedRound),
     amendments : AtMostOne(AmendmentRound), proposal : Changings \cup {NoProposal},
     decisions : {<<>>, <<"Approved">>, <<"Rejected">>}]

(* The details of an event, from its row and what is kept beside it.       *)
ValuesOf(row, request) ==
    [start |-> row.details.start, end |-> row.details.end, name |-> request.name]

Outstanding(row, request, rounds) ==
    \E r : rounds = <<r>> /\ r.by = row.coordinator /\ r.seen = ValuesOf(row, request)

AnswersOK(row, request) ==
    /\ IF row.status = "Clarification Requested"
       THEN Outstanding(row, request, request.clarifications) ELSE request.clarifications = <<>>
    /\ IF row.status = "Amendment Requested"
       THEN Outstanding(row, request, request.amendments) ELSE request.amendments = <<>>

Undecided == {"none", "Draft"} \cup InReview \cup Asked

DecisionsOK(row, request) ==
    /\ row.status \in Undecided => request.decisions = <<>>
    /\ row.status = "Rejected" => request.decisions = <<"Rejected">>
    /\ row.status \notin Undecided \cup {"Rejected"} => request.decisions = <<"Approved">>

DatesOK(row, request) ==
    row.status \notin {"none", "Draft"} => Valid(ValuesOf(row, request), request.deadline)

PairOK(row, request) ==
    RowOK(row) /\ AnswersOK(row, request) /\ DecisionsOK(row, request) /\ DatesOK(row, request)

LifecycleInv ==
    /\ EventsTypeOK
    /\ requests \in [Events -> RequestRecord]
    /\ \A e \in Events : PairOK(events[e], requests[e])

(* What an action may make of an event.                                    *)
Good(e, row, request) ==
    /\ row \in EventRecord
    /\ request \in RequestRecord
    /\ PairOK(row, request)
    /\ MovesRightly(events[e], row)

----------------------------------------------------------------------------
(* One write of a good pair keeps the invariant, and moves events rightly. *)
LEMMA PairsOK ==
    ASSUME LifecycleInv, NEW e \in Events
    PROVE  /\ events[e] \in EventRecord
           /\ requests[e] \in RequestRecord
           /\ PairOK(events[e], requests[e])
BY DEF LifecycleInv, EventsTypeOK

(* A write of a good row and request keeps the invariant, and moves the event
   as it may. *)
LEMMA WriteKeepsInv ==
    ASSUME LifecycleInv, NEW e \in Events, NEW row, NEW request,
           Good(e, row, request), Writes(e, row, request)
    PROVE  LifecycleInv' /\ \A f \in Events : MovesRightly(events[f], events'[f])
<1>1. events' \in [Events -> EventRecord] /\ requests' \in [Events -> RequestRecord]
  BY DEF LifecycleInv, EventsTypeOK, Good, Writes, Saves
<1>2. ASSUME NEW f \in Events
      PROVE  PairOK(events'[f], requests'[f]) /\ MovesRightly(events[f], events'[f])
  <2>1. CASE f = e
    <3>1. events'[f] = row /\ requests'[f] = request
      BY <2>1 DEF LifecycleInv, EventsTypeOK, Writes, Saves
    <3>. QED  BY <2>1, <3>1 DEF Good
  <2>2. CASE f # e
    <3>1. events'[f] = events[f] /\ requests'[f] = requests[f]
      BY <2>2 DEF LifecycleInv, EventsTypeOK, Writes, Saves
    <3>2. PairOK(events[f], requests[f])
      BY DEF LifecycleInv
    <3>. QED  BY <3>1, <3>2 DEF MovesRightly
  <2>. QED  BY <2>1, <2>2
<1>. QED  BY <1>1, <1>2 DEF LifecycleInv, EventsTypeOK

(* Leaving the pair of an event alone is a write of it.                    *)
LEMMA SavesIsWrites ==
    ASSUME LifecycleInv, NEW e \in Events, NEW row, Saves(e, row), UNCHANGED requests
    PROVE  Writes(e, row, requests[e])
BY DEF LifecycleInv, Writes

(* A change of the request alone writes the row as it is. *)
LEMMA RequestsIsWrites ==
    ASSUME LifecycleInv, NEW e \in Events, NEW request,
           requests' = [requests EXCEPT ![e] = request], UNCHANGED events
    PROVE  Writes(e, events[e], request)
BY DEF LifecycleInv, EventsTypeOK, Writes, Saves

----------------------------------------------------------------------------
(* The sequences of unanswered rounds and of decisions.                    *)
LEMMA FirstRound == ASSUME NEW r PROVE Append(<<>>, r) = <<r>>
OBVIOUS

(* An answered round leaves none open. *)
LEMMA RoundAnswered == ASSUME NEW r PROVE Front(<<r>>) = <<>>
BY DEF Front

(* The only round is the last. *)
LEMMA OneRound == ASSUME NEW r PROVE Len(<<r>>) = 1 /\ <<r>>[1] = r /\ Last(<<r>>) = r
BY DEF Last

----------------------------------------------------------------------------
(* Rows that the lifecycle writes.                                         *)
LEMMA EntryRow ==
    ASSUME NEW row \in EventRecord, NEW s \in EventStatuses
    PROVE  /\ Entry(row, s) \in EventRecord
           /\ Entry(row, s).status = s
           /\ Entry(row, s).undo = NoRound
           /\ Entry(row, s).coordinator = row.coordinator
           /\ Entry(row, s).details = row.details
BY DEF Entry, EventRecord, RoundOrNone

(* A new status is all that changes. *)
LEMMA StatusRow ==
    ASSUME NEW row \in EventRecord, NEW s \in EventStatuses
    PROVE  /\ [row EXCEPT !.status = s] \in EventRecord
           /\ [row EXCEPT !.status = s].status = s
           /\ [row EXCEPT !.status = s].undo = row.undo
           /\ [row EXCEPT !.status = s].coordinator = row.coordinator
           /\ [row EXCEPT !.status = s].details = row.details
BY DEF EventRecord

(* So is an undo that is no longer possible. *)
LEMMA UndoneRow ==
    ASSUME NEW row \in EventRecord
    PROVE  /\ [row EXCEPT !.undo = NoRound] \in EventRecord
           /\ [row EXCEPT !.undo = NoRound].status = row.status
           /\ [row EXCEPT !.undo = NoRound].undo = NoRound
           /\ [row EXCEPT !.undo = NoRound].coordinator = row.coordinator
           /\ [row EXCEPT !.undo = NoRound].details = row.details
           /\ [row EXCEPT !.undo = NoRound].reviewed = row.reviewed
           /\ [row EXCEPT !.undo = NoRound].approval = row.approval
BY DEF EventRecord, RoundOrNone

(* The dates of an event are details. *)
LEMMA WindowIsDetails ==
    ASSUME NEW v, v.start \in Times, v.end \in Times
    PROVE  /\ WindowOf(v) \in Details
           /\ WindowOf(v).start = v.start
           /\ WindowOf(v).end = v.end
BY DetailsAssumption DEF WindowOf

(* The row of a new event. *)
LEMMA NewRowOfStatus ==
    ASSUME NEW v, v.start \in Times, v.end \in Times, NEW s \in EventStatuses
    PROVE  /\ NewRow(v, s) \in EventRecord
           /\ NewRow(v, s).status = s
           /\ NewRow(v, s).undo = NoRound
           /\ NewRow(v, s).details = WindowOf(v)
           /\ NewRow(v, s).reviewed = WindowOf(v)
<1> DEFINE d == WindowOf(v)
<1> DEFINE row == NewlyApproved(Unassigned, d)
<1>1. d \in Details
  BY WindowIsDetails
<1> HIDE DEF d
<1>2. row \in EventRecord /\ row.undo = NoRound /\ row.details = d /\ row.reviewed = d
  BY <1>1 DEF NewlyApproved, EventRecord, EventStatuses, PreSafetyStatuses, RoundOrNone
<1> HIDE DEF row
<1>3. /\ [row EXCEPT !.status = s] \in EventRecord
      /\ [row EXCEPT !.status = s].status = s
      /\ [row EXCEPT !.status = s].undo = row.undo
      /\ [row EXCEPT !.status = s].details = row.details
      /\ [row EXCEPT !.status = s].reviewed = row.reviewed
  BY <1>2 DEF EventRecord
<1>. QED  BY <1>2, <1>3 DEF NewRow, row, d

----------------------------------------------------------------------------
(* What is kept beside a row, as the actions write it.                     *)
LEMMA NewRequestRecord ==
    ASSUME NEW v, v.name \in Names, NEW t \in Times
    PROVE  /\ NewRequest(v, t) \in RequestRecord
           /\ NewRequest(v, t).name = v.name
           /\ NewRequest(v, t).deadline = t
           /\ NewRequest(v, t).clarifications = <<>>
           /\ NewRequest(v, t).amendments = <<>>
           /\ NewRequest(v, t).decisions = <<>>
BY DEF NewRequest, RequestRecord, AtMostOne

(* A decision is added to a request that had none. *)
LEMMA DecidedRequest ==
    ASSUME NEW q \in RequestRecord, q.decisions = <<>>, NEW s \in {"Approved", "Rejected"}
    PROVE  /\ WithDecision(q, s) \in RequestRecord
           /\ WithDecision(q, s).decisions = <<s>>
           /\ WithDecision(q, s).name = q.name
           /\ WithDecision(q, s).deadline = q.deadline
           /\ WithDecision(q, s).clarifications = q.clarifications
           /\ WithDecision(q, s).amendments = q.amendments
<1>1. Append(q.decisions, s) = <<s>>
  BY FirstRound
<1>2. WithDecision(q, s) = [q EXCEPT !.decisions = <<s>>]
  BY <1>1 DEF WithDecision
<1>. QED  BY <1>2 DEF RequestRecord

(* The open questions are all that changes. *)
LEMMA ClarifiedRequest ==
    ASSUME NEW q \in RequestRecord, NEW rounds \in AtMostOne(AskedRound)
    PROVE  LET new == [q EXCEPT !.clarifications = rounds]
           IN  /\ new \in RequestRecord
               /\ new.clarifications = rounds
               /\ new.name = q.name
               /\ new.deadline = q.deadline
               /\ new.amendments = q.amendments
               /\ new.decisions = q.decisions
BY DEF RequestRecord

SameRounds(q, p) ==
    p.clarifications = q.clarifications /\ p.amendments = q.amendments /\ p.decisions = q.decisions

AmendedTo(q, rounds, n)  == [q EXCEPT !.amendments = rounds, !.name = n]
ProposedTo(q, p, n)      == [q EXCEPT !.proposal = p, !.name = n]
RenamedTo(q, n)          == [q EXCEPT !.name = n]

(* An amendment, and the name it may change. *)
LEMMA AmendedRequest ==
    ASSUME NEW q \in RequestRecord, NEW rounds \in AtMostOne(AmendmentRound), NEW n \in Names
    PROVE  /\ AmendedTo(q, rounds, n) \in RequestRecord
           /\ AmendedTo(q, rounds, n).amendments = rounds
           /\ AmendedTo(q, rounds, n).name = n
           /\ AmendedTo(q, rounds, n).deadline = q.deadline
           /\ AmendedTo(q, rounds, n).clarifications = q.clarifications
           /\ AmendedTo(q, rounds, n).decisions = q.decisions
BY DEF AmendedTo, RequestRecord

(* A proposal, or its end, and the name it may change. *)
LEMMA ProposedRequest ==
    ASSUME NEW q \in RequestRecord, NEW p \in Changings \cup {NoProposal}, NEW n \in Names
    PROVE  /\ ProposedTo(q, p, n) \in RequestRecord
           /\ ProposedTo(q, p, n).name = n
           /\ ProposedTo(q, p, n).deadline = q.deadline
           /\ SameRounds(q, ProposedTo(q, p, n))
BY DEF ProposedTo, RequestRecord, SameRounds

(* The name is all that changes. *)
LEMMA RenamedRequest ==
    ASSUME NEW q \in RequestRecord, NEW n \in Names
    PROVE  /\ RenamedTo(q, n) \in RequestRecord
           /\ RenamedTo(q, n).name = n
           /\ RenamedTo(q, n).deadline = q.deadline
           /\ SameRounds(q, RenamedTo(q, n))
BY DEF RenamedTo, RequestRecord, SameRounds

----------------------------------------------------------------------------
(* The values of an event, and what a change makes of them.                *)
LEMMA ValuesTyped ==
    ASSUME LifecycleInv, NEW e \in Events
    PROVE  /\ Values(e) = ValuesOf(events[e], requests[e])
           /\ Values(e) \in Values1
BY PairsOK, DetailsAssumption DEF Values, ValuesOf, Values1, EventRecord, RequestRecord

(* A proposed value is a value of its field. *)
LEMMA ChangingsTyped ==
    ASSUME NEW ch \in Changings, NEW f \in DOMAIN ch
    PROVE  f \in Fields /\ ch[f] \in (IF f = "name" THEN Names ELSE Times)
BY DEF Changings

(* Proposed values merged with the present ones are values. *)
LEMMA MergedTyped ==
    ASSUME LifecycleInv, NEW e \in Events, NEW ch \in Changings
    PROVE  Merged(e, ch).start \in Times /\ Merged(e, ch).end \in Times /\ Merged(e, ch).name \in Names
<1>1. Values(e)["start"] \in Times /\ Values(e)["end"] \in Times /\ Values(e)["name"] \in Names
  BY ValuesTyped DEF Values1
<1>2. \A f \in DOMAIN ch : ch[f] \in (IF f = "name" THEN Names ELSE Times)
  BY ChangingsTyped
<1>. QED  BY <1>1, <1>2 DEF Merged, Fields

----------------------------------------------------------------------------
(* A pair whose event stays at its stage, and is not waiting for its       *)
(* organiser, needs only its row and its dates looked at.                  *)
Decided == {"Approved", "Pending Safety Check", "Confirmed", "Safety Changes Requested", "Cancelled"}

SameStage(row, new) ==
    /\ row.status \notin Asked
    /\ \/ new.status = row.status
       \/ row.status \in InReview /\ new.status \in InReview
       \/ row.status \in Decided /\ new.status \in Decided

(* A row that moves on within the part of its life where no round is open and
   the decisions stay as they are. *)
LEMMA StagePair ==
    ASSUME NEW row, NEW new, NEW q, NEW p, PairOK(row, q), RowOK(new), DatesOK(new, p),
           SameStage(row, new), SameRounds(q, p)
    PROVE  PairOK(new, p)
<1>1. q.clarifications = <<>> /\ q.amendments = <<>> /\ new.status \notin Asked
  BY DEF PairOK, AnswersOK, SameStage, Asked, InReview, Decided
<1>2. AnswersOK(new, p)
  BY <1>1 DEF AnswersOK, SameRounds, Asked
<1>3. DecisionsOK(new, p)
  BY DEF PairOK, DecisionsOK, SameRounds, SameStage, Undecided, InReview, Asked, Decided
<1>. QED  BY <1>2, <1>3 DEF PairOK

(* Dates that are kept stay in order.                                      *)
LEMMA DatesKept ==
    ASSUME NEW row, NEW new, NEW q, NEW p, DatesOK(row, q), new.details = row.details,
           p.deadline = q.deadline, row.status \notin {"none", "Draft"}
    PROVE  DatesOK(new, p)
BY DEF DatesOK, ValuesOf, Valid

(* New dates that were validated are in order.                             *)
LEMMA DatesChecked ==
    ASSUME NEW v, NEW new, NEW p, Valid(v, p.deadline), new.details.start = v.start, new.details.end = v.end
    PROVE  DatesOK(new, p)
BY DEF DatesOK, ValuesOf, Valid

----------------------------------------------------------------------------
(* Drafts and submission: submit_event, save_draft, submit_draft.          *)
LEMMA NewPair ==
    ASSUME LifecycleInv, NEW e \in Events, NEW v \in AllValues, NEW t \in Times,
           NEW s \in {"Submitted", "Draft"}, s = "Submitted" => Valid(v, t),
           Status(e) \in {"none", "Draft"}
    PROVE  Good(e, NewRow(v, s), NewRequest(v, t))
<1>1. v.start \in Times /\ v.end \in Times /\ v.name \in Names
  BY DEF AllValues
<1>2. s \in EventStatuses
  BY DEF EventStatuses, PreSafetyStatuses
<1> DEFINE row == NewRow(v, s)
<1> DEFINE q == NewRequest(v, t)
<1>3. /\ row \in EventRecord /\ row.status = s /\ row.undo = NoRound
      /\ row.details.start = v.start /\ row.details.end = v.end
  BY <1>1, <1>2, NewRowOfStatus, WindowIsDetails
<1>4. /\ q \in RequestRecord /\ q.deadline = t
      /\ q.clarifications = <<>> /\ q.amendments = <<>> /\ q.decisions = <<>>
  BY <1>1, NewRequestRecord
<1> HIDE DEF row, q
<1>5. RowOK(row) /\ AnswersOK(row, q) /\ DecisionsOK(row, q)
  BY <1>3, <1>4 DEF RowOK, AnswersOK, DecisionsOK, Undecided, InReview
<1>6. DatesOK(row, q)
  <2>1. CASE s = "Draft"
    BY <2>1, <1>3 DEF DatesOK
  <2>2. CASE s = "Submitted"
    BY <2>2, <1>3, <1>4, DatesChecked
  <2>. QED  BY <2>1, <2>2
<1>7. MovesRightly(events[e], row)
  BY <1>3 DEF MovesRightly, Status
<1>. QED  BY <1>3, <1>4, <1>5, <1>6, <1>7 DEF Good, PairOK, row, q

(* Drafts and submissions write a good row. *)
LEMMA SubmissionWrites ==
    ASSUME LifecycleInv, NEW e \in Events, NEW v \in AllValues, NEW t \in Times,
           SubmitNew(e, v, t) \/ SaveDraft(e, v, t) \/ SubmitDraft(e, v, t)
    PROVE  \E row, request : Good(e, row, request) /\ Writes(e, row, request)
<1>1. CASE SaveDraft(e, v, t)
  <2>1. Status(e) \in {"none", "Draft"} /\ Writes(e, NewRow(v, "Draft"), NewRequest(v, t))
    BY <1>1 DEF SaveDraft
  <2>. QED  BY <2>1, NewPair
<1>2. CASE SubmitNew(e, v, t) \/ SubmitDraft(e, v, t)
  <2>1. /\ Status(e) \in {"none", "Draft"} /\ Valid(v, t)
        /\ Writes(e, NewRow(v, "Submitted"), NewRequest(v, t))
    BY <1>2 DEF SubmitNew, SubmitDraft
  <2>. QED  BY <2>1, NewPair
<1>. QED  BY <1>1, <1>2

(* What an event is before it is saved, and again when its draft is gone.  *)
LEMMA NothingPair ==
    /\ NewRow(Nothing, "none") \in EventRecord
    /\ NewRow(Nothing, "none").status = "none"
    /\ NewRequest(Nothing, 0) \in RequestRecord
    /\ PairOK(NewRow(Nothing, "none"), NewRequest(Nothing, 0))
<1>1. Nothing.start \in Times /\ Nothing.end \in Times /\ Nothing.name \in Names
  BY TimesAssumption, NamesAssumption DEF Nothing
<1>2. "none" \in EventStatuses /\ 0 \in Times
  BY TimesAssumption DEF EventStatuses
<1> DEFINE row == NewRow(Nothing, "none")
<1> DEFINE q == NewRequest(Nothing, 0)
<1>3. row \in EventRecord /\ row.status = "none" /\ row.undo = NoRound
  BY <1>1, <1>2, NewRowOfStatus
<1>4. /\ q \in RequestRecord
      /\ q.clarifications = <<>> /\ q.amendments = <<>> /\ q.decisions = <<>>
  BY <1>1, <1>2, NewRequestRecord
<1> HIDE DEF row, q
<1>5. PairOK(row, q)
  BY <1>3, <1>4 DEF PairOK, RowOK, AnswersOK, DecisionsOK, DatesOK, Undecided
<1>. QED  BY <1>3, <1>4, <1>5 DEF row, q

(* delete_draft.                                                           *)
LEMMA DeletionWrites ==
    ASSUME LifecycleInv, NEW e \in Events, DeleteDraft(e)
    PROVE  \E row, request : Good(e, row, request) /\ Writes(e, row, request)
<1>1. Good(e, NewRow(Nothing, "none"), NewRequest(Nothing, 0))
  BY NothingPair DEF Good, MovesRightly, DeleteDraft, Status
<1>. QED  BY <1>1 DEF DeleteDraft

----------------------------------------------------------------------------
(* The coordinator's decision and the rounds with the organiser.           *)

(* A decision on an event in review, by either endpoint, makes a good pair.*)
LEMMA DecisionPair ==
    ASSUME LifecycleInv, NEW e \in Events, Status(e) \in InReview, NEW s \in {"Approved", "Rejected"},
           NEW new \in EventRecord, new.status = s, new.undo = NoRound, new.details = events[e].details
    PROVE  Good(e, new, WithDecision(requests[e], s))
<1> DEFINE row == events[e]
<1> DEFINE q == requests[e]
<1> DEFINE p == WithDecision(q, s)
<1>1. row \in EventRecord /\ q \in RequestRecord /\ PairOK(row, q) /\ row.status \in InReview
  BY PairsOK DEF Status
<1>2. new.details = row.details
  OBVIOUS
<1> HIDE DEF row, q
<1>3. /\ row.status \notin {"none", "Draft"} /\ q.decisions = <<>>
      /\ q.clarifications = <<>> /\ q.amendments = <<>>
  BY <1>1 DEF PairOK, AnswersOK, DecisionsOK, InReview, Undecided
<1>4. /\ p \in RequestRecord /\ p.decisions = <<s>> /\ p.deadline = q.deadline
      /\ p.clarifications = <<>> /\ p.amendments = <<>>
  BY <1>1, <1>3, DecidedRequest
<1> HIDE DEF p
<1>5. DatesOK(new, p)
  BY <1>1, <1>2, <1>3, <1>4, DatesKept DEF PairOK
<1>6. PairOK(new, p)
  BY <1>4, <1>5 DEF PairOK, RowOK, AnswersOK, DecisionsOK, Undecided, InReview, Asked
<1>7. MovesRightly(row, new)
  BY <1>1 DEF MovesRightly, InReview
<1>. QED  BY <1>4, <1>6, <1>7 DEF Good, p, q, row

(* update_event_progress, moving the event.                                *)
LEMMA ProgressWrites ==
    ASSUME LifecycleInv, NEW e \in Events, NEW c, NEW s \in {"Under Review", "Approved", "Rejected"},
           Progress(e, c, s)
    PROVE  \E row, request : Good(e, row, request) /\ Writes(e, row, request)
<1> DEFINE new == Entry(events[e], s)
<1>1. s \in EventStatuses
  BY DEF EventStatuses, PreSafetyStatuses
<1>2. /\ new \in EventRecord /\ new.status = s /\ new.undo = NoRound
      /\ new.details = events[e].details
  BY <1>1, PairsOK, EntryRow
<1>3. CASE s = "Under Review"
  <2>1. Status(e) = "Submitted" /\ Writes(e, new, requests[e])
    BY <1>3 DEF Progress
  <2>2. PairOK(events[e], requests[e])
    BY PairsOK
  <2> HIDE DEF new
  <2>3. SameStage(events[e], new) /\ events[e].status = "Submitted"
    BY <1>2, <1>3, <2>1 DEF SameStage, InReview, Asked, Status
  <2>4. RowOK(new) /\ DatesOK(new, requests[e])
    BY <1>2, <1>3, <2>2, <2>3, DatesKept DEF RowOK, PairOK
  <2>5. PairOK(new, requests[e])
    BY <2>2, <2>3, <2>4, StagePair DEF SameRounds
  <2>6. Good(e, new, requests[e])
    BY <1>2, <1>3, <2>3, <2>5, PairsOK DEF Good, MovesRightly
  <2>. QED  BY <2>1, <2>6
<1>4. CASE s # "Under Review"
  <2>1. Status(e) \in InReview /\ Writes(e, new, WithDecision(requests[e], s))
    BY <1>4 DEF Progress, InReview
  <2>2. Good(e, new, WithDecision(requests[e], s))
    BY <1>2, <1>4, <2>1, DecisionPair
  <2>. QED  BY <2>1, <2>2
<1>. QED  BY <1>3, <1>4

(* decide_event.                                                           *)
LEMMA DecideWrites ==
    ASSUME LifecycleInv, NEW e \in Events, NEW c, NEW s \in {"Approved", "Rejected"}, Decide(e, c, s)
    PROVE  \E row, request : Good(e, row, request) /\ Writes(e, row, request)
<1> DEFINE new == [events[e] EXCEPT !.status = s]
<1>1. s \in EventStatuses
  BY DEF EventStatuses, PreSafetyStatuses
<1>2. Status(e) \in InReview /\ Writes(e, new, WithDecision(requests[e], s))
  BY DEF Decide
<1>3. events[e].undo = NoRound
  BY <1>2, PairsOK DEF PairOK, RowOK, Status, InReview
<1>4. /\ new \in EventRecord /\ new.status = s /\ new.undo = NoRound
      /\ new.details = events[e].details
  BY <1>1, <1>3, PairsOK, StatusRow
<1>5. Good(e, new, WithDecision(requests[e], s))
  BY <1>2, <1>4, DecisionPair
<1>. QED  BY <1>2, <1>5

(* request_event_clarification: one round, asked by the coordinator in     *)
(* charge about the event as it is.                                        *)
LEMMA AskClarificationWrites ==
    ASSUME LifecycleInv, NEW e \in Events, NEW c \in Coordinators, AskClarification(e, c)
    PROVE  \E row, request : Good(e, row, request) /\ Writes(e, row, request)
<1> DEFINE row == events[e]
<1> DEFINE q == requests[e]
<1> DEFINE r == [by |-> c, seen |-> Values(e)]
<1> DEFINE new == Entry(row, "Clarification Requested")
<1> DEFINE p == [q EXCEPT !.clarifications = <<r>>]
<1>1. row \in EventRecord /\ q \in RequestRecord /\ PairOK(row, q)
  BY PairsOK
<1>2. row.status \in InReview /\ row.coordinator = c
  BY DEF AskClarification, Assigned, Status
<1>3. /\ new \in EventRecord /\ new.status = "Clarification Requested" /\ new.undo = NoRound
      /\ new.coordinator = c /\ new.details = row.details
  BY <1>1, <1>2, EntryRow DEF EventStatuses, PreSafetyStatuses, Asked
<1>4. r \in AskedRound /\ r.by = c /\ r.seen = ValuesOf(row, q)
  BY ValuesTyped DEF AskedRound
<1>5. Writes(e, new, [q EXCEPT !.clarifications = Append(@, r)])
  BY DEF AskClarification
<1> HIDE DEF row, q, r, new
<1>6. /\ q.clarifications = <<>> /\ q.amendments = <<>> /\ q.decisions = <<>>
      /\ row.status \notin {"none", "Draft", "Cancelled"}
  BY <1>1, <1>2 DEF PairOK, AnswersOK, DecisionsOK, InReview, Undecided
<1>7. Append(q.clarifications, r) = <<r>>
  BY <1>6, FirstRound
<1>8. Writes(e, new, p)
  BY <1>5, <1>7
<1>9. /\ p \in RequestRecord /\ p.clarifications = <<r>> /\ p.name = q.name /\ p.deadline = q.deadline
      /\ p.amendments = <<>> /\ p.decisions = <<>>
  BY <1>1, <1>4, <1>6, ClarifiedRequest DEF AtMostOne
<1> HIDE DEF p
<1>10. r.seen = ValuesOf(new, p)
  BY <1>3, <1>4, <1>9 DEF ValuesOf
<1>11. AnswersOK(new, p)
  BY <1>3, <1>4, <1>9, <1>10 DEF AnswersOK, Outstanding
<1>12. DatesOK(new, p)
  BY <1>1, <1>3, <1>6, <1>9, DatesKept DEF PairOK
<1>13. PairOK(new, p)
  BY <1>3, <1>9, <1>11, <1>12 DEF PairOK, RowOK, DecisionsOK, Undecided, Asked
<1>14. MovesRightly(row, new)
  BY <1>3, <1>6 DEF MovesRightly
<1>. QED  BY <1>3, <1>8, <1>9, <1>13, <1>14 DEF Good, row

(* request_event_amendment: the same, for the fields that were flagged.    *)
LEMMA AskAmendmentWrites ==
    ASSUME LifecycleInv, NEW e \in Events, NEW c \in Coordinators, NEW F \in SUBSET Fields,
           AskAmendment(e, c, F)
    PROVE  \E row, request : Good(e, row, request) /\ Writes(e, row, request)
<1> DEFINE row == events[e]
<1> DEFINE q == requests[e]
<1> DEFINE r == [by |-> c, seen |-> Values(e), fields |-> Flagged(F)]
<1> DEFINE new == Entry(row, "Amendment Requested")
<1> DEFINE p == AmendedTo(q, <<r>>, q.name)
<1>1. row \in EventRecord /\ q \in RequestRecord /\ PairOK(row, q)
  BY PairsOK
<1>2. row.status \in InReview /\ row.coordinator = c
  BY DEF AskAmendment, Assigned, Status
<1>3. /\ new \in EventRecord /\ new.status = "Amendment Requested" /\ new.undo = NoRound
      /\ new.coordinator = c /\ new.details = row.details
  BY <1>1, <1>2, EntryRow DEF EventStatuses, PreSafetyStatuses, Asked
<1>4. r \in AmendmentRound /\ r.by = c /\ r.seen = ValuesOf(row, q)
  <2>1. Flagged(F) \in SUBSET Fields
    BY DEF Flagged, Fields, HighImpactFields
  <2>. QED  BY <2>1, ValuesTyped DEF AmendmentRound
<1>5. Writes(e, new, [q EXCEPT !.amendments = Append(@, r)])
  BY DEF AskAmendment
<1> HIDE DEF row, q, r, new
<1>6. /\ q.clarifications = <<>> /\ q.amendments = <<>> /\ q.decisions = <<>>
      /\ row.status \notin {"none", "Draft", "Cancelled"} /\ q.name \in Names
  BY <1>1, <1>2 DEF PairOK, AnswersOK, DecisionsOK, InReview, Undecided, RequestRecord
<1>7. Append(q.amendments, r) = <<r>>
  BY <1>6, FirstRound
<1>8. [q EXCEPT !.amendments = <<r>>] = p
  BY <1>1 DEF RequestRecord, AmendedTo
<1>9. /\ p \in RequestRecord /\ p.amendments = <<r>> /\ p.name = q.name /\ p.deadline = q.deadline
      /\ p.clarifications = <<>> /\ p.decisions = <<>>
  <2>1. <<r>> \in AtMostOne(AmendmentRound)
    BY <1>4 DEF AtMostOne
  <2>. QED  BY <2>1, <1>1, <1>6, AmendedRequest
<1>10. Writes(e, new, p)
  BY <1>5, <1>7, <1>8
<1> HIDE DEF p
<1>11. r.seen = ValuesOf(new, p)
  BY <1>3, <1>4, <1>9 DEF ValuesOf
<1>12. AnswersOK(new, p)
  BY <1>3, <1>4, <1>9, <1>11 DEF AnswersOK, Outstanding
<1>13. DatesOK(new, p)
  BY <1>1, <1>3, <1>6, <1>9, DatesKept DEF PairOK
<1>14. PairOK(new, p)
  BY <1>3, <1>9, <1>12, <1>13 DEF PairOK, RowOK, DecisionsOK, Undecided, Asked
<1>15. MovesRightly(row, new)
  BY <1>3, <1>6 DEF MovesRightly
<1>. QED  BY <1>3, <1>9, <1>10, <1>14, <1>15 DEF Good, row

----------------------------------------------------------------------------
(* The organiser's answers: the event is back in review, nothing is left   *)
(* unanswered.                                                             *)

(* respond_to_event_clarification.                                         *)
LEMMA AnswerClarificationWrites ==
    ASSUME LifecycleInv, NEW e \in Events, AnswerClarification(e)
    PROVE  \E row, request : Good(e, row, request) /\ Writes(e, row, request)
<1> DEFINE row == events[e]
<1> DEFINE q == requests[e]
<1> DEFINE new == Entry(row, "Submitted")
<1> DEFINE p == [q EXCEPT !.clarifications = <<>>]
<1>1. row \in EventRecord /\ q \in RequestRecord /\ PairOK(row, q)
  BY PairsOK
<1>2. row.status = "Clarification Requested"
  BY DEF AnswerClarification, Status
<1>3. /\ new \in EventRecord /\ new.status = "Submitted" /\ new.undo = NoRound
      /\ new.details = row.details
  BY <1>1, EntryRow DEF EventStatuses, PreSafetyStatuses
<1>4. Writes(e, new, [q EXCEPT !.clarifications = Front(@)])
  BY DEF AnswerClarification
<1> HIDE DEF row, q, new
<1>5. /\ q.amendments = <<>> /\ q.decisions = <<>> /\ Front(q.clarifications) = <<>>
  <2>1. PICK r : q.clarifications = <<r>>
    BY <1>1, <1>2 DEF PairOK, AnswersOK, Outstanding
  <2>2. Front(q.clarifications) = <<>>
    BY <2>1, RoundAnswered
  <2>. QED  BY <1>1, <1>2, <2>2 DEF PairOK, AnswersOK, DecisionsOK, Undecided, Asked
<1>6. Writes(e, new, p)
  BY <1>4, <1>5
<1>7. /\ p \in RequestRecord /\ p.clarifications = <<>> /\ p.deadline = q.deadline
      /\ p.amendments = <<>> /\ p.decisions = <<>>
  BY <1>1, <1>5, ClarifiedRequest DEF AtMostOne
<1> HIDE DEF p
<1>8. DatesOK(new, p)
  BY <1>1, <1>2, <1>3, <1>7, DatesKept DEF PairOK
<1>9. PairOK(new, p)
  BY <1>3, <1>7, <1>8 DEF PairOK, RowOK, AnswersOK, DecisionsOK, Undecided, InReview
<1>10. MovesRightly(row, new)
  BY <1>2, <1>3 DEF MovesRightly
<1>. QED  BY <1>3, <1>6, <1>7, <1>9, <1>10 DEF Good, row

(* An edit sets the details it was given.                                  *)
LEMMA EditedDetails ==
    ASSUME NEW row \in EventRecord, NEW d \in Details
    PROVE  Edited(row, d).details = d
BY DEF Edited, EventRecord

(* A re-check saves the details it was asked to. *)
LEMMA RecheckedDetails ==
    ASSUME NEW row \in EventRecord, NEW d \in Details, NEW i \in RoundOrNone
    PROVE  Rechecked(row, d, i).details = d
<1> DEFINE edited == Edited(Submitted(row, i), d)
<1>1. edited \in EventRecord /\ edited.details = d
  BY SubmittedRow, EditedRow, EditedDetails
<1> HIDE DEF edited
<1>2. [edited EXCEPT !.baseline = "recorded"].details = edited.details
  BY <1>1 DEF EventRecord
<1>. QED  BY <1>1, <1>2 DEF Rechecked, edited

(* The dates of a change that was validated on the merged details.         *)
LEMMA MergedDates ==
    ASSUME LifecycleInv, NEW e \in Events, NEW ch \in Changings, NEW new, NEW p,
           Valid(Merged(e, ch), p.deadline), new.details = WindowOf(Merged(e, ch))
    PROVE  DatesOK(new, p)
<1> DEFINE v == Merged(e, ch)
<1>1. v.start \in Times /\ v.end \in Times
  BY MergedTyped
<1>2. Valid(v, p.deadline) /\ new.details = WindowOf(v)
  OBVIOUS
<1> HIDE DEF v
<1>3. new.details.start = v.start /\ new.details.end = v.end
  BY <1>1, <1>2, WindowIsDetails
<1>. QED  BY <1>2, <1>3, DatesChecked

(* respond_to_event_amendment.                                             *)
LEMMA AnswerAmendmentWrites ==
    ASSUME LifecycleInv, NEW e \in Events, NEW ch \in Changings, AnswerAmendment(e, ch)
    PROVE  \E row, request : Good(e, row, request) /\ Writes(e, row, request)
<1> DEFINE row == events[e]
<1> DEFINE q == requests[e]
<1> DEFINE v == Merged(e, ch)
<1> DEFINE w == WindowOf(v)
<1> DEFINE edited == Edited(row, w)
<1> DEFINE new == Entry(edited, "Submitted")
<1> DEFINE p == AmendedTo(q, <<>>, v.name)
<1>1. row \in EventRecord /\ q \in RequestRecord /\ PairOK(row, q)
  BY PairsOK
<1>2. row.status = "Amendment Requested" /\ Valid(v, q.deadline)
  BY DEF AnswerAmendment, Status
<1>3. w \in Details /\ v.name \in Names
  BY MergedTyped, WindowIsDetails
<1>4. edited \in EventRecord /\ edited.details = w
  BY <1>1, <1>3, EditedRow, EditedDetails
<1>5. new \in EventRecord /\ new.status = "Submitted" /\ new.undo = NoRound /\ new.details = w
  BY <1>4, EntryRow DEF EventStatuses, PreSafetyStatuses
<1>6. Writes(e, new, [q EXCEPT !.amendments = Front(@), !.name = v.name])
  BY DEF AnswerAmendment
<1> HIDE DEF row, q, v, w, edited, new
<1>7. /\ q.clarifications = <<>> /\ q.decisions = <<>> /\ Front(q.amendments) = <<>>
  <2>1. PICK r : q.amendments = <<r>>
    BY <1>1, <1>2 DEF PairOK, AnswersOK, Outstanding
  <2>2. Front(q.amendments) = <<>>
    BY <2>1, RoundAnswered
  <2>. QED  BY <1>1, <1>2, <2>2 DEF PairOK, AnswersOK, DecisionsOK, Undecided, Asked
<1>8. Writes(e, new, p)
  BY <1>6, <1>7 DEF AmendedTo
<1>9. /\ p \in RequestRecord /\ p.clarifications = <<>> /\ p.deadline = q.deadline
      /\ p.amendments = <<>> /\ p.decisions = <<>>
  BY <1>1, <1>3, <1>7, AmendedRequest DEF AtMostOne
<1> HIDE DEF p
<1>10. DatesOK(new, p)
  BY <1>2, <1>5, <1>9, MergedDates DEF v, w
<1>11. PairOK(new, p)
  BY <1>5, <1>9, <1>10 DEF PairOK, RowOK, AnswersOK, DecisionsOK, Undecided, InReview
<1>12. MovesRightly(row, new)
  BY <1>2, <1>5 DEF MovesRightly
<1>. QED  BY <1>5, <1>8, <1>9, <1>11, <1>12 DEF Good, row

----------------------------------------------------------------------------
(* The organiser's change requests, and edits.                             *)

(* A proposal made or rejected is nothing to what the pair says.           *)
LEMMA ProposalPair ==
    ASSUME NEW row, NEW q, NEW p, PairOK(row, q), SameRounds(q, p),
           p.name = q.name, p.deadline = q.deadline
    PROVE  PairOK(row, p)
<1>1. ValuesOf(row, p) = ValuesOf(row, q)
  BY DEF ValuesOf
<1>2. AnswersOK(row, p)
  BY <1>1 DEF PairOK, AnswersOK, Outstanding, SameRounds
<1>3. DecisionsOK(row, p) /\ DatesOK(row, p)
  BY <1>1 DEF PairOK, DecisionsOK, DatesOK, SameRounds
<1>. QED  BY <1>2, <1>3 DEF PairOK

(* propose_event_change, and the rejection in decide_event_change_request. *)
LEMMA ProposalWrites ==
    ASSUME LifecycleInv, NEW e \in Events, NEW pr \in Changings \cup {NoProposal},
           requests' = [requests EXCEPT ![e].proposal = pr], UNCHANGED events
    PROVE  \E row, request : Good(e, row, request) /\ Writes(e, row, request)
<1> DEFINE row == events[e]
<1> DEFINE q == requests[e]
<1> DEFINE p == ProposedTo(q, pr, q.name)
<1>1. row \in EventRecord /\ q \in RequestRecord /\ PairOK(row, q)
  BY PairsOK
<1>2. q.name \in Names
  BY <1>1 DEF RequestRecord
<1>3. p \in RequestRecord /\ p.name = q.name /\ p.deadline = q.deadline /\ SameRounds(q, p)
  BY <1>1, <1>2, ProposedRequest
<1>4. p = [q EXCEPT !.proposal = pr]
  BY <1>1 DEF ProposedTo, RequestRecord
<1>5. requests' = [requests EXCEPT ![e] = [requests[e] EXCEPT !.proposal = pr]]
  BY DEF LifecycleInv
<1>6. Writes(e, row, p)
  BY <1>4, <1>5, RequestsIsWrites
<1> HIDE DEF row, q, p
<1>7. PairOK(row, p)
  BY <1>1, <1>3, ProposalPair
<1>8. MovesRightly(row, row)
  BY DEF MovesRightly
<1>. QED  BY <1>1, <1>3, <1>6, <1>7, <1>8 DEF Good, row

(* A change that changes nothing merges to the details as they are.        *)
LEMMA NothingMerged ==
    ASSUME LifecycleInv, NEW e \in Events, NEW ch \in Changings, ChangedFields(e, ch) = {}
    PROVE  /\ Merged(e, ch).start = events[e].details.start
           /\ Merged(e, ch).end = events[e].details.end
<1>1. \A f \in DOMAIN ch : ch[f] = Values(e)[f]
  BY DEF ChangedFields
<1>2. Merged(e, ch).start = Values(e).start /\ Merged(e, ch).end = Values(e).end
  BY <1>1 DEF Merged, Fields
<1>. QED  BY <1>2 DEF Values

(* The approval in decide_event_change_request, which is checked on the    *)
(* details as they are by then.                                            *)
LEMMA ApproveProposalWrites ==
    ASSUME LifecycleInv, NEW e \in Events, NEW c, ApproveProposal(e, c)
    PROVE  \E row, request : Good(e, row, request) /\ Writes(e, row, request)
<1> DEFINE row == events[e]
<1> DEFINE q == requests[e]
<1> DEFINE ch == q.proposal
<1> DEFINE v == Merged(e, ch)
<1> DEFINE w == WindowOf(v)
<1> DEFINE new == IF ChangedFields(e, ch) = {} THEN row ELSE Edited(row, w)
<1> DEFINE p == ProposedTo(q, NoProposal, v.name)
<1>1. row \in EventRecord /\ q \in RequestRecord /\ PairOK(row, q)
  BY PairsOK
<1>2. row.status \in ChangeRequestStatuses /\ Valid(v, q.deadline) /\ ch # NoProposal
  BY DEF ApproveProposal, Status, Proposed
<1>3. ch \in Changings
  BY <1>1, <1>2 DEF RequestRecord
<1>4. w \in Details /\ v.name \in Names
  BY <1>3, MergedTyped, WindowIsDetails
<1>5. Writes(e, new, [q EXCEPT !.proposal = NoProposal, !.name = v.name])
  BY DEF ApproveProposal, ApplyProposal, Proposed
<1>6. Writes(e, new, p)
  BY <1>5 DEF ProposedTo
<1>7. p \in RequestRecord /\ p.deadline = q.deadline /\ SameRounds(q, p)
  BY <1>1, <1>4, ProposedRequest
<1>8. Edited(row, w) \in EventRecord /\ Edited(row, w).status = row.status
      /\ Edited(row, w).undo = NoRound /\ Edited(row, w).details = w
  BY <1>1, <1>4, EditedRow, EditedDetails
<1>9. Valid(v, p.deadline)
  BY <1>2, <1>7
<1>10. /\ new \in EventRecord /\ new.status = row.status /\ RowOK(new) /\ DatesOK(new, p)
  <2>1. CASE ChangedFields(e, ch) = {}
    <3>1. v.start = row.details.start /\ v.end = row.details.end /\ new = row
      BY <2>1, <1>3, NothingMerged
    <3> HIDE DEF row, q, ch, v, w, new, p
    <3>. QED  BY <3>1, <1>1, <1>9, DatesChecked DEF PairOK
  <2>2. CASE ChangedFields(e, ch) # {}
    <3>1. new = Edited(row, w)
      BY <2>2
    <3>2. DatesOK(Edited(row, w), p)
      BY <1>3, <1>8, <1>9, MergedDates
    <3> HIDE DEF row, q, ch, v, w, new, p
    <3>3. RowOK(Edited(row, w))
      BY <1>2, <1>8 DEF RowOK, ChangeRequestStatuses
    <3>. QED  BY <1>8, <3>1, <3>2, <3>3
  <2>. QED  BY <2>1, <2>2
<1> HIDE DEF row, q, ch, v, w, new, p
<1>11. SameStage(row, new) /\ MovesRightly(row, new)
  BY <1>2, <1>10 DEF SameStage, ChangeRequestStatuses, Asked, MovesRightly
<1>12. PairOK(new, p)
  BY <1>1, <1>7, <1>10, <1>11, StagePair
<1>. QED  BY <1>6, <1>7, <1>10, <1>11, <1>12 DEF Good, row

(* The name that an edit keeps beside the row.                             *)
LEMMA EditWrites ==
    ASSUME LifecycleInv, NEW e \in Events, NEW ch \in Changings, NEW new \in EventRecord,
           Saves(e, new), EditKeepsName(e, ch),
           RowOK(new), SameStage(events[e], new), MovesRightly(events[e], new),
           Valid(Merged(e, ch), requests[e].deadline),
           \/ new.details = WindowOf(Merged(e, ch))
           \/ new.details = events[e].details /\ events[e].status \in EditableStatuses
    PROVE  \E row, request : Good(e, row, request) /\ Writes(e, row, request)
<1> DEFINE q == requests[e]
<1> DEFINE v == Merged(e, ch)
<1> DEFINE p == RenamedTo(q, v.name)
<1>1. q \in RequestRecord /\ PairOK(events[e], q)
  BY PairsOK
<1>2. p \in RequestRecord /\ p.deadline = q.deadline /\ SameRounds(q, p)
  BY <1>1, MergedTyped, RenamedRequest
<1>3. requests' = [requests EXCEPT ![e] = [requests[e] EXCEPT !.name = v.name]]
  BY DEF EditKeepsName, LifecycleInv
<1>4. Writes(e, new, p)
  BY <1>3 DEF Writes, RenamedTo
<1>5. Valid(v, p.deadline)
  BY <1>2
<1> HIDE DEF p
<1>6. DatesOK(new, p)
  <2>1. CASE new.details = WindowOf(v)
    BY <1>5, <2>1, MergedDates
  <2>2. CASE new.details = events[e].details /\ events[e].status \in EditableStatuses
    BY <1>1, <1>2, <2>2, DatesKept DEF PairOK, EditableStatuses
  <2>. QED  BY <2>1, <2>2
<1>7. PairOK(new, p)
  BY <1>1, <1>2, <1>6, StagePair
<1>. QED  BY <1>2, <1>4, <1>7 DEF Good

(* update_event_details, with a high-impact detail among what changes.     *)
LEMMA EditingWrites ==
    ASSUME LifecycleInv, NEW e \in Events, NEW c, NEW ch \in Changings,
           NEW withdrawn, NEW opened \in RoundOrNone, Edit(e, c, ch, withdrawn, opened)
    PROVE  \E row, request : Good(e, row, request) /\ Writes(e, row, request)
<1> DEFINE row == events[e]
<1> DEFINE w == WindowOf(Merged(e, ch))
<1>1. row \in EventRecord /\ RowOK(row)
  BY PairsOK DEF PairOK
<1>2. w \in Details
  BY MergedTyped, WindowIsDetails
<1>3. /\ EditKeepsName(e, ch) /\ Valid(Merged(e, ch), requests[e].deadline)
      /\ SaveDetails(e, c, w, withdrawn, opened)
  BY DEF Edit
<1>4. row.status \in EditableStatuses
  BY <1>3 DEF SaveDetails, CanSaveDetails, Status
<1>5. \/ row.details = w /\ Saves(e, row)
      \/ row.status = "Confirmed" /\ Saves(e, Rechecked(row, w, opened))
      \/ row.status # "Confirmed" /\ Saves(e, Edited(row, w))
  <2>1. UNCHANGED events => Saves(e, row)
    BY DEF Saves, LifecycleInv, EventsTypeOK
  <2>. QED  BY <1>3, <2>1 DEF SaveDetails, Changes, Status
<1>6. CASE row.details = w /\ Saves(e, row)
  <2>1. SameStage(row, row) /\ MovesRightly(row, row)
    BY <1>4 DEF SameStage, MovesRightly, EditableStatuses, Asked
  <2>. QED  BY <1>1, <1>3, <1>6, <2>1, EditWrites
<1>7. CASE row.status = "Confirmed" /\ Saves(e, Rechecked(row, w, opened))
  <2> DEFINE new == Rechecked(row, w, opened)
  <2>1. /\ new \in EventRecord /\ new.status = "Pending Safety Check" /\ new.undo = NoRound
        /\ new.details = w
    BY <1>1, <1>2, RecheckedRow, RecheckedDetails
  <2>2. RowOK(new) /\ SameStage(row, new) /\ MovesRightly(row, new)
    <3> HIDE DEF row, new
    <3>. QED  BY <1>7, <2>1 DEF RowOK, SameStage, MovesRightly, Decided, Asked
  <2>3. Saves(e, new)
    BY <1>7
  <2> HIDE DEF new
  <2>. QED  BY <1>3, <2>1, <2>2, <2>3, EditWrites
<1>8. CASE row.status # "Confirmed" /\ Saves(e, Edited(row, w))
  <2> DEFINE new == Edited(row, w)
  <2>1. /\ new \in EventRecord /\ new.status = row.status /\ new.undo = NoRound
        /\ new.details = w
    BY <1>1, <1>2, EditedRow, EditedDetails
  <2>2. RowOK(new) /\ SameStage(row, new) /\ MovesRightly(row, new)
    <3> HIDE DEF row, new
    <3>. QED  BY <1>4, <1>8, <2>1 DEF RowOK, SameStage, MovesRightly, EditableStatuses, Asked
  <2>3. Saves(e, new)
    BY <1>8
  <2> HIDE DEF new
  <2>. QED  BY <1>3, <2>1, <2>2, <2>3, EditWrites
<1>. QED  BY <1>5, <1>6, <1>7, <1>8

(* One more history entry leaves nothing to undo, and the rest as it was.  *)
LEMMA UndonePair ==
    ASSUME NEW row \in EventRecord, RowOK(row)
    PROVE  LET new == [row EXCEPT !.undo = NoRound]
           IN  RowOK(new) /\ MovesRightly(row, new)
<1> DEFINE new == [row EXCEPT !.undo = NoRound]
<1>1. /\ new.status = row.status /\ new.undo = NoRound /\ new.approval = row.approval
      /\ new.details = row.details /\ new.reviewed = row.reviewed
  BY UndoneRow
<1> HIDE DEF new
<1>2. RowOK(new) /\ MovesRightly(row, new)
  BY <1>1 DEF RowOK, MovesRightly
<1>. QED  BY <1>2 DEF new

(* update_event_details, when only the name changes.                       *)
LEMMA EditLowImpactWrites ==
    ASSUME LifecycleInv, NEW e \in Events, NEW c, NEW ch \in Changings, EditLowImpact(e, c, ch)
    PROVE  \E row, request : Good(e, row, request) /\ Writes(e, row, request)
<1> DEFINE row == events[e]
<1> DEFINE new == [row EXCEPT !.undo = NoRound]
<1>1. row \in EventRecord /\ RowOK(row)
  BY PairsOK DEF PairOK
<1>2. /\ EditKeepsName(e, ch) /\ Valid(Merged(e, ch), requests[e].deadline)
      /\ Saves(e, new) /\ row.status \in EditableStatuses
  BY DEF EditLowImpact, Status
<1>3. new \in EventRecord /\ new.status = row.status /\ new.details = row.details
  BY <1>1, UndoneRow
<1>4. RowOK(new) /\ MovesRightly(row, new)
  BY <1>1, UndonePair
<1> HIDE DEF new
<1>5. SameStage(row, new)
  BY <1>2, <1>3 DEF SameStage, EditableStatuses, Asked
<1>. QED  BY <1>2, <1>3, <1>4, <1>5, EditWrites

----------------------------------------------------------------------------
(* The safety workflow leaves what is beside the row alone, and the        *)
(* details: what EventSafetyProofs says of its steps, and their stages.    *)
LEMMA SubmittedDetails ==
    ASSUME NEW row \in EventRecord, NEW i \in RoundOrNone
    PROVE  Submitted(row, i).details = row.details
BY DEF Submitted, EventRecord

(* A safety decision leaves the details alone. *)
LEMMA MovedDetails ==
    ASSUME NEW row \in EventRecord, NEW i \in RoundIds, NEW s \in SafetyTargets
    PROVE  MovedBy(row, i, s).details = row.details
<1>1. Declined(row, i, s).details = row.details
  BY DEF Declined, EventRecord
<1>. QED  BY <1>1, ConfirmedRow, ReviewedRow DEF MovedBy

(* What an action of the safety workflow makes of the row of its event.    *)
KeepsStage(e, row) ==
    /\ Saves(e, row)
    /\ row.details = events[e].details
    /\ SameStage(events[e], row)

(* No action of the safety workflow leaves the stages it may be in. *)
LEMMA WorkflowStages ==
    ASSUME LifecycleInv, NEW e \in Events, NEW c \in Coordinators, SafetyWorkflow(e, c)
    PROVE  \E row : KeepsStage(e, row)
<1> DEFINE row == events[e]
<1>1. row \in EventRecord
  BY PairsOK
<1>2. ASSUME NEW i \in RoundIds, SubmitEvent(e, c, i)
      PROVE  KeepsStage(e, Submitted(row, i))
  <2> DEFINE new == Submitted(row, i)
  <2>1. /\ new.status = "Pending Safety Check" /\ new.details = row.details /\ Saves(e, new)
        /\ row.status \in {"Approved", "Safety Changes Requested"}
    BY <1>1, <1>2, SubmittedRow, SubmittedDetails DEF SubmitEvent, CanSubmit, Status, RoundOrNone
  <2> HIDE DEF new
  <2>. QED  BY <2>1 DEF KeepsStage, SameStage, Decided, Asked, new
<1>3. ASSUME NEW i \in RoundIds, WithdrawEvent(e, c, i)
      PROVE  KeepsStage(e, Unconfirmed(row, i))
  <2> DEFINE new == Unconfirmed(row, i)
  <2>1. /\ new.status = "Approved" /\ new.details = row.details /\ Saves(e, new)
        /\ row.status = "Confirmed"
    BY <1>1, <1>3, UnconfirmedRow DEF WithdrawEvent, CanWithdrawEvent, Status
  <2> HIDE DEF new
  <2>. QED  BY <2>1 DEF KeepsStage, SameStage, Decided, Asked, new
<1>4. ASSUME NEW i \in RoundIds, RestoreEvent(e, c, i)
      PROVE  KeepsStage(e, Confirmed(row, i))
  <2> DEFINE new == Confirmed(row, i)
  <2>1. /\ new.status = "Confirmed" /\ new.details = row.details /\ Saves(e, new)
        /\ row.status = "Approved"
    BY <1>1, <1>4, ConfirmedRow DEF RestoreEvent, CanRestoreEvent, Status
  <2> HIDE DEF new
  <2>. QED  BY <2>1 DEF KeepsStage, SameStage, Decided, Asked, new
<1>5. ASSUME NEW i \in RoundIds, NEW s \in SafetyTargets, NEW venue, MoveDecided(e, i, s, venue)
      PROVE  KeepsStage(e, MovedBy(row, i, s))
  <2> DEFINE new == MovedBy(row, i, s)
  <2>1. Saves(e, new) /\ row.status = "Pending Safety Check"
    BY <1>5 DEF MoveDecided, CanMoveDecided, Status
  <2>2. new.status = s
    BY <1>1, MovedRow
  <2>3. new.details = row.details
    BY <1>1, MovedDetails
  <2> HIDE DEF new
  <2>. QED  BY <2>1, <2>2, <2>3 DEF KeepsStage, SameStage, Decided, Asked, SafetyTargets, new
<1>6. ASSUME RecordProgress(e, c)
      PROVE  KeepsStage(e, [row EXCEPT !.undo = NoRound])
  <2> DEFINE new == [row EXCEPT !.undo = NoRound]
  <2>1. /\ new.status = row.status /\ new.details = row.details /\ Saves(e, new)
        /\ row.status \notin Asked
    BY <1>1, <1>6, UndoneRow DEF RecordProgress, CanRecordProgress, Status
  <2> HIDE DEF new
  <2>. QED  BY <2>1 DEF KeepsStage, SameStage, new
<1>7. ASSUME Reassign(e, c)
      PROVE  KeepsStage(e, Reassigned(row, c))
  <2> DEFINE new == Reassigned(row, c)
  <2>1. /\ row.status # "Submitted" => new.status = row.status
        /\ row.status = "Submitted" => new.status = "Under Review"
        /\ new.details = row.details /\ Saves(e, new)
        /\ row.status \notin Asked
    BY <1>1, <1>7, ReassignedRow DEF Reassign, Status, ClosedStatuses
  <2> HIDE DEF new
  <2>. QED  BY <2>1 DEF KeepsStage, SameStage, InReview, new
<1> HIDE DEF row
<1>. QED  BY <1>2, <1>3, <1>4, <1>5, <1>6, <1>7 DEF SafetyWorkflow

(* So each writes a good row. *)
LEMMA WorkflowWrites ==
    ASSUME LifecycleInv, NEW e \in Events, NEW c \in Coordinators, SafetyWorkflow(e, c)
    PROVE  \E row, request : Good(e, row, request) /\ Writes(e, row, request)
<1>1. PICK row : KeepsStage(e, row)
  BY WorkflowStages
<1>2. UNCHANGED requests /\ EventsNext
  BY DEF SafetyWorkflow, EventsNext
<1>3. EventsInv
  BY DEF LifecycleInv, EventsInv, PairOK
<1>4. EventsInv' /\ MovesRightly(events[e], events'[e])
  BY <1>2, <1>3, EventsNextKeepsInv, NextMovesRightly
<1>5. events'[e] = row
  BY <1>1 DEF KeepsStage, Saves, LifecycleInv, EventsTypeOK
<1>6. row \in EventRecord /\ RowOK(row) /\ MovesRightly(events[e], row)
  BY <1>4, <1>5 DEF EventsInv, EventsTypeOK
<1>7. Writes(e, row, requests[e])
  BY <1>1, <1>2, SavesIsWrites DEF KeepsStage
<1>8. requests[e] \in RequestRecord /\ PairOK(events[e], requests[e])
  BY PairsOK
<1>9. DatesOK(row, requests[e])
  <2>1. row.status \notin {"none", "Draft"} => events[e].status \notin {"none", "Draft"}
    BY <1>1 DEF KeepsStage, SameStage, InReview, Decided
  <2>2. row.details = events[e].details
    BY <1>1 DEF KeepsStage
  <2>. QED  BY <1>8, <2>1, <2>2 DEF PairOK, DatesOK, ValuesOf
<1>10. PairOK(row, requests[e])
  BY <1>1, <1>6, <1>8, <1>9, StagePair DEF KeepsStage, SameRounds
<1>. QED  BY <1>6, <1>7, <1>8, <1>10 DEF Good

----------------------------------------------------------------------------
(* Before any call there is no event.                                      *)
LEMMA LifecycleInitEstablishesInv ==
    ASSUME LifecycleInit
    PROVE  LifecycleInv
<1> DEFINE row == NewRow(Nothing, "none")
<1> DEFINE q == NewRequest(Nothing, 0)
<1>1. row \in EventRecord /\ q \in RequestRecord /\ PairOK(row, q)
  BY NothingPair
<1>2. events = [e \in Events |-> row] /\ requests = [e \in Events |-> q]
  BY DEF LifecycleInit
<1> HIDE DEF row, q
<1>. QED  BY <1>1, <1>2 DEF LifecycleInv, EventsTypeOK

(* Every call writes one good pair.                                        *)
LEMMA CallsWrite ==
    ASSUME LifecycleInv, LifecycleNext
    PROVE  \E e \in Events : \E row, request : Good(e, row, request) /\ Writes(e, row, request)
<1> PICK e \in Events :
       \/ Organiser(e)
       \/ \E c \in Coordinators : Review(e, c) \/ SafetyWorkflow(e, c)
       \/ \E c \in Coordinators \cup {Unassigned} : Editing(e, c)
  BY DEF LifecycleNext
<1> SUFFICES \E row, request : Good(e, row, request) /\ Writes(e, row, request)
  OBVIOUS
<1>1. CASE Organiser(e)
  <2>1. CASE \E v \in AllValues, t \in Times :
               SubmitNew(e, v, t) \/ SaveDraft(e, v, t) \/ SubmitDraft(e, v, t)
    BY <2>1, SubmissionWrites
  <2>2. CASE DeleteDraft(e)
    BY <2>2, DeletionWrites
  <2>3. CASE AnswerClarification(e)
    BY <2>3, AnswerClarificationWrites
  <2>4. CASE \E ch \in Changings : AnswerAmendment(e, ch)
    BY <2>4, AnswerAmendmentWrites
  <2>5. CASE \E ch \in Changings : Propose(e, ch)
    BY <2>5, ProposalWrites DEF Propose
  <2>. QED  BY <1>1, <2>1, <2>2, <2>3, <2>4, <2>5 DEF Organiser
<1>2. ASSUME NEW c \in Coordinators, Review(e, c)
      PROVE  \E row, request : Good(e, row, request) /\ Writes(e, row, request)
  <2>1. CASE \E s \in {"Under Review", "Approved", "Rejected"} : Progress(e, c, s)
    BY <2>1, ProgressWrites
  <2>2. CASE \E s \in {"Approved", "Rejected"} : Decide(e, c, s)
    BY <2>2, DecideWrites
  <2>3. CASE AskClarification(e, c)
    BY <2>3, AskClarificationWrites
  <2>4. CASE \E F \in SUBSET Fields : AskAmendment(e, c, F)
    BY <2>4, AskAmendmentWrites
  <2>5. CASE RejectProposal(e, c)
    BY <2>5, ProposalWrites DEF RejectProposal
  <2>6. CASE ApproveProposal(e, c)
    BY <2>6, ApproveProposalWrites
  <2>. QED  BY <1>2, <2>1, <2>2, <2>3, <2>4, <2>5, <2>6 DEF Review
<1>3. ASSUME NEW c \in Coordinators, SafetyWorkflow(e, c)
      PROVE  \E row, request : Good(e, row, request) /\ Writes(e, row, request)
  BY <1>3, WorkflowWrites
<1>4. ASSUME NEW c, Editing(e, c)
      PROVE  \E row, request : Good(e, row, request) /\ Writes(e, row, request)
  <2> PICK ch \in Changings :
         \/ \E i, j \in RoundIds : Edit(e, c, ch, i, j)
         \/ Edit(e, c, ch, NoRound, NoRound)
         \/ EditLowImpact(e, c, ch)
    BY <1>4 DEF Editing
  <2>1. CASE \E i, j \in RoundOrNone : Edit(e, c, ch, i, j)
    BY <2>1, EditingWrites
  <2>2. CASE EditLowImpact(e, c, ch)
    BY <2>2, EditLowImpactWrites
  <2>. QED  BY <2>1, <2>2 DEF RoundOrNone
<1>. QED  BY <1>1, <1>2, <1>3, <1>4

(* Every step keeps the invariant and moves every event as it may. *)
LEMMA LifecycleStep ==
    ASSUME LifecycleInv, [LifecycleNext]_vars
    PROVE  LifecycleInv' /\ \A f \in Events : MovesRightly(events[f], events'[f])
<1>1. CASE LifecycleNext
  BY <1>1, CallsWrite, WriteKeepsInv
<1>2. CASE UNCHANGED vars
  <2>1. LifecycleInv'
    BY <1>2 DEF vars, LifecycleInv, EventsTypeOK
  <2>. QED  BY <1>2, <2>1 DEF vars, MovesRightly
<1>. QED  BY <1>1, <1>2

(* The inductive invariant holds whatever calls the service is asked.      *)
THEOREM LifecycleInvariant == LifecycleSpec => []LifecycleInv
<1>1. LifecycleInv /\ [LifecycleNext]_vars => LifecycleInv'
  BY LifecycleStep
<1>. QED  BY <1>1, LifecycleInitEstablishesInv, PTL DEF LifecycleSpec

(* What the endpoints outside the safety workflow do takes nothing from    *)
(* what EventSafetyProofs shows of it: an event's row keeps its shape, a   *)
(* Confirmed event is on the details that were approved, and an undo       *)
(* brings back the approval that stood.                                    *)
THEOREM LifecycleKeepsSafety ==
    LifecycleSpec => [](EventsTypeOK /\ ConfirmedOnReviewedDetails /\ UndoKeepsTheApproval)
<1>1. LifecycleInv => EventsTypeOK /\ ConfirmedOnReviewedDetails /\ UndoKeepsTheApproval
  BY DEF LifecycleInv, PairOK, RowOK, ConfirmedOnReviewedDetails, UndoKeepsTheApproval, Status
<1>. QED  BY <1>1, LifecycleInvariant, PTL

(* An answer goes back to the coordinator who asked, about the event they  *)
(* asked about, and nothing else is left unanswered.                       *)
THEOREM AnswersAlwaysComeBack == LifecycleSpec => []AnswersComeBack
<1>1. ASSUME LifecycleInv, NEW e \in Events, NEW rounds, Outstanding(events[e], requests[e], rounds)
      PROVE  AskedOnce(e, rounds)
  <2>1. PICK r : rounds = <<r>> /\ r.by = events[e].coordinator
                   /\ r.seen = ValuesOf(events[e], requests[e])
    BY <1>1 DEF Outstanding
  <2>2. Len(rounds) = 1 /\ rounds[1] = r
    BY <2>1, OneRound
  <2>. QED  BY <1>1, <2>1, <2>2, ValuesTyped DEF AskedOnce
<1>2. LifecycleInv => AnswersComeBack
  <2> SUFFICES ASSUME LifecycleInv, NEW e \in Events
               PROVE  /\ IF Status(e) = "Clarification Requested"
                         THEN AskedOnce(e, requests[e].clarifications)
                         ELSE requests[e].clarifications = <<>>
                      /\ IF Status(e) = "Amendment Requested"
                         THEN AskedOnce(e, requests[e].amendments)
                         ELSE requests[e].amendments = <<>>
    BY DEF AnswersComeBack
  <2>1. AnswersOK(events[e], requests[e])
    BY PairsOK DEF PairOK
  <2>. QED  BY <1>1, <2>1 DEF AnswersOK, Status
<1>. QED  BY <1>2, LifecycleInvariant, PTL

(* A request is decided once, by whichever endpoint comes first.           *)
THEOREM RequestsDecidedOnce == LifecycleSpec => []DecidedOnce
<1>1. LifecycleInv => DecidedOnce
  <2> SUFFICES ASSUME LifecycleInv, NEW e \in Events
               PROVE  requests[e].decisions =
                         IF Status(e) \in {"none", "Draft"} \cup InReview \cup Asked THEN <<>>
                         ELSE IF Status(e) = "Rejected" THEN <<"Rejected">> ELSE <<"Approved">>
    BY DEF DecidedOnce
  <2>1. DecisionsOK(events[e], requests[e])
    BY PairsOK DEF PairOK
  <2>. QED  BY <2>1 DEF DecisionsOK, Undecided, Status
<1>. QED  BY <1>1, LifecycleInvariant, PTL

(* Whatever changes come together on an event, its dates are in order.     *)
THEOREM DatesStayInOrder == LifecycleSpec => []DatesInOrder
<1>1. LifecycleInv => DatesInOrder
  <2> SUFFICES ASSUME LifecycleInv, NEW e \in Events, Status(e) \notin {"none", "Draft"}
               PROVE  Valid(Values(e), requests[e].deadline)
    BY DEF DatesInOrder
  <2>1. DatesOK(events[e], requests[e])
    BY PairsOK DEF PairOK
  <2>. QED  BY <2>1, ValuesTyped DEF DatesOK, Status
<1>. QED  BY <1>1, LifecycleInvariant, PTL

(* No endpoint of the whole service confirms an event otherwise than by a  *)
(* decision on the round it waits for, or by the undo of a withdrawal.     *)
THEOREM OnlyDecisionsConfirmEvents == LifecycleSpec => ConfirmedByDecisionOrUndo
<1>1. LifecycleInv /\ [LifecycleNext]_vars
         => [\A e \in Events : MovesRightly(events[e], events'[e])]_events
  BY LifecycleStep
<1>. QED  BY <1>1, LifecycleInvariant, PTL DEF LifecycleSpec, ConfirmedByDecisionOrUndo
==============================================================================
