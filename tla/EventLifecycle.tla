--------------------------- MODULE EventLifecycle ---------------------------
(***************************************************************************)
(* The Event Service as a whole: drafts, submission, the review by a       *)
(* coordinator with its clarifications and amendments, the organiser's     *)
(* change requests, and edits, together with the safety workflow of        *)
(* EventSafety.  Every handler is one transaction under the row lock of    *)
(* the event; the hazard is in what long sequences of them make.           *)
(*                                                                         *)
(* Of an event's details three are told apart: its start and end, which    *)
(* are high-impact, and its name, which is not.  Of the rounds with the    *)
(* organiser only those that are unanswered are ever looked at, so only    *)
(* they are kept; likewise a change request that was decided is gone.      *)
(* What an organiser may call, only the owner of the event calls.          *)
(***************************************************************************)
EXTENDS EventSafety, Naturals, Sequences

CONSTANTS Times, Names

ASSUME TimesAssumption == Times \subseteq Nat /\ 0 \in Times  \* 0 in a draft: no date yet
ASSUME NamesAssumption == Names # {}
ASSUME DetailsAssumption == Details = [start : Times, end : Times]

VARIABLE requests  \* beside the row: name, deadline, unanswered rounds, pending proposal, decisions

vars == <<events, requests>>

Fields == {"start", "end", "name"}
HighImpactFields == {"start", "end"}
ChangeRequestStatuses == {"Submitted", "Under Review", "Approved"}
InReview == {"Submitted", "Under Review"}

NoProposal == <<>>

(* What a request to the service may set: at least one field.              *)
Changings ==
    {ch \in UNION {[F -> Times \cup Names] : F \in SUBSET Fields \ {{}}} :
        \A f \in DOMAIN ch : ch[f] \in (IF f = "name" THEN Names ELSE Times)}

AllValues == [start : Times, end : Times, name : Names]

-----------------------------------------------------------------------------
(* Details *)

WindowOf(v) == [start |-> v.start, end |-> v.end]

Values(e) == [start |-> events[e].details.start, end |-> events[e].details.end, name |-> requests[e].name]

Merged(e, ch) == [f \in Fields |-> IF f \in DOMAIN ch THEN ch[f] ELSE Values(e)[f]]

(* validate: the start before the end, registrations withdrawn no later than the start. *)
Valid(v, deadline) == v.start < v.end /\ deadline <= v.start

ChangedFields(e, ch) == {f \in DOMAIN ch : ch[f] # Values(e)[f]}

Writes(e, row, request) ==
    /\ Saves(e, row)
    /\ requests' = [requests EXCEPT ![e] = request]

(* A history entry of status s that names no round.                        *)
Entry(row, s) == [row EXCEPT !.status = s, !.undo = NoRound]

-----------------------------------------------------------------------------
(* Drafts and submission *)

NewRow(v, s) == [NewlyApproved(Unassigned, WindowOf(v)) EXCEPT !.status = s]

NewRequest(v, deadline) ==
    [name |-> v.name, deadline |-> deadline, clarifications |-> <<>>, amendments |-> <<>>,
     proposal |-> NoProposal, decisions |-> <<>>]

Nothing == [start |-> 0, end |-> 0, name |-> CHOOSE n \in Names : TRUE]

LifecycleInit ==
    /\ events = [e \in Events |-> NewRow(Nothing, "none")]
    /\ requests = [e \in Events |-> NewRequest(Nothing, 0)]

SubmitNew(e, v, deadline) ==
    /\ Status(e) = "none"
    /\ Valid(v, deadline)
    /\ Writes(e, NewRow(v, "Submitted"), NewRequest(v, deadline))

(* A draft is well formed as far as it is filled in; an empty one holds nothing. *)
WellFormed(v, deadline) == v = Nothing \/ Valid(v, deadline)

SaveDraft(e, v, deadline) ==
    /\ Status(e) \in {"none", "Draft"}
    /\ WellFormed(v, deadline)
    /\ Writes(e, NewRow(v, "Draft"), NewRequest(v, deadline))

SubmitDraft(e, v, deadline) ==
    /\ Status(e) = "Draft"
    /\ Valid(v, deadline)
    /\ Writes(e, NewRow(v, "Submitted"), NewRequest(v, deadline))

DeleteDraft(e) ==
    /\ Status(e) = "Draft"
    /\ Writes(e, NewRow(Nothing, "none"), NewRequest(Nothing, 0))

-----------------------------------------------------------------------------
(* The coordinator's decision, by either of two endpoints *)

WithDecision(request, s) == [request EXCEPT !.decisions = Append(@, s)]

(* update_event_progress, moving the event.                                *)
Progress(e, c, s) ==
    /\ Assigned(e, c)
    /\ <<Status(e), s>> \in {<<"Submitted", "Under Review">>, <<"Under Review", "Approved">>,
                             <<"Under Review", "Rejected">>}
    /\ Writes(e, Entry(events[e], s),
              IF s = "Under Review" THEN requests[e] ELSE WithDecision(requests[e], s))

DecideAgain(e, c, s) ==  \* mutant: what was approved can be decided again
    /\ Assigned(e, c)
    /\ Status(e) \in InReview \cup {"Approved"}
    /\ Writes(e, [events[e] EXCEPT !.status = s], WithDecision(requests[e], s))

Decide(e, c, s) ==
    /\ Assigned(e, c)
    /\ Status(e) \in InReview
    /\ Writes(e, [events[e] EXCEPT !.status = s], WithDecision(requests[e], s))

-----------------------------------------------------------------------------
(* Asking the organiser.  What a round was asked on is kept for a property. *)

Front(s) == SubSeq(s, 1, Len(s) - 1)
Last(s) == s[Len(s)]

AskClarification(e, c) ==
    /\ Assigned(e, c)
    /\ Status(e) \in InReview
    /\ Writes(e, Entry(events[e], "Clarification Requested"),
              [requests[e] EXCEPT !.clarifications = Append(@, [by |-> c, seen |-> Values(e)])])

AnswerClarification(e) ==
    /\ Status(e) = "Clarification Requested"
    /\ requests[e].clarifications # <<>>
    /\ Writes(e, Entry(events[e], "Submitted"), [requests[e] EXCEPT !.clarifications = Front(@)])

(* The dates can only be flagged together.                                 *)
Flagged(F) == IF F \cap HighImpactFields # {} THEN F \cup HighImpactFields ELSE F

AskAmendment(e, c, F) ==
    /\ Assigned(e, c)
    /\ Status(e) \in InReview
    /\ F # {}
    /\ Writes(e, Entry(events[e], "Amendment Requested"),
              [requests[e] EXCEPT !.amendments =
                  Append(@, [by |-> c, seen |-> Values(e), fields |-> Flagged(F)])])

AnswerAmendment(e, ch) ==
    /\ Status(e) = "Amendment Requested"
    /\ requests[e].amendments # <<>>
    /\ DOMAIN ch \subseteq Last(requests[e].amendments).fields
    /\ Valid(Merged(e, ch), requests[e].deadline)
    /\ ChangedFields(e, ch) # {}
    /\ Writes(e, Entry(Edited(events[e], WindowOf(Merged(e, ch))), "Submitted"),
              [requests[e] EXCEPT !.amendments = Front(@), !.name = Merged(e, ch).name])

-----------------------------------------------------------------------------
(* The organiser's change requests: one pending per event *)

Propose(e, ch) ==
    /\ Status(e) \in ChangeRequestStatuses
    /\ requests[e].proposal = NoProposal
    /\ ChangedFields(e, ch) = DOMAIN ch  \* what is not changed is not stored
    /\ Valid(Merged(e, ch), requests[e].deadline)
    /\ requests' = [requests EXCEPT ![e].proposal = ch]
    /\ UNCHANGED events

RejectProposal(e, c) ==
    /\ requests[e].proposal # NoProposal
    /\ Assigned(e, c)
    /\ requests' = [requests EXCEPT ![e].proposal = NoProposal]
    /\ UNCHANGED events

(* The stored proposal on top of the details as they are now; when it changes nothing any more, no entry. *)
Proposed(e) == Merged(e, requests[e].proposal)

ApplyProposal(e) ==
    Writes(e, IF ChangedFields(e, requests[e].proposal) = {}
              THEN events[e] ELSE Edited(events[e], WindowOf(Proposed(e))),
           [requests[e] EXCEPT !.proposal = NoProposal, !.name = Proposed(e).name])

ApproveAsProposed(e, c) ==  \* mutant: it was valid when it was made
    /\ requests[e].proposal # NoProposal
    /\ Assigned(e, c)
    /\ Status(e) \in ChangeRequestStatuses
    /\ ApplyProposal(e)

ApproveProposal(e, c) ==
    /\ requests[e].proposal # NoProposal
    /\ Assigned(e, c)
    /\ Status(e) \in ChangeRequestStatuses
    /\ Valid(Proposed(e), requests[e].deadline)
    /\ ApplyProposal(e)

-----------------------------------------------------------------------------
(* update_event_details. The Lead edits an event that is Unassigned, as if assigned. *)

EditKeepsName(e, ch) == requests' = [requests EXCEPT ![e].name = Merged(e, ch).name]

Edit(e, c, ch, withdrawn, opened) ==
    /\ Valid(Merged(e, ch), requests[e].deadline)
    /\ ChangedFields(e, ch) \cap HighImpactFields # {}
    /\ SaveDetails(e, c, WindowOf(Merged(e, ch)), withdrawn, opened)
    /\ EditKeepsName(e, ch)

EditLowImpact(e, c, ch) ==
    /\ Assigned(e, c)
    /\ Status(e) \in EditableStatuses
    /\ Valid(Merged(e, ch), requests[e].deadline)
    /\ ChangedFields(e, ch) = {"name"}
    /\ Saves(e, [events[e] EXCEPT !.undo = NoRound])
    /\ EditKeepsName(e, ch)

-----------------------------------------------------------------------------
Organiser(e) ==
    \/ \E v \in AllValues, t \in Times : SubmitNew(e, v, t) \/ SaveDraft(e, v, t) \/ SubmitDraft(e, v, t)
    \/ DeleteDraft(e)
    \/ AnswerClarification(e)
    \/ \E ch \in Changings : AnswerAmendment(e, ch) \/ Propose(e, ch)

Review(e, c) ==
    \/ \E s \in {"Under Review", "Approved", "Rejected"} : Progress(e, c, s)
    \/ \E s \in {"Approved", "Rejected"} : Decide(e, c, s)
    \/ AskClarification(e, c)
    \/ \E F \in SUBSET Fields : AskAmendment(e, c, F)
    \/ RejectProposal(e, c) \/ ApproveProposal(e, c)

Editing(e, c) ==
    \E ch \in Changings :
        \/ \E i, j \in RoundIds : Edit(e, c, ch, i, j)
        \/ Edit(e, c, ch, NoRound, NoRound)
        \/ EditLowImpact(e, c, ch)

SafetyWorkflow(e, c) ==
    /\ \/ \E i \in RoundIds :
             \/ SubmitEvent(e, c, i)
             \/ WithdrawEvent(e, c, i)
             \/ RestoreEvent(e, c, i)
             \/ \E s \in SafetyTargets, venue \in BOOLEAN : MoveDecided(e, i, s, venue)
       \/ RecordProgress(e, c)
       \/ Reassign(e, c)
    /\ UNCHANGED requests

LifecycleNext ==
    \E e \in Events :
        \/ Organiser(e)
        \/ \E c \in Coordinators : Review(e, c) \/ SafetyWorkflow(e, c)
        \/ \E c \in Coordinators \cup {Unassigned} : Editing(e, c)

LifecycleSpec == LifecycleInit /\ [][LifecycleNext]_vars

-----------------------------------------------------------------------------
(* An answer goes back to the coordinator who asked, about the event they asked   *)
(* about: while an event waits for its organiser there is one unanswered round,   *)
(* of that kind, its asker is still in charge, and no edit, accepted proposal or  *)
(* handover has come between; and otherwise nothing is left unanswered            *)
(* (request_event_clarification, respond_to_event_amendment).                     *)
AskedOnce(e, rounds) ==
    /\ Len(rounds) = 1
    /\ rounds[1].by = events[e].coordinator
    /\ rounds[1].seen = Values(e)

AnswersComeBack ==
    \A e \in Events :
        /\ IF Status(e) = "Clarification Requested"
           THEN AskedOnce(e, requests[e].clarifications) ELSE requests[e].clarifications = <<>>
        /\ IF Status(e) = "Amendment Requested"
           THEN AskedOnce(e, requests[e].amendments) ELSE requests[e].amendments = <<>>

(* A request is decided once, by whichever of the two endpoints comes first, and  *)
(* stays as decided: an event that was sent back to Approved by a venue change is *)
(* not decided again, and none is resubmitted after its decision (decide_event,   *)
(* update_event_progress).                                                        *)
DecidedOnce ==
    \A e \in Events :
        requests[e].decisions =
            IF Status(e) \in {"none", "Draft"} \cup InReview \cup Asked THEN <<>>
            ELSE IF Status(e) = "Rejected" THEN <<"Rejected">> ELSE <<"Approved">>

(* Whatever edits, amendments and proposals, each of which sets some of the dates *)
(* and was made on older ones, come together on an event: it starts before it     *)
(* ends, and withdrawals close no later than it starts (validate).                *)
DatesInOrder ==
    \A e \in Events :
        Status(e) \notin {"none", "Draft"} => Valid(Values(e), requests[e].deadline)
=============================================================================
