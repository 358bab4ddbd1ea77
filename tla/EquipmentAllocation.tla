------------------------ MODULE EquipmentAllocation ------------------------
(***************************************************************************)
(* The shared stock of equipment.  The Equipment Request Service keeps the *)
(* lines that events ask for; the Equipment Reservation Service, which has *)
(* no state, takes the decisions to it; the Event Service keeps the        *)
(* statuses and the windows of events; the Event Workflow Service weighs   *)
(* new dates against the lines an event holds.                             *)
(*                                                                         *)
(* A line that is Approved holds its quantity for the window of its event, *)
(* as long as the status of the event is a reserving one.  Approvals wait  *)
(* for one lock and read the lines again behind it; what they know of the  *)
(* events was read before.                                                 *)
(*                                                                         *)
(* The statuses of an event that make no difference here are one: "Under   *)
(* Review" is that of "Safety Changes Requested" as well, "Approved" that  *)
(* of "Pending Safety Check", "Amendment Requested" that of clarification, *)
(* "Cancelled" that of "Rejected".  An item is one that is Available:      *)
(* nothing in the code changes an item of the catalogue.                   *)
(***************************************************************************)
EXTENDS Integers, FiniteSets

CONSTANTS Events, Items,
          Lines,         \* the ids of equipment requests; bound: how many are ever made
          Callers,       \* requests of the composites that are under way at a time
          Stock,         \* per item its total quantity
          Quantities,    \* bound: the quantities asked for
          Windows,       \* bound: the windows an event can have
          MaxChanges     \* bound: changes of status and of dates, a resubmission counted with its request

ASSUME LinesAssumption == IsFiniteSet(Lines)
ASSUME StockAssumption == Stock \in [Items -> Nat]
ASSUME QuantitiesAssumption == Quantities \subseteq Nat \ {0}
ASSUME WindowsAssumption == \A w \in Windows : w \in [from : Int, to : Int] /\ w.from < w.to
ASSUME ChangesAssumption == MaxChanges \in Nat

VARIABLES rows,      \* public."EquipmentRequest"
          events,    \* status and window of each event
          calls,     \* what the composites are doing
          unchecked, \* the events that came to hold stock on facts that were not, or no longer, true
          changes    \* how often events have changed

vars == <<rows, events, calls, unchecked, changes>>

Reserving == {"Under Review", "Amendment Requested", "Approved", "Confirmed"}
Released == {"Submitted", "Cancelled"}
Editable == {"Submitted", "Under Review", "Approved"}
Moves == {<<"Submitted", "Under Review">>, <<"Submitted", "Approved">>, <<"Submitted", "Cancelled">>,
          <<"Submitted", "Amendment Requested">>, <<"Under Review", "Amendment Requested">>,
          <<"Under Review", "Approved">>, <<"Under Review", "Cancelled">>,
          <<"Approved", "Under Review">>, <<"Approved", "Cancelled">>,
          <<"Approved", "Confirmed">>, <<"Confirmed", "Approved">>}

EventInfo == [status : Reserving \cup Released, window : Windows]
Absent == [status |-> "absent"]
Row == [status : {"Pending", "Approved", "Rejected"}, event : Events, item : Items, quantity : Quantities]

(* A request under way, with what it has read so far. Fresh: nothing that it read has changed *)
(* since it was weighed; what a re-check saves was not weighed.                               *)
Ask == [item : Items, quantity : Quantities]
Idle == [at |-> "idle"]
Call == [at : {"checked"}, event : Events, lines : SUBSET Lines, context : UNION {[E -> SUBSET Windows] : E \in SUBSET Events},
         fresh : BOOLEAN]
   \cup [at : {"moving"}, event : Events, window : Windows, recheck : BOOLEAN, fresh : BOOLEAN]

Init ==
    /\ rows = [l \in Lines |-> Absent]
    /\ events \in [Events -> [status : {"Under Review", "Confirmed"}, window : Windows]]
    /\ calls = [c \in Callers |-> Idle]
    /\ unchecked = {}
    /\ changes = 0

-----------------------------------------------------------------------------
(* Stock over time *)

Overlap(v, w) == v.from < w.to /\ v.to > w.from
With(status) == {l \in Lines : rows[l].status = status}
ItemsOf(S) == {rows[l].item : l \in S}
Of(S, i) == {l \in S : rows[l].item = i}
Units(S) == UNION {{l} \X (1 .. rows[l].quantity) : l \in S}
Total(S) == Cardinality(Units(S))
LinesOf(e) == {l \in Lines : rows[l] # Absent /\ rows[l].event = e}

(* The windows an event reserves equipment for: its own, or none. *)
Reserves == [e \in Events |-> IF events[e].status \in Reserving THEN {events[e].window} ELSE {}]

(* The Approved lines that compete for a window, with what is known of who reserves when. *)
Competing(items, window, reserves) ==
    {l \in With("Approved") : rows[l].item \in items /\ \E v \in reserves[rows[l].event] : Overlap(v, window)}

(* Calls that have read what has just changed. *)
Outdated(stages) ==
    [c \in Callers |-> IF calls[c].at \in stages THEN [calls[c] EXCEPT !.fresh = FALSE] ELSE calls[c]]

-----------------------------------------------------------------------------
(* Asking for equipment *)

(* The composite looks whether the event is open, the owner does not; its call may *)
(* arrive any time later. Every event here is open at the start or was before it,   *)
(* so the guard has no trace: lines can be inserted in any status. All, or none.    *)
CreateLines(e, asks) ==
    /\ asks # {}
    /\ \A a, b \in asks : a.item = b.item => a = b
    /\ \E new \in [asks -> {l \in Lines : rows[l] = Absent}] :
        /\ \A a, b \in asks : new[a] = new[b] => a = b
        /\ rows' = [l \in Lines |->
                      IF \E a \in asks : new[a] = l
                      THEN LET a == CHOOSE x \in asks : new[x] = l
                           IN [status |-> "Pending", event |-> e, item |-> a.item, quantity |-> a.quantity]
                      ELSE rows[l]]
    /\ UNCHANGED <<events, calls, unchecked, changes>>

-----------------------------------------------------------------------------
(* Approving: one line, or all that an event has pending *)

FitsBesideOthers(e, S, window, reserves) ==  \* mutant: what the event holds already is left out
    LET held == {l \in Competing(ItemsOf(S), window, reserves) : rows[l].event # e}
    IN  \A i \in ItemsOf(S) : Total(Of(S, i)) + Total(Of(held, i)) <= Stock[i]

Fits(e, S, window, reserves) ==
    LET held == Competing(ItemsOf(S), window, reserves)
    IN  \A i \in ItemsOf(S) : Total(Of(S, i)) + Total(Of(held, i)) <= Stock[i]

(* What the owner needs to know of events: those that have lines and those that overlap. *)
Gathered(e) ==
    LET known == {d \in Events : d = e \/ LinesOf(d) # {} \/ \E v \in Reserves[d] : Overlap(v, events[e].window)}
    IN  [d \in known |-> Reserves[d]]

(* The composite reads what is pending, weighs it against the stock that is left, and *)
(* gathers the events. These reads are taken together: a context that mixes events as  *)
(* they were at two moments is one that is not fresh.                                  *)
CheckApproval(c, e, S) ==
    /\ calls[c] = Idle
    /\ S # {} /\ S \subseteq LinesOf(e) \cap With("Pending")
    /\ Cardinality(S) = 1 \/ S = LinesOf(e) \cap With("Pending")
    /\ Fits(e, S, events[e].window, Reserves)
    /\ LET k == [at |-> "checked", event |-> e, lines |-> S, context |-> Gathered(e), fresh |-> TRUE]
       IN  calls' = [calls EXCEPT ![c] = k]
    /\ UNCHANGED <<rows, events, unchecked, changes>>

(* Behind the lock: the lines as they are now, the events as they were gathered. *)
MayApprove(k) ==
    /\ k.lines \subseteq With("Pending")
    /\ \A l \in With("Approved") : rows[l].item \in ItemsOf(k.lines) => rows[l].event \in DOMAIN k.context
    /\ \E w \in k.context[k.event] : Fits(k.event, k.lines, w, k.context)

ApprovedAnyPending(k) ==  \* mutant: the update goes by the event, not by the selection that was checked
    [l \in Lines |-> IF l \in LinesOf(k.event) \cap With("Pending")
                     THEN [rows[l] EXCEPT !.status = "Approved"] ELSE rows[l]]

Approved(k) ==
    [l \in Lines |-> IF l \in k.lines THEN [rows[l] EXCEPT !.status = "Approved"] ELSE rows[l]]

Approve(c) ==
    /\ calls[c].at = "checked"
    /\ MayApprove(calls[c])
    /\ rows' = Approved(calls[c])
    /\ unchecked' = unchecked \cup (IF calls[c].fresh THEN {} ELSE {calls[c].event})
    /\ calls' = [Outdated({"moving"}) EXCEPT ![c] = Idle]
    /\ UNCHANGED <<events, changes>>

RefuseApproval(c) ==
    /\ calls[c].at = "checked"
    /\ ~MayApprove(calls[c])
    /\ calls' = [calls EXCEPT ![c] = Idle]
    /\ UNCHANGED <<rows, events, unchecked, changes>>

-----------------------------------------------------------------------------
(* Decisions that take no stock: one transaction each *)

Reject(S) ==
    /\ S # {} /\ S \subseteq With("Pending")
    /\ Cardinality(S) = 1 \/ \E e \in Events : S = LinesOf(e) \cap With("Pending")
    /\ rows' = [l \in Lines |-> IF l \in S THEN [rows[l] EXCEPT !.status = "Rejected"] ELSE rows[l]]
    /\ UNCHANGED <<events, calls, unchecked, changes>>

(* A safety officer asks for changes: only what is Approved goes back. The owner does *)
(* not look at the event, and a call that was given up on can arrive in any status.   *)
ResetMisspelt(row) == [row EXCEPT !.status = IF @ = "Approved" THEN "Pending Review" ELSE @]  \* mutant

Reset(row) == [row EXCEPT !.status = IF @ = "Approved" THEN "Pending" ELSE @]

SafetyReset(e, S) ==
    /\ S # {} /\ S \subseteq LinesOf(e)
    /\ rows' = [l \in Lines |-> IF l \in S THEN Reset(rows[l]) ELSE rows[l]]
    /\ rows' # rows
    /\ UNCHANGED <<events, calls, unchecked, changes>>

-----------------------------------------------------------------------------
(* What happens to events *)

HoldsLines(e) == LinesOf(e) \cap With("Approved") # {}

Progress(e, status) ==
    /\ <<events[e].status, status>> \in Moves
    /\ changes < MaxChanges /\ changes' = changes + 1
    /\ events' = [events EXCEPT ![e].status = status]
    /\ LET revived == events[e].status \in Released /\ status \in Reserving
       IN  /\ unchecked' = unchecked \cup (IF revived /\ HoldsLines(e) THEN {e} ELSE {})
           /\ calls' = IF revived THEN Outdated({"checked", "moving"}) ELSE calls
    /\ UNCHANGED rows

(* The organiser resubmits, perhaps with new dates, which nothing weighs: the event is Submitted. *)
Resubmit(e, window) ==
    /\ events[e].status = "Amendment Requested"
    /\ events' = [events EXCEPT ![e] = [status |-> "Submitted", window |-> window]]
    /\ calls' = Outdated({"checked", "moving"})
    /\ UNCHANGED <<rows, unchecked, changes>>

(* New dates, by an edit or by accepting a proposal: weighed line by line. *)
Contradicted(e, window) ==
    \E l \in LinesOf(e) \cap (With("Pending") \cup With("Approved")) :
        LET others == {o \in Competing({rows[l].item}, window, Reserves) : rows[o].event # e}
        IN  rows[l].quantity + Total(others) > Stock[rows[l].item]

Move(e, window, recheck) ==
    [at |-> "moving", event |-> e, window |-> window, recheck |-> recheck, fresh |-> ~recheck]

(* The edit of a Confirmed event is weighed too; only then is the re-check offered. *)
BeginEdit(c, e, window) ==
    /\ calls[c] = Idle
    /\ window # events[e].window
    /\ events[e].status \in Editable \cup {"Confirmed"}
    /\ ~Contradicted(e, window)
    /\ calls' = [calls EXCEPT ![c] = Move(e, window, FALSE)]
    /\ UNCHANGED <<rows, events, unchecked, changes>>

(* recheck_safety is a request of its own. It takes the dates from its body and goes to *)
(* the Event Service without weighing them; nothing ties it to the edit that was.       *)
BeginRecheck(c, e, window) ==
    /\ calls[c] = Idle
    /\ window # events[e].window
    /\ events[e].status = "Confirmed"
    /\ calls' = [calls EXCEPT ![c] = Move(e, window, TRUE)]
    /\ UNCHANGED <<rows, events, unchecked, changes>>

(* Lines of one item were weighed one by one. *)
WeighedSingly(e) ==
    \E i \in Items : Cardinality(Of(LinesOf(e) \cap With("Approved"), i)) > 1

(* Only a re-check saves new dates of a Confirmed event, which then waits for its next *)
(* safety check. Of an event that was Confirmed when the re-check began but is not any *)
(* more, the new dates are saved like those of an edit.                                *)
SaveEdit(c) ==
    /\ calls[c].at = "moving"
    /\ LET e == calls[c].event
           from == events[e].status
       IN  /\ calls[c].window # events[e].window
           /\ from \in Editable \/ (from = "Confirmed" /\ calls[c].recheck)
           /\ changes < MaxChanges /\ changes' = changes + 1
           /\ events' = [events EXCEPT ![e] = [status |-> IF from = "Confirmed" THEN "Approved" ELSE from,
                                              window |-> calls[c].window]]
           /\ unchecked' = unchecked \cup
                (IF HoldsLines(e) /\ (~calls[c].fresh \/ WeighedSingly(e)) THEN {e} ELSE {})
    /\ calls' = [Outdated({"checked", "moving"}) EXCEPT ![c] = Idle]
    /\ UNCHANGED rows

(* Nothing is saved: the dates are the event's own by now; or its status does not allow *)
(* them, as "Pending Safety Check" does not, nor "Confirmed" with another approval.     *)
RefuseEdit(c) ==
    /\ calls[c].at = "moving"
    /\ LET event == events[calls[c].event]
       IN  event.window = calls[c].window \/ event.status \notin {"Submitted", "Under Review"}
    /\ calls' = [calls EXCEPT ![c] = Idle]
    /\ UNCHANGED <<rows, events, unchecked, changes>>

-----------------------------------------------------------------------------
Next ==
    \/ \E c \in Callers :
        \/ \E e \in Events : \E S \in SUBSET LinesOf(e) : CheckApproval(c, e, S)
        \/ Approve(c) \/ RefuseApproval(c)
        \/ \E e \in Events, w \in Windows : BeginEdit(c, e, w) \/ BeginRecheck(c, e, w)
        \/ SaveEdit(c) \/ RefuseEdit(c)
    \/ \E S \in SUBSET Lines : Reject(S)
    \/ \E e \in Events :
        \/ \E asks \in SUBSET Ask : CreateLines(e, asks)
        \/ \E S \in SUBSET LinesOf(e) : SafetyReset(e, S)
        \/ \E s \in Reserving \cup Released : Progress(e, s)
        \/ \E w \in Windows : Resubmit(e, w)

Spec == Init /\ [][Next]_vars

-----------------------------------------------------------------------------
(* Every line, event and call is of its kind. *)
AllocationTypeOK ==
    /\ rows \in [Lines -> Row \cup {Absent}]
    /\ events \in [Events -> EventInfo]
    /\ calls \in [Callers -> Call \cup {Idle}]
    /\ unchecked \subseteq Events
    /\ changes \in 0 .. MaxChanges

(* At no moment do the events that passed a check against facts still true hold  *)
(* more of an item than there is: approvals of overlapping events, of several    *)
(* lines and of one event in two calls, new dates and resets in any order        *)
(* (approve_requests, find_conflicts).  What may hold too much is an event whose *)
(* facts changed under the check, one that was amended or clarified after its    *)
(* lines were approved and is under review again, one whose lines of one item    *)
(* were moved to new dates together, and one that a safety re-check moved to new *)
(* dates (recheck_safety weighs nothing).                                        *)
Holding(i, t) ==
    {l \in Of(With("Approved"), i) :
        LET e == rows[l].event
        IN  /\ e \notin unchecked
            /\ events[e].status \in Reserving
            /\ events[e].window.from <= t /\ t < events[e].window.to}

StockSuffices == \A i \in Items, w \in Windows : Total(Holding(i, w.from)) <= Stock[i]

(* A line is approved only as one of a selection that was read and checked as a  *)
(* whole: all of it is approved in the step, all of it was pending until then,   *)
(* and nothing that was asked for after the reviewer looked is approved with it  *)
(* (review_event, approve_requests).                                             *)
NewlyApproved == {l \in Lines : rows[l].status # "Approved" /\ rows'[l].status = "Approved"}

ApprovedTogether ==
    [][NewlyApproved # {} =>
          /\ NewlyApproved \subseteq With("Pending")
          /\ \E c \in Callers : calls[c].at = "checked" /\ calls[c].lines = NewlyApproved]_vars
=============================================================================
