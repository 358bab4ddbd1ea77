--------------------------- MODULE VenueBookings ---------------------------
(***************************************************************************)
(* The Venue Availability Service: bookings, temporary holds and closures  *)
(* of venues.  Every write is one transaction that takes the same advisory *)
(* lock (lock_booking_writes) before it reads anything, so every write is  *)
(* one action here; the preview of a closure only reads.                   *)
(*                                                                         *)
(* Windows are half-open intervals of time.  A venue's setup and           *)
(* turnaround buffers are no state of this service: each call brings those *)
(* its caller read some time before, so they are arbitrary arguments.  So  *)
(* is the time a transaction takes for now: it began to wait for the lock  *)
(* at that time, which may lie any way back.  The two readings of the      *)
(* clock that placing a hold takes are one, and so are those of a closure. *)
(* Capacity, requirements, who asked and who decided are left out, and no  *)
(* row has the statuses 'Pending' and 'Expired', which only older data     *)
(* carry.                                                                  *)
(***************************************************************************)
EXTENDS Integers, FiniteSets

CONSTANTS Venues,
          BookingIds,
          Windows,      \* the windows that are asked for
          Buffers,      \* the buffers, in units of time
          MaxTime,      \* bound of the clock
          MaxClosures,  \* bound: closures in all
          MaxPreviews   \* bound: previews not yet expired

ASSUME VenueBookingsAssumption ==
    /\ Windows \subseteq {w \in [start : Int, end : Int] : w.start < w.end}
    /\ Buffers \subseteq Nat
    /\ MaxTime \in Nat

VARIABLES bookings,  \* the rows of public."VenueBooking", by id
          closures,  \* the rows of public."VenueClosure"
          previews,  \* confirmation tokens given out, with what they show
          outbox,    \* the rows of public."VenueNotificationOutbox"
          now        \* the time

vars == <<bookings, closures, previews, outbox, now>>

BookingStatuses == {"Pending Review", "Approved", "Rejected", "Cancelled", "On Hold"}
Conflicts       == {"none", "BUFFER_OVERLAP"}

Booking == [venue    : Venues,
            start    : Int,
            end      : Int,
            status   : BookingStatuses,
            conflict : Conflicts]

Notices == [type : {"submission", "Approved", "Rejected", "closure"}, booking : BookingIds]

Init ==
    /\ bookings = [b \in {} |-> {}]
    /\ closures = {}
    /\ previews = {}
    /\ outbox = {}
    /\ now = 0

----------------------------------------------------------------------------
Booked == DOMAIN bookings

Overlap(a, b) == a.start < b.end /\ a.end > b.start

Padded(w, setup, turn) == [start |-> w.start - setup, end |-> w.end + turn]

(* A hold lasts until its end.                                             *)
UnexpiredHold(row, t) == row.status = "On Hold" /\ row.end > t

(* _conflict_types: does a booking of venue v in window w meet an approved *)
(* booking (both padded), an unexpired hold or a closure (both exact)?     *)
Blocks(row, v, w, setup, turn, t) ==
    /\ row.venue = v
    /\ \/ row.status = "Approved" /\ Overlap(Padded(row, setup, turn), Padded(w, setup, turn))
       \/ UnexpiredHold(row, t) /\ Overlap(row, Padded(w, setup, turn))

IsFree(v, w, self, setup, turn, t) ==
    /\ \A o \in Booked \ {self} : ~Blocks(bookings[o], v, w, setup, turn, t)
    /\ \A c \in closures : c.venue = v => ~Overlap(c, Padded(w, setup, turn))

Requested(v, w) ==
    [venue |-> v, start |-> w.start, end |-> w.end,
     status |-> "Pending Review", conflict |-> "none"]

(* The table with row under id b: an INSERT or an UPDATE.                  *)
Stored(b, row) == [o \in Booked \cup {b} |-> IF o = b THEN row ELSE bookings[o]]

----------------------------------------------------------------------------
(* create_booking *)
CreateBooking(b, v, w, setup, turn, t) ==
    /\ b \notin Booked
    /\ IsFree(v, w, b, setup, turn, t)
    /\ bookings' = Stored(b, Requested(v, w))
    /\ outbox' = outbox \cup {[type |-> "submission", booking |-> b]}
    /\ UNCHANGED <<closures, previews, now>>

KeepsItsStatus(b, v, w, setup, turn, t) ==  \* mutant: a changed request is not reviewed again
    /\ b \in Booked
    /\ bookings[b].status \in {"Pending Review", "Approved"}
    /\ IsFree(v, w, b, setup, turn, t)
    /\ bookings' = Stored(b, [Requested(v, w) EXCEPT !.status = bookings[b].status])
    /\ UNCHANGED <<closures, previews, outbox, now>>

(* update_booking: the row goes back to review in its new window.  Holds   *)
(* belong to no event, and the call names one.                             *)
UpdateBooking(b, v, w, setup, turn, t) ==
    /\ b \in Booked
    /\ bookings[b].status \in {"Pending Review", "Approved"}
    /\ IsFree(v, w, b, setup, turn, t)
    /\ bookings' = Stored(b, Requested(v, w))
    /\ UNCHANGED <<closures, previews, outbox, now>>

CanCancelRejected(b) == b \in Booked /\ bookings[b].status # "On Hold"  \* mutant

(* cancel_booking: also of a Cancelled booking, which changes nothing.     *)
CanCancel(b) == b \in Booked /\ bookings[b].status \notin {"Rejected", "On Hold"}

Cancelled(row) == IF row.status = "Cancelled" THEN row
                  ELSE [row EXCEPT !.status = "Cancelled", !.conflict = "none"]

CancelBooking(b) ==
    /\ CanCancel(b)
    /\ bookings' = Stored(b, Cancelled(bookings[b]))
    /\ UNCHANGED <<closures, previews, outbox, now>>

ResetToPending(row) ==  \* mutant: the status older data carry
    IF row.status = "Approved" THEN [row EXCEPT !.status = "Pending"] ELSE row

(* reset_safety_bookings: flagged bookings of an event go back to review.  *)
(* The marker of a conflict stays.                                         *)
Reset(row) == IF row.status \in {"Approved", "Pending Review"}
              THEN [row EXCEPT !.status = "Pending Review"] ELSE row

ResetSafetyBookings(B) ==
    /\ B # {} /\ B \subseteq Booked
    /\ \A b \in B : bookings[b].status # "On Hold"
    /\ bookings' = [o \in Booked |-> IF o \in B THEN Reset(bookings[o]) ELSE bookings[o]]
    /\ UNCHANGED <<closures, previews, outbox, now>>

(* create_hold: from the time t of the call until it expires.  It meets    *)
(* every row that is not inactive; holds, expired ones too, exactly.       *)
Meets(row, v, w, setup, turn) ==
    /\ row.venue = v
    /\ \/ row.status = "On Hold" /\ Overlap(row, w)
       \/ row.status \in {"Pending Review", "Approved"} /\ Overlap(Padded(row, setup, turn), w)

Held(v, w) == [Requested(v, w) EXCEPT !.status = "On Hold"]

HoldOverAnything(b, v, expires, setup, turn, t) ==  \* mutant: only other holds are in the way
    LET w == [start |-> t, end |-> expires]
    IN /\ b \notin Booked
       /\ t < expires
       /\ \A o \in Booked : bookings[o].status = "On Hold" => ~Meets(bookings[o], v, w, setup, turn)
       /\ bookings' = Stored(b, Held(v, w))
       /\ UNCHANGED <<closures, previews, outbox, now>>

CreateHold(b, v, expires, setup, turn, t) ==
    LET w == [start |-> t, end |-> expires]
    IN /\ b \notin Booked
       /\ t < expires
       /\ \A o \in Booked : ~Meets(bookings[o], v, w, setup, turn)
       /\ bookings' = Stored(b, Held(v, w))
       /\ UNCHANGED <<closures, previews, outbox, now>>

(* decide_booking: an approval looks for conflicts again.  Only the first  *)
(* decision of a booking is announced (ON CONFLICT DO NOTHING).            *)
Decided(row, s) == [row EXCEPT !.status = s, !.conflict = "none"]

IsDecision(n) == n.type \in {"Approved", "Rejected"}

Announced(b, s) ==
    outbox \cup {n \in {[type |-> s, booking |-> b]} :
                    \A m \in outbox : ~(IsDecision(m) /\ m.booking = b)}

MayApproveUnchecked(b, setup, turn, t) == TRUE  \* mutant: it was free when it was requested

MayApprove(b, setup, turn, t) ==
    IsFree(bookings[b].venue, bookings[b], b, setup, turn, t)

DecideBooking(b, s, setup, turn, t) ==
    /\ b \in Booked
    /\ bookings[b].status = "Pending Review"
    /\ s = "Approved" => MayApprove(b, setup, turn, t)
    /\ bookings' = Stored(b, Decided(bookings[b], s))
    /\ outbox' = Announced(b, s)
    /\ UNCHANGED <<closures, previews, now>>

----------------------------------------------------------------------------
AffectedApproved(c) ==  \* mutant: requests still under review are forgotten
    {b \in Booked : /\ bookings[b].venue = c.venue
                    /\ bookings[b].status = "Approved"
                    /\ Overlap(bookings[b], c)}

(* affected: what a closure would reject, as its preview shows it.  Holds  *)
(* are not looked at.                                                      *)
Affected(c) ==
    {b \in Booked : /\ bookings[b].venue = c.venue
                    /\ bookings[b].status \in {"Pending Review", "Approved"}
                    /\ Overlap(bookings[b], c)}

Impact(c) ==
    {[booking |-> b, status |-> bookings[b].status,
      start |-> bookings[b].start, end |-> bookings[b].end] : b \in Affected(c)}

(* closure_store.preview and the end of a token's 900 seconds              *)
PreviewClosure(c) ==
    /\ c.end > now
    /\ Cardinality(previews) < MaxPreviews
    /\ previews' = previews \cup {[closure |-> c, impact |-> Impact(c)]}
    /\ UNCHANGED <<bookings, closures, outbox, now>>

ExpirePreview(p) ==
    /\ p \in previews
    /\ previews' = previews \ {p}
    /\ UNCHANGED <<bookings, closures, outbox, now>>

VerifiedUnchecked(p) == TRUE  \* mutant: only the signature is looked at

(* verify_preview *)
Verified(p) == p.impact = Impact(p.closure)

Closed(row) == [row EXCEPT !.status = "Rejected"]

(* closure_store.create *)
CreateClosure(p) ==
    LET c == p.closure
    IN /\ p \in previews
       /\ Verified(p)
       /\ Cardinality(closures) < MaxClosures
       /\ closures' = closures \cup {c}
       /\ bookings' = [o \in Booked |-> IF o \in Affected(c) THEN Closed(bookings[o])
                                                             ELSE bookings[o]]
       /\ outbox' = outbox \cup {[type |-> "closure", booking |-> b] : b \in Affected(c)}
       /\ UNCHANGED <<previews, now>>

----------------------------------------------------------------------------
(* reconcile_legacy_conflicts: marks what only the buffers bring into      *)
(* conflict.                                                               *)
Occupies(row, t) == row.status = "Approved" \/ UnexpiredHold(row, t)

Effective(row, setup, turn) ==
    IF row.status = "On Hold" THEN row ELSE Padded(row, setup, turn)

BufferConflict(a, b, setup, turn) ==
    Overlap(Effective(a, setup, turn), Effective(b, setup, turn)) /\ ~Overlap(a, b)

Flagged(v, setup, turn, t) ==
    LET rows == {b \in Booked : bookings[b].venue = v /\ Occupies(bookings[b], t)}
    IN {b \in rows : \E o \in rows \ {b} :
                        BufferConflict(bookings[b], bookings[o], setup, turn)}

Marked(row, flag) == [row EXCEPT !.conflict = IF flag THEN "BUFFER_OVERLAP" ELSE "none"]

Reconcile(v, setup, turn, t) ==
    /\ bookings' = [o \in Booked |->
                       IF bookings[o].venue = v
                       THEN Marked(bookings[o], o \in Flagged(v, setup, turn, t))
                       ELSE bookings[o]]
    /\ UNCHANGED <<closures, previews, outbox, now>>

Tick ==
    /\ now < MaxTime
    /\ now' = now + 1
    /\ UNCHANGED <<bookings, closures, previews, outbox>>

----------------------------------------------------------------------------
Closures == {[venue |-> v, start |-> w.start, end |-> w.end] : v \in Venues, w \in Windows}

Next ==
    \/ \E b \in BookingIds, v \in Venues, setup, turn \in Buffers, t \in 0..now :
          \/ \E w \in Windows : CreateBooking(b, v, w, setup, turn, t)
          \/ \E w \in Windows : UpdateBooking(b, v, w, setup, turn, t)
          \/ \E expires \in 1..MaxTime : CreateHold(b, v, expires, setup, turn, t)
    \/ \E b \in BookingIds, s \in {"Approved", "Rejected"}, setup, turn \in Buffers, t \in 0..now :
          DecideBooking(b, s, setup, turn, t)
    \/ \E b \in BookingIds : CancelBooking(b)
    \/ \E B \in SUBSET BookingIds : ResetSafetyBookings(B)
    \/ \E c \in Closures : PreviewClosure(c)
    \/ \E p \in previews : ExpirePreview(p) \/ CreateClosure(p)
    \/ \E v \in Venues, setup, turn \in Buffers, t \in 0..now : Reconcile(v, setup, turn, t)
    \/ Tick

Spec == Init /\ [][Next]_vars

----------------------------------------------------------------------------
BookingsTypeOK ==
    /\ Booked \subseteq BookingIds
    /\ bookings \in [Booked -> Booking]
    /\ \A b \in Booked : bookings[b].start < bookings[b].end
    /\ closures \subseteq Closures
    /\ \A p \in previews : p.closure \in Closures
    /\ outbox \subseteq Notices
    /\ now \in 0..MaxTime

(* A venue is never given to two events at once: no two approved bookings  *)
(* of it overlap, whatever buffers the callers believed in and however     *)
(* creations, edits and decisions followed each other.                     *)
NoDoubleBooking ==
    \A a, b \in Booked :
        /\ a # b /\ bookings[a].venue = bookings[b].venue
        /\ bookings[a].status = "Approved" /\ bookings[b].status = "Approved"
        => ~Overlap(bookings[a], bookings[b])

(* "A hold cannot be bypassed by a new or newly approved booking": until a *)
(* hold expires, neither an approved booking nor another hold shares its   *)
(* venue and time.                                                         *)
HoldsAreHonoured ==
    \A h, b \in Booked :
        /\ h # b /\ bookings[h].venue = bookings[b].venue
        /\ UnexpiredHold(bookings[h], now)
        /\ bookings[b].status = "Approved" \/ UnexpiredHold(bookings[b], now)
        => ~Overlap(bookings[h], bookings[b])

(* Nothing stays booked, or can come to be booked, in a closed venue: no   *)
(* booking under review or approved overlaps a closure.                    *)
ClosedVenuesAreEmpty ==
    \A b \in Booked, c \in closures :
        /\ bookings[b].status \in {"Pending Review", "Approved"}
        /\ bookings[b].venue = c.venue
        => ~Overlap(bookings[b], c)

(* What the owner of a booking was told is still so, or was decided before *)
(* a change of the booking.  A booking told to be rejected or closed is    *)
(* Rejected for ever; one that is approved was told so; one that is        *)
(* rejected was told of that, of a closure or of an approval it had before *)
(* it was changed.  In the last case the rejection is never spoken of:     *)
(* only the first decision of a booking is announced                       *)
(* (enqueue_booking_notification), and no booking is told two.             *)
Told(b) == {n.type : n \in {m \in outbox : m.booking = b}}

AnnouncementsStand ==
    /\ \A n \in outbox : n.type \in {"Rejected", "closure"} =>
          n.booking \in Booked /\ bookings[n.booking].status = "Rejected"
    /\ \A b \in Booked :
          /\ bookings[b].status = "Approved" => "Approved" \in Told(b)
          /\ bookings[b].status = "Rejected" => Told(b) \cap {"Rejected", "closure", "Approved"} # {}
    /\ \A m, n \in outbox : IsDecision(m) /\ IsDecision(n) /\ m.booking = n.booking => m = n

(* A closure rejects what its preview showed to the staff member who       *)
(* confirmed it: those bookings, in those windows, and no other.           *)
ClosuresRejectWhatWasShown ==
    [][closures' # closures =>
          \E p \in previews :
              /\ closures' = closures \cup {p.closure}
              /\ \A b \in Booked : bookings'[b].status # bookings[b].status <=>
                    [booking |-> b, status |-> bookings[b].status,
                     start |-> bookings[b].start, end |-> bookings[b].end] \in p.impact]_vars

(* What staff approved is what stands.  An approved booking keeps its      *)
(* venue and window while it is approved and when it is cancelled or       *)
(* rejected; it moves only by going back to review.  No decision rejects   *)
(* it: only a new closure does, one of its venue that overlaps it          *)
(* (update_booking, cancel_booking, decide_booking, closure_store.create). *)
ApprovalsAreOfTheWindow ==
    [][\A b \in Booked : bookings[b].status = "Approved" =>
          \/ bookings'[b].status = "Pending Review"
          \/ /\ bookings'[b].venue = bookings[b].venue
             /\ bookings'[b].start = bookings[b].start
             /\ bookings'[b].end = bookings[b].end
             /\ \/ bookings'[b].status \in {"Approved", "Cancelled"}
                \/ /\ bookings'[b].status = "Rejected"
                   /\ \E c \in closures' \ closures :
                         c.venue = bookings[b].venue /\ Overlap(bookings[b], c)]_vars
=============================================================================
