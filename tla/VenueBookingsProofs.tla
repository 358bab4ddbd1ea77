------------------------ MODULE VenueBookingsProofs ------------------------
(***************************************************************************)
(* What the Venue Availability Service guarantees for any venues, windows  *)
(* and buffers.  NoDoubleBooking is not inductive without the holds: what  *)
(* the conflict checks keep is that no two rows that occupy a venue        *)
(* overlap, approved bookings and unexpired holds alike.                   *)
(***************************************************************************)
EXTENDS VenueBookings, TLAPS

IntWindow == {w \in [start : Int, end : Int] : w.start < w.end}

Apart(a, b) == a.venue = b.venue => ~Overlap(a, b)

Exclusive ==
    \A a, b \in Booked :
        a # b /\ Occupies(bookings[a], now) /\ Occupies(bookings[b], now)
        => Apart(bookings[a], bookings[b])

Active(row) == row.status \in {"Pending Review", "Approved"}

BookingsInv == BookingsTypeOK /\ Exclusive /\ ClosedVenuesAreEmpty /\ AnnouncementsStand

----------------------------------------------------------------------------
(* Windows: what padding adds only makes more of them overlap.             *)
LEMMA PaddingKeepsOverlap ==
    ASSUME NEW a, NEW b, NEW s \in Nat, NEW u \in Nat,
           a.start \in Int, a.end \in Int, b.start \in Int, b.end \in Int,
           Overlap(a, b)
    PROVE  /\ Overlap(b, a)
           /\ Overlap(a, Padded(b, s, u))
           /\ Overlap(Padded(a, s, u), b)
           /\ Overlap(Padded(a, s, u), Padded(b, s, u))
BY DEF Overlap, Padded

(* A hold that lasts now lasted before.                                    *)
LEMMA UnexpiredBefore ==
    ASSUME NEW row, NEW t \in Int, NEW u \in Int, row.end \in Int, t <= u,
           UnexpiredHold(row, u)
    PROVE  UnexpiredHold(row, t)
<1>1. row.status = "On Hold" /\ row.end > u
  BY DEF UnexpiredHold
<1>2. \A e \in Int : t <= u /\ e > u => e > t
  OBVIOUS
<1>3. row.end > t
  BY <1>1, <1>2
<1>. QED  BY <1>1, <1>3 DEF UnexpiredHold

(* The constants are windows and buffers as they should be.                *)
LEMMA Arguments ==
    /\ \A w \in Windows : w \in IntWindow
    /\ Buffers \subseteq Nat
    /\ MaxTime \in Nat
BY VenueBookingsAssumption DEF IntWindow

(* What a row of the table holds.                                          *)
LEMMA RowFields ==
    ASSUME NEW row \in Booking
    PROVE  /\ row.venue \in Venues /\ row.start \in Int /\ row.end \in Int
           /\ row.status \in BookingStatuses /\ row.conflict \in Conflicts
BY DEF Booking

(* What a closure holds.                                                   *)
LEMMA ClosureFields ==
    ASSUME NEW c \in Closures
    PROVE  c.venue \in Venues /\ c.start \in Int /\ c.end \in Int
BY Arguments DEF Closures, IntWindow

----------------------------------------------------------------------------
(* The row that a request writes, new or changed.                          *)
LEMMA RequestedRow ==
    ASSUME NEW v \in Venues, NEW w \in IntWindow
    PROVE  /\ Requested(v, w) \in Booking
           /\ Requested(v, w).venue = v
           /\ Requested(v, w).start = w.start
           /\ Requested(v, w).end = w.end
           /\ Requested(v, w).status = "Pending Review"
           /\ Requested(v, w).start < Requested(v, w).end
BY DEF Requested, Booking, BookingStatuses, Conflicts, IntWindow

(* The row that placing a hold writes.                                     *)
LEMMA HeldRow ==
    ASSUME NEW v \in Venues, NEW w \in IntWindow
    PROVE  /\ Held(v, w) \in Booking
           /\ Held(v, w).venue = v
           /\ Held(v, w).start = w.start
           /\ Held(v, w).end = w.end
           /\ Held(v, w).status = "On Hold"
           /\ Held(v, w).start < Held(v, w).end
BY DEF Held, Requested, Booking, BookingStatuses, Conflicts, IntWindow

(* Same venue, same window.                                                *)
SamePlace(r, s) == r.venue = s.venue /\ r.start = s.start /\ r.end = s.end

(* The row that cancelling a booking writes.                               *)
LEMMA CancelledRow ==
    ASSUME NEW row \in Booking
    PROVE  /\ Cancelled(row) \in Booking
           /\ SamePlace(Cancelled(row), row)
           /\ Cancelled(row).status = "Cancelled"
BY DEF Cancelled, SamePlace, Booking, BookingStatuses, Conflicts

(* The row that a decision writes.                                         *)
LEMMA DecidedRow ==
    ASSUME NEW row \in Booking, NEW s \in {"Approved", "Rejected"}
    PROVE  /\ Decided(row, s) \in Booking
           /\ SamePlace(Decided(row, s), row)
           /\ Decided(row, s).status = s
BY DEF Decided, SamePlace, Booking, BookingStatuses, Conflicts

(* The row that a reset writes.                                            *)
LEMMA ResetRow ==
    ASSUME NEW row \in Booking
    PROVE  /\ Reset(row) \in Booking
           /\ SamePlace(Reset(row), row)
           /\ Reset(row).status = IF Active(row) THEN "Pending Review" ELSE row.status
BY DEF Reset, Active, SamePlace, Booking, BookingStatuses

(* The row that a closure writes.                                          *)
LEMMA ClosedRow ==
    ASSUME NEW row \in Booking
    PROVE  /\ Closed(row) \in Booking
           /\ SamePlace(Closed(row), row)
           /\ Closed(row).status = "Rejected"
BY DEF Closed, SamePlace, Booking, BookingStatuses

(* The row that reconciling buffers writes.                                *)
LEMMA MarkedRow ==
    ASSUME NEW row \in Booking, NEW flag \in BOOLEAN
    PROVE  /\ Marked(row, flag) \in Booking
           /\ SamePlace(Marked(row, flag), row)
           /\ Marked(row, flag).status = row.status
BY DEF Marked, SamePlace, Booking, Conflicts

----------------------------------------------------------------------------
(* What an operation does to the table of bookings.                        *)
Writes(b, row) == bookings' = Stored(b, row)

(* The table after one row is written.                                     *)
LEMMA WrittenTable ==
    ASSUME NEW b, NEW row, Writes(b, row)
    PROVE  /\ Booked' = Booked \cup {b}
           /\ bookings'[b] = row
           /\ \A o \in Booked : o # b => bookings'[o] = bookings[o]
           /\ bookings' = [o \in Booked \cup {b} |-> bookings'[o]]
BY DEF Writes, Stored, Booked

(* A table of well-formed rows.                                            *)
TableOK == /\ Booked \subseteq BookingIds
           /\ bookings \in [Booked -> Booking]
           /\ \A b \in Booked : bookings[b].start < bookings[b].end

(* Writing a well-formed row keeps the table well-formed.                  *)
LEMMA WriteKeepsTable ==
    ASSUME TableOK, NEW b \in BookingIds, NEW row \in Booking, row.start < row.end,
           Writes(b, row)
    PROVE  TableOK'
<1>. DEFINE D == Booked \cup {b}
<1>1. bookings' = [o \in D |-> bookings'[o]] /\ Booked' = D
  BY WrittenTable
<1>2. ASSUME NEW o \in D PROVE bookings'[o] \in Booking /\ bookings'[o].start < bookings'[o].end
  <2>1. CASE o = b
    BY <2>1, WrittenTable
  <2>2. CASE o # b
    BY <2>2, WrittenTable DEF TableOK
  <2>. QED  BY <2>1, <2>2
<1>3. bookings' \in [D -> Booking]
  BY <1>1, <1>2
<1>. QED  BY <1>1, <1>2, <1>3 DEF TableOK

(* No row moves; rows change their status or their marker.                 *)
InPlace ==
    /\ Booked' = Booked
    /\ bookings' \in [Booked -> Booking]
    /\ \A o \in Booked : SamePlace(bookings'[o], bookings[o])

(* Rows that stay in their place keep the table well-formed.               *)
LEMMA InPlaceKeepsTable ==
    ASSUME TableOK, InPlace
    PROVE  TableOK'
BY DEF TableOK, InPlace, SamePlace

(* Nothing comes to occupy a venue that did not.                           *)
Quieter ==
    \A o \in Booked' : Occupies(bookings'[o], now') =>
        /\ o \in Booked
        /\ Occupies(bookings[o], now)
        /\ SamePlace(bookings'[o], bookings[o])

(* What occupies less still does not overlap.                              *)
LEMMA QuieterKeepsExclusive ==
    ASSUME Exclusive, Quieter
    PROVE  Exclusive'
<1>. SUFFICES ASSUME NEW a \in Booked', NEW b \in Booked', a # b,
                     Occupies(bookings'[a], now'), Occupies(bookings'[b], now')
              PROVE  Apart(bookings'[a], bookings'[b])
  BY DEF Exclusive, Apart, Occupies, UnexpiredHold, Overlap
<1>1. /\ a \in Booked /\ Occupies(bookings[a], now) /\ SamePlace(bookings'[a], bookings[a])
      /\ b \in Booked /\ Occupies(bookings[b], now) /\ SamePlace(bookings'[b], bookings[b])
  BY DEF Quieter
<1>2. Apart(bookings[a], bookings[b])
  BY <1>1 DEF Exclusive
<1>. QED  BY <1>1, <1>2 DEF Apart, SamePlace, Overlap

(* One row comes to occupy a venue where nothing that does overlaps it.    *)
LEMMA NewOccupantKeepsExclusive ==
    ASSUME TableOK, Exclusive, NEW b \in BookingIds, NEW row \in Booking, Writes(b, row), now' = now,
           \A o \in Booked \ {b} : Occupies(bookings[o], now) => Apart(bookings[o], row)
    PROVE  Exclusive'
<1>. SUFFICES ASSUME NEW x \in Booked', NEW y \in Booked', x # y,
                     Occupies(bookings'[x], now), Occupies(bookings'[y], now)
              PROVE  Apart(bookings'[x], bookings'[y])
  BY DEF Exclusive, Apart, Occupies, UnexpiredHold, Overlap
<1>1. \A o \in Booked' \ {b} : o \in Booked /\ bookings'[o] = bookings[o]
  BY WrittenTable
<1>2. bookings'[b] = row
  BY WrittenTable
<1>3. \A o \in Booked \ {b} : Occupies(bookings[o], now) => Apart(row, bookings[o])
  <2>1. ASSUME NEW o \in Booked \ {b}, Apart(bookings[o], row) PROVE Apart(row, bookings[o])
    BY <2>1, RowFields DEF Apart, Overlap, TableOK
  <2>. QED  BY <2>1
<1>4. CASE x = b
  BY <1>1, <1>2, <1>3, <1>4
<1>5. CASE y = b
  BY <1>1, <1>2, <1>5
<1>6. CASE x # b /\ y # b
  BY <1>1, <1>6 DEF Exclusive
<1>. QED  BY <1>4, <1>5, <1>6

(* Nothing comes to be active that was not.                                *)
FewerActive ==
    \A o \in Booked' : Active(bookings'[o]) =>
        o \in Booked /\ Active(bookings[o]) /\ SamePlace(bookings'[o], bookings[o])

(* Fewer active rows leave the closed venues empty.                        *)
LEMMA FewerActiveKeepsClosed ==
    ASSUME ClosedVenuesAreEmpty, FewerActive, closures' = closures
    PROVE  ClosedVenuesAreEmpty'
BY DEF ClosedVenuesAreEmpty, FewerActive, Active, SamePlace, Overlap

(* One row becomes active where no closure overlaps it.                    *)
LEMMA NewActiveKeepsClosed ==
    ASSUME ClosedVenuesAreEmpty, closures' = closures, NEW b, NEW row, Writes(b, row),
           \A c \in closures : c.venue = row.venue => ~Overlap(row, c)
    PROVE  ClosedVenuesAreEmpty'
<1>. SUFFICES ASSUME NEW o \in Booked', NEW c \in closures, Active(bookings'[o]),
                     bookings'[o].venue = c.venue
              PROVE  ~Overlap(bookings'[o], c)
  BY DEF ClosedVenuesAreEmpty, Active, Overlap
<1>1. CASE o = b
  BY <1>1, WrittenTable
<1>2. CASE o # b
  <2>1. Booked' = Booked \cup {b} /\ \A x \in Booked : x # b => bookings'[x] = bookings[x]
    BY WrittenTable
  <2>2. o \in Booked /\ bookings'[o] = bookings[o]
    BY <1>2, <2>1
  <2>. QED  BY <2>2 DEF ClosedVenuesAreEmpty, Active
<1>. QED  BY <1>1, <1>2

(* What the owner of a booking with a status may have been told.           *)
Telling(status) == IF status = "Approved" THEN {"Approved"} ELSE {"Rejected", "closure", "Approved"}

(* The announcements stand, notice by notice and booking by booking.       *)
LEMMA AnnouncementsAre ==
    AnnouncementsStand <=>
        /\ \A n \in outbox : n.type \in {"Rejected", "closure"} =>
              n.booking \in Booked /\ bookings[n.booking].status = "Rejected"
        /\ \A b \in Booked : bookings[b].status \in {"Approved", "Rejected"} =>
              \E n \in outbox : n.booking = b /\ n.type \in Telling(bookings[b].status)
        /\ \A m, n \in outbox : IsDecision(m) /\ IsDecision(n) /\ m.booking = n.booking => m = n
<1>1. ASSUME NEW b, NEW T
      PROVE  Told(b) \cap T # {} <=> \E n \in outbox : n.booking = b /\ n.type \in T
  BY DEF Told
<1>2. ASSUME NEW b
      PROVE  "Approved" \in Told(b) <=> \E n \in outbox : n.booking = b /\ n.type \in {"Approved"}
  BY DEF Told
<1>3. ASSUME NEW b \in Booked
      PROVE  (/\ bookings[b].status = "Approved" => "Approved" \in Told(b)
              /\ bookings[b].status = "Rejected" => Told(b) \cap {"Rejected", "closure", "Approved"} # {})
             <=> (bookings[b].status \in {"Approved", "Rejected"} =>
                     \E n \in outbox : n.booking = b /\ n.type \in Telling(bookings[b].status))
  <2>1. CASE bookings[b].status = "Approved"
    BY <1>2, <2>1 DEF Telling
  <2>2. CASE bookings[b].status = "Rejected"
    BY <1>1, <2>2 DEF Telling
  <2>. QED  BY <2>1, <2>2
<1>. QED  BY <1>3 DEF AnnouncementsStand

(* So they do after a step.                                                *)
LEMMA AnnouncementsNext ==
    AnnouncementsStand' <=>
        /\ \A n \in outbox' : n.type \in {"Rejected", "closure"} =>
              n.booking \in Booked' /\ bookings'[n.booking].status = "Rejected"
        /\ \A b \in Booked' : bookings'[b].status \in {"Approved", "Rejected"} =>
              \E n \in outbox' : n.booking = b /\ n.type \in Telling(bookings'[b].status)
        /\ \A m, n \in outbox' : IsDecision(m) /\ IsDecision(n) /\ m.booking = n.booking => m = n
<1>1. ASSUME NEW b, NEW T
      PROVE  Told(b)' \cap T # {} <=> \E n \in outbox' : n.booking = b /\ n.type \in T
  BY DEF Told
<1>2. ASSUME NEW b
      PROVE  "Approved" \in Told(b)' <=> \E n \in outbox' : n.booking = b /\ n.type \in {"Approved"}
  BY DEF Told
<1>3. ASSUME NEW b \in Booked'
      PROVE  (/\ bookings'[b].status = "Approved" => "Approved" \in Told(b)'
              /\ bookings'[b].status = "Rejected" => Told(b)' \cap {"Rejected", "closure", "Approved"} # {})
             <=> (bookings'[b].status \in {"Approved", "Rejected"} =>
                     \E n \in outbox' : n.booking = b /\ n.type \in Telling(bookings'[b].status))
  <2>1. CASE bookings'[b].status = "Approved"
    BY <1>2, <2>1 DEF Telling
  <2>2. CASE bookings'[b].status = "Rejected"
    BY <1>1, <2>2 DEF Telling
  <2>. QED  BY <2>1, <2>2
<1>. QED  BY <1>3 DEF AnnouncementsStand, IsDecision, Told

(* What was announced goes on to stand, what is new is announced, and a    *)
(* second decision is not.                                                 *)
LEMMA AnnouncementsKept ==
    ASSUME AnnouncementsStand, outbox \subseteq outbox',
           \A b \in Booked : bookings[b].status = "Rejected" =>
               b \in Booked' /\ bookings'[b].status = "Rejected",
           \A n \in outbox' \ outbox : n.type \in {"Rejected", "closure"} =>
               n.booking \in Booked' /\ bookings'[n.booking].status = "Rejected",
           \A b \in Booked' : bookings'[b].status \in {"Approved", "Rejected"} =>
               \/ b \in Booked /\ bookings[b].status = bookings'[b].status
               \/ \E n \in outbox' : n.booking = b /\ n.type \in Telling(bookings'[b].status),
           \A n \in outbox' \ outbox : IsDecision(n) =>
               \A m \in outbox' : IsDecision(m) /\ m.booking = n.booking => m = n
    PROVE  AnnouncementsStand'
<1>1. ASSUME NEW n \in outbox', n.type \in {"Rejected", "closure"}
      PROVE  n.booking \in Booked' /\ bookings'[n.booking].status = "Rejected"
  <2>1. CASE n \in outbox
    BY <1>1, <2>1, AnnouncementsAre
  <2>2. CASE n \notin outbox
    BY <1>1, <2>2
  <2>. QED  BY <2>1, <2>2
<1>2. ASSUME NEW b \in Booked', bookings'[b].status \in {"Approved", "Rejected"}
      PROVE  \E n \in outbox' : n.booking = b /\ n.type \in Telling(bookings'[b].status)
  BY <1>2, AnnouncementsAre
<1>3. ASSUME NEW m \in outbox', NEW n \in outbox', IsDecision(m), IsDecision(n), m.booking = n.booking
      PROVE  m = n
  <2>1. CASE m \in outbox /\ n \in outbox
    BY <1>3, <2>1, AnnouncementsAre
  <2>2. CASE n \notin outbox
    BY <1>3, <2>2
  <2>3. CASE m \notin outbox
    BY <1>3, <2>3
  <2>. QED  BY <2>1, <2>2, <2>3
<1>. QED  BY <1>1, <1>2, <1>3, AnnouncementsNext

(* The rest of the state is as it should be.                               *)
RestOK == /\ closures \subseteq Closures
          /\ \A p \in previews : p.closure \in Closures
          /\ outbox \subseteq Notices
          /\ now \in 0..MaxTime

(* The type invariant is about the bookings and about the rest.            *)
LEMMA TypeParts == BookingsTypeOK <=> TableOK /\ RestOK
BY DEF BookingsTypeOK, TableOK, RestOK

(* So it is after a step.                                                  *)
LEMMA TypePartsNext == BookingsTypeOK' <=> TableOK' /\ RestOK'
BY DEF BookingsTypeOK, TableOK, RestOK

(* What the conflict check finds free, for a call that took its time no    *)
(* later than now, nothing occupies now, and no closure is in it.          *)
LEMMA FreeWindow ==
    ASSUME BookingsTypeOK, NEW v, NEW w, w.start \in Int, w.end \in Int, NEW self,
           NEW setup \in Buffers, NEW turn \in Buffers, NEW t \in 0..now,
           IsFree(v, w, self, setup, turn, t)
    PROVE  /\ \A o \in Booked \ {self} :
                  bookings[o].venue = v /\ Occupies(bookings[o], now) => ~Overlap(bookings[o], w)
           /\ \A c \in closures : c.venue = v => ~Overlap(c, w) /\ ~Overlap(w, c)
<1>1. TableOK /\ RestOK /\ setup \in Nat /\ turn \in Nat /\ now \in Nat /\ t \in Nat /\ t <= now
  BY TypeParts, Arguments DEF RestOK
<1>2. ASSUME NEW o \in Booked \ {self}, bookings[o].venue = v, Occupies(bookings[o], now)
      PROVE  ~Overlap(bookings[o], w)
  <2>. DEFINE row == bookings[o]
  <2>1. row \in Booking
    BY <1>1 DEF TableOK
  <2>2. row.start \in Int /\ row.end \in Int
    BY <2>1, RowFields
  <2>3. ~Blocks(row, v, w, setup, turn, t) /\ row.venue = v
    BY <1>2 DEF IsFree
  <2>4. CASE row.status = "Approved"
    <3>1. ~Overlap(Padded(row, setup, turn), Padded(w, setup, turn))
      BY <2>3, <2>4 DEF Blocks
    <3>. QED  BY <1>1, <2>2, <3>1, PaddingKeepsOverlap
  <2>5. CASE UnexpiredHold(row, now)
    <3>1. UnexpiredHold(row, t)
      BY <1>1, <2>2, <2>5, UnexpiredBefore
    <3>2. ~Overlap(row, Padded(w, setup, turn))
      BY <2>3, <3>1 DEF Blocks
    <3>. QED  BY <1>1, <2>2, <3>2, PaddingKeepsOverlap
  <2>. QED  BY <1>2, <2>4, <2>5 DEF Occupies
<1>3. ASSUME NEW c \in closures, c.venue = v
      PROVE  ~Overlap(c, w) /\ ~Overlap(w, c)
  <2>1. c.start \in Int /\ c.end \in Int
    BY <1>1, ClosureFields DEF RestOK
  <2>2. ~Overlap(c, Padded(w, setup, turn))
    BY <1>3 DEF IsFree
  <2>. QED  BY <1>1, <2>1, <2>2, PaddingKeepsOverlap
<1>. QED  BY <1>2, <1>3

----------------------------------------------------------------------------
(* A request, new or changed, keeps the invariant: it occupies nothing and *)
(* no closure is in its window.                                            *)
LEMMA RequestKeepsInv ==
    ASSUME BookingsInv, NEW b \in BookingIds, NEW v \in Venues, NEW w \in Windows,
           NEW setup \in Buffers, NEW turn \in Buffers, NEW t \in 0..now,
           b \in Booked => Active(bookings[b]),
           IsFree(v, w, b, setup, turn, t),
           Writes(b, Requested(v, w)),
           \/ outbox' = outbox
           \/ outbox' = outbox \cup {[type |-> "submission", booking |-> b]},
           closures' = closures, previews' = previews, now' = now
    PROVE  BookingsInv'
<1>. DEFINE row == Requested(v, w)
<1>1. /\ w \in IntWindow /\ w.start \in Int /\ w.end \in Int
  BY Arguments DEF IntWindow
<1>2. /\ row \in Booking /\ row.venue = v /\ row.start = w.start /\ row.end = w.end
      /\ row.status = "Pending Review" /\ row.start < row.end
  BY <1>1, RequestedRow
<1>. HIDE DEF row
<1>3. TableOK /\ RestOK /\ BookingsTypeOK
  BY TypeParts DEF BookingsInv
<1>4. TableOK'
  BY <1>2, <1>3, WriteKeepsTable DEF row
<1>5. RestOK'
  <2>1. [type |-> "submission", booking |-> b] \in Notices
    BY DEF Notices
  <2>2. outbox' \subseteq Notices
    BY <1>3, <2>1 DEF RestOK
  <2>. QED  BY <1>3, <2>2 DEF RestOK
<1>6. /\ Booked' = Booked \cup {b} /\ bookings'[b] = row
      /\ \A o \in Booked : o # b => bookings'[o] = bookings[o]
  BY WrittenTable DEF row
<1>7. Exclusive'
  <2>1. Quieter
    BY <1>2, <1>6 DEF Quieter, Occupies, UnexpiredHold, SamePlace
  <2>. QED  BY <2>1, QuieterKeepsExclusive DEF BookingsInv
<1>8. ClosedVenuesAreEmpty'
  <2>1. \A c \in closures : c.venue = v => ~Overlap(w, c)
    BY <1>1, <1>3, FreeWindow
  <2>2. \A c \in closures : c.venue = row.venue => ~Overlap(row, c)
    BY <1>2, <2>1 DEF Overlap
  <2>. QED  BY <2>2, NewActiveKeepsClosed DEF BookingsInv, row
<1>9. AnnouncementsStand'
  <2>1. outbox \subseteq outbox' /\ \A n \in outbox' \ outbox : n.type = "submission" /\ ~IsDecision(n)
    BY DEF IsDecision
  <2>2. \A o \in Booked : bookings[o].status = "Rejected" =>
            o \in Booked' /\ bookings'[o].status = "Rejected"
    BY <1>6 DEF Active
  <2>3. \A o \in Booked' : bookings'[o].status \in {"Approved", "Rejected"} =>
            o \in Booked /\ bookings[o].status = bookings'[o].status
    BY <1>2, <1>6
  <2>. QED  BY <2>1, <2>2, <2>3, AnnouncementsKept DEF BookingsInv
<1>. QED  BY <1>4, <1>5, <1>7, <1>8, <1>9, TypePartsNext DEF BookingsInv

(* A step that moves no row, and after which nothing occupies a venue or   *)
(* is active that did not or was not, keeps all but the announcements.     *)
LEMMA InPlaceKeepsRest ==
    ASSUME BookingsInv, InPlace, RestOK',
           \A o \in Booked : Occupies(bookings'[o], now') => Occupies(bookings[o], now),
           \A o \in Booked : Active(bookings'[o]) => Active(bookings[o])
    PROVE  BookingsTypeOK' /\ Exclusive' /\ (closures' = closures => ClosedVenuesAreEmpty')
<1>1. BookingsTypeOK'
  BY InPlaceKeepsTable, TypeParts, TypePartsNext DEF BookingsInv
<1>2. Exclusive'
  <2>1. Quieter
    BY DEF Quieter, InPlace
  <2>. QED  BY <2>1, QuieterKeepsExclusive DEF BookingsInv
<1>3. ASSUME closures' = closures PROVE ClosedVenuesAreEmpty'
  <2>1. FewerActive
    BY DEF FewerActive, InPlace
  <2>. QED  BY <1>3, <2>1, FewerActiveKeepsClosed DEF BookingsInv
<1>. QED  BY <1>1, <1>2, <1>3

(* A table in which every row stays in its place.                          *)
LEMMA RowsInPlace ==
    ASSUME TableOK, Booked' = Booked, bookings' = [o \in Booked |-> bookings'[o]],
           \A o \in Booked : bookings'[o] \in Booking /\ SamePlace(bookings'[o], bookings[o])
    PROVE  InPlace
BY DEF InPlace

(* One row written back in its place.                                      *)
LEMMA WrittenInPlace ==
    ASSUME TableOK, NEW b \in Booked, NEW row \in Booking, SamePlace(row, bookings[b]), Writes(b, row)
    PROVE  InPlace /\ bookings'[b] = row /\ \A o \in Booked : o # b => bookings'[o] = bookings[o]
<1>1. /\ Booked' = Booked /\ bookings'[b] = row
      /\ \A o \in Booked : o # b => bookings'[o] = bookings[o]
      /\ bookings' = [o \in Booked |-> bookings'[o]]
  <2>1. Booked \cup {b} = Booked
    OBVIOUS
  <2>. QED  BY <2>1, WrittenTable
<1>2. ASSUME NEW o \in Booked
      PROVE  bookings'[o] \in Booking /\ SamePlace(bookings'[o], bookings[o])
  <2>1. CASE o = b
    BY <1>1, <2>1
  <2>2. CASE o # b
    BY <1>1, <2>2 DEF TableOK, SamePlace
  <2>. QED  BY <2>1, <2>2
<1>. QED  BY <1>1, <1>2, RowsInPlace

(* The invariant's parts, of the state before a step.                      *)
LEMMA InvParts ==
    ASSUME BookingsInv
    PROVE  /\ TableOK /\ RestOK /\ BookingsTypeOK /\ Exclusive
           /\ ClosedVenuesAreEmpty /\ AnnouncementsStand
           /\ \A o \in Booked : o \in BookingIds /\ bookings[o] \in Booking
BY TypeParts DEF BookingsInv, TableOK

(* Cancelling a booking.                                                   *)
LEMMA CancelKeepsInv ==
    ASSUME BookingsInv, NEW b \in BookingIds, CancelBooking(b)
    PROVE  BookingsInv'
<1>. DEFINE row == Cancelled(bookings[b])
<1>1. /\ b \in Booked /\ bookings[b].status \notin {"Rejected", "On Hold"}
      /\ Writes(b, row)
      /\ closures' = closures /\ previews' = previews /\ outbox' = outbox /\ now' = now
  BY DEF CancelBooking, CanCancel, Writes
<1>2. row \in Booking /\ SamePlace(row, bookings[b]) /\ row.status = "Cancelled"
  BY <1>1, InvParts, CancelledRow
<1>. HIDE DEF row
<1>3. InPlace /\ bookings'[b] = row /\ \A o \in Booked : o # b => bookings'[o] = bookings[o]
  BY <1>1, <1>2, InvParts, WrittenInPlace
<1>4. RestOK'
  BY <1>1, InvParts DEF RestOK
<1>5. BookingsTypeOK' /\ Exclusive' /\ ClosedVenuesAreEmpty'
  BY <1>1, <1>2, <1>3, <1>4, InPlaceKeepsRest DEF Occupies, UnexpiredHold, Active
<1>6. AnnouncementsStand'
  <2>1. \A o \in Booked : bookings[o].status = "Rejected" =>
            o \in Booked' /\ bookings'[o].status = "Rejected"
    BY <1>1, <1>3 DEF InPlace
  <2>2. \A o \in Booked' : bookings'[o].status \in {"Approved", "Rejected"} =>
            o \in Booked /\ bookings[o].status = bookings'[o].status
    BY <1>2, <1>3 DEF InPlace
  <2>. QED  BY <1>1, <2>1, <2>2, InvParts, AnnouncementsKept
<1>. QED  BY <1>5, <1>6 DEF BookingsInv

(* A reset after a refused safety check.                                   *)
LEMMA ResetKeepsInv ==
    ASSUME BookingsInv, NEW B \in SUBSET BookingIds, ResetSafetyBookings(B)
    PROVE  BookingsInv'
<1>1. /\ Booked' = Booked
      /\ bookings' = [o \in Booked |-> bookings'[o]]
      /\ \A o \in Booked : bookings'[o] = IF o \in B THEN Reset(bookings[o]) ELSE bookings[o]
      /\ closures' = closures /\ previews' = previews /\ outbox' = outbox /\ now' = now
  BY DEF ResetSafetyBookings, Booked
<1>2. ASSUME NEW o \in Booked
      PROVE  /\ bookings'[o] \in Booking /\ SamePlace(bookings'[o], bookings[o])
             /\ \/ bookings'[o].status = bookings[o].status
                \/ bookings'[o].status = "Pending Review" /\ Active(bookings[o])
  <2>1. CASE o \in B
    BY <1>1, <2>1, InvParts, ResetRow
  <2>2. CASE o \notin B
    BY <1>1, <2>2, InvParts DEF SamePlace
  <2>. QED  BY <2>1, <2>2
<1>3. InPlace
  BY <1>1, <1>2, InvParts, RowsInPlace
<1>4. RestOK'
  BY <1>1, InvParts DEF RestOK
<1>5. ASSUME NEW o \in Booked
      PROVE  /\ Occupies(bookings'[o], now') => Occupies(bookings[o], now)
             /\ Active(bookings'[o]) => Active(bookings[o])
  BY <1>1, <1>2 DEF Occupies, UnexpiredHold, Active, SamePlace
<1>6. BookingsTypeOK' /\ Exclusive' /\ ClosedVenuesAreEmpty'
  BY <1>1, <1>3, <1>4, <1>5, InPlaceKeepsRest
<1>7. AnnouncementsStand'
  <2>1. \A o \in Booked : bookings[o].status = "Rejected" =>
            o \in Booked' /\ bookings'[o].status = "Rejected"
    BY <1>1, <1>2 DEF Active
  <2>2. \A o \in Booked' : bookings'[o].status \in {"Approved", "Rejected"} =>
            o \in Booked /\ bookings[o].status = bookings'[o].status
    BY <1>1, <1>2
  <2>. QED  BY <1>1, <2>1, <2>2, InvParts, AnnouncementsKept
<1>. QED  BY <1>6, <1>7 DEF BookingsInv

(* Placing a hold: no approved booking and no hold meets it.               *)
LEMMA HoldKeepsInv ==
    ASSUME BookingsInv, NEW b \in BookingIds, NEW v \in Venues, NEW expires \in 1..MaxTime,
           NEW setup \in Buffers, NEW turn \in Buffers, NEW t \in 0..now,
           CreateHold(b, v, expires, setup, turn, t)
    PROVE  BookingsInv'
<1>. DEFINE w == [start |-> t, end |-> expires]
            row == Held(v, w)
<1>1. /\ b \notin Booked /\ t < expires
      /\ \A o \in Booked : ~Meets(bookings[o], v, w, setup, turn)
      /\ Writes(b, row)
      /\ closures' = closures /\ previews' = previews /\ outbox' = outbox /\ now' = now
  BY DEF CreateHold, Writes
<1>2. now \in Nat /\ t \in Int /\ expires \in Int
  BY InvParts, Arguments DEF RestOK
<1>3. w \in IntWindow /\ w.start = t /\ w.end = expires
  BY <1>1, <1>2 DEF IntWindow
<1>. HIDE DEF w
<1>4. /\ row \in Booking /\ row.venue = v /\ row.start = w.start /\ row.end = w.end
      /\ row.status = "On Hold" /\ row.start < row.end
  BY <1>3, HeldRow
<1>. HIDE DEF row
<1>5. TableOK'
  BY <1>1, <1>4, InvParts, WriteKeepsTable
<1>6. RestOK'
  BY <1>1, InvParts DEF RestOK
<1>7. Exclusive'
  <2>1. ASSUME NEW o \in Booked \ {b}, Occupies(bookings[o], now)
        PROVE  Apart(bookings[o], row)
    <3>. DEFINE other == bookings[o]
    <3>1. other.start \in Int /\ other.end \in Int /\ setup \in Nat /\ turn \in Nat
      BY InvParts, RowFields, Arguments
    <3>2. ~Meets(other, v, w, setup, turn) /\ Occupies(other, now)
      BY <1>1, <2>1
    <3>3. w.start \in Int /\ w.end \in Int
      BY <1>3 DEF IntWindow
    <3>. HIDE DEF other
    <3>4. other.venue = v => ~Overlap(other, w)
      <4>1. CASE other.status = "Approved"
        <5>1. other.venue = v => ~Overlap(Padded(other, setup, turn), w)
          BY <3>2, <4>1 DEF Meets
        <5>. QED  BY <3>1, <3>3, <5>1, PaddingKeepsOverlap
      <4>2. CASE UnexpiredHold(other, now)
        BY <3>2, <4>2 DEF Meets, UnexpiredHold
      <4>. QED  BY <3>2, <4>1, <4>2 DEF Occupies
    <3>. QED  BY <1>4, <3>4 DEF Apart, Overlap, other
  <2>. QED  BY <1>1, <1>4, <2>1, InvParts, NewOccupantKeepsExclusive
<1>8. /\ Booked' = Booked \cup {b} /\ bookings'[b] = row
      /\ \A o \in Booked : o # b => bookings'[o] = bookings[o]
  BY <1>1, WrittenTable
<1>9. ClosedVenuesAreEmpty'
  <2>1. FewerActive
    BY <1>4, <1>8 DEF FewerActive, Active, SamePlace
  <2>. QED  BY <1>1, <2>1, InvParts, FewerActiveKeepsClosed
<1>10. AnnouncementsStand'
  <2>1. \A o \in Booked : bookings[o].status = "Rejected" =>
            o \in Booked' /\ bookings'[o].status = "Rejected"
    BY <1>1, <1>8
  <2>2. \A o \in Booked' : bookings'[o].status \in {"Approved", "Rejected"} =>
            o \in Booked /\ bookings[o].status = bookings'[o].status
    BY <1>4, <1>8
  <2>. QED  BY <1>1, <2>1, <2>2, InvParts, AnnouncementsKept
<1>. QED  BY <1>5, <1>6, <1>7, <1>9, <1>10, TypePartsNext DEF BookingsInv

(* Announcing a decision: there is one afterwards, this one or an earlier  *)
(* one, and no other.                                                      *)
LEMMA Announcing ==
    ASSUME outbox \subseteq Notices, NEW b \in BookingIds, NEW s \in {"Approved", "Rejected"}
    PROVE  /\ outbox \subseteq Announced(b, s)
           /\ Announced(b, s) \subseteq Notices
           /\ \A n \in Announced(b, s) \ outbox :
                 /\ n.type = s /\ n.booking = b
                 /\ \A m \in Announced(b, s) : IsDecision(m) /\ m.booking = b => m = n
           /\ \E n \in Announced(b, s) : n.booking = b /\ n.type \in {"Approved", "Rejected"}
<1>. DEFINE new == [type |-> s, booking |-> b]
<1>1. new \in Notices /\ new.type = s /\ new.booking = b
  BY DEF Notices
<1>2. CASE \A m \in outbox : ~(IsDecision(m) /\ m.booking = b)
  <2>1. Announced(b, s) = outbox \cup {new}
    BY <1>2 DEF Announced
  <2>. HIDE DEF new
  <2>. QED  BY <1>1, <1>2, <2>1
<1>3. CASE \E m \in outbox : IsDecision(m) /\ m.booking = b
  <2>1. Announced(b, s) = outbox
    BY <1>3 DEF Announced
  <2>. QED  BY <1>3, <2>1 DEF IsDecision
<1>. QED  BY <1>2, <1>3

(* Deciding a booking: an approval finds its window free.                  *)
LEMMA DecideKeepsInv ==
    ASSUME BookingsInv, NEW b \in BookingIds, NEW s \in {"Approved", "Rejected"},
           NEW setup \in Buffers, NEW turn \in Buffers, NEW t \in 0..now,
           DecideBooking(b, s, setup, turn, t)
    PROVE  BookingsInv'
<1>. DEFINE old == bookings[b]
            row == Decided(old, s)
<1>1. /\ b \in Booked /\ old.status = "Pending Review" /\ Writes(b, row)
      /\ s = "Approved" => IsFree(old.venue, old, b, setup, turn, t)
      /\ outbox' = Announced(b, s)
      /\ closures' = closures /\ previews' = previews /\ now' = now
  BY DEF DecideBooking, MayApprove, Writes
<1>2. old \in Booking /\ row \in Booking /\ SamePlace(row, old) /\ row.status = s
  BY <1>1, InvParts, DecidedRow
<1>3. old.start \in Int /\ old.end \in Int /\ old.start < old.end
  BY <1>1, <1>2, InvParts, RowFields DEF TableOK
<1>. HIDE DEF row
<1>4. InPlace /\ bookings'[b] = row /\ \A o \in Booked : o # b => bookings'[o] = bookings[o]
  BY <1>1, <1>2, InvParts, WrittenInPlace
<1>5. TableOK'
  BY <1>4, InvParts, InPlaceKeepsTable
<1>6. /\ outbox \subseteq outbox' /\ outbox' \subseteq Notices
      /\ \A n \in outbox' \ outbox :
            /\ n.type = s /\ n.booking = b
            /\ \A m \in outbox' : IsDecision(m) /\ m.booking = b => m = n
      /\ \E n \in outbox' : n.booking = b /\ n.type \in {"Approved", "Rejected"}
  BY <1>1, InvParts, Announcing DEF RestOK
<1>7. RestOK'
  BY <1>1, <1>6, InvParts DEF RestOK
<1>8. Exclusive'
  <2>1. CASE s = "Approved"
    <3>1. \A o \in Booked \ {b} :
              bookings[o].venue = old.venue /\ Occupies(bookings[o], now) => ~Overlap(bookings[o], old)
      BY <1>1, <1>3, <2>1, InvParts, FreeWindow
    <3>2. \A o \in Booked \ {b} : Occupies(bookings[o], now) => Apart(bookings[o], row)
      BY <1>2, <3>1 DEF Apart, SamePlace, Overlap
    <3>. QED  BY <1>1, <1>2, <3>2, InvParts, NewOccupantKeepsExclusive
  <2>2. CASE s = "Rejected"
    <3>1. Quieter
      BY <1>1, <1>2, <1>4, <2>2 DEF Quieter, InPlace, Occupies, UnexpiredHold
    <3>. QED  BY <3>1, InvParts, QuieterKeepsExclusive
  <2>. QED  BY <2>1, <2>2
<1>9. ClosedVenuesAreEmpty'
  <2>1. FewerActive
    BY <1>1, <1>4 DEF FewerActive, InPlace, Active
  <2>. QED  BY <1>1, <2>1, InvParts, FewerActiveKeepsClosed
<1>10. AnnouncementsStand'
  <2>1. \A o \in Booked : bookings[o].status = "Rejected" =>
            o \in Booked' /\ bookings'[o].status = "Rejected"
    BY <1>1, <1>4 DEF InPlace
  <2>2. \A n \in outbox' \ outbox : n.type \in {"Rejected", "closure"} =>
            n.booking \in Booked' /\ bookings'[n.booking].status = "Rejected"
    BY <1>1, <1>2, <1>4, <1>6 DEF InPlace
  <2>3. PICK n \in outbox' : n.booking = b /\ n.type \in {"Approved", "Rejected"}
    BY <1>6
  <2>4. n.type \in Telling(s)
    <3>1. n \notin outbox => n.type = s
      BY <1>6
    <3>2. n \in outbox => n.type # "Rejected"
      BY <1>1, <2>3, InvParts, AnnouncementsAre
    <3>. QED  BY <2>3, <3>1, <3>2 DEF Telling
  <2>5. \A o \in Booked' : bookings'[o].status \in {"Approved", "Rejected"} =>
            \/ o \in Booked /\ bookings[o].status = bookings'[o].status
            \/ \E d \in outbox' : d.booking = o /\ d.type \in Telling(bookings'[o].status)
    BY <1>2, <1>4, <2>3, <2>4 DEF InPlace
  <2>. QED  BY <1>6, <2>1, <2>2, <2>5, InvParts, AnnouncementsKept
<1>. QED  BY <1>5, <1>7, <1>8, <1>9, <1>10, TypePartsNext DEF BookingsInv

(* Confirming a closure: what it overlaps is rejected and told so.         *)
LEMMA ClosureKeepsInv ==
    ASSUME BookingsInv, NEW p \in previews, CreateClosure(p)
    PROVE  BookingsInv'
<1>. DEFINE c == p.closure
            hit == Affected(c)
<1>1. /\ Booked' = Booked
      /\ bookings' = [o \in Booked |-> bookings'[o]]
      /\ \A o \in Booked : bookings'[o] = IF o \in hit THEN Closed(bookings[o]) ELSE bookings[o]
      /\ outbox' = outbox \cup {[type |-> "closure", booking |-> o] : o \in hit}
      /\ closures' = closures \cup {c} /\ previews' = previews /\ now' = now
  BY DEF CreateClosure, Booked
<1>2. \A o \in Booked : o \in hit <=> /\ bookings[o].venue = c.venue
                                      /\ Active(bookings[o])
                                      /\ Overlap(bookings[o], c)
  BY DEF Affected, Active
<1>3. hit \subseteq Booked /\ c \in Closures
  BY InvParts DEF Affected, RestOK
<1>. HIDE DEF c, hit
<1>4. ASSUME NEW o \in Booked
      PROVE  /\ bookings'[o] \in Booking /\ SamePlace(bookings'[o], bookings[o])
             /\ o \in hit => bookings'[o].status = "Rejected"
             /\ o \notin hit => bookings'[o] = bookings[o]
  <2>1. CASE o \in hit
    BY <1>1, <2>1, InvParts, ClosedRow
  <2>2. CASE o \notin hit
    BY <1>1, <2>2, InvParts DEF SamePlace
  <2>. QED  BY <2>1, <2>2
<1>5. InPlace
  BY <1>1, <1>4, InvParts, RowsInPlace
<1>6. \A n \in outbox' \ outbox : n \in Notices /\ n.booking \in hit
  BY <1>1, <1>3, InvParts DEF Notices
<1>7. RestOK'
  BY <1>1, <1>3, <1>6, InvParts DEF RestOK
<1>8. ASSUME NEW o \in Booked
      PROVE  /\ Occupies(bookings'[o], now') => Occupies(bookings[o], now)
             /\ Active(bookings'[o]) => Active(bookings[o]) /\ o \notin hit
  BY <1>1, <1>4 DEF Occupies, UnexpiredHold, Active, SamePlace
<1>9. BookingsTypeOK' /\ Exclusive'
  BY <1>5, <1>7, <1>8, InPlaceKeepsRest
<1>10. ClosedVenuesAreEmpty'
  <2>. SUFFICES ASSUME NEW o \in Booked, NEW d \in closures', Active(bookings'[o]),
                       bookings'[o].venue = d.venue
                PROVE  ~Overlap(bookings'[o], d)
    BY <1>1 DEF ClosedVenuesAreEmpty, Active, Overlap
  <2>1. bookings'[o] = bookings[o] /\ Active(bookings[o]) /\ o \notin hit
    BY <1>4, <1>8
  <2>2. CASE d = c
    BY <1>2, <2>1, <2>2
  <2>3. CASE d \in closures
    BY <2>1, <2>3, InvParts DEF ClosedVenuesAreEmpty, Active
  <2>. QED  BY <1>1, <2>2, <2>3
<1>11. AnnouncementsStand'
  <2>1. \A o \in Booked : bookings[o].status = "Rejected" =>
            o \in Booked' /\ bookings'[o].status = "Rejected"
    BY <1>1, <1>4
  <2>2. \A n \in outbox' \ outbox : n.type \in {"Rejected", "closure"} =>
            n.booking \in Booked' /\ bookings'[n.booking].status = "Rejected"
    BY <1>1, <1>3, <1>4, <1>6
  <2>3. \A o \in Booked' : bookings'[o].status \in {"Approved", "Rejected"} =>
            \/ o \in Booked /\ bookings[o].status = bookings'[o].status
            \/ \E n \in outbox' : n.booking = o /\ n.type \in Telling(bookings'[o].status)
    <3>1. ASSUME NEW o \in hit
          PROVE  \E n \in outbox' : n.booking = o /\ n.type \in Telling("Rejected")
      <4>. DEFINE note == [type |-> "closure", booking |-> o]
      <4>1. note \in outbox' /\ note.booking = o /\ note.type \in Telling("Rejected")
        BY <1>1, <3>1 DEF Telling
      <4>. HIDE DEF note
      <4>. QED  BY <4>1
    <3>. QED  BY <1>1, <1>4, <3>1
  <2>4. \A n \in outbox' \ outbox : ~IsDecision(n)
    BY <1>1 DEF IsDecision
  <2>. QED  BY <1>1, <2>1, <2>2, <2>3, <2>4, InvParts, AnnouncementsKept
<1>. QED  BY <1>9, <1>10, <1>11 DEF BookingsInv

(* Reconciling buffers touches nothing but markers.                        *)
LEMMA ReconcileKeepsInv ==
    ASSUME BookingsInv, NEW v \in Venues, NEW setup \in Buffers, NEW turn \in Buffers, NEW t \in 0..now,
           Reconcile(v, setup, turn, t)
    PROVE  BookingsInv'
<1>. DEFINE flagged(o) == o \in Flagged(v, setup, turn, t)
<1>1. /\ Booked' = Booked
      /\ bookings' = [o \in Booked |-> bookings'[o]]
      /\ \A o \in Booked : bookings'[o] \in {bookings[o], Marked(bookings[o], flagged(o))}
      /\ closures' = closures /\ previews' = previews /\ outbox' = outbox /\ now' = now
  BY DEF Reconcile, Booked
<1>2. \A o : flagged(o) \in BOOLEAN
  OBVIOUS
<1>. HIDE DEF flagged
<1>3. ASSUME NEW o \in Booked
      PROVE  /\ bookings'[o] \in Booking /\ SamePlace(bookings'[o], bookings[o])
             /\ bookings'[o].status = bookings[o].status
  <2>1. Marked(bookings[o], flagged(o)) \in Booking
        /\ SamePlace(Marked(bookings[o], flagged(o)), bookings[o])
        /\ Marked(bookings[o], flagged(o)).status = bookings[o].status
    BY <1>2, InvParts, MarkedRow
  <2>2. bookings[o] \in Booking /\ SamePlace(bookings[o], bookings[o])
    BY InvParts DEF SamePlace
  <2>. QED  BY <1>1, <2>1, <2>2
<1>4. InPlace
  BY <1>1, <1>3, InvParts, RowsInPlace
<1>5. RestOK'
  BY <1>1, InvParts DEF RestOK
<1>6. ASSUME NEW o \in Booked
      PROVE  /\ Occupies(bookings'[o], now') => Occupies(bookings[o], now)
             /\ Active(bookings'[o]) => Active(bookings[o])
  BY <1>1, <1>3 DEF Occupies, UnexpiredHold, Active, SamePlace
<1>7. BookingsTypeOK' /\ Exclusive' /\ ClosedVenuesAreEmpty'
  BY <1>1, <1>4, <1>5, <1>6, InPlaceKeepsRest
<1>8. AnnouncementsStand'
  BY <1>1, <1>3, InvParts, AnnouncementsKept
<1>. QED  BY <1>7, <1>8 DEF BookingsInv

(* Steps that leave the bookings alone: previews come and go, and so do    *)
(* the holds whose end passes.                                             *)
LEMMA OthersKeepInv ==
    ASSUME BookingsInv, bookings' = bookings, closures' = closures, outbox' = outbox, RestOK',
           now' = now \/ now' = now + 1
    PROVE  BookingsInv'
<1>1. TableOK' /\ BookingsTypeOK'
  BY InvParts, TypePartsNext DEF TableOK, Booked
<1>2. Exclusive'
  <2>1. ASSUME NEW o \in Booked, Occupies(bookings[o], now') PROVE Occupies(bookings[o], now)
    <3>1. /\ bookings[o].end \in Int /\ now \in Int /\ now' \in Int /\ now <= now'
      BY InvParts, RowFields, Arguments DEF RestOK
    <3>. QED  BY <2>1, <3>1, UnexpiredBefore DEF Occupies
  <2>2. Quieter
    BY <2>1 DEF Quieter, SamePlace, Booked
  <2>. QED  BY <2>2, InvParts, QuieterKeepsExclusive
<1>3. ClosedVenuesAreEmpty' /\ AnnouncementsStand'
  BY InvParts DEF ClosedVenuesAreEmpty, AnnouncementsStand, Told, IsDecision, Booked, Overlap
<1>. QED  BY <1>1, <1>2, <1>3 DEF BookingsInv

----------------------------------------------------------------------------
(* An empty table is well-formed.                                          *)
LEMMA InitInv == Init => BookingsInv
BY Arguments DEF Init, BookingsInv, BookingsTypeOK, Exclusive, ClosedVenuesAreEmpty,
                 AnnouncementsStand, Booked

(* Every step keeps the invariant.                                         *)
LEMMA NextKeepsInv == BookingsInv /\ [Next]_vars => BookingsInv'
<1>. SUFFICES ASSUME BookingsInv, [Next]_vars PROVE BookingsInv'
  OBVIOUS
<1>1. ASSUME NEW b \in BookingIds, NEW v \in Venues, NEW setup \in Buffers, NEW turn \in Buffers,
             NEW t \in 0..now, NEW w \in Windows, CreateBooking(b, v, w, setup, turn, t)
      PROVE  BookingsInv'
  BY <1>1, RequestKeepsInv DEF CreateBooking, Writes
<1>2. ASSUME NEW b \in BookingIds, NEW v \in Venues, NEW setup \in Buffers, NEW turn \in Buffers,
             NEW t \in 0..now, NEW w \in Windows, UpdateBooking(b, v, w, setup, turn, t)
      PROVE  BookingsInv'
  BY <1>2, RequestKeepsInv DEF UpdateBooking, Writes, Active
<1>3. ASSUME NEW c \in Closures, PreviewClosure(c)
      PROVE  BookingsInv'
  <2>1. RestOK'
    BY <1>3, InvParts DEF PreviewClosure, RestOK
  <2>. QED  BY <1>3, <2>1, OthersKeepInv DEF PreviewClosure
<1>4. ASSUME NEW p \in previews, ExpirePreview(p)
      PROVE  BookingsInv'
  <2>1. RestOK'
    BY <1>4, InvParts DEF ExpirePreview, RestOK
  <2>. QED  BY <1>4, <2>1, OthersKeepInv DEF ExpirePreview
<1>5. CASE Tick
  <2>1. RestOK'
    BY <1>5, InvParts, Arguments DEF Tick, RestOK
  <2>. QED  BY <1>5, <2>1, OthersKeepInv DEF Tick
<1>6. CASE UNCHANGED vars
  <2>1. RestOK'
    BY <1>6, InvParts DEF vars, RestOK
  <2>. QED  BY <1>6, <2>1, OthersKeepInv DEF vars
<1>. QED
  BY <1>1, <1>2, <1>3, <1>4, <1>5, <1>6, CancelKeepsInv, ResetKeepsInv, HoldKeepsInv,
     DecideKeepsInv, ClosureKeepsInv, ReconcileKeepsInv DEF Next

(* The invariant holds for ever.                                           *)
THEOREM BookingsInvariant == Spec => []BookingsInv
<1>. QED  BY InitInv, NextKeepsInv, PTL DEF Spec

----------------------------------------------------------------------------
(* The types of the service's tables hold for ever.                        *)
THEOREM BookingsTypeCorrect == Spec => []BookingsTypeOK
<1>1. BookingsInv => BookingsTypeOK
  BY DEF BookingsInv
<1>. QED  BY <1>1, BookingsInvariant, PTL

(* No venue is ever given to two events at once.                           *)
THEOREM VenuesAreGivenOnce == Spec => []NoDoubleBooking
<1>1. BookingsInv => NoDoubleBooking
  BY DEF BookingsInv, Exclusive, NoDoubleBooking, Occupies, Apart
<1>. QED  BY <1>1, BookingsInvariant, PTL

(* No unexpired hold is ever bypassed.                                     *)
THEOREM HoldsStand == Spec => []HoldsAreHonoured
<1>1. BookingsInv => HoldsAreHonoured
  BY DEF BookingsInv, Exclusive, HoldsAreHonoured, Occupies, Apart
<1>. QED  BY <1>1, BookingsInvariant, PTL

(* No booking that is under review or approved is ever in a closed venue.  *)
THEOREM ClosuresStand == Spec => []ClosedVenuesAreEmpty
<1>1. BookingsInv => ClosedVenuesAreEmpty
  BY DEF BookingsInv
<1>. QED  BY <1>1, BookingsInvariant, PTL

(* Announced rejections stand; every booking that is approved was told so, *)
(* and one that is rejected was told of that, of a closure or of an        *)
(* approval from before it was changed; no booking is told two decisions.  *)
THEOREM RejectionsStand == Spec => []AnnouncementsStand
<1>1. BookingsInv => AnnouncementsStand
  BY DEF BookingsInv
<1>. QED  BY <1>1, BookingsInvariant, PTL

(* A closure rejects the bookings of its preview, in the windows shown.    *)
LEMMA ClosureShows ==
    ASSUME BookingsInv, NEW p \in previews, CreateClosure(p)
    PROVE  /\ closures' = closures \cup {p.closure}
           /\ \A b \in Booked : bookings'[b].status # bookings[b].status <=>
                 [booking |-> b, status |-> bookings[b].status,
                  start |-> bookings[b].start, end |-> bookings[b].end] \in p.impact
<1>. DEFINE hit == Affected(p.closure)
            Shown(b) == [booking |-> b, status |-> bookings[b].status,
                         start |-> bookings[b].start, end |-> bookings[b].end]
<1>1. /\ \A o \in Booked : bookings'[o] = IF o \in hit THEN Closed(bookings[o]) ELSE bookings[o]
      /\ closures' = closures \cup {p.closure}
      /\ p.impact = {Shown(b) : b \in hit}
  BY DEF CreateClosure, Booked, Verified, Impact
<1>2. \A o \in hit : Active(bookings[o])
  BY DEF Affected, Active
<1>3. \A b, o : Shown(b) = Shown(o) => b = o
  <2>1. \A b : Shown(b).booking = b
    OBVIOUS
  <2>. HIDE DEF Shown
  <2>. QED  BY <2>1
<1>. HIDE DEF hit, Shown
<1>4. ASSUME NEW b \in Booked PROVE Shown(b) \in p.impact <=> b \in hit
  BY <1>1, <1>3
<1>5. ASSUME NEW b \in Booked PROVE bookings'[b].status # bookings[b].status <=> b \in hit
  <2>1. CASE b \in hit
    <3>1. bookings'[b] = Closed(bookings[b]) /\ Active(bookings[b])
      BY <1>1, <1>2, <2>1
    <3>2. Closed(bookings[b]).status = "Rejected"
      BY InvParts, ClosedRow
    <3>3. bookings'[b].status = "Rejected" /\ bookings[b].status # "Rejected"
      BY <3>1, <3>2 DEF Active
    <3>. QED  BY <2>1, <3>3
  <2>2. CASE b \notin hit
    BY <1>1, <2>2
  <2>. QED  BY <2>1, <2>2
<1>. QED  BY <1>1, <1>4, <1>5 DEF Shown

(* A confirmed closure rejects what its preview showed, and no other step  *)
(* closes a venue.                                                         *)
THEOREM ClosuresAreAsShown == Spec => ClosuresRejectWhatWasShown
<1>. DEFINE Rejects(p) ==
              /\ closures' = closures \cup {p.closure}
              /\ \A b \in Booked : bookings'[b].status # bookings[b].status <=>
                    [booking |-> b, status |-> bookings[b].status,
                     start |-> bookings[b].start, end |-> bookings[b].end] \in p.impact
<1>1. ASSUME BookingsInv, NEW p \in previews, CreateClosure(p) PROVE Rejects(p)
  BY <1>1, ClosureShows
<1>. HIDE DEF Rejects
<1>2. ASSUME BookingsInv, [Next]_vars, closures' # closures
      PROVE  \E p \in previews : Rejects(p)
  <2>1. ASSUME NEW b, NEW v, NEW setup, NEW turn, NEW t,
               \/ \E w \in Windows : CreateBooking(b, v, w, setup, turn, t)
               \/ \E w \in Windows : UpdateBooking(b, v, w, setup, turn, t)
               \/ \E expires : CreateHold(b, v, expires, setup, turn, t)
               \/ \E s : DecideBooking(b, s, setup, turn, t)
               \/ Reconcile(v, setup, turn, t)
        PROVE  closures' = closures
    BY <2>1 DEF CreateBooking, UpdateBooking, CreateHold, DecideBooking, Reconcile
  <2>2. ASSUME \/ \E b : CancelBooking(b)
               \/ \E B : ResetSafetyBookings(B)
               \/ \E c : PreviewClosure(c)
               \/ \E p : ExpirePreview(p)
               \/ Tick \/ UNCHANGED vars
        PROVE  closures' = closures
    BY <2>2 DEF CancelBooking, ResetSafetyBookings, PreviewClosure, ExpirePreview, Tick, vars
  <2>3. \E p \in previews : CreateClosure(p)
    BY <1>2, <2>1, <2>2 DEF Next
  <2>. QED  BY <1>1, <1>2, <2>3
<1>3. BookingsInv /\ [Next]_vars => [closures' # closures => \E p \in previews : Rejects(p)]_vars
  BY <1>2
<1>. QED  BY <1>3, BookingsInvariant, PTL DEF Spec, ClosuresRejectWhatWasShown, Rejects

----------------------------------------------------------------------------
(* What a step may do to an approved booking.                              *)
ClosedBy(old) == \E c \in closures' \ closures : c.venue = old.venue /\ Overlap(old, c)

KeepsApproval(old, new) ==
    \/ new.status = "Pending Review"
    \/ /\ SamePlace(new, old)
       /\ \/ new.status \in {"Approved", "Cancelled"}
          \/ new.status = "Rejected" /\ ClosedBy(old)

(* A closure that rejects an approved booking is a new one.                *)
LEMMA RejectingClosureIsNew ==
    ASSUME BookingsInv, NEW p \in previews, CreateClosure(p), NEW b \in Affected(p.closure)
    PROVE  ClosedBy(bookings[b])
<1>1. /\ b \in Booked /\ Active(bookings[b]) /\ bookings[b].venue = p.closure.venue
      /\ Overlap(bookings[b], p.closure)
  BY DEF Affected, Active
<1>2. p.closure \notin closures
  BY <1>1, InvParts DEF ClosedVenuesAreEmpty, Active
<1>3. p.closure \in closures'
  BY DEF CreateClosure
<1>. QED  BY <1>1, <1>2, <1>3 DEF ClosedBy

(* Every step keeps approvals.                                             *)
LEMMA NextKeepsApprovals ==
    ASSUME BookingsInv, [Next]_vars, NEW b \in Booked, bookings[b].status = "Approved"
    PROVE  KeepsApproval(bookings[b], bookings'[b])
<1>. DEFINE Untouched ==
              \/ bookings'[b] = bookings[b]
              \/ bookings'[b].status = "Pending Review"
              \/ SamePlace(bookings'[b], bookings[b]) /\ bookings'[b].status \in {"Approved", "Cancelled"}
<1>0. /\ bookings'[b] = bookings[b] => Untouched
      /\ bookings'[b].status = "Pending Review" => Untouched
      /\ SamePlace(bookings'[b], bookings[b]) /\ bookings'[b].status \in {"Approved", "Cancelled"} => Untouched
      /\ Untouched => KeepsApproval(bookings[b], bookings'[b])
  BY DEF KeepsApproval, SamePlace
<1>. HIDE DEF Untouched
<1>1. b \in BookingIds /\ bookings[b] \in Booking
  BY InvParts
<1>2. ASSUME NEW o, NEW row, Writes(o, row), o # b PROVE Untouched
  <2>1. \A x \in Booked : x # o => bookings'[x] = bookings[x]
    BY <1>2, WrittenTable
  <2>2. bookings'[b] = bookings[b]
    BY <1>2, <2>1
  <2>. QED  BY <1>0, <2>2
<1>3. ASSUME NEW o \in BookingIds, NEW v \in Venues, NEW w \in Windows, Writes(o, Requested(v, w))
      PROVE  Untouched
  <2>1. CASE o = b
    <3>1. bookings'[b] = Requested(v, w)
      BY <1>3, <2>1, WrittenTable
    <3>2. Requested(v, w).status = "Pending Review"
      BY RequestedRow, Arguments
    <3>. QED  BY <1>0, <3>1, <3>2
  <2>2. CASE o # b
    BY <1>2, <1>3, <2>2
  <2>. QED  BY <2>1, <2>2
<1>4. ASSUME NEW o \in BookingIds, CancelBooking(o) PROVE Untouched
  <2>1. Writes(o, Cancelled(bookings[o]))
    BY <1>4 DEF CancelBooking, Writes
  <2>2. CASE o = b
    <3>1. bookings'[b] = Cancelled(bookings[b])
      BY <2>1, <2>2, WrittenTable
    <3>2. Cancelled(bookings[b]).status = "Cancelled" /\ SamePlace(Cancelled(bookings[b]), bookings[b])
      BY <1>1, CancelledRow
    <3>. QED  BY <1>0, <3>1, <3>2
  <2>3. CASE o # b
    BY <1>2, <2>1, <2>3
  <2>. QED  BY <2>2, <2>3
<1>5. ASSUME NEW B, ResetSafetyBookings(B) PROVE Untouched
  <2>1. bookings'[b] = Reset(bookings[b]) \/ bookings'[b] = bookings[b]
    BY <1>5 DEF ResetSafetyBookings, Booked
  <2>2. Reset(bookings[b]).status = "Pending Review"
    BY <1>1, ResetRow DEF Active
  <2>. QED  BY <1>0, <2>1, <2>2
<1>6. ASSUME NEW o, NEW v, NEW expires, NEW setup, NEW turn, NEW t,
             CreateHold(o, v, expires, setup, turn, t)
      PROVE  Untouched
  <2>1. o # b
    BY <1>6 DEF CreateHold
  <2>2. PICK row : Writes(o, row)
    BY <1>6 DEF CreateHold, Writes
  <2>. QED  BY <1>2, <2>1, <2>2
<1>7. ASSUME NEW o, NEW s, NEW setup, NEW turn, NEW t, DecideBooking(o, s, setup, turn, t)
      PROVE  Untouched
  <2>1. o # b
    BY <1>7 DEF DecideBooking
  <2>2. Writes(o, Decided(bookings[o], s))
    BY <1>7 DEF DecideBooking, Writes
  <2>. QED  BY <1>2, <2>1, <2>2
<1>8. ASSUME NEW v, NEW setup, NEW turn, NEW t, Reconcile(v, setup, turn, t) PROVE Untouched
  <2>. DEFINE flag == b \in Flagged(v, setup, turn, t)
  <2>1. bookings'[b] \in {bookings[b], Marked(bookings[b], flag)} /\ flag \in BOOLEAN
    BY <1>8 DEF Reconcile, Booked
  <2>. HIDE DEF flag
  <2>2. SamePlace(Marked(bookings[b], flag), bookings[b]) /\ Marked(bookings[b], flag).status = "Approved"
    BY <1>1, <2>1, MarkedRow
  <2>. QED  BY <1>0, <2>1, <2>2
<1>9. ASSUME NEW p \in previews, CreateClosure(p)
      PROVE  Untouched \/ KeepsApproval(bookings[b], bookings'[b])
  <2>1. bookings'[b] = IF b \in Affected(p.closure) THEN Closed(bookings[b]) ELSE bookings[b]
    BY <1>9 DEF CreateClosure, Booked
  <2>2. CASE b \in Affected(p.closure)
    <3>1. bookings'[b] = Closed(bookings[b])
      BY <2>1, <2>2
    <3>2. Closed(bookings[b]).status = "Rejected" /\ SamePlace(Closed(bookings[b]), bookings[b])
      BY <1>1, ClosedRow
    <3>3. ClosedBy(bookings[b])
      BY <1>9, <2>2, RejectingClosureIsNew
    <3>. QED  BY <3>1, <3>2, <3>3 DEF KeepsApproval
  <2>3. CASE b \notin Affected(p.closure)
    <3>1. bookings'[b] = bookings[b]
      BY <2>1, <2>3
    <3>. QED  BY <1>0, <3>1
  <2>. QED  BY <2>2, <2>3
<1>10. bookings' = bookings => Untouched
  BY <1>0
<1>11. ASSUME NEW o \in BookingIds, NEW v \in Venues, NEW w \in Windows, NEW setup, NEW turn, NEW t,
              \/ CreateBooking(o, v, w, setup, turn, t)
              \/ UpdateBooking(o, v, w, setup, turn, t)
       PROVE  Untouched
  BY <1>3, <1>11 DEF CreateBooking, UpdateBooking, Writes
<1>12. ASSUME \/ \E c : PreviewClosure(c)
              \/ \E p : ExpirePreview(p)
              \/ Tick \/ UNCHANGED vars
       PROVE  Untouched
  BY <1>10, <1>12 DEF PreviewClosure, ExpirePreview, Tick, vars
<1>13. Untouched \/ KeepsApproval(bookings[b], bookings'[b])
  BY <1>4, <1>5, <1>6, <1>7, <1>8, <1>9, <1>11, <1>12 DEF Next
<1>. QED  BY <1>0, <1>13

(* What staff approved stands, in its venue and window, until it goes back *)
(* to review, is cancelled, or a new closure that it overlaps rejects it.  *)
THEOREM ApprovalsStand == Spec => ApprovalsAreOfTheWindow
<1>1. BookingsInv /\ [Next]_vars =>
        [\A b \in Booked : bookings[b].status = "Approved" =>
            \/ bookings'[b].status = "Pending Review"
            \/ /\ bookings'[b].venue = bookings[b].venue
               /\ bookings'[b].start = bookings[b].start
               /\ bookings'[b].end = bookings[b].end
               /\ \/ bookings'[b].status \in {"Approved", "Cancelled"}
                  \/ /\ bookings'[b].status = "Rejected"
                     /\ \E c \in closures' \ closures :
                           c.venue = bookings[b].venue /\ Overlap(bookings[b], c)]_vars
  BY NextKeepsApprovals DEF KeepsApproval, SamePlace, ClosedBy
<1>. QED  BY <1>1, BookingsInvariant, PTL DEF Spec, ApprovalsAreOfTheWindow
=============================================================================
