-------------------------- MODULE MCVenueBookings --------------------------
(* VenueBookings on two venues and two windows that touch, so that buffers *)
(* make them conflict; holds overlap either or both of them.               *)
EXTENDS VenueBookings, TLC

Slots == {[start |-> 0, end |-> 1], [start |-> 1, end |-> 3]}

Interchangeable == Permutations(Venues) \cup Permutations(BookingIds)
============================================================================
