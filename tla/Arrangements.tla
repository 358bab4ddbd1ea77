---------------------------- MODULE Arrangements ---------------------------
(***************************************************************************)
(* What the safety workflow sees of an event's arrangements: its venue     *)
(* booking (Venue Availability Service) and its equipment request          *)
(* (Equipment Request Service).  An event can have several of each; the    *)
(* slot of an event stands for the one it relies on, and a new booking     *)
(* takes the slot of one that is Rejected or Cancelled.  Conflicts with    *)
(* other events' bookings and stock are not decided here: a review or a    *)
(* change may always be refused by them, so it is a step that need not be  *)
(* taken.                                                                  *)
(***************************************************************************)
EXTENDS SafetyIds

VARIABLES venue,     \* status of each event's venue booking
          equipment  \* status of each event's equipment request

arrangementVars == <<venue, equipment>>

BookingStatuses == {"Pending Review", "Approved", "Rejected", "Cancelled"}
RequestStatuses == {"Pending", "Approved", "Rejected"}

ArrangementsInit ==
    /\ venue = [e \in Events |-> "Approved"]
    /\ equipment = [e \in Events |-> "Approved"]

(* outstanding_arrangements: an approved booking, nothing still pending.   *)
Ready(e) == venue[e] = "Approved" /\ equipment[e] # "Pending"

(* decide_booking                                                          *)
ReviewBooking(e, s) ==
    /\ venue[e] = "Pending Review"
    /\ s \in {"Approved", "Rejected"}
    /\ venue' = [venue EXCEPT ![e] = s]
    /\ UNCHANGED equipment

(* create_booking                                                          *)
CreateBooking(e) ==
    /\ venue[e] \in {"Rejected", "Cancelled"}
    /\ venue' = [venue EXCEPT ![e] = "Pending Review"]
    /\ UNCHANGED equipment

(* update_booking (to Pending Review) and cancel_booking (to Cancelled).   *)
CanChangeBooking(e, to) ==
    venue[e] \notin {"Rejected"} \cup (IF to = "Cancelled" THEN {} ELSE {"Cancelled"})

ChangeBooking(e, to) ==
    /\ CanChangeBooking(e, to)
    /\ venue' = [venue EXCEPT ![e] = to]
    /\ UNCHANGED equipment

(* reset_safety_bookings: a flagged booking goes back to Venue Staff.      *)
ResetToLegacyStatus(e) ==  \* mutant: the legacy spelling of Pending Review
    /\ venue' = [venue EXCEPT ![e] = "Pending"]
    /\ UNCHANGED equipment

ResetBooking(e) ==
    /\ venue' = [venue EXCEPT ![e] = IF @ \in {"Approved", "Pending Review"}
                                     THEN "Pending Review" ELSE @]
    /\ UNCHANGED equipment

(* The release of a cancelled event's bookings.                            *)
ReleaseBooking(e) ==
    /\ venue' = [venue EXCEPT ![e] = IF @ = "Rejected" THEN @ ELSE "Cancelled"]
    /\ UNCHANGED equipment

(* review_request, review_event_requests                                   *)
ReviewEquipment(e, s) ==
    /\ equipment[e] = "Pending"
    /\ s \in {"Approved", "Rejected"}
    /\ equipment' = [equipment EXCEPT ![e] = s]
    /\ UNCHANGED venue

(* create_requests                                                         *)
RequestEquipment(e) ==
    /\ equipment[e] # "Pending"
    /\ equipment' = [equipment EXCEPT ![e] = "Pending"]
    /\ UNCHANGED venue

(* reset_safety_requests: only an Approved request goes back to Pending.   *)
ResetEquipment(e) ==
    /\ equipment' = [equipment EXCEPT ![e] = IF @ = "Approved" THEN "Pending" ELSE @]
    /\ UNCHANGED venue

ArrangementsTypeOK ==
    /\ venue \in [Events -> BookingStatuses]
    /\ equipment \in [Events -> RequestStatuses]
============================================================================
