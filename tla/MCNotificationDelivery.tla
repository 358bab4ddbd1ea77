----------------------- MODULE MCNotificationDelivery -----------------------
(* One kind of every way a notification is addressed, from all four owners. *)
EXTENDS NotificationDelivery

CONSTANTS ana, ben

MCUsers == {ana, ben}
MCKinds == {"event.submission-fanout", "event.coordinator-assigned", "event.change-request-submitted",
            "venue.booking-submission-fanout", "venue.closure-rejection", "venue.booking-decision",
            "registration.confirmed", "registration.legacy", "equipment.request-submission"}
MCWorlds == {[staff |-> MCUsers, coordinator |-> ana, facts |-> b] : b \in BOOLEAN}
=============================================================================
