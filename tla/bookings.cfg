SPECIFICATION Spec
CONSTANTS
    Venues = {v1, v2}
    BookingIds = {b1, b2}
    Windows <- Slots
    Buffers = {0, 1}
    MaxTime = 2
    MaxClosures = 1
    MaxPreviews = 1
SYMMETRY Interchangeable
INVARIANTS BookingsTypeOK NoDoubleBooking HoldsAreHonoured ClosedVenuesAreEmpty AnnouncementsStand
PROPERTIES ClosuresRejectWhatWasShown ApprovalsAreOfTheWindow
