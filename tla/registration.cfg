\* One event, two attendees who both want its last place. No symmetry: a liveness property is checked.
CONSTANTS
    Events = {gala}
    Attendees = {ana, ben}
    Callers = {c1, c2}
    Nobody = Nobody
    Capacities = {1, 2}
    MaxChanges = 2
    MaxNotices = 3
SPECIFICATION Spec
INVARIANT RegistrationsTypeOK
INVARIANT NoOverbooking
INVARIANT NoticesTellTheStatus
PROPERTY EveryRequestEnds
CHECK_DEADLOCK FALSE
