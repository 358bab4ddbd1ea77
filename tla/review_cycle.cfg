SPECIFICATION Spec
CONSTANTS
    Events = {e1}
    RoundIds = {r1, r2, r3}
    NoRound = NoRound
    MaxDecisions = 3
    Coordinators = {c1, c2}
    Details = {d1, d2}
    Workers = {w1, w2}
    Kinds = {"submit", "approve", "changes", "reject"}
    Faults <- ReviewFaults
    MaxRequests = 6
    MaxFailures = 1
SYMMETRY Interchangeable
CHECK_DEADLOCK FALSE
INVARIANTS WaitsForAnOpenRound MovesAreNotUndone
PROPERTY FollowsTheRecord
