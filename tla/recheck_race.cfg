SPECIFICATION Spec
CONSTANTS
    Events = {e1}
    RoundIds = {r1, r2, r3}
    NoRound = NoRound
    MaxDecisions = 3
    Coordinators = {c1}
    Details = {d1, d2}
    Workers = {w1, w2}
    Kinds = {"submit", "approve", "recheck"}
    Faults <- NoFault
    MaxRequests = 5
    MaxFailures = 0
SYMMETRY Interchangeable
CHECK_DEADLOCK FALSE
INVARIANT ApprovalStands
