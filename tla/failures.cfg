SPECIFICATION Spec
CONSTANTS
    Events = {e1}
    RoundIds = {r1, r2, r3}
    NoRound = NoRound
    MaxDecisions = 3
    Coordinators = {c1}
    Details = {d1, d2}
    Workers = {w1, w2}
    Kinds = {"submit", "approve", "changes", "reject", "recheck", "edit", "cancel"}
    Faults <- AnyFault
    MaxRequests = 4
    MaxFailures = 2
SYMMETRY Interchangeable
CHECK_DEADLOCK FALSE
INVARIANTS TypeOK WaitsForANewRound UniqueNumbers DecisionIsWhole
PROPERTY HistoryIsKept
