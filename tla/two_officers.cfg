SPECIFICATION Spec
CONSTANTS
    Events = {e1}
    RoundIds = {r1, r2, r3}
    NoRound = NoRound
    MaxDecisions = 3
    Coordinators = {c1}
    Details = {d1, d2}
    Workers = {w1, w2}
    Kinds = {"submit", "approve"}
    Faults <- UndeliveredDecision
    MaxRequests = 5
    MaxFailures = 1
SYMMETRY Interchangeable
CHECK_DEADLOCK FALSE
INVARIANT MovesAreNotUndone
