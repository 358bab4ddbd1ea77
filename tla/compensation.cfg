SPECIFICATION Spec
CONSTANTS
    Events = {e1}
    RoundIds = {r1, r2, r3}
    NoRound = NoRound
    MaxDecisions = 3
    Coordinators = {c1, c2}
    Details = {d1, d2}
    Workers = {w1}
    Kinds = {"submit", "approve", "changes", "reject", "recheck", "edit", "cancel"}
    Faults <- HandledFaults
    MaxRequests = 6
    MaxFailures = 1
SYMMETRY Interchangeable
CHECK_DEADLOCK FALSE
INVARIANTS ReviewAligned ApprovalStands
PROPERTY ChangesWithdrawTheApproval
