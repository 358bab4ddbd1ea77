SPECIFICATION LifecycleSpec
CONSTANTS
    Events = {gala}
    RoundIds = {r1, r2, r3}
    NoRound = NoRound
    Coordinators = {c1, c2}
    Times = {0, 1, 2}
    Names = {n1, n2}
    Details <- MCDetails
CHECK_DEADLOCK FALSE
SYMMETRY Interchangeable
INVARIANTS EventsTypeOK ConfirmedOnReviewedDetails UndoKeepsTheApproval AnswersComeBack DecidedOnce DatesInOrder
PROPERTY ConfirmedByDecisionOrUndo
