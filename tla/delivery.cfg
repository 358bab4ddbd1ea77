\* Every notification settles and is shown once. No symmetry: a liveness property is checked.
CONSTANTS
    ana = ana
    ben = ben
    Users <- MCUsers
    Nobody = Nobody
    Kinds <- MCKinds
    Worlds <- MCWorlds
    MaxUpsets = 2
SPECIFICATION Spec
INVARIANT TypeOK
INVARIANT NothingLost
INVARIANT OneEnvelope
INVARIANT HeldWasNeverSent
PROPERTY KeepsThePromise
PROPERTY EveryNoticeSettles
CHECK_DEADLOCK FALSE
