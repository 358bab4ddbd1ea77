CONSTANTS
    speakers = speakers
    Events = {gala, fair}
    Items = {speakers}
    Lines = {l1, l2}
    Callers = {c1, c2}
    Stock <- MCStock
    Quantities = {1, 2}
    Windows <- MCWindows
    MaxChanges = 2
SPECIFICATION Spec
SYMMETRY Symmetric
INVARIANT AllocationTypeOK
INVARIANT StockSuffices
PROPERTY ApprovedTogether
CHECK_DEADLOCK FALSE
