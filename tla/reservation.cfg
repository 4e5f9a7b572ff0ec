SPECIFICATION Spec
CONSTANTS
    o1 = o1
    o2 = o2
    f1 = f1
    f2 = f2
    s1 = s1
    s2 = s2
    Orders = {o1, o2}
    Offers = {f1, f2}
    Slots = {s1, s2}
    Prices = {1, 2}
    ListPrice = 2
    MAX_CLAIMS = 3
    GO_ON = FALSE
    NONE = NONE
SYMMETRY Symmetry
CHECK_DEADLOCK FALSE
INVARIANTS
    TypeOK
    OneClaim
    ClaimHoldsItem
    ReservedHasOwner
PROPERTIES
    PaidNeverLapses
