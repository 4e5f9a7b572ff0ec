SPECIFICATION Spec
CONSTANTS
    r1 = r1
    r2 = r2
    Requests = {r1}
    CRON = CRON
    OVERLAP = FALSE
    Plans <- SerialPlans
    MAX_REPHOTO = 1
    MAX_ROUNDS = 1
    SECOND_LIFE = TRUE
CHECK_DEADLOCK FALSE
INVARIANTS
    CreditedOnce
PROPERTIES
    ImplementsDeal
