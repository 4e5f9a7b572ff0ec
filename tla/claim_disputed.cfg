SPECIFICATION Spec
CONSTANTS
    r1 = r1
    r2 = r2
    Requests = {r1}
    CRON = CRON
    OVERLAP = FALSE
    Plans <- MockPlans
    MAX_REPHOTO = 0
    MAX_ROUNDS = 1
    SECOND_LIFE = FALSE
CHECK_DEADLOCK FALSE
PROPERTY DisputedIsFrozen
