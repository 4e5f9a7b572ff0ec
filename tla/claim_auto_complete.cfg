SPECIFICATION Spec
CONSTANTS
    r1 = r1
    r2 = r2
    Requests = {r1}
    CRON = CRON
    OVERLAP = TRUE
    Plans <- StripePlans
    MAX_REPHOTO = 1
    MAX_ROUNDS = 2
    SECOND_LIFE = FALSE
CHECK_DEADLOCK FALSE
PROPERTY AutoCompleteNeverRacesDispute
