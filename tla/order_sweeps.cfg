SPECIFICATION Spec
CONSTANTS
    r1 = r1
    r2 = r2
    Requests = {r1}
    CRON = CRON
    OVERLAP = TRUE
    Plans <- SweepPlans
    MAX_REPHOTO = 2
    MAX_ROUNDS = 3
    SECOND_LIFE = FALSE
CHECK_DEADLOCK FALSE
INVARIANTS
    TypeOK
    OutcomeMatchesListing
    WaitingHasDeadline
    FlowMatchesMethod
    VerdictRestsOnEvidence
    PhotoRoundsAddUp
    RowNeverOverstates
    TurnsFit
PROPERTIES
    DisputeFreezesOrder
    CustodyEndsInHandover
    CaptureNeedsVerdict
