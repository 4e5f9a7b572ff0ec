SPECIFICATION Spec
CONSTANTS
    p1 = p1
    MAX_OFFERS = 2
    MAX_ASKS = 3
    TALK_ON = FALSE
    DropPrices = {1, 2, 3}
    MAX_CHANGES = 3
    MAX_JOBS = 2
    PayoutIds = {p1}
    MAX_CRASHES = 2
    Nothing = Nothing
    Members = {"s", "a", "b"}
    PairMembers = {"s", "b"}
    Panes = {"s", "a"}
    ByOrder = {"s"}
    Texts = {"t1"}
    MAX_INTENTS = 2
    MAX_REQUESTS = 2
    FLOW_ON = FALSE
    MAX_TRIES = 2
    MAX_TURNS = 1
    Users = {"u", "v"}
    Applicants = {"v"}
    RoleSets = {{}, {"OPS_AGENT"}, {"SUPER_ADMIN"}}
    MAX_FORMS = 2
    MAX_TASKS = 2
    STAFF_ON = FALSE
CHECK_DEADLOCK FALSE
INVARIANTS
    TypeOK
    OffersInTurn
    LogMatchesListing
    
    ExpiredKeepsNoMoney
    PairStaysPrivate
    PaneUpToDate
    TextsSettle
    SuperRemains
    AuthenticatorsFit
PROPERTIES
    AnswerStands
    PayoutLife
    EveryPayoutSettles
