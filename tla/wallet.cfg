SPECIFICATION Spec
CONSTANTS
    i1 = i1
    i2 = i2
    m1 = m1
    m2 = m2
    s1 = s1
    s2 = s2
    NONE = NONE
    Intents = {i1, i2}
    Methods = {m1, m2}
    Slots = {s1, s2}
    MAX_CODES = 2
    Amounts = {1, 2}
    MAX_EARNED = 2
    CODE_LIMIT = 1
    MAX_ATTEMPTS = 1
    GO_ON = FALSE
SYMMETRY Symmetry
CHECK_DEADLOCK FALSE
INVARIANTS
    TypeOK
    IntentRunsOnce
    RunsBackedByCodes
    CodesAreBounded
    NeverOverdrawn
    AccountsInOrder
