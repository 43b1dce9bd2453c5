SPECIFICATION LiveSpec

CONSTANTS
    MaxOut = 0
    MaxIn = 2
    MaxConn = 2
    MaxCrash = 0
    MaxQueue = 1
    Modulus = 100
    AsyncIds = FALSE
    AsyncHandled = TRUE
    IdLess = {}
    RequestCount = 2
    RequestTimeout = TRUE
    AckCount = 2
    AckTimeout = TRUE
    AckDelay = TRUE
    MayDecline = FALSE
    ResumeMayBreak = FALSE
    EnableLate = FALSE
    WillReceive = FALSE

PROPERTIES
    EventuallyAcked

INVARIANTS
    AutoAckArmed
    HandledSafe

\* The bounds end every behaviour.
CHECK_DEADLOCK FALSE
