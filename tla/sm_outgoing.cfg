SPECIFICATION LiveSpec

CONSTANTS
    MaxOut = 3
    MaxIn = 0
    MaxConn = 1
    MaxCrash = 0
    MaxQueue = 1
    Modulus = 100
    AsyncIds = TRUE
    AsyncHandled = FALSE
    IdLess = {2}
    RequestCount = 2
    RequestTimeout = TRUE
    AckCount = 2
    AckTimeout = TRUE
    AckDelay = FALSE
    MayDecline = FALSE
    ResumeMayBreak = FALSE
    EnableLate = FALSE
    WillReceive = FALSE

INVARIANTS
    OffsetInRange
    AcksComplete
    AutoRequestArmed

PROPERTIES
    EventuallyReported

\* The bounds end every behaviour.
CHECK_DEADLOCK FALSE
