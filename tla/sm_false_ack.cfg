SPECIFICATION Spec

CONSTANTS
    MaxOut = 2
    MaxIn = 0
    MaxConn = 3
    MaxCrash = 0
    MaxQueue = 1
    Modulus = 100
    AsyncIds = FALSE
    AsyncHandled = FALSE
    IdLess = {}
    RequestCount = 2
    RequestTimeout = TRUE
    AckCount = 2
    AckTimeout = TRUE
    AckDelay = FALSE
    MayDecline = TRUE
    ResumeMayBreak = FALSE
    EnableLate = FALSE
    WillReceive = FALSE

INVARIANTS
    NoFalseAck

\* The bounds end every behaviour.
CHECK_DEADLOCK FALSE
