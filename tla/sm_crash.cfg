SPECIFICATION Spec

CONSTANTS
    MaxOut = 2
    MaxIn = 1
    MaxConn = 2
    MaxCrash = 1
    MaxQueue = 1
    Modulus = 100
    AsyncIds = FALSE
    AsyncHandled = FALSE
    IdLess = {}
    RequestCount = 2
    RequestTimeout = TRUE
    AckCount = 2
    AckTimeout = TRUE
    AckDelay = FALSE
    MayDecline = FALSE
    ResumeMayBreak = FALSE
    EnableLate = FALSE
    WillReceive = TRUE

INVARIANTS
    NoFalseAck

\* The bounds end every behaviour.
CHECK_DEADLOCK FALSE
