SPECIFICATION Spec

CONSTANTS
    MaxOut = 2
    MaxIn = 0
    MaxConn = 3
    MaxCrash = 0
    MaxQueue = 1
    Modulus = 100
    AsyncIds = TRUE
    AsyncHandled = FALSE
    IdLess = {}
    RequestCount = 1
    RequestTimeout = TRUE
    AckCount = 1
    AckTimeout = TRUE
    AckDelay = TRUE
    MayDecline = FALSE
    ResumeMayBreak = TRUE
    EnableLate = FALSE
    WillReceive = FALSE

INVARIANTS
    StoreMatchesServer
    AcksComplete

PROPERTIES
    ImplementsDelivery

\* The bounds end every behaviour.
CHECK_DEADLOCK FALSE
