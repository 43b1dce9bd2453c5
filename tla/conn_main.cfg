SPECIFICATION Spec

CONSTANTS
    MaxAttempts = 2
    MaxRounds = 1
    SrvCounts = {0, 2}
    HostNameSet = {FALSE}
    OldSchoolSet = {FALSE}
    SyncFailures = FALSE
    Policies = {0}
    Validates = TRUE
    LateAnswers = TRUE
    EndsInStart = FALSE
    Reauthenticates = FALSE

\* No property of this run reads heard or told.
VIEW WithoutHistory

PROPERTIES
    NoReconnectBehindTheBack

INVARIANTS
    AliveHasSocket
    OneReader
    AuthenticatedByServer
    TimerEndsWithConnection

\* The bounds end every behaviour.
CHECK_DEADLOCK FALSE
