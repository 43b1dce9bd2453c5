SPECIFICATION LiveSpec

CONSTANTS
    MaxAttempts = 1
    MaxRounds = 1
    SrvCounts = {0, 2}
    HostNameSet = {FALSE, TRUE}
    OldSchoolSet = {FALSE, TRUE}
    SyncFailures = TRUE
    Policies = {1, 2}
    Validates = FALSE
    LateAnswers = FALSE
    EndsInStart = TRUE
    Reauthenticates = TRUE

PROPERTIES
    Settles

INVARIANTS
    ConnectedIsAnnounced

\* The bounds end every behaviour.
CHECK_DEADLOCK FALSE
