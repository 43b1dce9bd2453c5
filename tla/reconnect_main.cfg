SPECIFICATION LiveSpec

CONSTANTS
    MaxQueue = 2
    MaxQueries = 2
    TimerRepeats = TRUE
    TimerDelayed = TRUE
    SrvResolution = TRUE

INVARIANTS
    QuietWhenUp
    ProcessIsWantedUnchanged

PROPERTIES
    StopEnds
    Reconnects
