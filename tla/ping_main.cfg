SPECIFICATION LiveSpec

CONSTANTS
    Pings = {p1, p2}
    MaxQueue = 2
    TimesOut = TRUE

INVARIANTS
    AwaitingEnds
    MonitorsWhileUp
    PongIsFinal
    OldPingsForgotten

PROPERTIES
    SilenceIsNoticed
