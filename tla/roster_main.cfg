SPECIFICATION LiveSpec

CONSTANTS
    Contacts <- MCContacts
    Ids <- MCIds
    Configs <- MCConfigs
    MaxQueue = 2
    MaxConns = 2
    MaxChanges = 3

INVARIANTS
    RosterMatches
    PresenceMatches
    KnownIsAccepted

PROPERTIES
    EarlyIsHeard

\* The bounds end every behaviour.
CHECK_DEADLOCK FALSE
