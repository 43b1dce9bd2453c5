SPECIFICATION LiveSpec

CONSTANTS
    j1 = j1
    j2 = j2
    h1 = h1
    h2 = h2
    Jids = {j1, j2}
    Hashes = {h1, h2}
    Announced <- OneChanges
    Leaving = {j2, "me"}
    MaxList = 2

INVARIANTS
    OneIsAsked

PROPERTIES
    WhoWaitsIsTold
    NobodyIsAwaitedForever
