SPECIFICATION Spec
CONSTANTS
    c1 = c1
    c2 = c2
    tick = tick
    chA = chA
    chB = chB
    Clients = {c1, c2}
    Types = {tick}
    Keys = {tick, "*"}
    Matches <- SyncMatches
    Channels = {chA, chB}
    Reentrant = {"dispatch", "subscribe", "flush"}
    Failing = {chA, chB}
    MaxCalls = 3
    MaxAccepted = 2
    MaxCopies = 2
SYMMETRY Symmetry
CHECK_DEADLOCK FALSE
INVARIANTS
    NothingLost
    FlushWaitsForAll
    ShutdownComplete
    NoLostWakeup
PROPERTIES
    OneCopyPerSubscription
