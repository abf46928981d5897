SPECIFICATION Spec
CONSTANTS
    Users = {ann, bob}
    Sessions = {s1, s2}
    Roles <- TwoSeats
    Workers = {w1, w2}
    Tabs = {}
    Types = {}
    MaxPerUser = 1
    MaxCalls = 1
    MaxEvents = 0
CHECK_DEADLOCK FALSE
INVARIANTS
    CapRespected
    OneSeatEach
    NoOrphanEngine
    TornDownOnce
PROPERTY
    ForgottenIsStopped
