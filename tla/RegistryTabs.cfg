SPECIFICATION Spec
CONSTANTS
    Users = {ann}
    Sessions = {s1}
    Roles <- OneSeat
    Workers = {w1}
    Tabs = {b1, b2}
    Types = {board}
    MaxPerUser = 1
    MaxCalls = 1
    MaxEvents = 2
CHECK_DEADLOCK FALSE
INVARIANTS
    NeverBackwards
PROPERTY
    EventsReachTabs
