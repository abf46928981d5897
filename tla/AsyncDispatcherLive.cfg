SPECIFICATION Spec
CONSTANTS
    c1 = c1
    c2 = c2
    tick = tick
    chA = chA
    chB = chB
    Clients = {c1, c2}
    Types = {tick}
    Keys = {tick}
    Matches <- MCMatches
    Channels = {chA}
    Reentrant = {"dispatch"}
    Failing = {}
    MaxCalls = 2
    MaxAccepted = 3
    MaxCopies = 1
PROPERTIES
    EventuallyRouted
    CallsReturn
    Implements
