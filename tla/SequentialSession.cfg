SPECIFICATION Spec
CONSTANTS
    Order <- ThreeActors
    Phases <- Nested
    SubPhases = 2
    Simultaneous = {"inner"}
    MustPass = FALSE
    Multiple = FALSE
    Rounds = TRUE
    MaxRounds <- BothLimits
    MaxTurns = 6
    MaxPauses = 1
    MaxNested = 3
INVARIANTS
    OneWindow
    NeverStranded
    AcceptedRunsOnce
    OneActionEach
    RoundCoversAll
    RoundsWithinLimit
PROPERTIES
    SessionFinishes
