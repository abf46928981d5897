SPECIFICATION Spec
CONSTANTS
    Order <- TwoActors
    Rank <- Ranks
    Openings <- Starts
    Horizon = 3
    MaxUpsets = 2
    AutoSelect = TRUE
    Opens = TRUE
    Milestones <- Marks
    Threshold <- MarkAt
    OneShot = {"first", "late"}
    Initially <- NearBy
    Callback <- SafeCallbacks
    None = "none"
    Definitions <- Scenarios
    Requires <- Prerequisites
    Initial = {"intro"}
    NoSession = "menu"
    MaxStarts = 3
INVARIANTS
    MilestonesOnTime
    StillPlayable
    NeverStuck
    AnnouncedOnce
PROPERTIES
    NobodyPassedOver
