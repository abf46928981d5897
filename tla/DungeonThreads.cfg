SPECIFICATION Spec
CONSTANTS
    Maps <- WholeFiles
    MaxActionsPerTurn = 2
    Reaches = {1, 2}
    CardDamages = {0, 1}
    Blocks = {0, 1}
    NoActor = "nobody"
    NoAttack = NoAttack
INVARIANT
    MainLoopSurvives
