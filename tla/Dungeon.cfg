SPECIFICATION Spec
CONSTANTS
    Maps <- Files
    MaxActionsPerTurn = 2
    Reaches = {1, 2}
    CardDamages = {0, 1}
    Blocks = {0, 1}
    NoActor = "nobody"
    NoAttack = NoAttack
INVARIANTS
    ActionsWithinLimit
    WindowAnswerable
    OnlyMonstersFall
PROPERTIES
    TurnsResume
\* The process may end: an exception that leaves main() terminates it.
CHECK_DEADLOCK FALSE
