CONSTANTS
  Heroes <- MCHeroes
  Monsters <- MCMonsters
  Groups <- MCGroups
  Locations <- MCLocations
  Adjacent <- MCAdjacent
  Zone <- MCZone
  MaxHp <- MCMaxHp
  Squad <- MCSquad
  TimeLimits = {6}
  LastStand = TRUE
  Elimination = TRUE
  Exits <- MCExits
  Deck <- MCDeck
  Card <- MCCard
  HandLimit <- MCHandLimit
  Rank <- MCRank
  Start <- MCStart
  BehaviorDeck <- MCBehaviorDeck
  Objects <- MCObjects
  MaxSelected = 1
SPECIFICATION Spec
INVARIANTS NoCardLost SequenceKeepsTurn DeferredTurnEnds MissionDecided
CHECK_DEADLOCK FALSE
