SPECIFICATION FairSpec
CONSTANTS
  PHILOSOPHERS = 4
  FOOD = 5
  Nobody = Nobody
INVARIANTS
  DishesExact
  Exclusion
  SleepersJustified
PROPERTIES
  NoForkKept
  AllLeave
