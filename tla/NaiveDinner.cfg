SPECIFICATION FairSpec
CONSTANTS
  PHILOSOPHERS = 5
  FOOD = 6
  Nobody = Nobody
INVARIANTS
  NoCircle
