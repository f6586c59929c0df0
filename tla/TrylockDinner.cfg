SPECIFICATION FairSpec
CONSTANTS
  PHILOSOPHERS = 3
  FOOD = 4
  Nobody = Nobody
PROPERTIES
  TrylockLeave
