SPECIFICATION FairSpec
CONSTANTS
  Producers = {p1}
  Consumers = {c1}
  Main = main
  Nil = Nil
  Limit = 2
  Rounds = 2
PROPERTIES
  QuitHeeded
