SPECIFICATION FairSpec
CONSTANTS
  Producers = {p1}
  Consumers = {c1}
  Main = main
  Nil = Nil
  Cells = {m1, m2}
  messages_limit = 1
PROPERTIES
  DropTerminates
