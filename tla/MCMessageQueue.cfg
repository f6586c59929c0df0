SPECIFICATION EitherFairSpec
CONSTANTS
  Producers = {p1, p2}
  Consumers = {c1, c2}
  Main = main
  Nil = Nil
  Cells = {m1, m2, m3}
  messages_limit = 1
  SemProducers = {p1}
  SemCells = {m1, m2}
  SemLimit = 2
INVARIANTS
  EitherTypeOK
  OneOwnerOnCond
  IntactUnlessCaught
PROPERTIES
  ImplementsFifo
  EitherDropTerminates
