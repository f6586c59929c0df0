SPECIFICATION FairSpec
CONSTANTS
  Producers = {p1, p2}
  Consumers = {c1, c2}
  Main = main
  Nil = Nil
  Limit = 2
  Rounds = 2
INVARIANTS
  TypeOK
  ListFaithful
  WaitersJustified
  DestroyExact
PROPERTIES
  ImplementsFifo
  DropTerminates
  Delivered
