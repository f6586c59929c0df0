SPECIFICATION FairSpec
CONSTANTS
  Workers = {w1}
  Main = Main
  Clients = {c1}
  Urls = {u1}
  Post = Post
  Nil = Nil
  Relocks = {"blocks"}
  Kinds = {"ok"}
  Size = 2
  Limits = {1}
PROPERTIES
  AcceptedServed
CHECK_DEADLOCK FALSE
