SPECIFICATION MCSpec
CONSTANTS
  Workers = {w1, w2}
  Main = Main
  Clients = {c1, c2, c3}
  Urls = {u1, u2, Post}
  u1 = u1
  u2 = u2
  Post = Post
  Nil = Nil
  Relocks = {"blocks", "fails"}
  Kinds = {"ok", "short", "error", "nolength", "nobody"}
  Size = 2
  Limits = {1, 2}
SYMMETRY Symmetry
CONSTRAINT Bounded
CHECK_DEADLOCK FALSE
INVARIANTS
  CountExact
  
  CacheExact
  WaitersCared
