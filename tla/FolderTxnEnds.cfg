\* Two overlapping requests of any kind, at most one of them a move; no symmetry, for liveness.
SPECIFICATION FairFromOne
CONSTANTS
  Folders = {f1, f2, f3}
  Sessions = {s1, s2}
  BaseNames = {a}
  User = u1
  Ops = {"create", "move", "delete", "restore", "purge", "empty"}
  MaxMoves = 1
  Nil = Nil
CHECK_DEADLOCK FALSE
PROPERTY
  EveryRequestEnds
