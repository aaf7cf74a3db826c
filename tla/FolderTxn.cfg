\* Two overlapping requests, at most one of them a move.
SPECIFICATION Spec
CONSTANTS
  Folders = {f1, f2, f3}
  Sessions = {s1, s2}
  BaseNames = {a, b}
  User = u1
  Ops = {"create", "move", "delete", "restore", "purge", "empty"}
  MaxMoves = 1
  Nil = Nil
SYMMETRY Symmetry
CHECK_DEADLOCK FALSE
INVARIANTS
  TypeOK
  TablesOK
  Acyclic
PROPERTY
  Serializable
