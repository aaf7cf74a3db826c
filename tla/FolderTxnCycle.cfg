\* Two overlapping moves.
SPECIFICATION Spec
CONSTANTS
  Folders = {f1, f2, f3}
  Sessions = {s1, s2}
  BaseNames = {a}
  User = u1
  Ops = {"create", "move", "delete", "restore", "purge", "empty"}
  MaxMoves = 2
  Nil = Nil
SYMMETRY Symmetry
CHECK_DEADLOCK FALSE
INVARIANT
  Acyclic
