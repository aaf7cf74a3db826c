\* One request at a time, five versions.
SPECIFICATION Spec
CONSTANTS
  Versions = {v1, v2, v3, v4, v5}
  Contents = {c1, c2}
  Sessions = {s1}
  MaxNumber = 5
  Nil = Nil
SYMMETRY Symmetry
INVARIANTS
  OneCurrent
  NumbersDistinct
PROPERTY
  Implements
