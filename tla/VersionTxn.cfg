\* Three overlapping requests over three versions; contents do not matter to these invariants.
SPECIFICATION Spec
CONSTANTS
  Versions = {v1, v2, v3}
  Contents = {c1}
  Sessions = {s1, s2, s3}
  MaxNumber = 3
  Nil = Nil
SYMMETRY Symmetry
INVARIANTS
  TypeOK
  ServesCurrent
  CurrentKept
