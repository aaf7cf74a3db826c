SPECIFICATION Spec
CONSTANTS
  Users = {u1, u2}
  Sessions = {s1, s2}
  MaxDownloads = 2
  Scopes <- MCScopes
  Nil = Nil
SYMMETRY Symmetry
INVARIANTS
  TypeOK
  NoOrphans
  FailsOnlyByOverlap
  LinkLimit
PROPERTY NoResurrection
CHECK_DEADLOCK FALSE
