\* Three folders, two users, one typed name, at most one suffix.
SPECIFICATION Spec
CONSTANTS
  Folders = {f1, f2, f3}
  Users = {u1, u2}
  BaseNames = {a}
  MaxSuffix = 1
  MaxGrants = 1
  Nil = Nil
SYMMETRY Symmetry
INVARIANTS
  TypeOK
  RowsOK
  WalksAgree
  SearchSound
  Acyclic
  LiveUnderLive
PROPERTY
  EmptyTrashSparesLive
