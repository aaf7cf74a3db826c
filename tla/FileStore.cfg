\* Two overlapping requests, two files, three blobs, two places; every fault.
SPECIFICATION Spec
CONSTANTS
  Files = {f1, f2}
  Places = {p1, p2}
  Blobs = {b1, b2, b3}
  Sessions = {s1, s2}
  Faults = {"put", "copy", "unlink", "db", "cancel"}
  Ops = {"upload", "copy", "move", "delete", "trash", "restore", "purge", "empty", "revert"}
  Nil = Nil
SYMMETRY Symmetry
CHECK_DEADLOCK FALSE
INVARIANTS
  TypeOK
  UntouchedHaveContent
  VersionsHaveFile
