\* One request at a time, no faults.
SPECIFICATION Spec
CONSTANTS
  Files = {f1}
  Places = {p1}
  Blobs = {b1, b2}
  Sessions = {s1}
  Faults = {}
  Ops = {"upload", "copy", "move", "delete", "trash", "restore", "purge", "empty", "revert"}
  Nil = Nil
SYMMETRY Symmetry
CHECK_DEADLOCK FALSE
PROPERTY
  RestoredHaveContent
