---------------------------- MODULE MCFileStore ----------------------------
(* FileStore for TLC: identifiers, places and sessions are interchangeable. *)
EXTENDS FileStore, TLC

Symmetry ==
  Permutations(Files) \cup Permutations(Places) \cup Permutations(Blobs) \cup Permutations(Sessions)

=============================================================================
