--------------------------- MODULE MCFolderTree ---------------------------
(* FolderTree for TLC: folder identifiers and users are interchangeable. *)
EXTENDS FolderTree, TLC

Symmetry == Permutations(Folders) \cup Permutations(Users)

=============================================================================
