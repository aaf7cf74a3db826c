---------------------------- MODULE MCVersionTxn ----------------------------
(* VersionTxn for TLC: identifiers, contents and sessions are interchangeable. *)
EXTENDS VersionTxn, TLC

Symmetry == Permutations(Versions) \cup Permutations(Contents) \cup Permutations(Sessions)

=============================================================================
