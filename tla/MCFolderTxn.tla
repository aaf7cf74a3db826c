---------------------------- MODULE MCFolderTxn ----------------------------
(* FolderTxn for TLC: folders and sessions are interchangeable. *)
EXTENDS FolderTxn, TLC

Symmetry == Permutations(Folders) \cup Permutations(Sessions)

(* TLC must not use symmetry on a liveness property.  Instead the runs of   *)
(* one begin in one of the initial states that differ by a renaming only:   *)
(* parents before their children, rows before unused identifiers, and the   *)
(* sessions in the order of their operations.                               *)
Numbering(S) == CHOOSE n \in [S -> 1..Cardinality(S)] : \A x, y \in S : n[x] = n[y] => x = y

FolderNumber == Numbering(Folders)
SessionNumber == Numbering(Sessions)
OpNumber == Numbering(Ops)

Representative ==
  /\ \A f \in Rows, g \in Folders \ Rows : FolderNumber[f] < FolderNumber[g]
  /\ \A f \in Rows : parent[f] # Nil => FolderNumber[parent[f]] < FolderNumber[f]
  /\ \A s, t \in Sessions :
       SessionNumber[s] < SessionNumber[t] => OpNumber[req[s].op] <= OpNumber[req[t].op]

InitOne == Init /\ Representative

FairFromOne == InitOne /\ [][Next]_vars /\ Fairness

=============================================================================
