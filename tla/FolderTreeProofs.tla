-------------------------- MODULE FolderTreeProofs --------------------------
(***************************************************************************)
(* FolderTree for any number of folders, users and names: the typing and   *)
(* the foreign keys of the rows, a parent relation without cycles, and a   *)
(* trash that holds whole subtrees only.                                   *)
(***************************************************************************)
EXTENDS FolderTree, TLAPS

USE NilAssumption, BoundsAssumption

(***************************************************************************)
(* Lemmas about the walk.                                                  *)
(***************************************************************************)
LEMMA ChainRefl == ASSUME NEW f \in Folders PROVE f \in Chain(f)
BY DEF Chain, Walk

\* the chain of a parent is part of the chain of its child
LEMMA ChainParent ==
  ASSUME NEW f \in Folders, parent[f] \in Folders
  PROVE  Chain(parent[f]) \subseteq Chain(f)
<1> SUFFICES ASSUME NEW g \in Chain(parent[f]), NEW C \in SUBSET Folders,
                    f \in C, ClosedUpTo(C, {})
             PROVE  g \in C
  BY DEF Chain, Walk
<1>1. parent[f] \in C
  BY DEF ClosedUpTo
<1>. QED BY <1>1 DEF Chain, Walk

\* whatever the walk from f reaches beyond f, the walk from the parent of f reaches
LEMMA WalkUp ==
  ASSUME NEW f \in Folders, NEW S, NEW g \in Walk(f, S), g # f,
         parent[f] \in Folders \cup {Nil}
  PROVE  f \notin S /\ parent[f] \in Folders /\ g \in Walk(parent[f], S)
<1>0. g \in Folders
  BY DEF Walk
<1>1. f \notin S /\ parent[f] \in Folders
  <2> SUFFICES ASSUME f \in S \/ parent[f] = Nil PROVE FALSE
    OBVIOUS
  <2>1. ClosedUpTo({f}, S)
    BY DEF ClosedUpTo
  <2>. QED BY <2>1 DEF Walk
<1>2. ASSUME NEW C \in SUBSET Folders, parent[f] \in C, ClosedUpTo(C, S)
      PROVE  g \in C
  <2>1. C \cup {f} \in SUBSET Folders /\ ClosedUpTo(C \cup {f}, S)
    BY <1>2 DEF ClosedUpTo
  <2>2. g \in C \cup {f}
    BY <2>1 DEF Walk
  <2>. QED BY <2>2
<1>. QED BY <1>0, <1>1, <1>2 DEF Walk

\* hence: below r but not r itself means that the parent is below r too
LEMMA SubtreeParent ==
  ASSUME RowsOK, live \subseteq Folders, trashed \subseteq Folders,
         NEW r \in Folders, NEW f \in Subtree(r), f # r
  PROVE  parent[f] \in Subtree(r)
<1>1. f \in Folders /\ f \in Rows /\ r \in Chain(f)
  BY DEF Subtree, Rows
<1>2. parent[f] \in Rows \cup {Nil} /\ Rows \subseteq Folders
  BY <1>1 DEF RowsOK, Rows
<1>3. parent[f] \in Folders /\ r \in Chain(parent[f])
  BY <1>1, <1>2, WalkUp DEF Chain
<1>. QED BY <1>2, <1>3 DEF Subtree

\* and a child of a folder of the subtree is in the subtree
LEMMA SubtreeChild ==
  ASSUME live \subseteq Folders, trashed \subseteq Folders,
         NEW r \in Folders, NEW f \in Rows, parent[f] \in Subtree(r)
  PROVE  f \in Subtree(r)
<1>1. f \in Folders /\ parent[f] \in Folders /\ r \in Chain(parent[f])
  BY DEF Subtree, Rows
<1>. QED BY <1>1, ChainParent DEF Subtree

(***************************************************************************)
(* The inductive invariant.  TypeOK alone is not inductive: copying reads  *)
(* the name and parent of a row, which RowsOK puts in their types.         *)
(* LiveUnderLive needs RowsOK because restore climbs from a row to its     *)
(* parent row, and Acyclic needs it because an identifier copy is about to *)
(* use must not already be somebody's parent.                              *)
(***************************************************************************)
IInv == TypeOK /\ RowsOK /\ Acyclic /\ LiveUnderLive

LEMMA InitIInv == Init => IInv
BY DEF Init, IInv, TypeOK, RowsOK, Acyclic, LiveUnderLive, Rows, Roles

LEMMA CreateStep ==
  ASSUME IInv, NEW u \in Users, NEW b \in BaseNames, NEW p \in Folders \cup {Nil},
         Create(u, b, p)
  PROVE  IInv'
<1>1. PICK f \in Folders : 
        /\ f \notin Rows
        /\ live' = live \cup {f}
        /\ parent' = [parent EXCEPT ![f] = p]
        /\ owner' = [owner EXCEPT ![f] = u]
        /\ name' = [name EXCEPT ![f] = Plain(b)]
        /\ p \in live \cup {Nil}
        /\ UNCHANGED <<trashed, role>>
  BY DEF Create, Fresh, TargetOK, OwnedLive
<1>2. Plain(b) \in Names
  BY DEF Plain, Names
<1>3. TypeOK'
  BY <1>1, <1>2 DEF IInv, TypeOK, Rows
<1>4. RowsOK'
  BY <1>1, <1>2 DEF IInv, TypeOK, RowsOK, Rows
<1>5. LiveUnderLive'
  BY <1>1 DEF IInv, TypeOK, LiveUnderLive, Rows
<1>6. Acyclic'
  <2> SUFFICES ASSUME NEW S \in SUBSET Folders, S # {},
                      \A x \in S : parent'[x] \in S
               PROVE  FALSE
    BY DEF Acyclic
  <2>1. CASE f \in S /\ S \ {f} = {}
    BY <1>1, <2>1 DEF IInv, TypeOK, Rows
  <2>2. CASE S \ {f} # {}
    <3>1. PICK x \in S \ {f} : parent[x] \notin S \ {f}
      BY <2>2 DEF IInv, Acyclic
    <3>2. parent[x] = f
      BY <1>1, <3>1 DEF IInv, TypeOK
    <3>. QED BY <1>1, <3>2 DEF IInv, RowsOK, TypeOK, Rows
  <2>. QED BY <2>1, <2>2
<1>. QED BY <1>3, <1>4, <1>5, <1>6 DEF IInv

\* an action that leaves the shape of the tree alone
LEMMA SameShape ==
  ASSUME IInv, TypeOK', UNCHANGED <<live, trashed, parent>>,
         \A f \in Rows : owner'[f] \in Users /\ name'[f] \in Names
  PROVE  IInv'
BY DEF IInv, TypeOK, RowsOK, Acyclic, LiveUnderLive, Rows

LEMMA DeleteStep ==
  ASSUME IInv, NEW u \in Users, NEW f \in Folders, Delete(u, f)
  PROVE  IInv'
<1>1. Subtree(f) \subseteq Folders /\ Subtree(f) \subseteq Rows
  BY DEF Subtree, Rows, IInv, TypeOK
<1>2. Rows' = Rows /\ UNCHANGED <<parent, owner, name, role>>
  BY <1>1 DEF Delete, Rows
<1>3. TypeOK'
  BY <1>1 DEF Delete, IInv, TypeOK
<1>4. RowsOK' /\ Acyclic'
  BY <1>2 DEF IInv, RowsOK, Acyclic
<1>5. LiveUnderLive'
  <2> SUFFICES ASSUME NEW x \in live', parent[x] # Nil
               PROVE  parent[x] \in live'
    BY <1>2 DEF LiveUnderLive
  <2>1. x \in live /\ x \notin Subtree(f) /\ parent[x] \in live
    BY DEF Delete, IInv, LiveUnderLive
  <2>2. parent[x] \notin Subtree(f)
    BY <2>1, SubtreeChild DEF IInv, TypeOK, Rows
  <2>. QED BY <2>1, <2>2 DEF Delete
<1>. QED BY <1>3, <1>4, <1>5 DEF IInv

LEMMA MoveStep ==
  ASSUME IInv, NEW u \in Users, NEW f \in Folders, NEW p \in Folders \cup {Nil}, Move(u, f, p)
  PROVE  IInv'
<1>1. /\ f \in live
      /\ p \in live \cup {Nil}
      /\ p # Nil => f \notin Chain(p)
      /\ parent' = [parent EXCEPT ![f] = p]
      /\ UNCHANGED <<live, trashed, owner, name, role>>
  BY DEF Move, MoveAllowed, MayEdit, TargetOK, OwnedLive, IsAncestor
<1>2. TypeOK' /\ RowsOK' /\ LiveUnderLive'
  BY <1>1 DEF IInv, TypeOK, RowsOK, LiveUnderLive, Rows
<1>3. Acyclic'
  <2> SUFFICES ASSUME NEW S \in SUBSET Folders, S # {},
                      \A x \in S : parent'[x] \in S
               PROVE  FALSE
    BY DEF Acyclic
  <2>1. f \in S /\ p \in S /\ p \in Folders
    <3>1. PICK x \in S : parent[x] \notin S
      BY DEF IInv, Acyclic
    <3>2. x = f /\ p \in S
      BY <1>1, <3>1 DEF IInv, TypeOK
    <3>. QED BY <3>2
  \* the target climbs to the root without meeting f ...
  <2>2. PICK C \in SUBSET Folders : p \in C /\ ClosedUpTo(C, {}) /\ f \notin C
    BY <1>1, <2>1 DEF Chain, Walk
  \* ... so the part of S on that way climbs out of S without f
  <2>3. PICK x \in S \cap C : parent[x] \notin S \cap C
    BY <2>1, <2>2 DEF IInv, Acyclic
  <2>4. parent'[x] = parent[x] /\ parent[x] \in S
    BY <1>1, <2>2, <2>3 DEF IInv, TypeOK
  <2>5. parent[x] \in C \cup {Nil}
    BY <2>2, <2>3 DEF ClosedUpTo
  <2>. QED BY <2>3, <2>4, <2>5
<1>. QED BY <1>2, <1>3 DEF IInv

LEMMA RestoreStep ==
  ASSUME IInv, NEW u \in Users, NEW f \in Folders, Restore(u, f)
  PROVE  IInv'
<1>1. Subtree(f) \subseteq Folders /\ Subtree(f) \subseteq Rows
  BY DEF Subtree, Rows, IInv, TypeOK
<1>2. Rows' = Rows /\ UNCHANGED <<parent, owner, role>>
  BY <1>1 DEF Restore, Rows
<1>3. name[f] \in Names /\ Suffixed(name[f], 0) \in Names
  <2>1. name[f] \in Names
    BY DEF Restore, IInv, RowsOK, Rows
  <2>. QED BY <2>1 DEF Names, Suffixed
<1>4. TypeOK'
  BY <1>1, <1>3 DEF Restore, IInv, TypeOK
<1>5. RowsOK'
  BY <1>2, <1>3 DEF Restore, IInv, RowsOK, TypeOK, Rows
<1>6. Acyclic'
  BY <1>2 DEF IInv, Acyclic
<1>7. LiveUnderLive'
  <2> SUFFICES ASSUME NEW x \in live', parent[x] # Nil
               PROVE  parent[x] \in live'
    BY <1>2 DEF LiveUnderLive
  <2>1. CASE x \in live
    BY <2>1 DEF Restore, IInv, LiveUnderLive
  <2>2. CASE x = f
    BY <2>2 DEF Restore, TargetOK, OwnedLive
  <2>3. CASE x \in Subtree(f) /\ x # f
    BY <2>3, SubtreeParent DEF Restore, IInv, TypeOK
  <2>. QED BY <2>1, <2>2, <2>3 DEF Restore
<1>. QED BY <1>4, <1>5, <1>6, <1>7 DEF IInv

\* a set of rows that goes together with everything below it
LEMMA PurgeStep ==
  ASSUME IInv, NEW S \in SUBSET Folders, Purge(S),
         \A x \in Rows : parent[x] \in S => x \in S
  PROVE  IInv'
<1>1. TypeOK'
  BY DEF Purge, IInv, TypeOK, Roles
<1>2. RowsOK'
  BY DEF Purge, IInv, TypeOK, RowsOK, Rows
<1>3. LiveUnderLive'
  BY DEF Purge, IInv, TypeOK, LiveUnderLive, Rows
<1>4. Acyclic'
  BY DEF Purge, IInv, Acyclic
<1>. QED BY <1>1, <1>2, <1>3, <1>4 DEF IInv

LEMMA PermanentDeleteStep ==
  ASSUME IInv, NEW u \in Users, NEW f \in Folders, PermanentDelete(u, f)
  PROVE  IInv'
<1>1. \A x \in Rows : parent[x] \in Subtree(f) => x \in Subtree(f)
  BY SubtreeChild DEF IInv, TypeOK
<1>2. Subtree(f) \in SUBSET Folders
  BY DEF Subtree, Rows, IInv, TypeOK
<1>. QED BY <1>1, <1>2, PurgeStep DEF PermanentDelete

LEMMA EmptyTrashStep ==
  ASSUME IInv, NEW u \in Users, EmptyTrash(u)
  PROVE  IInv'
<1> DEFINE S == {g \in Rows : \E f \in Trash(u) : g \in Subtree(f)}
<1>1. S \in SUBSET Folders
  BY DEF Rows, IInv, TypeOK
<1>2. ASSUME NEW x \in Rows, parent[x] \in S PROVE x \in S
  <2>1. PICK f \in Trash(u) : parent[x] \in Subtree(f)
    BY <1>2
  <2>2. f \in Folders
    BY DEF Trash, IInv, TypeOK
  <2>3. x \in Subtree(f)
    BY <2>1, <2>2, SubtreeChild DEF IInv, TypeOK
  <2>. QED BY <2>1, <2>3
<1>3. Purge(S)
  BY DEF EmptyTrash
<1> HIDE DEF S
<1>. QED BY <1>1, <1>2, <1>3, PurgeStep

(***************************************************************************)
(* Copying a subtree.                                                      *)
(***************************************************************************)
LEMMA CopyScopeFacts ==
  ASSUME IInv, NEW u \in Users, NEW f \in live
  PROVE  /\ f \in CopyScope(u, f)
         /\ CopyScope(u, f) \subseteq live
         /\ \A g \in CopyScope(u, f) : g # f => parent[g] \in CopyScope(u, f)
<1> DEFINE stop == {f} \cup {h \in Folders : ~OwnedLive(u, h)}
<1>0. f \in Folders /\ live \subseteq Folders
  BY DEF IInv, TypeOK
<1>1. f \in CopyScope(u, f)
  BY <1>0 DEF CopyScope, Walk
<1>2. ASSUME NEW g \in CopyScope(u, f), g # f
      PROVE  g \in live /\ parent[g] \in CopyScope(u, f)
  <2>1. g \in Folders /\ f \in Walk(g, stop)
    BY DEF CopyScope
  <2>2. parent[g] \in Folders \cup {Nil}
    BY <2>1 DEF IInv, TypeOK
  <2> HIDE DEF stop
  <2>3. g \notin stop /\ parent[g] \in Folders /\ f \in Walk(parent[g], stop)
    BY <1>2, <2>1, <2>2, WalkUp
  <2> USE DEF stop
  <2>4. g \in live
    BY <2>1, <2>3 DEF OwnedLive
  <2>. QED BY <2>3, <2>4 DEF CopyScope
<1>. QED BY <1>1, <1>2

LEMMA CopyStep ==
  ASSUME IInv, NEW u \in Users, NEW f \in Folders, NEW p \in Folders \cup {Nil}, Copy(u, f, p)
  PROVE  IInv'
<1> DEFINE D == CopyScope(u, f)
<1>1. f \in live /\ p \in live \cup {Nil} /\ UNCHANGED <<trashed, role>>
  BY DEF Copy, MayEdit, TargetOK, OwnedLive
<1>2. f \in D /\ D \subseteq live /\ \A g \in D : g # f => parent[g] \in D
  BY <1>1, CopyScopeFacts
<1>3. PICK c \in CopyNames(name[f]), m \in Injection(D, {g \in Folders : Fresh(g)}) :
        InsertCopies(u, f, p, c, m)
  BY DEF Copy
<1> HIDE DEF D
<1>4. /\ m \in [D -> Folders]
      /\ \A g, h \in D : m[g] = m[h] => g = h
      /\ \A g \in D : m[g] \notin Rows
  BY <1>3 DEF Injection, IsInjective, Fresh
<1> DEFINE R == {m[g] : g \in D}
           source == AntiFunction(m)
<1>5. \A h \in R : source[h] \in D /\ m[source[h]] = h
  <2>1. DOMAIN m = D /\ Range(m) = R
    BY <1>4 DEF Range
  <2>2. \A h \in R : source[h] = CHOOSE g \in D : h \in R => m[g] = h
    BY <2>1 DEF AntiFunction, Inverse
  <2>. QED BY <2>2
<1>6. /\ live' = live \cup R
      /\ parent' = [h \in Folders |-> IF h \notin R THEN parent[h]
                                      ELSE IF source[h] = f THEN p ELSE m[parent[source[h]]]]
      /\ owner' = [h \in Folders |-> IF h \in R THEN u ELSE owner[h]]
      /\ name' = [h \in Folders |-> IF h \notin R THEN name[h]
                                    ELSE IF source[h] = f THEN c ELSE name[source[h]]]
  <2>1. Range(m) = R
    BY <1>4 DEF Range
  <2>. QED BY <1>3, <2>1 DEF InsertCopies
<1> HIDE DEF source
<1>7. R \subseteq Folders /\ R \cap Rows = {}
  BY <1>4
<1>8. c \in Names
  <2>1. name[f] \in Names
    BY <1>1 DEF IInv, RowsOK, Rows
  <2>2. ASSUME NEW k \in 1..Cardinality(Folders) + 1 PROVE Suffixed(name[f], k) \in Names
    <3>1. k \in Nat
      OBVIOUS
    <3>. QED BY <2>1, <3>1 DEF Names, Suffixed
  <2>. QED BY <2>1, <2>2, <1>3 DEF CopyNames
<1>9. \A h \in R : /\ parent'[h] \in R \cup live \cup {Nil}
                   /\ owner'[h] = u
                   /\ name'[h] \in Names
  <2> TAKE h \in R
  <2>1. source[h] \in live /\ source[h] \in D /\ name[source[h]] \in Names
    BY <1>2, <1>5 DEF IInv, RowsOK, Rows
  <2>. QED BY <1>1, <1>2, <1>5, <1>6, <1>7, <1>8, <2>1
<1> HIDE DEF R
<1>10. \A h \in Folders \ R : UNCHANGED <<parent[h], owner[h], name[h]>>
  BY <1>6
<1>11. TypeOK'
  BY <1>1, <1>6, <1>7, <1>9, <1>10 DEF IInv, TypeOK, Rows
<1>12. RowsOK'
  <2>1. Rows' = Rows \cup R /\ Rows \subseteq Folders \ R /\ live \subseteq Rows
    BY <1>1, <1>6, <1>7 DEF IInv, TypeOK, Rows
  <2>2. ASSUME NEW h \in Rows'
        PROVE  parent'[h] \in Rows' \cup {Nil} /\ owner'[h] \in Users /\ name'[h] \in Names
    <3>1. CASE h \in R
      BY <1>9, <2>1, <3>1
    <3>2. CASE h \in Rows
      BY <1>10, <2>1, <3>2 DEF IInv, RowsOK
    <3>. QED BY <2>1, <2>2, <3>1, <3>2
  <2>3. ASSUME NEW h \in Folders \ Rows' PROVE parent'[h] = Nil
    BY <1>10, <2>1, <2>3 DEF IInv, RowsOK
  <2>. QED BY <2>2, <2>3 DEF RowsOK
<1>13. LiveUnderLive'
  BY <1>6, <1>7, <1>9, <1>10 DEF IInv, TypeOK, LiveUnderLive
<1>14. Acyclic'
  <2> SUFFICES ASSUME NEW S \in SUBSET Folders, S # {},
                      \A x \in S : parent'[x] \in S
               PROVE  FALSE
    BY DEF Acyclic
  \* the old part of S would be closed on its own: no old row hangs under a copy
  <2>1. CASE S \ R # {}
    <3>1. PICK x \in S \ R : parent[x] \notin S \ R
      BY <2>1 DEF IInv, Acyclic
    <3>2. parent[x] \in R
      BY <1>10, <3>1
    <3>. QED BY <1>7, <3>1, <3>2 DEF IInv, RowsOK, TypeOK, Rows
  \* and the originals of the copies in S as well
  <2>2. CASE S \subseteq R
    <3> DEFINE T == {g \in D : m[g] \in S}
    <3>1. T # {}
      BY <1>5, <2>2
    <3>2. T \in SUBSET Folders
      BY <1>2 DEF IInv, TypeOK
    <3>3. PICK g \in T : parent[g] \notin T
      BY <3>1, <3>2 DEF IInv, Acyclic
    <3>4. m[g] \in R /\ m[g] \in Folders /\ source[m[g]] = g
      BY <1>4, <1>5, <1>7 DEF R
    <3>5. CASE g = f
      <4>1. parent'[m[g]] = p
        BY <1>6, <3>4, <3>5
      <4>. QED BY <1>1, <1>7, <2>2, <4>1 DEF IInv, TypeOK, Rows
    <3>6. CASE g # f
      <4>1. parent'[m[g]] = m[parent[g]] /\ parent[g] \in D
        BY <1>2, <1>6, <3>4, <3>6
      <4>. QED BY <3>3, <4>1
    <3>. QED BY <3>5, <3>6
  <2>. QED BY <2>1, <2>2
<1>. QED BY <1>11, <1>12, <1>13, <1>14 DEF IInv

(***************************************************************************)
(* Operations that leave the shape of the tree alone.                      *)
(***************************************************************************)
LEMMA RenameStep ==
  ASSUME IInv, NEW u \in Users, NEW f \in Folders, NEW b \in BaseNames, Rename(u, f, b)
  PROVE  IInv'
<1>1. Plain(b) \in Names
  BY DEF Plain, Names
<1>2. TypeOK' /\ UNCHANGED <<live, trashed, parent, owner>>
  BY <1>1 DEF Rename, IInv, TypeOK
<1>3. \A g \in Rows : owner'[g] \in Users /\ name'[g] \in Names
  BY <1>1 DEF Rename, IInv, RowsOK, TypeOK, Rows
<1>. QED BY <1>2, <1>3, SameShape

LEMMA TransferStep ==
  ASSUME IInv, NEW u \in Users, NEW v \in Users, NEW f \in Folders, TransferOwnership(u, f, v)
  PROVE  IInv'
<1>1. TypeOK' /\ UNCHANGED <<live, trashed, parent>>
  BY DEF TransferOwnership, IInv, TypeOK
<1>2. \A g \in Rows : owner'[g] \in Users /\ name'[g] \in Names
  BY DEF TransferOwnership, IInv, RowsOK, TypeOK, Rows
<1>. QED BY <1>1, <1>2, SameShape

LEMMA PermissionStep ==
  ASSUME IInv, NEW v \in Users, NEW f \in Folders, NEW r \in Roles,
         role' = [role EXCEPT ![v][f] = r], UNCHANGED rowVars
  PROVE  IInv'
<1>1. TypeOK'
  BY DEF rowVars, IInv, TypeOK
<1>2. \A g \in Rows : owner'[g] \in Users /\ name'[g] \in Names
  BY DEF rowVars, IInv, RowsOK
<1>. QED BY <1>1, <1>2, SameShape DEF rowVars

LEMMA SharingStepIInv ==
  ASSUME IInv, NEW u \in Users, SharingStep(u)
  PROVE  IInv'
<1>1. PICK f \in Folders, v \in Users :
        \/ \E r \in Roles \ {"none"} : Share(u, f, v, r) \/ UpdatePermission(u, f, v, r)
        \/ RemovePermission(u, f, v)
        \/ TransferOwnership(u, f, v)
  BY DEF SharingStep
<1>2. ASSUME NEW r \in Roles \ {"none"}, Share(u, f, v, r) \/ UpdatePermission(u, f, v, r)
      PROVE  IInv'
  BY <1>2, PermissionStep DEF Share, UpdatePermission
<1>3. CASE RemovePermission(u, f, v)
  <2>1. "none" \in Roles
    BY DEF Roles
  <2>. QED BY <1>3, <2>1, PermissionStep DEF RemovePermission
<1>4. CASE TransferOwnership(u, f, v)
  BY <1>4, TransferStep
<1>. QED BY <1>1, <1>2, <1>3, <1>4

LEMMA FolderStepIInv ==
  ASSUME IInv, NEW u \in Users, FolderStep(u)
  PROVE  IInv'
BY CreateStep, RenameStep, DeleteStep, MoveStep, CopyStep, RestoreStep,
   PermanentDeleteStep, EmptyTrashStep DEF FolderStep

LEMMA NextIInv == IInv /\ [Next]_vars => IInv'
<1> SUFFICES ASSUME IInv, [Next]_vars PROVE IInv'
  OBVIOUS
<1>1. CASE Next
  BY <1>1, FolderStepIInv, SharingStepIInv DEF Next
<1>2. CASE UNCHANGED vars
  BY <1>2 DEF vars, IInv, TypeOK, RowsOK, Acyclic, LiveUnderLive, Rows
<1>. QED BY <1>1, <1>2

(* The inductive invariant: typing, foreign keys, no cycle and a trash of  *)
(* whole subtrees hold together, since each operation's proof of one of    *)
(* them rests on the others.                                               *)
THEOREM Invariance == Spec => []IInv
BY InitIInv, NextIInv, PTL DEF Spec

(* Every reachable table is well typed, whatever sequence of requests the  *)
(* service has served: no folder is live and in the trash at once.         *)
THEOREM TablesTyped == Spec => []TypeOK
<1>1. IInv => TypeOK
  BY DEF IInv
<1>. QED BY <1>1, Invariance, PTL

(* Every reachable table is well typed and every parent_id of a row refers *)
(* to a row, whatever sequence of requests the service has served.         *)
THEOREM TreeTyped == Spec => [](TypeOK /\ RowsOK)
<1>1. IInv => TypeOK /\ RowsOK
  BY DEF IInv
<1>. QED BY <1>1, Invariance, PTL

(* Served one after another, requests never make a cycle of folders, so    *)
(* every walk of the service along the tree ends.                          *)
THEOREM TreeAcyclic == Spec => []Acyclic
<1>1. IInv => Acyclic
  BY DEF IInv
<1>. QED BY <1>1, Invariance, PTL

(* A folder outside the trash never sits below one inside it.              *)
THEOREM TrashIsDownClosed == Spec => []LiveUnderLive
<1>1. IInv => LiveUnderLive
  BY DEF IInv
<1>. QED BY <1>1, Invariance, PTL

(* Below a trashed folder there are trashed folders only.  (The set L of   *)
(* live folders below f would contain its own parents, up to f.)           *)
LEMMA SubtreeOfTrash ==
  ASSUME IInv, NEW f \in trashed
  PROVE  Subtree(f) \subseteq trashed
<1> SUFFICES ASSUME Subtree(f) \cap live # {} PROVE FALSE
  BY DEF Subtree, Rows
<1>1. /\ Subtree(f) \cap live \in SUBSET Folders
      /\ f \in Folders /\ f \notin live
      /\ live \subseteq Folders /\ trashed \subseteq Folders
  BY DEF IInv, TypeOK
<1>2. PICK x \in Subtree(f) \cap live : parent[x] \notin Subtree(f) \cap live
  BY <1>1 DEF IInv, Acyclic
<1>3. parent[x] \in Subtree(f)
  BY <1>1, <1>2, SubtreeParent DEF IInv
<1>4. parent[x] \in Folders
  BY <1>1, <1>3 DEF Subtree, Rows
<1>. QED BY <1>2, <1>3, <1>4 DEF IInv, LiveUnderLive

(* Emptying the trash never destroys a folder that is not in it.           *)
THEOREM EmptyTrashSafe == Spec => EmptyTrashSparesLive
<1>1. ASSUME IInv, NEW u \in Users, EmptyTrash(u) PROVE live' = live
  <2>1. ASSUME NEW f \in Trash(u) PROVE Subtree(f) \cap live = {}
    <3>1. f \in trashed
      BY DEF Trash
    <3>. QED BY <1>1, <3>1, SubtreeOfTrash DEF IInv, TypeOK
  <2>. QED BY <1>1, <2>1 DEF EmptyTrash, Purge
<1>2. IInv /\ [Next]_vars => [\A u \in Users : EmptyTrash(u) => live' = live]_vars
  BY <1>1
<1>. QED BY <1>2, Invariance, PTL DEF Spec, EmptyTrashSparesLive

(***************************************************************************)
(* The permission walks.                                                   *)
(***************************************************************************)
\* inside a set that contains its own parents, only the stops inside it matter
LEMMA WalkWithin ==
  ASSUME NEW L \in SUBSET Folders, ClosedUpTo(L, {}), NEW f \in L,
         NEW S, NEW T, T \cap L \subseteq S
  PROVE  Walk(f, S) \subseteq Walk(f, T) \cap L
<1> SUFFICES ASSUME NEW g \in Walk(f, S) PROVE g \in Walk(f, T) /\ g \in L
  OBVIOUS
<1>1. g \in L
  <2>1. ClosedUpTo(L, S)
    BY DEF ClosedUpTo
  <2>. QED BY <2>1 DEF Walk
<1>2. ASSUME NEW C \in SUBSET Folders, f \in C, ClosedUpTo(C, T) PROVE g \in C
  <2>1. ClosedUpTo(C \cap L, S)
    BY <1>2 DEF ClosedUpTo
  <2>2. C \cap L \in SUBSET Folders /\ f \in C \cap L
    BY <1>2
  <2>. QED BY <2>1, <2>2 DEF Walk
<1>. QED BY <1>1, <1>2 DEF Walk

\* a walk that could meet a stop does meet one
LEMMA WalkMeets ==
  ASSUME TypeOK, NEW f \in Folders, NEW S, Chain(f) \cap S # {}
  PROVE  Walk(f, S) \cap S # {}
<1> SUFFICES ASSUME Walk(f, S) \cap S = {} PROVE FALSE
  OBVIOUS
<1>1. Walk(f, S) \in SUBSET Folders /\ f \in Walk(f, S)
  BY DEF Walk
<1>2. ClosedUpTo(Walk(f, S), {})
  <2> SUFFICES ASSUME NEW h \in Walk(f, S), parent[h] # Nil PROVE parent[h] \in Walk(f, S)
    BY DEF ClosedUpTo
  <2>1. h \in Folders /\ h \notin S /\ parent[h] \in Folders
    BY <1>1 DEF TypeOK
  <2>2. ASSUME NEW C \in SUBSET Folders, f \in C, ClosedUpTo(C, S) PROVE parent[h] \in C
    <3>1. h \in C
      BY <2>2 DEF Walk
    <3>. QED BY <2>1, <2>2, <3>1 DEF ClosedUpTo
  <2>. QED BY <2>1, <2>2 DEF Walk
<1>3. Chain(f) \subseteq Walk(f, S)
  BY <1>1, <1>2 DEF Chain, Walk
<1>. QED BY <1>3

\* above a live folder there are live folders only, so has_access never stops in vain
LEMMA AccessOfLive ==
  ASSUME IInv, NEW u \in Users, NEW f \in live
  PROVE  HasAccess(u, f) <=> Walk(f, Granting(u)) \cap Granting(u) # {}
<1> DEFINE S == Granting(u) \cup (Folders \ live)
<1>1. live \in SUBSET Folders /\ ClosedUpTo(live, {})
  BY DEF IInv, TypeOK, LiveUnderLive, ClosedUpTo
<1>2. Walk(f, S) \subseteq Walk(f, Granting(u)) \cap live
  BY <1>1, WalkWithin
<1>3. S \cap live \subseteq Granting(u)
  OBVIOUS
<1>4. Walk(f, Granting(u)) \subseteq Walk(f, S) \cap live
  BY <1>1, <1>3, WalkWithin
<1>. QED BY <1>2, <1>4 DEF HasAccess

(* Whatever trees, owners, permissions and trash the requests have left,   *)
(* the check of a role and the check of access agree on every live folder. *)
THEOREM WalksAlwaysAgree == Spec => []WalksAgree
<1>1. ASSUME IInv, NEW u \in Users, NEW f \in live
      PROVE  HasAccess(u, f) <=> EffectiveRole(u, f) # "none"
  <2> DEFINE giving == {g \in Folders : RoleAt(u, g) # "none"}
             first == Walk(f, giving) \cap giving
  <2>1. live \in SUBSET Folders /\ ClosedUpTo(live, {})
    BY <1>1 DEF IInv, TypeOK, LiveUnderLive, ClosedUpTo
  <2>2. giving \cap live = Granting(u) \cap live
    BY DEF RoleAt, Granting
  <2>3. Walk(f, giving) = Walk(f, Granting(u)) /\ Walk(f, giving) \subseteq live
    <3>1. giving \cap live \subseteq Granting(u) /\ Granting(u) \cap live \subseteq giving
      BY <2>2
    <3> HIDE DEF giving
    <3>2. Walk(f, giving) \subseteq Walk(f, Granting(u)) \cap live
      BY <2>1, <3>1, WalkWithin
    <3>3. Walk(f, Granting(u)) \subseteq Walk(f, giving) \cap live
      BY <2>1, <3>1, WalkWithin
    <3>. QED BY <3>2, <3>3
  <2>4. HasAccess(u, f) <=> first # {}
    BY <1>1, <2>2, <2>3, AccessOfLive
  <2>5. EffectiveRole(u, f) # "none" <=> first # {}
    <3>1. \A g \in first : RoleAt(u, g) # "none"
      OBVIOUS
    <3>2. EffectiveRole(u, f) = IF first = {} THEN "none" ELSE RoleAt(u, CHOOSE g \in first : TRUE)
      BY DEF EffectiveRole
    <3>3. first # {} => (CHOOSE g \in first : TRUE) \in first
      OBVIOUS
    <3> HIDE DEF first
    <3>. QED BY <3>1, <3>2, <3>3
  <2>. QED BY <2>4, <2>5
<1>2. IInv => WalksAgree
  BY <1>1 DEF WalksAgree
<1>. QED BY <1>2, Invariance, PTL

(* Search opens no folder outside the trash that its reader may not open:  *)
(* above a live folder everything is live, so the grant search came down   *)
(* from is one has_access reaches.                                         *)
THEOREM SearchIsSound == Spec => []SearchSound
<1>1. ASSUME IInv, NEW u \in Users, NEW f \in Searched(u) PROVE HasAccess(u, f) \/ f \in trashed
  <2> SUFFICES ASSUME f \notin trashed PROVE HasAccess(u, f)
    OBVIOUS
  <2>1. PICK g \in GrantedTo(u) : f \in Subtree(g)
    BY DEF Searched
  <2>2. f \in live /\ f \in Folders /\ TypeOK
    BY <1>1, <2>1 DEF Subtree, Rows, IInv, TypeOK
  <2>3. g \in Chain(f) \cap Granting(u)
    BY <2>1 DEF Subtree, Granting, GrantedTo
  <2>. QED BY <1>1, <2>2, <2>3, WalkMeets, AccessOfLive
<1>2. IInv => SearchSound
  BY <1>1 DEF SearchSound
<1>. QED BY <1>2, Invariance, PTL
=============================================================================
