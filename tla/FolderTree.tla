----------------------------- MODULE FolderTree -----------------------------
(***************************************************************************)
(* The folder hierarchy of one deployment: the rows of tables "folders"    *)
(* and "permissions" (resource_type = "folder") and the operations of      *)
(* FolderService (services/folder.py) and PermissionService                *)
(* (services/sharing.py) on them, one request at a time.                   *)
(*                                                                         *)
(* A request is one database transaction (dependencies/database.py), so    *)
(* each operation is one action: it applies every write of the handler, or *)
(* nothing when a check of the handler raises.  What interleaved           *)
(* transactions do to the same rows is the subject of FolderTxn.           *)
(***************************************************************************)
EXTENDS Naturals, Sequences, FiniteSets, Functions

CONSTANTS
  Folders,    \* identifiers of folder rows (UUIDs)
  Users,      \* identifiers of users
  BaseNames,  \* the names clients ask for
  MaxSuffix,  \* bound: suffixes a name may collect before VARCHAR(255) is full
  MaxGrants,  \* bound: permission rows at a time
  Nil         \* SQL NULL: the parent of a root folder, the fields of no row

ASSUME NilAssumption == Nil \notin Folders \cup Users
ASSUME BoundsAssumption == MaxSuffix \in Nat /\ MaxGrants \in Nat

VARIABLES
  live,     \* rows with is_deleted = FALSE
  trashed,  \* rows with is_deleted = TRUE
  parent,   \* parent_id
  owner,    \* owner_id
  name,     \* name
  role      \* role[u][f]: the permission row of user u on folder f, if any

rowVars == <<live, trashed, parent, owner, name>>
vars == <<live, trashed, parent, owner, name, role>>

(***************************************************************************)
(* A name is what the client typed followed by the suffixes the server     *)
(* appended: 0 stands for " (Restored)", k > 0 for " (Copy k)".            *)
(***************************************************************************)
Names == [base : BaseNames, suffix : Seq(Nat)]
Plain(b) == [base |-> b, suffix |-> <<>>]
Suffixed(n, k) == [base |-> n.base, suffix |-> Append(n.suffix, k)]
Fits(n) == Len(n.suffix) <= MaxSuffix

Roles == {"none", "viewer", "editor"}   \* a commenter may do no more than a viewer here

Rows == live \cup trashed

TypeOK ==
  /\ live \subseteq Folders
  /\ trashed \subseteq Folders
  /\ live \cap trashed = {}
  /\ parent \in [Folders -> Folders \cup {Nil}]
  /\ owner \in [Folders -> Users \cup {Nil}]
  /\ name \in [Folders -> Names \cup {Nil}]
  /\ role \in [Users -> [Folders -> Roles]]

-----------------------------------------------------------------------------
(***************************************************************************)
(* Walking the parent chain.  The loops and recursive queries of the code  *)
(* (is_ancestor, has_access, _get_effective_role, get_subtree_ids) go from *)
(* a folder to its parent until some condition stops them; what they visit *)
(* is what every set closed under that step must contain.                  *)
(***************************************************************************)
ClosedUpTo(C, S) == \A h \in C \ S : parent[h] \in C \cup {Nil}

\* the folders visited from f up to and including the first member of S
Walk(f, S) == {g \in Folders : \A C \in SUBSET Folders : f \in C /\ ClosedUpTo(C, S) => g \in C}

Chain(f) == Walk(f, {})                        \* f and all its ancestors
IsAncestor(a, d) == a \in Chain(d)
Subtree(r) == {f \in Rows : r \in Chain(f)}

-----------------------------------------------------------------------------
(***************************************************************************)
(* Who may do what.                                                        *)
(***************************************************************************)
Granting(u) == {g \in Folders : owner[g] = u \/ role[u][g] # "none"}

\* mutation: permissions are not inherited
HasAccessDirect(u, f) == f \in Granting(u) \cap live

\* FolderRepository.has_access: a deleted folder ends the walk in vain
HasAccess(u, f) ==
  Walk(f, Granting(u) \cup (Folders \ live)) \cap Granting(u) \cap live # {}

\* the same with include_deleted=True
HasAccessInTrash(u, f) == f \in Rows /\ Chain(f) \cap Granting(u) # {}

\* folders with a permission row of u
GrantedTo(u) == {g \in Folders : role[u][g] # "none"}

\* mutation: the recursion climbs from the granted folder
SearchedAbove(u) == UNION {Chain(g) : g \in GrantedTo(u)} \cap Rows

\* the folders whose files outside the trash SearchRepository lists for u because of
\* a permission; is_deleted of the folders themselves is not looked at
Searched(u) == UNION {Subtree(g) : g \in GrantedTo(u)}

\* what one folder of the chain contributes to _get_effective_role
RoleAt(u, g) == IF g \in live /\ owner[g] = u THEN "owner" ELSE role[u][g]

\* _get_effective_role: the nearest folder up the chain that gives u a role decides
EffectiveRole(u, f) ==
  LET giving == {g \in Folders : RoleAt(u, g) # "none"}
      first == Walk(f, giving) \cap giving
  IN  IF first = {} THEN "none" ELSE RoleAt(u, CHOOSE g \in first : TRUE)

MayEdit(u, f) == f \in live /\ HasAccess(u, f) /\ EffectiveRole(u, f) \in {"owner", "editor"}

OwnedLive(u, f) == f \in live /\ owner[f] = u     \* get_by_id(f, u)
TargetOK(u, p) == p = Nil \/ OwnedLive(u, p)

-----------------------------------------------------------------------------
(***************************************************************************)
(* Names.                                                                  *)
(***************************************************************************)
\* the rows exists_by_name selects; it raises when there are two of them
Namesakes(n, u, p) == {f \in live : name[f] = n /\ owner[f] = u /\ parent[f] = p}
Taken(n, u, p) == Namesakes(n, u, p) # {}
Ambiguous(n, u, p) == Cardinality(Namesakes(n, u, p)) > 1

\* uq_folder_name_parent_owner: it counts trashed rows, and NULL parents are all distinct
UniqueRows ==
  \A f, g \in Rows :
    parent[f] # Nil /\ parent[f] = parent[g] /\ owner[f] = owner[g] /\ name[f] = name[g] => f = g

\* the name _copy_subtree settles on: the plain one, or the first free " (Copy k)"
CopyNames(n) == {n} \cup {Suffixed(n, k) : k \in 1..Cardinality(Folders) + 1}
CopyRank(n, c) == IF c = n THEN 0 ELSE c.suffix[Len(c.suffix)]
IsCopyName(c, n, u, p) ==
  /\ c \in CopyNames(n)
  /\ ~Taken(c, u, p)
  /\ \A d \in CopyNames(n) : CopyRank(n, d) < CopyRank(n, c) => Cardinality(Namesakes(d, u, p)) = 1

-----------------------------------------------------------------------------
(***************************************************************************)
(* FolderService.                                                          *)
(***************************************************************************)
Fresh(f) == f \notin Rows       \* a new UUID

Create(u, b, p) ==
  /\ ~Taken(Plain(b), u, p)
  /\ TargetOK(u, p)
  /\ \E f \in Folders :
       /\ Fresh(f)
       /\ live' = live \cup {f}
       /\ parent' = [parent EXCEPT ![f] = p]
       /\ owner' = [owner EXCEPT ![f] = u]
       /\ name' = [name EXCEPT ![f] = Plain(b)]
  /\ UNCHANGED <<trashed, role>>
  /\ UniqueRows'

\* rename, and update with a name; the name is looked up among the caller's own folders
Rename(u, f, b) ==
  /\ MayEdit(u, f)
  /\ ~Taken(Plain(b), u, parent[f])
  /\ name' = [name EXCEPT ![f] = Plain(b)]
  /\ UNCHANGED <<live, trashed, parent, owner, role>>
  /\ UniqueRows'

\* mutation: the folder without its subtree
DeleteAlone(u, f) ==
  /\ MayEdit(u, f)
  /\ live' = live \ {f}
  /\ trashed' = trashed \cup {f}
  /\ UNCHANGED <<parent, owner, name, role>>

\* mutation: is_deleted is set and the folder still listed
DeleteStillListed(u, f) ==
  /\ MayEdit(u, f)
  /\ trashed' = trashed \cup Subtree(f)
  /\ UNCHANGED <<live, parent, owner, name, role>>

Delete(u, f) ==
  /\ MayEdit(u, f)
  /\ live' = live \ Subtree(f)
  /\ trashed' = trashed \cup Subtree(f)
  /\ UNCHANGED <<parent, owner, name, role>>

\* mutation: no is_ancestor
MoveAllowedAnywhere(u, f, p) == MayEdit(u, f) /\ TargetOK(u, p) /\ p # f /\ ~Taken(name[f], u, p)

MoveAllowed(u, f, p) ==
  /\ MayEdit(u, f)
  /\ TargetOK(u, p)
  /\ p # f
  /\ p # Nil => ~IsAncestor(f, p)
  /\ ~Taken(name[f], u, p)

Move(u, f, p) ==
  /\ MoveAllowed(u, f, p)
  /\ parent' = [parent EXCEPT ![f] = p]
  /\ UNCHANGED <<live, trashed, owner, name, role>>
  /\ UniqueRows'

\* what _copy_subtree visits below f: the caller's own live children, recursively
CopyScope(u, f) == {g \in Folders : f \in Walk(g, {f} \cup {h \in Folders : ~OwnedLive(u, h)})}

\* m gives each visited folder the identifier of its copy
InsertCopies(u, f, p, c, m) ==
  LET source == AntiFunction(m)
  IN  /\ live' = live \cup Range(m)
      /\ parent' = [h \in Folders |-> IF h \notin Range(m) THEN parent[h]
                                      ELSE IF source[h] = f THEN p ELSE m[parent[source[h]]]]
      /\ owner' = [h \in Folders |-> IF h \in Range(m) THEN u ELSE owner[h]]
      /\ name' = [h \in Folders |-> IF h \notin Range(m) THEN name[h]
                                    ELSE IF source[h] = f THEN c ELSE name[source[h]]]

\* A copy into a folder the recursion visits finds its own output among the
\* children, never ends and is rolled back: such a target changes nothing.
Copy(u, f, p) ==
  /\ MayEdit(u, f)
  /\ TargetOK(u, p)
  /\ p \notin CopyScope(u, f)
  /\ \E c \in CopyNames(name[f]), m \in Injection(CopyScope(u, f), {g \in Folders : Fresh(g)}) :
       /\ IsCopyName(c, name[f], u, p) /\ Fits(c)
       /\ InsertCopies(u, f, p, c, m)
  /\ UNCHANGED <<trashed, role>>
  /\ UniqueRows'

\* mutation: the parent may be in the trash
RestoreAnywhere(u, f) ==
  /\ HasAccessInTrash(u, f)
  /\ f \in trashed
  /\ live' = live \cup Subtree(f)
  /\ trashed' = trashed \ Subtree(f)
  /\ UNCHANGED <<parent, owner, name, role>>

Restore(u, f) ==
  /\ HasAccessInTrash(u, f)
  /\ f \in trashed
  /\ TargetOK(u, parent[f])
  /\ ~Ambiguous(name[f], u, parent[f])
  /\ name' = [name EXCEPT ![f] = IF Taken(@, u, parent[f]) THEN Suffixed(@, 0) ELSE @]
  /\ Fits(name'[f])
  /\ live' = live \cup Subtree(f)
  /\ trashed' = trashed \ Subtree(f)
  /\ UNCHANGED <<parent, owner, role>>
  /\ UniqueRows'

\* Rows go with the fields they held.  The permission rows on them have no
\* foreign key and stay behind, but no folder will ever have that UUID again; the
\* model reuses its few identifiers, so it lets them go too.
Purge(S) ==
  /\ live' = live \ S
  /\ trashed' = trashed \ S
  /\ parent' = [f \in Folders |-> IF f \in S THEN Nil ELSE parent[f]]
  /\ owner' = [f \in Folders |-> IF f \in S THEN Nil ELSE owner[f]]
  /\ name' = [f \in Folders |-> IF f \in S THEN Nil ELSE name[f]]
  /\ role' = [u \in Users |-> [f \in Folders |-> IF f \in S THEN "none" ELSE role[u][f]]]

\* mutation: the folder without its subtree
PermanentDeleteAlone(u, f) ==
  /\ HasAccessInTrash(u, f)
  /\ live' = live \ {f} /\ trashed' = trashed \ {f}
  /\ UNCHANGED <<parent, owner, name, role>>

\* the folder need not be in the trash
PermanentDelete(u, f) == HasAccessInTrash(u, f) /\ Purge(Subtree(f))

Trash(u) == {f \in trashed : owner[f] = u}       \* list_trash

\* every trashed folder of u with its whole subtree, batch after batch until list_trash is empty
EmptyTrash(u) ==
  /\ Trash(u) # {}
  /\ Purge({g \in Rows : \E f \in Trash(u) : g \in Subtree(f)})

-----------------------------------------------------------------------------
(***************************************************************************)
(* PermissionService.                                                      *)
(***************************************************************************)
Grants == {vf \in Users \X Folders : role[vf[1]][vf[2]] # "none"}

Share(u, f, v, r) ==
  /\ f \in Rows /\ owner[f] = u /\ v # u
  /\ Cardinality(Grants \cup {<<v, f>>}) <= MaxGrants
  /\ role' = [role EXCEPT ![v][f] = r]
  /\ UNCHANGED rowVars

UpdatePermission(u, f, v, r) ==
  /\ f \in Rows /\ owner[f] = u /\ role[v][f] # "none"
  /\ role' = [role EXCEPT ![v][f] = r]
  /\ UNCHANGED rowVars

RemovePermission(u, f, v) ==
  /\ f \in Rows /\ owner[f] = u /\ role[v][f] # "none"
  /\ role' = [role EXCEPT ![v][f] = "none"]
  /\ UNCHANGED rowVars

\* only this row changes hands: not its subtree, and its permission rows stay
TransferOwnership(u, f, v) ==
  /\ OwnedLive(u, f) /\ v # u
  /\ owner' = [owner EXCEPT ![f] = v]
  /\ UNCHANGED <<live, trashed, parent, name, role>>
  /\ UniqueRows'

-----------------------------------------------------------------------------
Init ==
  /\ live = {} /\ trashed = {}
  /\ parent = [f \in Folders |-> Nil]
  /\ owner = [f \in Folders |-> Nil]
  /\ name = [f \in Folders |-> Nil]
  /\ role = [u \in Users |-> [f \in Folders |-> "none"]]

FolderStep(u) ==
  \/ \E b \in BaseNames, p \in Folders \cup {Nil} : Create(u, b, p)
  \/ \E f \in Folders, b \in BaseNames : Rename(u, f, b)
  \/ \E f \in Folders : Delete(u, f)
  \/ \E f \in Folders, p \in Folders \cup {Nil} : Move(u, f, p)
  \/ \E f \in Folders, p \in Folders \cup {Nil} : Copy(u, f, p)
  \/ \E f \in Folders : Restore(u, f)
  \/ \E f \in Folders : PermanentDelete(u, f)
  \/ EmptyTrash(u)

SharingStep(u) ==
  \E f \in Folders, v \in Users :
    \/ \E r \in Roles \ {"none"} : Share(u, f, v, r) \/ UpdatePermission(u, f, v, r)
    \/ RemovePermission(u, f, v)
    \/ TransferOwnership(u, f, v)

Next == \E u \in Users : FolderStep(u) \/ SharingStep(u)

Spec == Init /\ [][Next]_vars

-----------------------------------------------------------------------------
(***************************************************************************)
(* Properties.                                                             *)
(***************************************************************************)
(* Rows refer to rows: the folder a row hangs under exists as long as the   *)
(* row does, although purging a tree deletes its rows one statement at a    *)
(* time, and an unused identifier carries nothing.                          *)
RowsOK ==
  /\ \A f \in Rows : parent[f] \in Rows \cup {Nil} /\ owner[f] \in Users /\ name[f] \in Names
  /\ \A f \in Folders \ Rows : parent[f] = Nil

(* Moving never makes a folder its own ancestor, whoever owns the folders   *)
(* in between: the check of FolderService.move that every walk up or down   *)
(* the tree relies on to end (is_ancestor, has_access, get_subtree_ids).    *)
Acyclic == \A S \in SUBSET Folders : S # {} => \E f \in S : parent[f] \notin S

(* A folder outside the trash never sits below one inside it: delete and    *)
(* restore take the whole subtree, and create, move, copy and restore put   *)
(* folders under live parents only.                                         *)
LiveUnderLive == \A f \in live : parent[f] \in live \cup {Nil}

(* The two permission walks agree on a live folder: has_access, which stops *)
(* at a deleted ancestor, and _get_effective_role, which does not look.     *)
WalksAgree == \A u \in Users, f \in live : HasAccess(u, f) <=> EffectiveRole(u, f) # "none"

(* Search, which goes down from the folders a user has a role on and looks *)
(* neither at owners nor at the trash on the way, opens no folder that      *)
(* has_access, which goes up, would refuse him, unless that folder is in    *)
(* the trash.  The exception is the code's: a file uploaded, moved or       *)
(* restored into a trashed folder is listed to users has_access refuses.    *)
SearchSound == \A u \in Users : \A f \in Searched(u) : HasAccess(u, f) \/ f \in trashed

(* Emptying the trash destroys no folder outside it, although it deletes    *)
(* whole subtrees without looking at is_deleted or at the owner below the   *)
(* top.  (It does destroy files outside the trash, see FileStore.)          *)
EmptyTrashSparesLive == [][\A u \in Users : EmptyTrash(u) => live' = live]_vars
=============================================================================
