----------------------------- MODULE FileAccess -----------------------------
(***************************************************************************)
(* What hangs on one file: its permissions and shared link                 *)
(* (services/sharing.py), its tags, favorites and recent-access rows       *)
(* (services/discovery.py), while requests of two users overlap.  Every    *)
(* request has the same shape: SELECTs that check, one INSERT, UPDATE or   *)
(* DELETE that may wait for row locks and then fail, and the commit.       *)
(* Between them other transactions commit (READ COMMITTED); the SELECTs    *)
(* of one request are taken together, what it goes by is what the last of  *)
(* them has found.  The file lies in no folder; inheritance is the subject *)
(* of FolderTree.                                                          *)
(***************************************************************************)
EXTENDS Naturals, FiniteSets, Combinatorics

CONSTANTS
  Users, Sessions,
  MaxDownloads,  \* max_downloads of the shared link
  Scopes,        \* bound: the kinds of request that may meet in one behaviour
  Nil

ASSUME MaxAssumption == MaxDownloads \in Nat \ {0}
ASSUME SessionsAssumption == IsFiniteSet(Sessions)

VARIABLES
  file,     \* the row of "files": in use, in the trash, or deleted for good
  owner,    \* its owner_id
  rows,     \* the committed rows of the other tables
  count,    \* download_count of the link
  enabled,  \* is_enabled of the link
  granted,  \* accesses the link has granted
  kinds,    \* the scope of this behaviour
  sess      \* sess[s]: a request and where it has got to

link == <<count, enabled, granted>>
vars == <<file, owner, rows, link, kinds, sess>>

\* which table each kind of request writes; a row belongs to a user (a file_tag to the tag's)
TableOf == [share |-> "permission", regrant |-> "permission", unshare |-> "permission",
            transfer |-> "file", metadata |-> "file", purge |-> "file",
            create_tag |-> "tag", delete_tag |-> "tag", assign |-> "file_tag", untag |-> "file_tag",
            favorite |-> "favorite", unfavorite |-> "favorite", download |-> "recent",
            create_link |-> "link", delete_link |-> "link", update_link |-> "link", get_link |-> "link"]
Kinds == DOMAIN TableOf

ASSUME ScopesAssumption == Scopes \subseteq SUBSET Kinds

Children == {"file_tag", "favorite", "recent"}     \* FOREIGN KEY files.id ON DELETE CASCADE
Key(t, u) == [table |-> t, user |-> u]
Keys == [table : {"permission", "tag", "link"} \cup Children, user : Users]
ChildKeys == [table : Children, user : Users]

(***************************************************************************)
(* actor: the user who asks; user: the one whose row it is about.  seen:   *)
(* what the SELECT found, "gone" once that row was deleted.  read: the     *)
(* count it found.  alone: nothing has overlapped it.                      *)
(***************************************************************************)
Session == [stage : {"idle", "write", "commit"}, kind : Kinds,
            actor : Users \cup {Nil}, user : Users \cup {Nil},
            seen : {"none", "row", "gone"}, read : Nat, alone : BOOLEAN]

Idle == [stage |-> "idle", kind |-> "share", actor |-> Nil, user |-> Nil,
         seen |-> "none", read |-> 0, alone |-> FALSE]

TypeOK ==
  /\ file \in {"live", "trashed", "gone"} /\ owner \in Users
  /\ rows \subseteq Keys
  /\ count \in Nat /\ enabled \in BOOLEAN /\ granted \in Nat
  /\ kinds \in Scopes
  /\ sess \in [Sessions -> Session]

-----------------------------------------------------------------------------
(***************************************************************************)
(* The checks of each kind of request.  (A request that only finds what it *)
(* wants already there, or nothing to remove, writes nothing and is left   *)
(* out.)                                                                   *)
(***************************************************************************)
Has(t, u) == Key(t, u) \in rows

\* FileRepository.get_by_id_with_access
CanOpen(u) == file = "live" /\ (owner = u \/ Has("permission", u))

\* _get_owner: in the trash or not
Manages(u) == file # "gone" /\ owner = u

MayGrant(kind, a, u) ==
  /\ Manages(a)
  /\ IF kind = "share" THEN u # a ELSE kind \in {"regrant", "unshare"} /\ Has("permission", u)

MayTransfer(kind, a, u) == kind = "transfer" /\ file = "live" /\ owner = a /\ u # a

MayPurge(kind, a, u) == kind = "purge" /\ Manages(a) /\ u = a

\* an assigned or removed tag may be anybody's
MayTag(kind, a, u) ==
  CASE kind = "create_tag" -> u = a /\ ~Has("tag", u)
    [] kind = "delete_tag" -> u = a /\ Has("tag", u)
    [] kind = "assign" -> CanOpen(a) /\ Has("tag", u)
    [] kind = "untag" -> CanOpen(a) /\ Has("file_tag", u)
    [] OTHER -> FALSE

MayFavorite(kind, a, u) ==
  /\ u = a
  /\ \/ kind = "favorite" /\ CanOpen(u)
     \/ kind = "unfavorite" /\ Has("favorite", u)

\* update_metadata asks for no more than the download does
MayRead(kind, a, u) == kind \in {"download", "metadata"} /\ u = a /\ CanOpen(u)

\* mutation: one download more
LinkValidOnce == enabled /\ count <= MaxDownloads

\* SharedLink.is_valid
LinkValid == enabled /\ count < MaxDownloads

\* the rows of shared_links have no foreign key: the file is not looked at again
MayLink(kind, a, u) ==
  CASE kind = "create_link" -> Manages(a) /\ u = a /\ \A v \in Users : ~Has("link", v)  \* bound: one link
    [] kind \in {"update_link", "delete_link"} -> u = a /\ Has("link", u)
    [] kind = "get_link" -> Has("link", u) /\ LinkValid
    [] OTHER -> FALSE

Allowed(kind, a, u) ==
  \/ MayGrant(kind, a, u) \/ MayTransfer(kind, a, u) \/ MayPurge(kind, a, u) \/ MayTag(kind, a, u)
  \/ MayFavorite(kind, a, u) \/ MayRead(kind, a, u) \/ MayLink(kind, a, u)

\* the row whose disappearance the request would notice
Reads(r) == Key(IF r.kind = "assign" THEN "tag" ELSE TableOf[r.kind], r.user)

Active(s) == sess[s].stage # "idle"

Alone == \A d \in Sessions : ~Active(d)

\* what the SELECTs leave in the request; add_favorite does not look for the row
Request(kind, a, u) ==
  [stage |-> "write", kind |-> kind, actor |-> a, user |-> u,
   seen |-> IF kind # "favorite" /\ Reads([kind |-> kind, user |-> u]) \in rows THEN "row" ELSE "none",
   read |-> IF kind = "get_link" THEN count ELSE 0,
   alone |-> Alone]

\* the SELECTs
Check(s) ==
  /\ ~Active(s)
  /\ \E kind \in kinds, a \in Users, u \in Users :
       /\ Allowed(kind, a, u)
       /\ sess' = [d \in Sessions |->
                     IF d = s THEN Request(kind, a, u) ELSE [sess[d] EXCEPT !.alone = FALSE]]
  /\ UNCHANGED <<file, owner, rows, link, kinds>>

-----------------------------------------------------------------------------
(***************************************************************************)
(* The one writing statement.                                              *)
(***************************************************************************)
Deleting == {"unshare", "purge", "delete_tag", "untag", "unfavorite", "delete_link"}

\* an INSERT whatever there is: it may violate a unique key
Adding == {"create_tag", "assign", "favorite", "create_link"}

\* upsert of permissions, mutated: it inserts what it no longer finds
UpsertMerge(r) == IF r.seen = "row" THEN "update" ELSE "insert"

\* upsert of permissions
Upsert(r) == IF r.seen = "none" THEN "insert" ELSE "update"

\* record of recent files, mutated: it does not look for the row
RecordBlindly(r) == "insert"

\* record of recent files
Record(r) == IF r.seen = "none" THEN "insert" ELSE "update"

Op(r) ==
  CASE r.kind \in Deleting -> "delete"
    [] r.kind \in Adding -> "insert"
    [] r.kind = "share" -> Upsert(r)
    [] r.kind = "download" -> Record(r)
    [] OTHER -> "update"

Target(r) == Key(TableOf[r.kind], r.user)
IsChild(r) == TableOf[r.kind] \in Children

\* locks: the file's row, and its key, which an INSERT that refers to it shares
FileRow == Key("file", Nil)
FileKey == Key("file_key", Nil)

Exclusive(r) ==
  CASE r.kind \in {"transfer", "metadata"} -> {FileRow}
    [] r.kind = "purge" -> {FileRow, FileKey} \cup ChildKeys
    [] r.kind = "delete_tag" -> {Target(r), Key("file_tag", r.user)}
    [] OTHER -> {Target(r)}

Shared(r) == IF Op(r) = "insert" /\ IsChild(r) THEN {FileKey, Reads(r)} \ {Target(r)} ELSE {}

Waits(s) ==
  \E d \in Sessions \ {s} :
    /\ sess[d].stage = "commit"
    /\ LET r == sess[s]  o == sess[d] IN
         (Exclusive(r) \cap (Exclusive(o) \cup Shared(o))) \cup (Shared(r) \cap Exclusive(o)) # {}

\* mutation: no foreign keys
FailsUniqueOnly(r) ==
  IF Op(r) = "insert" THEN Target(r) \in rows
                      ELSE Op(r) = "update" /\ r.seen = "gone"

\* a unique or foreign key is violated, or an UPDATE finds no row (StaleDataError)
Fails(r) ==
  IF Op(r) = "insert"
    THEN \/ Target(r) \in rows
         \/ (IsChild(r) /\ file = "gone")
         \/ (r.kind = "assign" /\ r.seen = "gone")
    ELSE /\ Op(r) = "update"
         /\ r.seen = "gone" \/ (TableOf[r.kind] = "file" /\ file = "gone")

End(s) == [sess EXCEPT ![s] = Idle]

Write(s) ==
  /\ sess[s].stage = "write" /\ ~Waits(s)
  /\ sess' = IF Fails(sess[s]) THEN End(s) ELSE [sess EXCEPT ![s].stage = "commit"]
  /\ UNCHANGED <<file, owner, rows, link, kinds>>

\* rows a DELETE takes away, with its cascades; a row that is gone is not missed
Removed(r) ==
  IF Op(r) # "delete" \/ r.seen = "gone" THEN {}
  ELSE CASE r.kind = "purge" -> ChildKeys
         [] r.kind = "delete_tag" -> {Target(r), Key("file_tag", r.user)}
         [] OTHER -> {Target(r)}

\* mutation: a purge clears the owner (ON DELETE SET NULL)
OwnerAfterPurge(r) == IF r.kind = "transfer" THEN r.user ELSE IF r.kind = "purge" THEN Nil ELSE owner

OwnerAfter(r) == IF r.kind = "transfer" THEN r.user ELSE owner

Commit(s) ==
  LET r == sess[s]
      removed == Removed(r)
      access == r.kind = "get_link"
      new == r.kind = "create_link"
  IN
  /\ r.stage = "commit"
  /\ rows' = (rows \ removed) \cup (IF Op(r) = "insert" THEN {Target(r)} ELSE {})
  /\ file' = IF r.kind = "purge" THEN "gone" ELSE file
  /\ owner' = OwnerAfter(r)
  /\ count' = IF access THEN r.read + 1 ELSE IF new THEN 0 ELSE count
  /\ granted' = IF access THEN granted + 1 ELSE IF new THEN 0 ELSE granted
  /\ IF r.kind = "update_link" THEN enabled' \in BOOLEAN ELSE enabled' = (new \/ enabled)
  /\ sess' = [d \in Sessions |->
                IF d = s THEN Idle
                ELSE IF sess[d].seen = "row" /\ Reads(sess[d]) \in removed THEN [sess[d] EXCEPT !.seen = "gone"]
                ELSE sess[d]]
  /\ UNCHANGED kinds

\* the client goes, the timeout strikes, the commit fails: rollback
Cancel(s) == Active(s) /\ sess' = End(s) /\ UNCHANGED <<file, owner, rows, link, kinds>>

\* the file goes to the trash or comes back (FileStore)
TrashOrRestore ==
  /\ file # "gone"
  /\ \A s \in Sessions : sess[s].stage = "commit" => FileRow \notin Exclusive(sess[s])
  /\ file' = IF file = "live" THEN "trashed" ELSE "live"
  /\ UNCHANGED <<owner, rows, link, kinds, sess>>

-----------------------------------------------------------------------------
Init ==
  /\ file = "live" /\ owner \in Users /\ rows = {}
  /\ count = 0 /\ enabled = FALSE /\ granted = 0
  /\ kinds \in Scopes
  /\ sess = [s \in Sessions |-> Idle]

Next ==
  \/ \E s \in Sessions : Check(s) \/ Write(s) \/ Commit(s) \/ Cancel(s)
  \/ TrashOrRestore

Spec == Init /\ [][Next]_vars

-----------------------------------------------------------------------------
(***************************************************************************)
(* However requests overlap, no row refers to a file or a tag that is not  *)
(* there: not the favorite added while the file is purged, nor the tag     *)
(* assigned while it is deleted.                                           *)
(***************************************************************************)
NoOrphans ==
  /\ file = "gone" => rows \cap ChildKeys = {}
  /\ \A u \in Users : Key("file_tag", u) \in rows => Key("tag", u) \in rows

(***************************************************************************)
(* A request that changes a row it has found does not bring it back when   *)
(* another has removed it meanwhile: a permission withdrawn during an      *)
(* overlapping change of its role stays withdrawn.                         *)
(***************************************************************************)
NoResurrection ==
  [][\A s \in Sessions :
       sess[s].stage = "commit" /\ sess'[s].stage = "idle" /\ sess[s].seen = "gone"
         => (Target(sess[s]) \in rows' => Target(sess[s]) \in rows)]_vars

(***************************************************************************)
(* Nobody is refused by the database on his own: a request that checks     *)
(* before it writes meets a unique key, a foreign key or a vanished row    *)
(* only when another request overlaps it.  (Adding a favorite or assigning *)
(* a tag twice fails without a check.)                                     *)
(***************************************************************************)
FailsOnlyByOverlap ==
  \A s \in Sessions :
    sess[s].stage = "write" /\ Fails(sess[s]) /\ sess[s].kind \notin {"favorite", "assign"}
      => ~sess[s].alone

(***************************************************************************)
(* An access of a shared link writes back the count it has read, so        *)
(* overlapping accesses overwrite each other and the link grants more than *)
(* max_downloads.  It is exhausted all the same: n sessions write each     *)
(* count v at most as often as v things are drawn from n, and              *)
(* C(n + max_downloads, n) - 1 accesses are the most it ever grants.       *)
(***************************************************************************)
LinkLimit ==
  LET n == Cardinality(Sessions) IN granted < choose(n + MaxDownloads, n)
=============================================================================
