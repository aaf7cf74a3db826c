----------------------------- MODULE VersionTxn -----------------------------
(***************************************************************************)
(* The versions of one file: the rows of "file_versions" and the row of    *)
(* "files" they belong to, under the three requests that write them (a new *)
(* upload of the same name, restore_version, delete_version), each a READ  *)
(* COMMITTED transaction whose statements interleave with the others'.     *)
(***************************************************************************)
EXTENDS Naturals, FiniteSets, FiniteSetsExt

CONSTANTS
  Versions,  \* identifiers of version rows; also names of the blobs they own
  Contents,  \* what can be uploaded; a checksum identifies its content
  Sessions,  \* requests served at the same time
  MaxNumber, \* bound: version numbers
  Nil

ASSUME NilAssumption == Nil \notin Versions
ASSUME BoundAssumption == MaxNumber \in Nat \ {0}

VARIABLES
  rows,     \* the committed version rows
  number,   \* version_number
  current,  \* rows with is_current
  deleted,  \* rows with is_deleted
  content,  \* what the blob of each committed version holds; blob Nil: the one a copied file got
  file,     \* the committed row of "files"
  txn       \* txn[s]: the transaction of session s

tables == <<rows, number, current, deleted, content, file>>
vars == <<rows, number, current, deleted, content, file, txn>>

\* stored_blob_name, checksum_sha256, version_number
FileRow == [blob : Versions \cup {Nil}, checksum : Contents, number : 1..MaxNumber]

(***************************************************************************)
(* v is the version asked for, then the row inserted; old the file row as  *)
(* loaded into the object that is written back (upload keeps the one       *)
(* find_by_name returned); marked the rows the UPDATE of set_current       *)
(* finds, then those it clears.                                            *)
(***************************************************************************)
Stages == {"idle", "version", "max", "insert", "mark", "marking", "load", "save", "count", "hide", "commit"}

Txn == [op : {"upload", "restore", "delete"}, stage : Stages, v : Versions \cup {Nil},
        checksum : Contents \cup {Nil}, number : 0..MaxNumber,
        marked : SUBSET Versions, old : FileRow \cup {Nil}]

Idle == [op |-> "upload", stage |-> "idle", v |-> Nil, checksum |-> Nil, number |-> 0,
         marked |-> {}, old |-> Nil]

TypeOK ==
  /\ rows \subseteq Versions /\ current \subseteq rows /\ deleted \subseteq rows
  /\ number \in [Versions -> 0..MaxNumber]
  /\ content \in [Versions \cup {Nil} -> Contents]
  /\ file \in FileRow
  /\ txn \in [Sessions -> Txn]

At(s, ops, stage) == txn[s].op \in ops /\ txn[s].stage = stage
Go(s, t) == txn' = [txn EXCEPT ![s] = t]
Select(s, t) == Go(s, t) /\ UNCHANGED tables

\* mutation: a version that has not been committed can be read
ReadableUncommitted == Versions \ deleted

Readable == rows \ deleted       \* get_by_id

-----------------------------------------------------------------------------
\* upload: the blob is stored and find_by_name has found the file
FindFile(s) ==
  /\ txn[s] = Idle
  /\ \E c \in Contents :
       Select(s, [Idle EXCEPT !.op = "upload", !.stage = "max", !.checksum = c, !.old = file])

\* _verify_version_access loads the version, then its file; it keeps neither
VerifyAccess(s) ==
  /\ txn[s] = Idle
  /\ \E v \in Readable, op \in {"restore", "delete"} :
       Select(s, [Idle EXCEPT !.op = op, !.stage = "version", !.v = v])

\* mutation: is_current is not looked at
LoadVersionUnchecked(s) ==
  LET t == txn[s] IN
  /\ t.stage = "version" /\ t.v \in Readable
  /\ \/ t.op = "restore" /\ Select(s, [t EXCEPT !.stage = "max", !.checksum = content[t.v]])
     \/ t.op = "delete" /\ Select(s, [t EXCEPT !.stage = "count"])

\* the service loads the version again (populate_existing)
LoadVersion(s) ==
  LET t == txn[s] IN
  /\ t.stage = "version" /\ t.v \in Readable
  /\ \/ t.op = "restore"       \* and copies its blob
        /\ Select(s, [t EXCEPT !.stage = "max", !.checksum = content[t.v]])
     \/ t.op = "delete" /\ t.v \notin current
        /\ Select(s, [t EXCEPT !.stage = "count"])

\* mutation: the versions listed are counted
ReadCount(s) ==
  /\ At(s, {"upload", "restore"}, "max")
  /\ LET n == Cardinality(Readable) + 1
     IN  n \in 1..MaxNumber /\ Select(s, [txn[s] EXCEPT !.stage = "insert", !.number = n])

\* get_max_version_number counts deleted rows, and committed ones only
ReadMax(s) ==
  /\ At(s, {"upload", "restore"}, "max")
  /\ LET n == Max({0} \cup {number[v] : v \in rows}) + 1
     IN  n \in 1..MaxNumber /\ Select(s, [txn[s] EXCEPT !.stage = "insert", !.number = n])

Inserted == {"mark", "marking", "load", "save", "commit"}
Reserved == {txn[s].v : s \in {t \in Sessions : txn[t].op # "delete" /\ txn[t].stage \in Inserted}}

\* the row, with is_current = FALSE
Insert(s) ==
  /\ At(s, {"upload", "restore"}, "insert")
  /\ \E v \in Versions \ (rows \cup Reserved) :
       Select(s, [txn[s] EXCEPT !.stage = "mark", !.v = v])

(***************************************************************************)
(* set_current is one UPDATE, in two steps: its snapshot decides which     *)
(* rows it looks at, then it waits for whoever holds one of them and skips *)
(* those that no longer match.  Its own new row always does.               *)
(***************************************************************************)
Mark(s) ==
  /\ At(s, {"upload", "restore"}, "mark")
  /\ Select(s, [txn[s] EXCEPT !.stage = "marking", !.marked = current])

Locked(s) ==        \* version rows the transaction has updated
  LET t == txn[s] IN
  IF t.op = "delete" THEN IF t.stage = "commit" THEN {t.v} ELSE {}
                     ELSE IF t.stage \in {"load", "save", "commit"} THEN t.marked ELSE {}

LockedByOthers(s) == UNION {Locked(t) : t \in Sessions \ {s}}

\* mutation: the old current version is not cleared
RecheckNothing(S) == {}

Recheck(S) == S \cap current

MarkLocked(s) ==
  /\ At(s, {"upload", "restore"}, "marking")
  /\ txn[s].marked \cap LockedByOthers(s) = {}
  /\ Select(s, [txn[s] EXCEPT !.stage = IF txn[s].op = "restore" THEN "load" ELSE "save",
                              !.marked = Recheck(@)])

\* restore_version loads the file row again, when its own version is in place
LoadFile(s) ==
  /\ At(s, {"restore"}, "load")
  /\ Select(s, [txn[s] EXCEPT !.stage = "save", !.old = file])

\* UPDATE of the file row, which stays locked until the commit
SaveFile(s) ==
  /\ At(s, {"upload", "restore"}, "save")
  /\ \A t \in Sessions : ~At(t, {"upload", "restore"}, "commit")
  /\ Select(s, [txn[s] EXCEPT !.stage = "commit"])

\* list_versions: there is another version left
CountVersions(s) ==
  /\ At(s, {"delete"}, "count")
  /\ Cardinality(Readable) > 1
  /\ Select(s, [txn[s] EXCEPT !.stage = "hide"])

HideVersion(s) ==
  /\ At(s, {"delete"}, "hide")
  /\ txn[s].v \notin LockedByOthers(s)
  /\ Select(s, [txn[s] EXCEPT !.stage = "commit"])

Refuse(s) ==
  LET t == txn[s] IN
  /\ \/ t.stage = "version" /\ t.v \notin Readable
     \/ At(s, {"delete"}, "version") /\ t.v \in current
     \/ At(s, {"delete"}, "count") /\ Cardinality(Readable) <= 1
  /\ Select(s, Idle)

\* only columns whose value differs from the one loaded are in the UPDATE;
\* restore_version does not assign version_number
Changed(new, loaded, now) == IF new = loaded THEN now ELSE new

\* mutation: restore_version leaves the name of the blob
FileUpdateOfUpload(t) == IF t.op = "upload" THEN [blob |-> t.v, checksum |-> t.checksum, number |-> t.number]
                                            ELSE file

\* mutation: restore_version leaves the checksum
FileUpdateBlobOnly(t) ==
  [blob     |-> t.v,
   checksum |-> IF t.op = "upload" THEN t.checksum ELSE file.checksum,
   number   |-> IF t.op = "upload" THEN t.number ELSE file.number]

FileUpdate(t) ==
  [blob     |-> t.v,
   checksum |-> Changed(t.checksum, t.old.checksum, file.checksum),
   number   |-> IF t.op = "upload" THEN Changed(t.number, t.old.number, file.number)
                                   ELSE file.number]

Commit(s) ==
  LET t == txn[s] IN
  /\ t.stage = "commit"
  /\ \/ /\ t.op # "delete"
        /\ rows' = rows \cup {t.v}
        /\ number' = [number EXCEPT ![t.v] = t.number]
        /\ current' = (current \ t.marked) \cup {t.v}
        /\ content' = [content EXCEPT ![t.v] = t.checksum]
        /\ file' = FileUpdate(t)
        /\ UNCHANGED deleted
     \/ /\ t.op = "delete"
        /\ deleted' = deleted \cup {t.v}
        /\ UNCHANGED <<rows, number, current, content, file>>
  /\ Go(s, Idle)

\* the connection or the client is lost: rollback
Cancel(s) == txn[s] # Idle /\ Select(s, Idle)

-----------------------------------------------------------------------------
\* a file just uploaded, or a copied one, which has no version rows
Init ==
  /\ \E c \in Contents :
       /\ content = [b \in Versions \cup {Nil} |-> c]
       /\ \/ rows = {} /\ file = [blob |-> Nil, checksum |-> c, number |-> 1]
          \/ \E v \in Versions : rows = {v} /\ file = [blob |-> v, checksum |-> c, number |-> 1]
  /\ current = rows
  /\ number = [v \in Versions |-> IF v \in rows THEN 1 ELSE 0]
  /\ deleted = {}
  /\ txn = [s \in Sessions |-> Idle]

Serve(s) ==
  \/ FindFile(s) \/ VerifyAccess(s) \/ LoadVersion(s) \/ ReadMax(s) \/ Insert(s) \/ Mark(s)
  \/ MarkLocked(s) \/ LoadFile(s) \/ SaveFile(s) \/ CountVersions(s) \/ HideVersion(s) \/ Refuse(s) \/ Commit(s)

Next == \E s \in Sessions : Serve(s) \/ Cancel(s)

Spec == Init /\ [][Next]_vars

-----------------------------------------------------------------------------
(***************************************************************************)
(* Properties.                                                             *)
(***************************************************************************)
(* The file serves the blob of a current version, and that version is not  *)
(* deleted, however uploads, restores and deletions of versions overlap:   *)
(* set_current and the UPDATE of the file row are separate statements.     *)
ServesCurrent ==
  rows # {} => file.blob \in current \ deleted

(* A current version is never deleted: delete_version checks is_current    *)
(* two statements before it writes is_deleted.                             *)
CurrentKept == current \cap deleted = {}

(* At most one version is current (docstring of set_current).              *)
OneCurrent == Cardinality(current) <= 1

(* No two versions of a file have the same number.                         *)
NumbersDistinct == \A v, w \in rows : number[v] = number[w] => v = w

(* Requests that do not overlap build the history VersionHistory promises. *)
VersionAt(i) == CHOOSE v \in rows : number[v] = i
History == INSTANCE VersionHistory WITH
             history <- [i \in 1..Cardinality(rows) |-> content[VersionAt(i)]],
             hidden <- {number[v] : v \in deleted},
             served <- content[file.blob],
             checksum <- file.checksum
Implements == History!Spec
=============================================================================
