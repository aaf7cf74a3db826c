------------------------------ MODULE FileStore ------------------------------
(***************************************************************************)
(* Files in two systems: rows in PostgreSQL, content in Azure Blob         *)
(* Storage.  A request of FileService (services/file.py), or a folder      *)
(* operation of FolderService that takes the files along, changes blobs at *)
(* once and rows at its commit; anything may fail, and other requests run, *)
(* in between.  What the versions of one file look like is VersionTxn's    *)
(* subject; here a version row only keeps a blob referenced.               *)
(***************************************************************************)
CONSTANTS
  Files,     \* identifiers of rows of "files"
  Places,    \* (folder, file name) pairs of one user; a folder operation takes the files of one
  Blobs,     \* blob names: user id and a new UUID
  Sessions,  \* requests served at the same time
  Faults,    \* what may go wrong, see below
  Ops,       \* the operations clients ask for
  Nil

(* put: the upload is reported failed, whether or not the blob was stored;  *)
(* copy: a started server-side copy finds its source gone;                  *)
(* unlink: a blob deletion fails (logged, otherwise ignored);               *)
(* db: a statement or the commit fails; cancel: the request is abandoned.   *)
ASSUME FaultsAssumption == Faults \subseteq {"put", "copy", "unlink", "db", "cancel"}

ASSUME OpsAssumption == Ops # {}

ASSUME NilAssumption == Nil \notin Blobs

VARIABLES
  live, trashed,  \* committed rows by is_deleted
  place,          \* folder_id and original_filename
  blob,           \* stored_blob_name
  versions,       \* committed rows of "file_versions" as <<file_id, blob_name>>
  stored,         \* blobs that exist with their content
  hollow,         \* blobs that exist without it: their copy has failed
  copying,        \* server-side copies under way, as <<source, destination>>
  req,            \* req[s]: the request of session s and its progress
  doomed          \* history: rows whose deletion, or that of their folder, was ever asked for

tables == <<live, trashed, place, blob, versions>>
azure == <<stored, hollow, copying>>
vars == <<live, trashed, place, blob, versions, stored, hollow, copying, req, doomed>>

Rows == live \cup trashed

(***************************************************************************)
(* F are the files a request is about, b the blob it creates, old the      *)
(* blobs it has loaded the names of, to copy or delete them; new says that *)
(* it inserts the row of F itself.  held are the rows it has written, whose *)
(* locks it keeps; left is what empty_trash has listed and not reached yet,*)
(* each row with the name of its blob.                                     *)
(***************************************************************************)
Stages == {"idle", "find", "insert", "version", "write", "unlink", "commit", "cleanup"}

Request == [op : Ops, stage : Stages, F : SUBSET Files, p : Places \cup {Nil},
            b : Blobs \cup {Nil}, old : SUBSET Blobs, new : BOOLEAN,
            held : SUBSET Files, left : SUBSET (Files \X Blobs)]

Idle == [op |-> CHOOSE op \in Ops : TRUE, stage |-> "idle", F |-> {}, p |-> Nil,
         b |-> Nil, old |-> {}, new |-> FALSE, held |-> {}, left |-> {}]

TypeOK ==
  /\ live \subseteq Files /\ trashed \subseteq Files /\ live \cap trashed = {}
  /\ place \in [Files -> Places \cup {Nil}]
  /\ blob \in [Files -> Blobs \cup {Nil}]
  /\ \A f \in live \cup trashed : blob[f] # Nil
  /\ versions \subseteq Files \X Blobs
  /\ stored \subseteq Blobs /\ hollow \subseteq Blobs /\ copying \subseteq Blobs \X Blobs
  /\ req \in [Sessions -> Request]
  /\ doomed \subseteq Files

At(s, ops, stage) == req[s].op \in ops /\ req[s].stage = stage
Go(s, r) == req' = [req EXCEPT ![s] = r]
Step(s, stage) == Go(s, [req[s] EXCEPT !.stage = stage])
Fail(s) == Go(s, Idle)      \* get_db rolls back

\* the rows of its list a request has come to
Reached(r) == r.F \ {v[1] : v \in r.left}

\* the statement that writes the rows takes their locks
Hold(s, r, stage) == Go(s, [r EXCEPT !.stage = stage, !.held = Reached(r)])

\* UUIDs: a blob or row identifier nothing has or remembers
Used(b) == \/ b \in stored \cup hollow \/ \E f \in Files : blob[f] = b \/ <<f, b>> \in versions
           \/ \E c \in copying : b \in {c[1], c[2]}
           \/ \E s \in Sessions :
                \/ b \in {req[s].b} \cup req[s].old
                \/ \E v \in req[s].left : b = v[2]

\* mutation: the name is made from something the user chooses
AnyBlobs == Blobs

FreshBlobs == {b \in Blobs : ~Used(b)}
FreshFiles == {f \in Files \ Rows : \A s \in Sessions : f \notin req[s].F}

Names(F) == {blob[f] : f \in F}

\* another transaction has written the row and not committed
Locked(f, s) == \E t \in Sessions \ {s} : f \in req[t].held

Begin(s, op) == req[s] = Idle /\ op \in Ops

-----------------------------------------------------------------------------
(***************************************************************************)
(* Upload: the blob first, then a version of the file of that name, or a   *)
(* new row.                                                                *)
(***************************************************************************)
PutBlob(s) ==
  /\ Begin(s, "upload")
  /\ \E b \in FreshBlobs, p \in Places :
       LET r == [Idle EXCEPT !.op = "upload", !.p = p, !.b = b] IN
       \/ /\ stored' = stored \cup {b}
          \* the computed size is checked against the limit once the blob is stored
          /\ \E next \in {"find", "cleanup"} : Go(s, [r EXCEPT !.stage = next])
       \/ /\ "put" \in Faults
          /\ stored' \in {stored, stored \cup {b}}
          /\ Fail(s)
  /\ UNCHANGED <<tables, hollow, copying, doomed>>

Namesakes(p) == {f \in live : place[f] = p}

\* find_by_name raises when it finds two rows
FindByName(s) ==
  LET r == req[s] IN
  /\ At(s, {"upload"}, "find")
  /\ CASE Namesakes(r.p) = {} -> Step(s, "insert")
       [] \E f \in live : Namesakes(r.p) = {f} ->
            Go(s, [r EXCEPT !.stage = "version", !.F = Namesakes(r.p)])
       [] OTHER -> Fail(s)
  /\ UNCHANGED <<tables, azure, doomed>>

\* repo.create; the only database error of an upload that removes the blob again
InsertFile(s) ==
  LET r == req[s] IN
  /\ At(s, {"upload", "copy"}, "insert")
  /\ \/ \E f \in FreshFiles :
          LET n == [r EXCEPT !.F = {f}, !.new = TRUE] IN
          IF r.op = "upload" THEN Go(s, [n EXCEPT !.stage = "version"]) ELSE Hold(s, n, "commit")
     \/ "db" \in Faults /\ IF r.op = "upload" THEN Step(s, "cleanup") ELSE Fail(s)
  /\ UNCHANGED <<tables, azure, doomed>>

\* mutation: no foreign key on file_id
WriteVersionAnyway(s) ==
  /\ At(s, {"upload", "revert"}, "version")
  /\ Hold(s, req[s], "commit")
  /\ UNCHANGED <<tables, azure, doomed>>

\* upload and restore_version: the version row, set_current, the file row; the foreign key wants the file
WriteVersion(s) ==
  LET r == req[s] IN
  /\ At(s, {"upload", "revert"}, "version")
  /\ \A f \in r.F : ~Locked(f, s)
  /\ \/ (r.new \/ r.F \subseteq Rows) /\ Hold(s, r, "commit")
     \/ ("db" \in Faults \/ ~(r.new \/ r.F \subseteq Rows)) /\ Fail(s)
  /\ UNCHANGED <<tables, azure, doomed>>

\* blobs a deletion reaches go, with what was being copied into them; any may be left behind
Unlinked(B) ==
  \E K \in IF "unlink" \in Faults THEN SUBSET B ELSE {B} :
    /\ stored' = stored \ K /\ hollow' = hollow \ K
    /\ copying' = {c \in copying : c[2] \notin K}

\* _cleanup_blob, best effort
CleanUp(s) ==
  /\ At(s, {"upload"}, "cleanup")
  /\ Unlinked({req[s].b})
  /\ Fail(s)
  /\ UNCHANGED <<tables, doomed>>

-----------------------------------------------------------------------------
(***************************************************************************)
(* The other requests load their rows first, with the blob names they will *)
(* need.  "trash" is the deletion of a folder, which keeps the blobs; the  *)
(* restore and permanent_delete of a folder do with its files what those   *)
(* of a file do with it.  "revert" is restore_version.                     *)
(***************************************************************************)
Deleting == {"delete", "trash", "purge", "empty"}

\* a folder operation that finds no file here touches neither rows nor blobs of files
Load(s, op, F, p, old, stage) ==
  /\ Begin(s, op) /\ F # {}
  /\ Go(s, [Idle EXCEPT !.op = op, !.stage = stage, !.F = IF op = "copy" THEN {} ELSE F,
                        !.p = p, !.old = old])
  /\ doomed' = IF op \in Deleting THEN doomed \cup F ELSE doomed
  /\ UNCHANGED <<tables, azure>>

LoadFile(s) ==
  \/ \E f \in live : Load(s, "delete", {f}, Nil, {blob[f]}, "write")
  \/ \E f \in trashed : Load(s, "restore", {f}, Nil, {}, "write")
  \/ \E f \in Rows : Load(s, "purge", {f}, Nil, {blob[f]}, "write")
  \* move and rename look at nothing in the place the file goes to
  \/ \E f \in live, p \in Places : Load(s, "move", {f}, p, {}, "write")
  \/ \E f \in live, p \in Places : Load(s, "copy", {f}, p, {blob[f]}, "find")
  \/ \E v \in versions : v[1] \in live /\ Load(s, "revert", {v[1]}, Nil, {v[2]}, "find")

LoadFolder(s) ==
  \E p \in Places :
    LET at == {f \in Rows : place[f] = p} IN
    \/ Load(s, "trash", at \cap live, Nil, {}, "write")
    \/ Load(s, "restore", at \cap trashed, Nil, {}, "write")
    \/ Load(s, "purge", at, Nil, Names(at), "write")

(***************************************************************************)
(* empty_trash lists the files in the trash, and then, for each folder in  *)
(* the trash, every file in it, live ones included (which folders those    *)
(* are is FolderTree's subject: here, any).  It lists until it finds no    *)
(* more and commits everything at once; its own DELETEs it sees itself.    *)
(***************************************************************************)
LoadTrash(s) ==
  LET r == IF req[s] = Idle THEN [Idle EXCEPT !.op = "empty", !.stage = "unlink"] ELSE req[s]
      List(F) == /\ F \ r.F # {}
                 /\ Go(s, [r EXCEPT !.F = @ \cup F, !.left = {<<f, blob[f]>> : f \in F \ r.F}])
                 /\ doomed' = doomed \cup F
  IN
  /\ "empty" \in Ops /\ r.op = "empty" /\ r.stage = "unlink" /\ r.left = {}
  /\ \/ List(trashed)
     \/ /\ req[s] = Idle => trashed = {}
        /\ \E p \in Places : List({f \in Rows : place[f] = p})
     \/ req[s] # Idle /\ trashed \subseteq r.F /\ Step(s, "commit") /\ UNCHANGED doomed
  /\ UNCHANGED <<tables, azure>>

\* backend.copy starts a copy and does not wait for it
StartCopy(s) ==
  LET r == req[s] IN
  /\ At(s, {"copy", "revert"}, "find")
  /\ \/ \E b \in FreshBlobs, source \in r.old :
          /\ \/ source \in stored /\ copying' = copying \cup {<<source, b>>} /\ UNCHANGED hollow
             \/ source \in hollow /\ hollow' = hollow \cup {b} /\ UNCHANGED copying
          /\ Go(s, [r EXCEPT !.stage = IF r.op = "copy" THEN "insert" ELSE "version",
                             !.b = b, !.old = {}])
     \/ r.old \cap (stored \cup hollow) = {} /\ Fail(s) /\ UNCHANGED <<hollow, copying>>
  /\ UNCHANGED <<tables, stored, doomed>>

\* external: the storage account carries the copy out, or finds the source deleted
EndCopy ==
  /\ \E c \in copying :
       /\ copying' = copying \ {c}
       /\ \/ stored' = stored \cup {c[2]} /\ UNCHANGED hollow
          \/ "copy" \in Faults /\ c[1] \notin stored /\ hollow' = hollow \cup {c[2]} /\ UNCHANGED stored
  /\ UNCHANGED <<tables, req, doomed>>

(***************************************************************************)
(* The UPDATE or DELETE of the rows; an UPDATE of a row that is gone       *)
(* raises StaleDataError, a DELETE does not.                               *)
(***************************************************************************)
\* mutation: an UPDATE that matches no row goes unnoticed
NeverGone(r) == FALSE

Gone(r) == r.op \notin {"purge", "empty"} /\ ~(r.F \subseteq Rows)

WriteRows(s) ==
  LET r == req[s] IN
  /\ r.stage = "write"
  /\ \A f \in Reached(r) : ~Locked(f, s)
  /\ \/ ~Gone(r) /\ Hold(s, r, IF r.op \in {"delete", "purge", "empty"} THEN "unlink" ELSE "commit")
     \/ (Gone(r) \/ "db" \in Faults) /\ Fail(s)
  /\ UNCHANGED <<tables, azure, doomed>>

\* delete and permanent_delete unlink after the write and before the commit
Unlink(s) ==
  /\ At(s, {"delete", "purge"}, "unlink")
  /\ Unlinked(req[s].old)
  /\ Go(s, [req[s] EXCEPT !.stage = "commit", !.old = {}])
  /\ UNCHANGED <<tables, doomed>>

\* empty_trash unlinks the blob of one file, then deletes its row, then comes to the next
UnlinkListed(s) ==
  /\ At(s, {"empty"}, "unlink")
  /\ \E v \in req[s].left :
       /\ Unlinked({v[2]})
       /\ Go(s, [req[s] EXCEPT !.stage = "write", !.left = @ \ {v}])
  /\ UNCHANGED <<tables, doomed>>

Assign(fn, F, x) == [f \in Files |-> IF f \in F THEN x ELSE fn[f]]

Apply(r) ==
  CASE r.op \in {"upload", "revert"} ->
         /\ live' = IF r.new THEN live \cup r.F ELSE live
         /\ place' = IF r.new THEN Assign(place, r.F, r.p) ELSE place
         /\ blob' = Assign(blob, r.F, r.b)
         /\ versions' = versions \cup (r.F \X {r.b})
         /\ UNCHANGED trashed
    [] r.op = "copy" ->                    \* without a version row
         /\ live' = live \cup r.F
         /\ place' = Assign(place, r.F, r.p)
         /\ blob' = Assign(blob, r.F, r.b)
         /\ UNCHANGED <<trashed, versions>>
    [] r.op = "move" ->
         /\ place' = Assign(place, r.F, r.p)
         /\ UNCHANGED <<live, trashed, blob, versions>>
    [] r.op \in {"delete", "trash"} ->
         /\ live' = live \ r.F /\ trashed' = trashed \cup r.F
         /\ UNCHANGED <<place, blob, versions>>
    [] r.op = "restore" ->
         /\ live' = live \cup r.F /\ trashed' = trashed \ r.F
         /\ UNCHANGED <<place, blob, versions>>
    [] OTHER ->                            \* the version rows go with their file
         /\ live' = live \ r.F /\ trashed' = trashed \ r.F
         /\ place' = Assign(place, r.F, Nil) /\ blob' = Assign(blob, r.F, Nil)
         /\ versions' = {v \in versions : v[1] \notin r.F}

Commit(s) ==
  LET r == req[s] IN
  /\ r.stage = "commit"
  /\ \/ /\ Apply(r) /\ Go(s, Idle)
        /\ doomed' = IF r.new THEN doomed \ r.F ELSE doomed
     \/ "db" \in Faults /\ Fail(s) /\ UNCHANGED <<tables, doomed>>
  /\ UNCHANGED azure

\* client gone, 60-second timeout, worker killed: no except clause runs
Cancel(s) ==
  /\ "cancel" \in Faults
  /\ req[s] # Idle
  /\ Fail(s)
  /\ UNCHANGED <<tables, azure, doomed>>

-----------------------------------------------------------------------------
Init ==
  /\ live = {} /\ trashed = {}
  /\ place = [f \in Files |-> Nil] /\ blob = [f \in Files |-> Nil]
  /\ versions = {} /\ stored = {} /\ hollow = {} /\ copying = {}
  /\ req = [s \in Sessions |-> Idle]
  /\ doomed = {}

Serve(s) ==
  \/ PutBlob(s) \/ FindByName(s) \/ InsertFile(s) \/ WriteVersion(s) \/ CleanUp(s)
  \/ LoadFile(s) \/ LoadFolder(s) \/ LoadTrash(s) \/ StartCopy(s)
  \/ WriteRows(s) \/ Unlink(s) \/ UnlinkListed(s) \/ Commit(s)

Next == EndCopy \/ \E s \in Sessions : Serve(s) \/ Cancel(s)

Spec == Init /\ [][Next]_vars

-----------------------------------------------------------------------------
(***************************************************************************)
(* Properties.                                                             *)
(***************************************************************************)
(* A file has its content, and so has each of its versions, unless its     *)
(* deletion or that of a folder it was in was ever asked for, Azure still  *)
(* owes it a copy or the copy lost its source: no failure, abandoned       *)
(* request or deletion of another file takes it away, although blobs are   *)
(* unlinked beside the transaction.                                        *)
UntouchedHaveContent ==
  LET there == stored \cup hollow \cup {c[2] : c \in copying} IN
  /\ \A f \in live \ doomed : blob[f] \in there
  /\ \A v \in versions : v[1] \notin doomed => v[2] \in there

(* Version rows belong to a file, even when it is purged between the       *)
(* upload's find_by_name and its INSERT.                                   *)
VersionsHaveFile == \A v \in versions : v[1] \in Rows

(* A file that comes back from the trash can be downloaded again.          *)
RestoredHaveContent == [][\A f \in trashed : f \in live' => blob[f] \in stored]_vars
=============================================================================
