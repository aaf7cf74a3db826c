------------------------------ MODULE FolderTxn ------------------------------
(***************************************************************************)
(* The folder operations of FolderTree as PostgreSQL runs them: every      *)
(* request is a READ COMMITTED transaction (dependencies/database.py sets  *)
(* no isolation level, no query uses FOR UPDATE), so each SELECT of a      *)
(* handler sees what is committed at that moment, the rows a statement     *)
(* writes stay locked until the commit, and other requests run in between. *)
(* A handler writes its rows one by one, so requests can come to wait for  *)
(* each other in a circle, which the database ends by aborting one.        *)
(*                                                                         *)
(* All folders belong to one user: authorisation is FolderTree's subject.  *)
(* Copy is not interleaved here; it only inserts rows, like Create.        *)
(***************************************************************************)
EXTENDS Naturals, Sequences, FiniteSets

CONSTANTS
  Folders, BaseNames, Nil, User,
  Sessions,   \* one request each
  Ops,        \* the operations clients ask for
  MaxMoves    \* bound: how many of the requests may be moves

ASSUME OpsAssumption == Ops \subseteq {"create", "move", "delete", "restore", "purge", "empty"}

VARIABLES
  live, trashed, parent, name,  \* the committed rows
  req,                          \* req[s]: the request of session s and its progress
  locks,                        \* locks[s]: the row locks of the writes it has completed
  taken                         \* taken[s]: those its write under way has got so far

rows == <<live, trashed, parent, name>>
vars == <<live, trashed, parent, name, req, locks, taken>>

MaxSuffix == 1
Owners == [f \in Folders |-> IF f \in live \cup trashed THEN User ELSE Nil]

\* FolderTree over the committed rows: its walks and names are used below
Tree == INSTANCE FolderTree WITH
          Users <- {User}, MaxGrants <- 0, owner <- Owners,
          role <- [u \in {User} |-> [f \in Folders |-> "none"]]

Rows == Tree!Rows

ASSUME NilAssumption == Nil \notin Folders /\ Nil # User /\ Nil \notin Tree!Names
ASSUME SessionsAssumption == IsFiniteSet(Sessions)

(***************************************************************************)
(* Progress of a request.  Rows loaded into the session keep the values    *)
(* they had (the identity map): n and p hold those of the folder.  "cur"   *)
(* is the next ancestor is_ancestor loads (move); "seen" the rows found by *)
(* the recursive query or the trash listings, later those to be written.   *)
(* A restore that goes on without renaming the folder has Nil for n.       *)
(***************************************************************************)
Stages == {"start", "parent", "walk", "names", "subtree", "cascade", "write", "again", "commit", "done"}

Request == [op : Ops, stage : Stages, f : Folders \cup {Nil}, p : Folders \cup {Nil},
            n : Tree!Names \cup {Nil}, cur : Folders \cup {Nil}, seen : SUBSET Folders]

Modes == {"keyshare", "nokeyupdate", "update"}

TypeOK ==
  /\ live \subseteq Folders /\ trashed \subseteq Folders /\ live \cap trashed = {}
  /\ parent \in [Folders -> Folders \cup {Nil}]
  /\ name \in [Folders -> Tree!Names \cup {Nil}]
  /\ \A f \in live \cup trashed : name[f] # Nil
  /\ req \in [Sessions -> Request]
  /\ locks \in [Sessions -> SUBSET (Modes \X Folders)]
  /\ taken \in [Sessions -> SUBSET (Modes \X Folders)]

At(s, ops, stage) == req[s].op \in ops /\ req[s].stage = stage
Go(s, r) == req' = [req EXCEPT ![s] = r]

\* mutation: the session is left open, with what it has locked
FinishLeavesOpen(s) ==
  /\ Go(s, [req[s] EXCEPT !.stage = "done", !.cur = Nil, !.seen = {}])
  /\ UNCHANGED <<locks, taken>>

\* the session closes: the transaction ends and its locks go
Finish(s) ==
  /\ Go(s, [req[s] EXCEPT !.stage = "done", !.cur = Nil, !.seen = {}])
  /\ locks' = [locks EXCEPT ![s] = {}]
  /\ taken' = [taken EXCEPT ![s] = {}]

Fail(s) == Finish(s) /\ UNCHANGED rows

-----------------------------------------------------------------------------
(***************************************************************************)
(* The SELECTs, one per step.                                              *)
(***************************************************************************)
Select(s, r) == Go(s, r) /\ UNCHANGED <<rows, locks, taken>>

LoadFolder(s) ==
  LET r == req[s] IN
  \/ /\ At(s, {"move"}, "start") /\ r.f \in live
     /\ Select(s, [r EXCEPT !.stage = "parent", !.n = name[r.f]])
  \/ /\ At(s, {"delete"}, "start") /\ r.f \in live
     /\ Select(s, [r EXCEPT !.stage = "subtree"])
  \/ /\ At(s, {"restore"}, "start") /\ r.f \in trashed
     /\ Select(s, [r EXCEPT !.stage = "parent", !.n = name[r.f], !.p = parent[r.f]])
  \/ /\ At(s, {"purge"}, "start") /\ r.f \in Rows
     /\ Select(s, [r EXCEPT !.stage = "subtree"])
  \/ /\ At(s, {"empty"}, "start")                          \* list_trash
     /\ Select(s, [r EXCEPT !.stage = "cascade", !.seen = trashed])

\* the target or parent folder; for a move, the walk starts with what its row says
LoadParent(s) ==
  LET r == req[s] IN
  /\ At(s, {"create", "move", "restore"}, "parent")
  /\ r.p \in live \cup {Nil}
  /\ \/ r.op = "create" /\ Select(s, [r EXCEPT !.stage = "write"])
     \/ r.op = "restore" /\ Select(s, [r EXCEPT !.stage = "names"])
     \/ r.op = "move" /\ r.p # r.f
        /\ Select(s, IF r.p = Nil THEN [r EXCEPT !.stage = "names"]
                                  ELSE [r EXCEPT !.stage = "walk", !.cur = parent[r.p]])

\* mutation: only the direct parent of the target is compared
WalkOneStep(s) ==
  LET r == req[s] IN
  /\ At(s, {"move"}, "walk")
  /\ r.cur # r.f
  /\ Select(s, [r EXCEPT !.cur = Nil, !.stage = "names"])

\* one turn of is_ancestor: load cur, go on with its parent; it ends at the root or at a missing row
Walk(s) ==
  LET r == req[s] IN
  /\ At(s, {"move"}, "walk")
  /\ IF r.cur \in Rows
       THEN r.cur # r.f /\ Select(s, [r EXCEPT !.cur = parent[@]])
       ELSE Select(s, [r EXCEPT !.cur = Nil, !.stage = "names"])

Taken(r) == Tree!Taken(r.n, User, r.p)
Ambiguous(r) == Tree!Ambiguous(r.n, User, r.p)

\* exists_by_name: the first query of create, the last of move and restore
CheckName(s) ==
  LET r == req[s] IN
  \/ /\ At(s, {"create"}, "start") /\ ~Taken(r)
     /\ Select(s, [r EXCEPT !.stage = "parent"])
  \/ /\ At(s, {"move"}, "names") /\ ~Taken(r)
     /\ Select(s, [r EXCEPT !.stage = "write"])
  \/ /\ At(s, {"restore"}, "names") /\ ~Ambiguous(r)
     /\ Select(s, [r EXCEPT !.stage = "subtree",
                            !.n = IF Taken(r) THEN Tree!Suffixed(@, 0) ELSE Nil])

\* mutation: the recursive query without its recursion
QueryTop(s) ==
  LET r == req[s] IN
  /\ At(s, {"delete", "restore", "purge"}, "subtree")
  /\ Select(s, [r EXCEPT !.stage = IF r.op = "purge" THEN "cascade" ELSE "write", !.seen = {r.f}])

\* get_subtree_ids
QuerySubtree(s) ==
  LET r == req[s] IN
  /\ At(s, {"delete", "restore", "purge"}, "subtree")
  /\ Select(s, [r EXCEPT !.stage = IF r.op = "purge" THEN "cascade" ELSE "write",
                         !.seen = Tree!Subtree(r.f)])

\* rows the transaction has deleted so far: an earlier batch of empty_trash
DeletedBy(s) == {g \in Folders : <<"update", g>> \in locks[s]}

\* session.delete of each folder found loads the children it has by now, recursively
LoadCascade(s) ==
  LET r == req[s]
      found == r.seen \ DeletedBy(s)
  IN  /\ At(s, {"purge", "empty"}, "cascade")
      /\ Select(s, [r EXCEPT !.stage = "write",
                             !.seen = @ \cup {g \in Rows : Tree!Walk(g, DeletedBy(s)) \cap found # {}}])

\* the loop of empty_trash: list_trash until it finds nothing more
ListAgain(s) ==
  LET r == req[s] IN
  /\ At(s, {"empty"}, "again")
  /\ Select(s, [r EXCEPT !.stage = IF trashed \subseteq r.seen THEN "commit" ELSE "cascade",
                         !.seen = @ \cup trashed])

\* the service raises NotFoundError, ConflictError or ValidationError
Refuse(s) ==
  LET r == req[s] IN
  /\ \/ At(s, {"move", "delete"}, "start") /\ r.f \notin live
     \/ At(s, {"restore"}, "start") /\ r.f \notin trashed
     \/ At(s, {"purge"}, "start") /\ r.f \notin Rows
     \/ At(s, {"create", "move", "restore"}, "parent") /\ r.p \notin live \cup {Nil}
     \/ At(s, {"move"}, "parent") /\ r.p = r.f
     \/ At(s, {"move"}, "walk") /\ r.cur = r.f /\ r.f \in Rows
     \/ At(s, {"create"}, "start") /\ Taken(r)
     \/ At(s, {"move"}, "names") /\ Taken(r)
     \/ At(s, {"restore"}, "names") /\ Ambiguous(r)
  /\ Fail(s)

-----------------------------------------------------------------------------
(***************************************************************************)
(* The writes.  name and parent_id are columns of a unique index a foreign *)
(* key could use, so an UPDATE of either locks the row like a DELETE       *)
(* ("update"); an UPDATE of is_deleted alone takes "nokeyupdate", and the  *)
(* foreign-key check of a parent_id takes "keyshare" on the parent.        *)
(***************************************************************************)
Conflict(m1, m2) == m1 = "update" \/ m2 = "update" \/ (m1 = "nokeyupdate" /\ m2 = "nokeyupdate")

Lock(mode, S) == {mode} \X S
ParentLock(p) == Lock("keyshare", {p} \ {Nil})
Orphans(S) == {g \in Rows \ S : parent[g] \in S}        \* ON DELETE SET NULL

\* mutation: every row read is written, still there or not
TargetAsRead(s) == IF req[s].op \in {"create", "move"} THEN {req[s].f} ELSE req[s].seen

Target(s) ==                 \* the rows the write is about, as they are now
  LET r == req[s] IN
  CASE r.op = "delete" -> r.seen \cap Rows
    [] r.op = "restore" -> (r.seen \cap trashed) \cup {r.f}
    [] r.op \in {"purge", "empty"} -> r.seen \cap Rows
    [] OTHER -> {r.f}

NeededLocks(r, S) ==
  CASE r.op = "create" -> ParentLock(r.p)
    [] r.op = "move" -> Lock("update", S) \cup ParentLock(r.p)
    [] r.op = "delete" -> Lock("nokeyupdate", S)
    [] r.op = "restore" -> Lock("nokeyupdate", S)
                           \cup (IF r.n # Nil THEN Lock("update", {r.f}) ELSE {})
    [] OTHER -> Lock("update", S \cup Orphans(S))

Held(s) == locks[s] \cup taken[s]

Clash(l, k) == l[2] = k[2] /\ Conflict(l[1], k[1])
Free(s, L) == \A t \in Sessions \ {s} : \A l \in L, k \in Held(t) : ~Clash(l, k)

\* the key of uq_folder_name_parent_owner the row of a request is about to get: a
\* move writes parent_id only, a restore the name of the folder or neither
NewName(r) == IF r.op = "move" THEN name[r.f] ELSE r.n
NewParent(r) == IF r.op = "restore" THEN parent[r.f] ELSE r.p
Keyed(r) == r.op \in {"create", "move", "restore"} /\ NewName(r) # Nil /\ NewParent(r) # Nil
KeyPending(s) == \E t \in Sessions \ {s} :
                   /\ req[t].stage = "commit" /\ Keyed(req[t]) /\ Keyed(req[s])
                   /\ NewName(req[t]) = NewName(req[s]) /\ NewParent(req[t]) = NewParent(req[s])
KeyClash(r) == Keyed(r) /\ \E g \in Rows \ {r.f} : name[g] = NewName(r) /\ parent[g] = NewParent(r)

\* mutation: no foreign key on parent_id
ImpossibleWithoutForeignKey(r) ==
  \/ r.op \in {"move", "restore"} /\ r.f \notin Rows
  \/ KeyClash(r)
  \/ r.n # Nil /\ Len(r.n.suffix) > MaxSuffix

\* foreign-key violation, unique violation, row gone (StaleDataError), name too long
Impossible(r) ==
  \/ r.op \in {"create", "move"} /\ r.p \notin Rows \cup {Nil}
  \/ r.op \in {"move", "restore"} /\ r.f \notin Rows
  \/ KeyClash(r)
  \/ r.n # Nil /\ Len(r.n.suffix) > MaxSuffix

\* a new UUID: no row has it, and no other request can know it
Mentioned(r) == {r.f, r.p, r.cur} \cup r.seen
Unused(s) == {f \in Folders \ Rows :
                \A t \in Sessions \ {s} : req[t].stage # "done" => f \notin Mentioned(req[t])}

(***************************************************************************)
(* A write goes row by row and waits at each row another transaction has   *)
(* locked.  The rows of delete and restore come in the order of a query    *)
(* without ORDER BY, that is, in any; the row a request moves or renames   *)
(* comes first; the session deletes children before their parents, and ON  *)
(* DELETE SET NULL reaches a child it did not load after its parent.  The  *)
(* new index key is entered with the last row.                             *)
(***************************************************************************)
Ahead(r, S, l, k) ==
  \/ r.op \in {"move", "restore"} /\ l[1] = "update" /\ k[1] # "update"
  \/ /\ r.op \in {"purge", "empty"} /\ l[2] # k[2]
     /\ IF k[2] \in S THEN l[2] \in S /\ parent[l[2]] = k[2] ELSE l[2] = parent[k[2]]

ToWrite(s) == IF req[s].op = "create" THEN {} ELSE Target(s)
Missing(s) == NeededLocks(req[s], ToWrite(s)) \ Held(s)
NextLocks(s) == {l \in Missing(s) : \A k \in Missing(s) : ~Ahead(req[s], ToWrite(s), k, l)}

\* one row, when it is not the last
Acquire(s) ==
  /\ req[s].stage = "write"
  /\ ~Impossible(req[s])
  /\ \E l \in NextLocks(s) : /\ Missing(s) # {l}
                             /\ Free(s, {l})
                             /\ taken' = [taken EXCEPT ![s] = @ \cup {l}]
  /\ UNCHANGED <<rows, req, locks>>

\* the last row: the write is complete
Write(s) ==
  /\ req[s].stage = "write"
  /\ ~Impossible(req[s])
  /\ ~KeyPending(s)
  /\ \A l, k \in Missing(s) : l = k
  /\ \E f \in IF req[s].op = "create" THEN Unused(s) ELSE {req[s].f} :
       LET r == [req[s] EXCEPT !.f = f]
           S == IF r.op = "create" THEN {} ELSE Target(s)
       IN  /\ Free(s, NeededLocks(r, S))
           /\ locks' = [locks EXCEPT ![s] = NeededLocks(r, S)]
           /\ Go(s, [r EXCEPT !.stage = IF r.op = "empty" THEN "again" ELSE "commit",
                              !.seen = S])
  /\ taken' = [taken EXCEPT ![s] = {}]
  /\ UNCHANGED rows

\* whose locks a row it may come to next has
Blockers(s) == {t \in Sessions \ {s} : /\ req[s].stage = "write"
                                       /\ \E l \in NextLocks(s), k \in Held(t) : Clash(l, k)}
InCircle(s) == \A C \in SUBSET Sessions :
                 Blockers(s) \subseteq C /\ (\A t \in C : Blockers(t) \subseteq C) => s \in C

\* PostgreSQL finds the circle and aborts the transaction that looked
Deadlock(s) == InCircle(s) /\ Fail(s)

\* the write raises; get_db rolls back
DbError(s) == req[s].stage = "write" /\ Impossible(req[s]) /\ Fail(s)

Erase(S) ==
  /\ live' = live \ S
  /\ trashed' = trashed \ S
  /\ parent' = [g \in Folders |-> IF g \in S \/ parent[g] \in S THEN Nil ELSE parent[g]]
  /\ name' = [g \in Folders |-> IF g \in S THEN Nil ELSE name[g]]

Commit(s) ==
  LET r == req[s] IN
  /\ r.stage = "commit"
  /\ \/ /\ r.op = "create"
        /\ live' = live \cup {r.f}
        /\ parent' = [parent EXCEPT ![r.f] = r.p]
        /\ name' = [name EXCEPT ![r.f] = r.n]
        /\ UNCHANGED trashed
     \/ /\ r.op = "move"
        /\ parent' = [parent EXCEPT ![r.f] = r.p]
        /\ UNCHANGED <<live, trashed, name>>
     \/ /\ r.op = "delete"
        /\ live' = live \ r.seen /\ trashed' = trashed \cup r.seen
        /\ UNCHANGED <<parent, name>>
     \/ /\ r.op = "restore"
        /\ live' = live \cup r.seen /\ trashed' = trashed \ r.seen
        /\ name' = [name EXCEPT ![r.f] = IF r.n = Nil THEN @ ELSE r.n]
        /\ UNCHANGED parent
     \/ /\ r.op \in {"purge", "empty"}
        /\ Erase(r.seen)
  /\ Finish(s)

\* connection lost, client gone, 60-second timeout: the session closes without a commit
Cancel(s) == req[s].stage \notin {"start", "done"} /\ Fail(s)

-----------------------------------------------------------------------------
\* any table the service can have built one request at a time
IsTree ==
  /\ live \cap trashed = {}
  /\ \A f \in Folders : (f \in Rows) = (name[f] # Nil)
  /\ Tree!RowsOK /\ Tree!Acyclic /\ Tree!LiveUnderLive /\ Tree!UniqueRows

Requests ==
  LET Asked == [op : Ops, stage : {"start"}, f : Folders \cup {Nil}, p : Folders \cup {Nil},
                n : {Tree!Plain(b) : b \in BaseNames} \cup {Nil}, cur : {Nil}, seen : {{}}]
  IN  {r \in Asked : /\ (r.f = Nil) = (r.op \in {"create", "empty"})
                     /\ r.p # Nil => r.op \in {"create", "move"}
                     /\ (r.n # Nil) = (r.op = "create")}

Init ==
  /\ live \in SUBSET Folders /\ trashed \in SUBSET (Folders \ live)
  /\ name \in [Folders -> {Tree!Plain(b) : b \in BaseNames} \cup {Nil}]
  /\ parent \in [Folders -> Folders \cup {Nil}]
  /\ IsTree = TRUE  \* an expression to TLC, which would repeat a state for each witness in it
  /\ req \in [Sessions -> Requests]
  /\ Cardinality({s \in Sessions : req[s].op = "move"}) <= MaxMoves
  \* UUIDs do not run out
  /\ Cardinality({s \in Sessions : req[s].op = "create"}) <= Cardinality(Folders \ Rows)
  /\ locks = [s \in Sessions |-> {}]
  /\ taken = [s \in Sessions |-> {}]

Serve(s) ==
  \/ LoadFolder(s) \/ LoadParent(s) \/ Walk(s) \/ CheckName(s) \/ QuerySubtree(s)
  \/ LoadCascade(s) \/ ListAgain(s) \/ Refuse(s) \/ Acquire(s) \/ Write(s) \/ DbError(s)
  \/ Deadlock(s) \/ Commit(s)

Next == \E s \in Sessions : Serve(s) \/ Cancel(s)

\* the event loop resumes every coroutine whose query has returned
Fairness == \A s \in Sessions : WF_vars(Serve(s))

Spec == Init /\ [][Next]_vars
FairSpec == Spec /\ Fairness

-----------------------------------------------------------------------------
(***************************************************************************)
(* Properties.                                                             *)
(***************************************************************************)
(* Foreign keys and the unique constraint hold in every committed state,   *)
(* whatever the requests had read: a folder created or moved while its     *)
(* parent is purged ends up under no missing row.                          *)
TablesOK == Tree!RowsOK /\ Tree!UniqueRows

(* No folder becomes its own ancestor.                                     *)
Acyclic == Tree!Acyclic

(* Every request ends, committed or not.  Requests do come to wait for each *)
(* other's rows in a circle, which costs one of them its commit; no other   *)
(* wait lasts, because whoever ends, at whatever step, leaves no lock       *)
(* behind, and every walk up the parents comes to a root.                   *)
EveryRequestEnds == <>(\A s \in Sessions : req[s].stage = "done")

(* Requests that do not overlap are atomic: as long as no other request    *)
(* has begun, every step of the statements and their commit is one         *)
(* operation of FolderTree, or none of its variables changes.              *)
Alone(s) == \A t \in Sessions \ {s} : req[t].stage = "start" /\ req'[t] = req[t]
Serializable == [][(\E s \in Sessions : Alone(s)) => UNCHANGED Tree!vars \/ Tree!Next]_vars
=============================================================================
