--------------------------- MODULE FolderTxnProofs ---------------------------
(***************************************************************************)
(* FolderTxn for any number of folders, names and overlapping requests:    *)
(* what row locks, foreign keys and the unique index keep in order while   *)
(* the handlers write what they have read before.                          *)
(***************************************************************************)
EXTENDS FolderTxn, FiniteSetTheorems, TLAPS

(***************************************************************************)
(* The constraints of the table, in the words of this module.              *)
(***************************************************************************)
References ==
  /\ \A f \in Rows : parent[f] \in Rows \cup {Nil} /\ name[f] \in Tree!Names
  /\ \A f \in Folders \ Rows : parent[f] = Nil

Unique ==
  \A f, g \in Rows : parent[f] # Nil /\ parent[f] = parent[g] /\ name[f] = name[g] => f = g

(* the statements of the request have run, its commit has not               *)
Written(r) == r.stage = "commit" \/ (r.op = "empty" /\ r.stage = "again")

(* a conflicting lock is waited for                                         *)
Compatible ==
  \A s \in Sessions : \A t \in Sessions \ {s} :
    \A l \in locks[s], k \in locks[t] : l[2] = k[2] => ~Conflict(l[1], k[1])

(***************************************************************************)
(* What a request has written is still so when it commits, because of the  *)
(* locks it holds.                                                         *)
(***************************************************************************)
Ready(s) ==
  LET r == req[s]
      Holds(mode, f) == <<mode, f>> \in locks[s]
  IN  Written(r) =>
        /\ r.op \in {"create", "move"} /\ r.p # Nil => r.p \in Rows /\ Holds("keyshare", r.p)
        /\ r.op = "create" =>
             /\ r.f \in Folders \ Rows
             /\ \A t \in Sessions \ {s} : req[t].stage # "done" => r.f \notin Mentioned(req[t])
        /\ r.op = "move" => r.f \in Rows /\ Holds("update", r.f)
        /\ r.op \in {"delete", "restore"} => \A g \in r.seen : g \in Rows /\ Holds("nokeyupdate", g)
        /\ r.op = "restore" => r.f \in r.seen /\ (r.n # Nil => Holds("update", r.f))
        /\ r.op \in {"purge", "empty"} =>
             /\ \A g \in r.seen : g \in Rows /\ Holds("update", g)
             /\ \A g \in Rows : parent[g] \in r.seen => Holds("update", g)

(* the keys that are about to be entered in the unique index are not there, *)
(* and are not the same                                                     *)
KeysFree == \A s \in Sessions : req[s].stage = "commit" => ~KeyClash(req[s]) /\ ~KeyPending(s)

(* a creation has a name, and no UUID before its row is inserted            *)
Named == \A s \in Sessions : req[s].op = "create" =>
           req[s].n # Nil /\ (req[s].stage \notin {"commit", "done"} => req[s].f = Nil)

IInv ==
  /\ TypeOK /\ Named
  /\ References /\ Unique
  /\ Compatible /\ (\A s \in Sessions : Ready(s)) /\ KeysFree

-----------------------------------------------------------------------------
LEMMA RowsMeaning == Rows = live \cup trashed
BY DEF Rows, Tree!Rows

(* the constraints are those of FolderTree                                  *)
LEMMA Constraints ==
  ASSUME TypeOK
  PROVE  (References /\ Unique) <=> (Tree!RowsOK /\ Tree!UniqueRows)
BY DEF References, Unique, Tree!RowsOK, Tree!UniqueRows, Rows, Tree!Rows, Owners, TypeOK

LEMMA TablesMeaning == IInv => TablesOK
BY Constraints DEF IInv, TablesOK

LEMMA NamesTyped ==
  /\ \A b \in BaseNames : Tree!Plain(b) \in Tree!Names
  /\ \A n \in Tree!Names : Tree!Suffixed(n, 0) \in Tree!Names
BY DEF Tree!Plain, Tree!Names, Tree!Suffixed

LEMMA InitIInv == Init => IInv
<1> SUFFICES ASSUME Init PROVE IInv
  OBVIOUS
<1>1. \A s \in Sessions : /\ req[s] \in Request /\ req[s].stage = "start"
                          /\ req[s].op = "create" => req[s].n # Nil /\ req[s].f = Nil
  BY NamesTyped DEF Init, Requests, Request, Stages
<1>2. TypeOK
  BY <1>1, NamesTyped, RowsMeaning DEF Init, TypeOK, IsTree
<1>3. Named
  BY <1>1 DEF Named
<1>4. References /\ Unique
  BY <1>2, Constraints DEF Init, IsTree
<1>5. Compatible
  BY DEF Init, Compatible
<1>6. (\A s \in Sessions : Ready(s)) /\ KeysFree
  BY <1>1 DEF Ready, KeysFree, Written
<1>. QED BY <1>2, <1>3, <1>4, <1>5, <1>6 DEF IInv

-----------------------------------------------------------------------------
(***************************************************************************)
(* Statements that only read.  What a request comes to know are rows, so   *)
(* it cannot know a UUID that is about to be inserted.                     *)
(***************************************************************************)
LEMMA SelectStep ==
  ASSUME IInv, NEW s \in Sessions, NEW r \in Request,
         req' = [req EXCEPT ![s] = r], UNCHANGED <<live, trashed, parent, name, locks, taken>>,
         req[s].stage \notin {"commit", "done"},
         r.op = req[s].op, r.f = req[s].f, r.op = "create" => r.n # Nil,
         Mentioned(r) \subseteq Mentioned(req[s]) \cup Rows \cup {Nil},
         \/ ~Written(r)
         \/ Written(req[s]) /\ r.op = "empty" /\ r.seen = req[s].seen
  PROVE  IInv'
<1>1. TypeOK'
  BY DEF IInv, TypeOK
<1>2. \A t \in Sessions : req'[t] = IF t = s THEN r ELSE req[t]
  BY DEF IInv, TypeOK
<1>3. Named'
  BY <1>2 DEF IInv, Named
<1>4. Rows' = Rows
  BY DEF Rows, Tree!Rows
<1>5. References' /\ Unique'
  BY <1>4 DEF IInv, References, Unique
<1>6. Compatible'
  BY DEF IInv, Compatible
<1>7. ASSUME NEW t \in Sessions PROVE Ready(t)'
  <2>1. Ready(t) /\ Ready(s)
    BY DEF IInv
  <2>2. CASE t = s
    BY <1>2, <1>4, <2>1, <2>2 DEF Ready, Written
  <2>3. CASE t # s
    <3>1. Written(req[t]) /\ req[t].op = "create" => req[t].f \notin Mentioned(r)
      <4>1. req[t].f # Nil \/ req[t].f \notin Folders
        BY NilAssumption
      <4>. QED BY <2>1, <2>3, <4>1 DEF Ready
    <3>. QED BY <1>2, <1>4, <2>1, <2>3, <3>1 DEF Ready
  <2>. QED BY <2>2, <2>3
<1>8. \A t \in Sessions : t # s => (KeyClash(req[t])' <=> KeyClash(req[t]))
  BY <1>2, <1>4 DEF KeyClash, Keyed, NewName, NewParent
<1>9. KeysFree'
  <2>1. r.stage = "commit" => ~Keyed(r) /\ ~Keyed(r)'
    BY DEF Keyed, Written
  <2>2. \A t \in Sessions : t # s => (Keyed(req[t])' <=> Keyed(req[t]))
                                     /\ NewName(req[t])' = NewName(req[t])
                                     /\ NewParent(req[t])' = NewParent(req[t])
    BY <1>2 DEF Keyed, NewName, NewParent
  <2>. QED BY <1>2, <1>4, <1>8, <2>1, <2>2 DEF IInv, KeysFree, KeyClash, KeyPending
<1>. QED BY <1>1, <1>3, <1>5, <1>6, <1>7, <1>9 DEF IInv

(* a transaction ends                                                       *)
LEMMA Finished ==
  ASSUME TypeOK, NEW s \in Sessions, Finish(s)
  PROVE  \E r \in Request : /\ req' = [req EXCEPT ![s] = r]
                            /\ r.stage = "done" /\ r.op = req[s].op /\ r.n = req[s].n
<1> DEFINE n == [req[s] EXCEPT !.stage = "done", !.cur = Nil, !.seen = {}]
<1>1. req[s] \in Request
  BY DEF TypeOK
<1>2. n \in Request /\ n.stage = "done" /\ n.op = req[s].op /\ n.n = req[s].n
  BY <1>1 DEF Request, Stages
<1>3. req' = [req EXCEPT ![s] = n]
  BY DEF Finish, Go
<1> HIDE DEF n
<1>. QED BY <1>2, <1>3

(* without a commit: refusals, errors of the database, disconnected clients *)
LEMMA FailStep ==
  ASSUME IInv, NEW s \in Sessions, Fail(s)
  PROVE  IInv'
<1>0. UNCHANGED <<live, trashed, parent, name>> /\ Finish(s)
  BY DEF Fail, rows
<1>a. PICK r \in Request : /\ req' = [req EXCEPT ![s] = r]
                          /\ r.stage = "done" /\ r.op = req[s].op /\ r.n = req[s].n
  BY <1>0, Finished DEF IInv
<1>b. locks' = [locks EXCEPT ![s] = {}] /\ taken' = [taken EXCEPT ![s] = {}]
  BY <1>0 DEF Finish
<1>1. TypeOK'
  BY <1>0, <1>a, <1>b DEF IInv, TypeOK
<1>2. /\ \A t \in Sessions : req'[t] = IF t = s THEN r ELSE req[t]
      /\ \A t \in Sessions : locks'[t] = IF t = s THEN {} ELSE locks[t]
  BY <1>a, <1>b DEF IInv, TypeOK
<1>3. Named'
  BY <1>a, <1>2 DEF IInv, Named
<1>4. Rows' = Rows
  BY <1>0 DEF Rows, Tree!Rows
<1>5. References' /\ Unique'
  BY <1>0, <1>4 DEF IInv, References, Unique
<1>6. Compatible'
  BY <1>2 DEF IInv, Compatible
<1>7. \A t \in Sessions : Ready(t)'
  BY <1>0, <1>a, <1>2, <1>4 DEF IInv, Ready, Written
<1>8. \A t \in Sessions : t # s => (KeyClash(req[t])' <=> KeyClash(req[t]))
  BY <1>0, <1>2, <1>4 DEF KeyClash, Keyed, NewName, NewParent
<1>9. KeysFree'
  <2>1. \A t \in Sessions : t # s => (Keyed(req[t])' <=> Keyed(req[t]))
                                     /\ NewName(req[t])' = NewName(req[t])
                                     /\ NewParent(req[t])' = NewParent(req[t])
    BY <1>0, <1>2 DEF Keyed, NewName, NewParent
  <2>. QED BY <1>a, <1>2, <1>8, <2>1 DEF IInv, KeysFree, KeyPending
<1>. QED BY <1>1, <1>3, <1>5, <1>6, <1>7, <1>9 DEF IInv

(***************************************************************************)
(* The SELECTs.                                                            *)
(***************************************************************************)
LEMMA LoadFolderStep ==
  ASSUME IInv, NEW s \in Sessions, LoadFolder(s)
  PROVE  IInv'
<1>0. /\ req[s] \in Request /\ req[s].stage = "start"
      /\ UNCHANGED <<live, trashed, parent, name, locks, taken>>
      /\ Rows \subseteq Folders /\ trashed \subseteq Rows /\ live \subseteq Rows
      /\ \A f \in Rows : name[f] \in Tree!Names /\ parent[f] \in Rows \cup {Nil}
  BY DEF LoadFolder, Select, At, rows, IInv, TypeOK, References, Rows, Tree!Rows
<1>1. CASE req[s].op = "move" /\ req[s].f \in live
             /\ Go(s, [req[s] EXCEPT !.stage = "parent", !.n = name[req[s].f]])
  <2> DEFINE n == [req[s] EXCEPT !.stage = "parent", !.n = name[req[s].f]]
  <2>1. /\ n \in Request /\ n.stage = "parent" /\ n.op = "move" /\ n.f = req[s].f /\ Mentioned(n) = Mentioned(req[s])
    BY <1>0, <1>1 DEF Request, Stages, Mentioned
  <2>2. req' = [req EXCEPT ![s] = n]
    BY <1>1 DEF Go
  <2> HIDE DEF n
  <2>. QED BY <1>0, <1>1, <2>1, <2>2, SelectStep DEF Written
<1>2. CASE req[s].op \in {"delete", "purge"} /\ Go(s, [req[s] EXCEPT !.stage = "subtree"])
  <2> DEFINE n == [req[s] EXCEPT !.stage = "subtree"]
  <2>1. /\ n \in Request /\ n.stage = "subtree" /\ n.op = req[s].op /\ n.f = req[s].f /\ Mentioned(n) = Mentioned(req[s])
    BY <1>0, <1>2 DEF Request, Stages, Mentioned
  <2>2. req' = [req EXCEPT ![s] = n]
    BY <1>2 DEF Go
  <2> HIDE DEF n
  <2>. QED BY <1>0, <1>2, <2>1, <2>2, SelectStep DEF Written
<1>3. CASE /\ req[s].op = "restore" /\ req[s].f \in trashed
           /\ Go(s, [req[s] EXCEPT !.stage = "parent", !.n = name[req[s].f], !.p = parent[req[s].f]])
  <2> DEFINE n == [req[s] EXCEPT !.stage = "parent", !.n = name[req[s].f], !.p = parent[req[s].f]]
  <2>1. /\ n \in Request /\ n.stage = "parent" /\ n.op = "restore"
        /\ n.f = req[s].f /\ n.cur = req[s].cur /\ n.seen = req[s].seen /\ n.p \in Rows \cup {Nil}
    BY <1>0, <1>3 DEF Request, Stages
  <2>2. req' = [req EXCEPT ![s] = n]
    BY <1>3 DEF Go
  <2> HIDE DEF n
  <2>3. Mentioned(n) \subseteq Mentioned(req[s]) \cup Rows \cup {Nil}
    BY <2>1 DEF Mentioned
  <2>. QED BY <1>0, <1>3, <2>1, <2>2, <2>3, SelectStep DEF Written
<1>4. CASE req[s].op = "empty" /\ Go(s, [req[s] EXCEPT !.stage = "cascade", !.seen = trashed])
  <2> DEFINE n == [req[s] EXCEPT !.stage = "cascade", !.seen = trashed]
  <2>1. /\ n \in Request /\ n.stage = "cascade" /\ n.op = "empty"
        /\ n.f = req[s].f /\ n.cur = req[s].cur /\ n.seen = trashed /\ n.p = req[s].p
    BY <1>0, <1>4 DEF Request, Stages
  <2>2. req' = [req EXCEPT ![s] = n]
    BY <1>4 DEF Go
  <2> HIDE DEF n
  <2>3. Mentioned(n) \subseteq Mentioned(req[s]) \cup Rows \cup {Nil}
    BY <1>0, <2>1 DEF Mentioned
  <2>. QED BY <1>0, <1>4, <2>1, <2>2, <2>3, SelectStep DEF Written
<1>. QED BY <1>1, <1>2, <1>3, <1>4 DEF LoadFolder, Select, At

LEMMA LoadParentStep ==
  ASSUME IInv, NEW s \in Sessions, LoadParent(s)
  PROVE  IInv'
<1>0. /\ req[s] \in Request /\ req[s].stage = "parent" /\ req[s].p \in live \cup {Nil}
      /\ UNCHANGED <<live, trashed, parent, name, locks, taken>>
      /\ Rows \subseteq Folders /\ live \subseteq Rows
      /\ req[s].op = "create" => req[s].n # Nil
      /\ \A f \in Rows : parent[f] \in Rows \cup {Nil}
  BY DEF LoadParent, Select, At, rows, IInv, TypeOK, Named, References, Rows, Tree!Rows
<1>1. CASE \E st \in {"write", "names"} : Go(s, [req[s] EXCEPT !.stage = st])
  <2>0. PICK st \in {"write", "names"} : Go(s, [req[s] EXCEPT !.stage = st])
    BY <1>1
  <2> DEFINE n == [req[s] EXCEPT !.stage = st]
  <2>1. /\ n \in Request /\ n.stage = st /\ n.op = req[s].op /\ n.n = req[s].n
        /\ n.f = req[s].f /\ Mentioned(n) = Mentioned(req[s])
    BY <1>0 DEF Request, Stages, Mentioned
  <2>2. req' = [req EXCEPT ![s] = n]
    BY <2>0 DEF Go
  <2> HIDE DEF n
  <2>. QED BY <1>0, <2>1, <2>2, SelectStep DEF Written
<1>2. CASE /\ req[s].op = "move" /\ req[s].p # Nil
           /\ Go(s, [req[s] EXCEPT !.stage = "walk", !.cur = parent[req[s].p]])
  <2> DEFINE n == [req[s] EXCEPT !.stage = "walk", !.cur = parent[req[s].p]]
  <2>1. /\ n \in Request /\ n.stage = "walk" /\ n.op = "move"
        /\ n.f = req[s].f /\ n.p = req[s].p /\ n.seen = req[s].seen /\ n.cur \in Rows \cup {Nil}
    BY <1>0, <1>2 DEF Request, Stages
  <2>2. req' = [req EXCEPT ![s] = n]
    BY <1>2 DEF Go
  <2> HIDE DEF n
  <2>3. Mentioned(n) \subseteq Mentioned(req[s]) \cup Rows \cup {Nil}
    BY <2>1 DEF Mentioned
  <2>. QED BY <1>0, <1>2, <2>1, <2>2, <2>3, SelectStep DEF Written
<1>. QED BY <1>1, <1>2 DEF LoadParent, Select, At

LEMMA WalkStep ==
  ASSUME IInv, NEW s \in Sessions, Walk(s)
  PROVE  IInv'
<1>0. /\ req[s] \in Request /\ req[s].stage = "walk" /\ req[s].op = "move"
      /\ UNCHANGED <<live, trashed, parent, name, locks, taken>>
      /\ Rows \subseteq Folders /\ \A f \in Rows : parent[f] \in Rows \cup {Nil}
  BY DEF Walk, Select, At, rows, IInv, TypeOK, References, Rows, Tree!Rows
<1>1. CASE req[s].cur \in Rows /\ Go(s, [req[s] EXCEPT !.cur = parent[req[s].cur]])
  <2> DEFINE n == [req[s] EXCEPT !.cur = parent[req[s].cur]]
  <2>1. /\ n \in Request /\ n.stage = "walk" /\ n.op = "move"
        /\ n.f = req[s].f /\ n.p = req[s].p /\ n.seen = req[s].seen /\ n.cur \in Rows \cup {Nil}
    BY <1>0, <1>1 DEF Request
  <2>2. req' = [req EXCEPT ![s] = n]
    BY <1>1 DEF Go
  <2> HIDE DEF n
  <2>3. Mentioned(n) \subseteq Mentioned(req[s]) \cup Rows \cup {Nil}
    BY <2>1 DEF Mentioned
  <2>. QED BY <1>0, <2>1, <2>2, <2>3, SelectStep DEF Written
<1>2. CASE Go(s, [req[s] EXCEPT !.cur = Nil, !.stage = "names"])
  <2> DEFINE n == [req[s] EXCEPT !.cur = Nil, !.stage = "names"]
  <2>1. /\ n \in Request /\ n.stage = "names" /\ n.op = "move"
        /\ n.f = req[s].f /\ n.p = req[s].p /\ n.seen = req[s].seen /\ n.cur = Nil
    BY <1>0 DEF Request, Stages
  <2>2. req' = [req EXCEPT ![s] = n]
    BY <1>2 DEF Go
  <2> HIDE DEF n
  <2>3. Mentioned(n) \subseteq Mentioned(req[s]) \cup Rows \cup {Nil}
    BY <2>1 DEF Mentioned
  <2>. QED BY <1>0, <2>1, <2>2, <2>3, SelectStep DEF Written
<1>. QED BY <1>1, <1>2 DEF Walk, Select

LEMMA CheckNameStep ==
  ASSUME IInv, NEW s \in Sessions, CheckName(s)
  PROVE  IInv'
<1>0. /\ req[s] \in Request /\ req[s].stage \in {"start", "names"}
      /\ UNCHANGED <<live, trashed, parent, name, locks, taken>>
      /\ req[s].op = "create" => req[s].n # Nil
  BY DEF CheckName, Select, At, rows, IInv, TypeOK, Named
<1>1. CASE \E st \in {"parent", "write"} : Go(s, [req[s] EXCEPT !.stage = st])
  <2>0. PICK st \in {"parent", "write"} : Go(s, [req[s] EXCEPT !.stage = st])
    BY <1>1
  <2> DEFINE n == [req[s] EXCEPT !.stage = st]
  <2>1. /\ n \in Request /\ n.stage = st /\ n.op = req[s].op /\ n.n = req[s].n
        /\ n.f = req[s].f /\ Mentioned(n) = Mentioned(req[s])
    BY <1>0 DEF Request, Stages, Mentioned
  <2>2. req' = [req EXCEPT ![s] = n]
    BY <2>0 DEF Go
  <2> HIDE DEF n
  <2>. QED BY <1>0, <2>1, <2>2, SelectStep DEF Written
<1>2. CASE /\ At(s, {"restore"}, "names")
           /\ Go(s, [req[s] EXCEPT !.stage = "subtree",
                                   !.n = IF Taken(req[s]) THEN Tree!Suffixed(@, 0) ELSE Nil])
  <2>0. PICK nn \in Tree!Names \cup {Nil} : Go(s, [req[s] EXCEPT !.stage = "subtree", !.n = nn])
    <3> DEFINE nn == IF Taken(req[s]) THEN Tree!Suffixed(req[s].n, 0) ELSE Nil
    <3>1. Go(s, [req[s] EXCEPT !.stage = "subtree", !.n = nn])
      BY <1>2
    <3>2. Taken(req[s]) => req[s].n \in Tree!Names
      BY DEF Taken, Tree!Taken, Tree!Namesakes, IInv, References, Rows, Tree!Rows
    <3>3. nn \in Tree!Names \cup {Nil}
      BY <3>2, NamesTyped
    <3> HIDE DEF nn
    <3>. QED BY <3>1, <3>3
  <2> DEFINE n == [req[s] EXCEPT !.stage = "subtree", !.n = nn]
  <2>1. /\ n \in Request /\ n.stage = "subtree" /\ n.op = req[s].op
        /\ n.f = req[s].f /\ Mentioned(n) = Mentioned(req[s])
    BY <1>0 DEF Request, Stages, Mentioned
  <2>2. req' = [req EXCEPT ![s] = n]
    BY <2>0 DEF Go
  <2> HIDE DEF n
  <2>. QED BY <1>0, <1>2, <2>1, <2>2, SelectStep DEF Written, At
<1>. QED BY <1>1, <1>2 DEF CheckName, Select

(* the statements that find the rows of a subtree                           *)
LEMMA FoundStep ==
  ASSUME IInv, NEW s \in Sessions, NEW st \in {"write", "cascade"}, NEW S, S \subseteq Rows \cup req[s].seen,
         Go(s, [req[s] EXCEPT !.stage = st, !.seen = S]),
         UNCHANGED <<live, trashed, parent, name, locks, taken>>,
         req[s].stage \notin {"commit", "done"}
  PROVE  IInv'
<1>0. req[s] \in Request /\ Rows \subseteq Folders
      /\ (req[s].op = "create" => req[s].n # Nil)
  BY DEF IInv, TypeOK, Named, Rows, Tree!Rows
<1> DEFINE n == [req[s] EXCEPT !.stage = st, !.seen = S]
<1>a. S \in SUBSET Folders
  BY <1>0 DEF Request
<1>1. /\ n \in Request /\ n.stage = st /\ n.op = req[s].op /\ n.n = req[s].n /\ n.seen = S
      /\ n.f = req[s].f /\ n.p = req[s].p /\ n.cur = req[s].cur
  BY <1>0, <1>a DEF Request, Stages
<1>2. req' = [req EXCEPT ![s] = n]
  BY DEF Go
<1> HIDE DEF n
<1>3. Mentioned(n) \subseteq Mentioned(req[s]) \cup Rows \cup {Nil}
  BY <1>1 DEF Mentioned
<1>. QED BY <1>0, <1>1, <1>2, <1>3, SelectStep DEF Written

LEMMA QueryStep ==
  ASSUME IInv, NEW s \in Sessions, QuerySubtree(s) \/ LoadCascade(s)
  PROVE  IInv'
<1>0. /\ UNCHANGED <<live, trashed, parent, name, locks, taken>>
      /\ req[s].stage \notin {"commit", "done"}
  BY DEF QuerySubtree, LoadCascade, Select, At, rows
<1>1. CASE QuerySubtree(s)
  <2>1. PICK st \in {"write", "cascade"} : st = IF req[s].op = "purge" THEN "cascade" ELSE "write"
    OBVIOUS
  <2>2. Go(s, [req[s] EXCEPT !.stage = st, !.seen = Tree!Subtree(req[s].f)])
    BY <1>1, <2>1 DEF QuerySubtree, Select
  <2>3. Tree!Subtree(req[s].f) \subseteq Rows
    BY DEF Tree!Subtree, Rows
  <2>. QED BY <1>0, <2>2, <2>3, FoundStep
<1>2. CASE LoadCascade(s)
  <2> DEFINE found == req[s].seen \ DeletedBy(s)
             S == req[s].seen \cup {g \in Rows : Tree!Walk(g, DeletedBy(s)) \cap found # {}}
  <2>1. Go(s, [req[s] EXCEPT !.stage = "write", !.seen = S])
    BY <1>2 DEF LoadCascade, Select
  <2>2. S \subseteq Rows \cup req[s].seen
    OBVIOUS
  <2> HIDE DEF S
  <2>. QED BY <1>0, <2>1, <2>2, FoundStep
<1>. QED BY <1>1, <1>2

LEMMA ListAgainStep ==
  ASSUME IInv, NEW s \in Sessions, ListAgain(s)
  PROVE  IInv'
<1>0. /\ req[s] \in Request /\ req[s].op = "empty" /\ req[s].stage = "again"
      /\ UNCHANGED <<live, trashed, parent, name, locks, taken>>
      /\ trashed \subseteq Rows
  BY DEF ListAgain, Select, At, rows, IInv, TypeOK, Rows, Tree!Rows
<1>1. CASE trashed \subseteq req[s].seen
  <2>1. Go(s, [req[s] EXCEPT !.stage = "commit", !.seen = req[s].seen \cup trashed])
    BY <1>1 DEF ListAgain, Select
  <2>2. req[s].seen \cup trashed = req[s].seen
    BY <1>1
  <2> DEFINE n == [req[s] EXCEPT !.stage = "commit", !.seen = req[s].seen]
  <2>3. /\ n \in Request /\ n.stage = "commit" /\ n.op = "empty" /\ n.seen = req[s].seen
        /\ n.f = req[s].f /\ Mentioned(n) = Mentioned(req[s])
    BY <1>0 DEF Request, Stages, Mentioned
  <2>4. req' = [req EXCEPT ![s] = n]
    BY <2>1, <2>2 DEF Go
  <2> HIDE DEF n
  <2>. QED BY <1>0, <2>3, <2>4, SelectStep DEF Written
<1>2. CASE ~(trashed \subseteq req[s].seen)
  <2> DEFINE S == req[s].seen \cup trashed
  <2>1. Go(s, [req[s] EXCEPT !.stage = "cascade", !.seen = S])
    BY <1>2 DEF ListAgain, Select
  <2>2. S \subseteq Rows \cup req[s].seen
    BY <1>0
  <2> HIDE DEF S
  <2>. QED BY <1>0, <2>1, <2>2, FoundStep
<1>. QED BY <1>1, <1>2

-----------------------------------------------------------------------------
(***************************************************************************)
(* The writes.  What a write asks for, by operation.                       *)
(***************************************************************************)
Granted(r, L) ==
  /\ r.op \in {"create", "move"} /\ r.p # Nil => r.p \in Rows /\ <<"keyshare", r.p>> \in L
  /\ r.op = "move" => r.f \in Rows /\ <<"update", r.f>> \in L
  /\ r.op \in {"delete", "restore"} => \A g \in r.seen : <<"nokeyupdate", g>> \in L
  /\ r.op = "restore" => r.f \in r.seen /\ (r.n # Nil => <<"update", r.f>> \in L)
  /\ r.op \in {"purge", "empty"} =>
       /\ \A g \in r.seen : <<"update", g>> \in L
       /\ \A g \in Rows : parent[g] \in r.seen => <<"update", g>> \in L

LEMMA WriteFields ==
  ASSUME IInv, NEW s \in Sessions, Write(s)
  PROVE  \E r \in Request, L \in SUBSET (Modes \X Folders) :
           /\ req' = [req EXCEPT ![s] = r] /\ locks' = [locks EXCEPT ![s] = L]
           /\ Free(s, L) /\ Granted(r, L)
           /\ r.stage = IF r.op = "empty" THEN "again" ELSE "commit"
           /\ r.op = req[s].op /\ r.n = req[s].n /\ r.p = req[s].p /\ r.cur = req[s].cur
           /\ IF r.op = "create" THEN r.f \in Unused(s) ELSE r.f = req[s].f
           /\ r.seen \subseteq Rows /\ (r.op # "create" => r.seen = Target(s))
<1>0. req[s] \in Request /\ Rows \subseteq Folders /\ trashed \subseteq Rows /\ ~Impossible(req[s])
  BY DEF Write, IInv, TypeOK, Rows, Tree!Rows
<1> DEFINE q(f) == [req[s] EXCEPT !.f = f]
           S(f) == IF q(f).op = "create" THEN {} ELSE Target(s)
<1>1. PICK f \in IF req[s].op = "create" THEN Unused(s) ELSE {req[s].f} :
        /\ Free(s, NeededLocks(q(f), S(f)))
        /\ locks' = [locks EXCEPT ![s] = NeededLocks(q(f), S(f))]
        /\ Go(s, [q(f) EXCEPT !.stage = IF q(f).op = "empty" THEN "again" ELSE "commit",
                              !.seen = S(f)])
  BY Zenon DEF Write
<1> DEFINE q0 == q(f)
           S0 == S(f)
           L == NeededLocks(q0, S0)
           n == [q0 EXCEPT !.stage = IF q0.op = "empty" THEN "again" ELSE "commit", !.seen = S0]
<1>2. f \in Folders \cup {Nil}
  BY <1>0, <1>1 DEF Request, Unused
<1>3. /\ q0 \in Request /\ q0.op = req[s].op /\ q0.n = req[s].n /\ q0.p = req[s].p
      /\ q0.cur = req[s].cur /\ q0.f = f
  BY <1>0, <1>2 DEF Request
<1>4. S0 = IF q0.op = "create" THEN {} ELSE Target(s)
  OBVIOUS
<1>5. /\ req' = [req EXCEPT ![s] = n] /\ locks' = [locks EXCEPT ![s] = L] /\ Free(s, L)
      /\ IF req[s].op = "create" THEN f \in Unused(s) ELSE f = req[s].f
  BY <1>1 DEF Go
<1> HIDE DEF q, S, q0, S0
<1>6. /\ q0.op = "move" => S0 = {f} /\ f \in Rows
      /\ q0.op = "delete" => S0 = req[s].seen \cap Rows
      /\ q0.op = "restore" => S0 = (req[s].seen \cap trashed) \cup {f} /\ f \in Rows
      /\ q0.op \in {"purge", "empty"} => S0 = req[s].seen \cap Rows
      /\ q0.op \in {"create", "move"} => q0.p \in Rows \cup {Nil}
  BY <1>0, <1>3, <1>4, <1>5 DEF Target, Impossible
<1>7. q0.op \in {"create", "move", "delete", "restore", "purge", "empty"}
  BY <1>3, OpsAssumption DEF Request
<1>8. S0 \subseteq Rows
  BY <1>0, <1>4, <1>6, <1>7
<1>9. PICK st \in {"again", "commit"} : st = IF q0.op = "empty" THEN "again" ELSE "commit"
  OBVIOUS
<1>10. /\ n \in Request /\ n.stage = st /\ n.op = q0.op /\ n.n = q0.n /\ n.p = q0.p
       /\ n.cur = q0.cur /\ n.f = q0.f /\ n.seen = S0
  <2>1. n = [q0 EXCEPT !.stage = st, !.seen = S0]
    BY <1>9
  <2>2. S0 \in SUBSET Folders
    BY <1>0, <1>8
  <2> HIDE DEF n
  <2>. QED BY <1>3, <2>1, <2>2 DEF Request, Stages
<1>11. L \in SUBSET (Modes \X Folders) /\ Granted(n, L)
  <2> HIDE DEF n
  <2>0. q0.f \in Folders \cup {Nil} /\ q0.p \in Folders \cup {Nil}
    BY <1>3 DEF Request
  <2>1. CASE q0.op = "create"
    <3>1. L = {"keyshare"} \X ({q0.p} \ {Nil})
      BY <2>1 DEF NeededLocks, ParentLock, Lock
    <3> HIDE DEF L
    <3>. QED BY <1>0, <1>6, <1>10, <2>0, <2>1, <3>1 DEF Granted, Modes
  <2>2. CASE q0.op = "move"
    <3>1. L = ({"update"} \X S0) \cup ({"keyshare"} \X ({q0.p} \ {Nil}))
      BY <2>2 DEF NeededLocks, ParentLock, Lock
    <3> HIDE DEF L
    <3>2. L \in SUBSET (Modes \X Folders)
      BY <1>0, <1>8, <2>0, <3>1 DEF Modes
    <3>. QED BY <1>3, <1>6, <1>10, <2>2, <3>1, <3>2 DEF Granted
  <2>3. CASE q0.op = "delete"
    <3>1. L = {"nokeyupdate"} \X S0
      BY <2>3 DEF NeededLocks, Lock
    <3> HIDE DEF L
    <3>. QED BY <1>0, <1>8, <1>10, <2>3, <3>1 DEF Granted, Modes
  <2>4. CASE q0.op = "restore"
    <3>1. L = ({"nokeyupdate"} \X S0) \cup (IF q0.n # Nil THEN {"update"} \X {q0.f} ELSE {})
      BY <2>4 DEF NeededLocks, Lock
    <3> HIDE DEF L
    <3>2. L \in SUBSET (Modes \X Folders)
      BY <1>0, <1>3, <1>6, <1>8, <2>4, <3>1 DEF Modes
    <3>. QED BY <1>3, <1>6, <1>10, <2>4, <3>1, <3>2 DEF Granted
  <2>5. CASE q0.op \in {"purge", "empty"}
    <3>1. L = {"update"} \X (S0 \cup Orphans(S0))
      BY <2>5 DEF NeededLocks, Lock
    <3> HIDE DEF L
    <3>2. L \in SUBSET (Modes \X Folders)
      BY <1>0, <1>8, <3>1 DEF Modes, Orphans
    <3>3. \A g \in Rows : parent[g] \in S0 => g \in S0 \cup Orphans(S0)
      BY DEF Orphans
    <3>. QED BY <1>10, <2>5, <3>1, <3>2, <3>3 DEF Granted
  <2>. QED BY <1>7, <2>1, <2>2, <2>3, <2>4, <2>5
<1> HIDE DEF L, n
<1>12. n.stage = IF n.op = "empty" THEN "again" ELSE "commit"
  BY <1>9, <1>10
<1>13. n.op # "create" => n.seen = Target(s)
  BY <1>4, <1>10
<1>. QED BY <1>3, <1>5, <1>8, <1>10, <1>11, <1>12, <1>13

LEMMA WriteStep ==
  ASSUME IInv, NEW s \in Sessions, Write(s)
  PROVE  IInv'
<1>0. /\ UNCHANGED <<live, trashed, parent, name>> /\ req[s].stage = "write"
      /\ ~Impossible(req[s]) /\ ~KeyPending(s)
  BY DEF Write, rows
<1>a. PICK r \in Request, L \in SUBSET (Modes \X Folders) :
        /\ req' = [req EXCEPT ![s] = r] /\ locks' = [locks EXCEPT ![s] = L]
        /\ Free(s, L) /\ Granted(r, L)
        /\ r.stage = IF r.op = "empty" THEN "again" ELSE "commit"
        /\ r.op = req[s].op /\ r.n = req[s].n /\ r.p = req[s].p /\ r.cur = req[s].cur
        /\ IF r.op = "create" THEN r.f \in Unused(s) ELSE r.f = req[s].f
        /\ r.seen \subseteq Rows
  BY WriteFields
<1>1. TypeOK'
  BY <1>0, <1>a DEF IInv, TypeOK, Write
<1>2. /\ \A t \in Sessions : req'[t] = IF t = s THEN r ELSE req[t]
      /\ \A t \in Sessions : locks'[t] = IF t = s THEN L ELSE locks[t]
  BY <1>a DEF IInv, TypeOK
<1>3. Named'
  BY <1>a, <1>2 DEF IInv, Named
<1>4. Rows' = Rows
  BY <1>0 DEF Rows, Tree!Rows
<1>5. References' /\ Unique'
  BY <1>0, <1>4 DEF IInv, References, Unique
<1>6. Compatible'
  <2>1. \A t \in Sessions \ {s} : \A l \in L, k \in locks[t] : l[2] = k[2] => ~Conflict(l[1], k[1])
    BY <1>a DEF Free, Held, Clash
  <2>2. \A t, u \in Sessions : t # u =>
          \A l \in locks[t], k \in locks[u] : l[2] = k[2] => ~Conflict(l[1], k[1])
    BY DEF IInv, Compatible
  <2>3. \A m1, m2 : Conflict(m1, m2) <=> Conflict(m2, m1)
    BY DEF Conflict
  <2>4. ASSUME NEW t \in Sessions, NEW u \in Sessions \ {t}, NEW l \in locks'[t], NEW k \in locks'[u],
               l[2] = k[2]
        PROVE  ~Conflict(l[1], k[1])
    <3>1. CASE t = s
      BY <1>2, <2>1, <2>4, <3>1
    <3>2. CASE u = s
      BY <1>2, <2>1, <2>3, <2>4, <3>2
    <3>3. CASE t # s /\ u # s
      BY <1>2, <2>2, <2>4, <3>3
    <3>. QED BY <3>1, <3>2, <3>3
  <2>. QED BY <2>4 DEF Compatible
<1>7. ASSUME NEW t \in Sessions PROVE Ready(t)'
  <2>1. Ready(t)
    BY DEF IInv
  <2>2. CASE t = s
    <3>1. r.op = "create" =>
            /\ r.f \in Folders \ Rows
            /\ \A u \in Sessions \ {s} : req[u].stage # "done" => r.f \notin Mentioned(req[u])
      BY <1>a DEF Unused
    <3>. QED BY <1>0, <1>a, <1>2, <1>4, <2>2, <3>1 DEF Ready, Granted
  <2>3. CASE t # s
    <3>1. ASSUME Written(req[t]), req[t].op = "create" PROVE req[t].f \notin Mentioned(r)
      <4>1. req[t].f \in Folders \ Rows /\ req[t].f \notin Mentioned(req[s])
        BY <1>0, <2>1, <2>3, <3>1 DEF Ready
      <4>2. req[t].f # r.f
        BY <1>a, <2>3, <3>1, <4>1 DEF Unused, Mentioned, Written
      <4>. QED BY <1>a, <4>1, <4>2 DEF Mentioned
    <3>. QED BY <1>0, <1>2, <1>4, <2>1, <2>3, <3>1 DEF Ready
  <2>. QED BY <2>2, <2>3
<1>8. /\ NewName(r) = NewName(req[s]) /\ NewParent(r) = NewParent(req[s])
      /\ Keyed(r) <=> Keyed(req[s])
  BY <1>a DEF Keyed, NewName, NewParent
<1>9. ~KeyClash(r)
  <2>1. ~KeyClash(req[s]) /\ (Keyed(r) <=> Keyed(req[s]))
    BY <1>0, <1>8 DEF Impossible
  <2>2. r.op = "create" => req[s].f = Nil /\ r.f \notin Rows /\ Nil \notin Rows
    BY <1>0, <1>a, NilAssumption DEF Unused, IInv, Named, TypeOK, Rows, Tree!Rows
  <2>3. Rows \ {r.f} = Rows \ {req[s].f}
    BY <1>a, <2>2
  <2>. QED BY <1>8, <2>1, <2>3 DEF KeyClash
<1>10. KeysFree'
  <2>1. /\ Keyed(r)' = Keyed(r) /\ NewName(r)' = NewName(r) /\ NewParent(r)' = NewParent(r)
        /\ \A t \in Sessions : t # s => (Keyed(req[t])' <=> Keyed(req[t]))
                                        /\ NewName(req[t])' = NewName(req[t])
                                        /\ NewParent(req[t])' = NewParent(req[t])
                                        /\ (KeyClash(req[t])' <=> KeyClash(req[t]))
    BY <1>0, <1>2, <1>4 DEF Keyed, NewName, NewParent, KeyClash
  <2>2. /\ (Keyed(req[s])' <=> Keyed(r)) /\ NewName(req[s])' = NewName(r)
        /\ NewParent(req[s])' = NewParent(r) /\ (KeyClash(req[s])' <=> KeyClash(r))
    BY <1>0, <1>2, <1>4 DEF Keyed, NewName, NewParent, KeyClash
  <2>3. \A t \in Sessions \ {s} : ~(/\ req[t].stage = "commit" /\ Keyed(req[t]) /\ Keyed(r)
                                    /\ NewName(req[t]) = NewName(r) /\ NewParent(req[t]) = NewParent(r))
    BY <1>0, <1>8 DEF KeyPending
  <2>4. ASSUME NEW t \in Sessions, req'[t].stage = "commit" PROVE ~KeyClash(req[t])' /\ ~KeyPending(t)'
    <3>1. CASE t = s
      BY <1>2, <1>9, <2>1, <2>2, <2>3, <3>1 DEF KeyPending
    <3>2. CASE t # s
      BY <1>2, <2>1, <2>2, <2>3, <2>4, <3>2 DEF IInv, KeysFree, KeyPending
    <3>. QED BY <3>1, <3>2
  <2>. QED BY <2>4 DEF KeysFree
<1>. QED BY <1>1, <1>3, <1>5, <1>6, <1>7, <1>10 DEF IInv

-----------------------------------------------------------------------------
(***************************************************************************)
(* The commits.  What one does to the table:                               *)
(*   - a row it holds no "update" lock on keeps its key;                   *)
(*   - a row in the table afterwards was there before with the same key, or*)
(*     without its parent, or it is the one whose key the request was about*)
(*     to enter;                                                           *)
(*   - only a creation brings in a row.                                    *)
(***************************************************************************)
Effect(s) ==
  LET r == req[s] IN
  /\ \A g \in Rows : <<"update", g>> \notin locks[s] =>
       g \in Rows' /\ parent'[g] = parent[g] /\ name'[g] = name[g]
  /\ \A g \in Rows' :
       \/ g \in Rows /\ name'[g] = name[g] /\ parent'[g] \in {parent[g], Nil}
       \/ /\ g = r.f /\ r.op \in {"create", "move", "restore"}
          /\ name'[g] = NewName(r) /\ parent'[g] = NewParent(r) /\ NewName(r) # Nil
  /\ \A g \in Rows' \ Rows : r.op = "create" /\ g = r.f /\ parent'[g] = r.p
  /\ \A g \in Rows' \cap Rows : \/ parent'[g] \in {parent[g], Nil}
                                \/ r.op = "move" /\ g = r.f /\ parent'[g] = r.p
  /\ live' \subseteq Folders /\ trashed' \subseteq Folders /\ live' \cap trashed' = {}
  /\ parent' \in [Folders -> Folders \cup {Nil}]
  /\ name' \in [Folders -> Tree!Names \cup {Nil}]
  /\ References'

LEMMA CommitCreate ==
  ASSUME IInv, NEW s \in Sessions, Commit(s), req[s].op = "create"
  PROVE  Effect(s)
<1>1. /\ live' = live \cup {req[s].f} /\ trashed' = trashed
      /\ parent' = [parent EXCEPT ![req[s].f] = req[s].p]
      /\ name' = [name EXCEPT ![req[s].f] = req[s].n]
      /\ req[s].stage = "commit"
  BY DEF Commit
<1>2. /\ TypeOK /\ References /\ req[s] \in Request
      /\ req[s].f \in Folders \ Rows /\ req[s].n # Nil /\ req[s].p \in Rows \cup {Nil}
  BY <1>1 DEF IInv, Ready, Named, Written, TypeOK
<1>3. req[s].n \in Tree!Names /\ Rows = live \cup trashed /\ Rows' = Rows \cup {req[s].f}
  BY <1>1, <1>2 DEF Request, Rows, Tree!Rows
<1>4. References'
  BY <1>1, <1>2, <1>3 DEF References, TypeOK
<1>. QED BY <1>1, <1>2, <1>3, <1>4 DEF Effect, TypeOK, NewName, NewParent

LEMMA CommitMove ==
  ASSUME IInv, NEW s \in Sessions, Commit(s), req[s].op = "move"
  PROVE  Effect(s)
<1>1. /\ live' = live /\ trashed' = trashed /\ name' = name
      /\ parent' = [parent EXCEPT ![req[s].f] = req[s].p]
      /\ req[s].stage = "commit"
  BY DEF Commit
<1>2. /\ TypeOK /\ References /\ req[s] \in Request
      /\ req[s].f \in Rows /\ <<"update", req[s].f>> \in locks[s] /\ req[s].p \in Rows \cup {Nil}
  BY <1>1 DEF IInv, Ready, Written, TypeOK
<1>3. Rows = live \cup trashed /\ Rows' = Rows /\ Rows \subseteq Folders
  BY <1>1, <1>2 DEF Rows, Tree!Rows, TypeOK
<1>4. References'
  BY <1>1, <1>2, <1>3 DEF References, TypeOK
<1>5. name[req[s].f] # Nil
  BY <1>2, NilAssumption DEF References
<1>. QED BY <1>1, <1>2, <1>3, <1>4, <1>5 DEF Effect, TypeOK, NewName, NewParent

LEMMA CommitTrash ==
  ASSUME IInv, NEW s \in Sessions, Commit(s), req[s].op \in {"delete", "restore"}
  PROVE  Effect(s)
<1>1. /\ TypeOK /\ References /\ req[s] \in Request /\ req[s].stage = "commit"
      /\ req[s].seen \subseteq Rows
      /\ req[s].op = "restore" => req[s].f \in Rows
                                  /\ (req[s].n # Nil => <<"update", req[s].f>> \in locks[s])
  BY DEF Commit, IInv, Ready, Written, TypeOK
<1>2. Rows = live \cup trashed /\ Rows \subseteq Folders
  BY <1>1 DEF Rows, Tree!Rows, TypeOK
<1>3. CASE req[s].op = "delete"
  <2>1. /\ live' = live \ req[s].seen /\ trashed' = trashed \cup req[s].seen
        /\ parent' = parent /\ name' = name
    BY <1>3 DEF Commit
  <2>2. Rows' = Rows
    BY <1>1, <1>2, <2>1 DEF Rows, Tree!Rows
  <2>3. References'
    BY <1>1, <2>1, <2>2 DEF References
  <2>. QED BY <1>1, <1>2, <1>3, <2>1, <2>2, <2>3 DEF Effect, TypeOK
<1>4. CASE req[s].op = "restore"
  <2>1. /\ live' = live \cup req[s].seen /\ trashed' = trashed \ req[s].seen
        /\ parent' = parent
        /\ name' = [name EXCEPT ![req[s].f] = IF req[s].n = Nil THEN @ ELSE req[s].n]
    BY <1>4 DEF Commit
  <2>2. Rows' = Rows
    BY <1>1, <1>2, <2>1 DEF Rows, Tree!Rows
  <2>3. /\ name' \in [Folders -> Tree!Names \cup {Nil}]
        /\ \A g \in Rows : name'[g] = IF g = req[s].f /\ req[s].n # Nil THEN req[s].n ELSE name[g]
    BY <1>1, <1>2, <1>4, <2>1 DEF TypeOK, Request
  <2>4. References'
    BY <1>1, <2>1, <2>2, <2>3 DEF References, Request
  <2>. QED BY <1>1, <1>2, <1>4, <2>1, <2>2, <2>3, <2>4 DEF Effect, TypeOK, NewName, NewParent
<1>. QED BY <1>3, <1>4

LEMMA CommitErase ==
  ASSUME IInv, NEW s \in Sessions, Commit(s), req[s].op \in {"purge", "empty"}
  PROVE  Effect(s)
<1> DEFINE S == req[s].seen
<1>1. /\ live' = live \ S /\ trashed' = trashed \ S
      /\ parent' = [g \in Folders |-> IF g \in S \/ parent[g] \in S THEN Nil ELSE parent[g]]
      /\ name' = [g \in Folders |-> IF g \in S THEN Nil ELSE name[g]]
      /\ req[s].stage = "commit"
  BY DEF Commit, Erase
<1>2. /\ TypeOK /\ References /\ S \subseteq Rows
      /\ \A g \in Rows : g \in S \/ parent[g] \in S => <<"update", g>> \in locks[s]
  BY <1>1 DEF IInv, Ready, Written
<1>3. Rows = live \cup trashed /\ Rows \subseteq Folders /\ Rows' = Rows \ S
  BY <1>1, <1>2 DEF Rows, Tree!Rows, TypeOK
<1>4. /\ parent' \in [Folders -> Folders \cup {Nil}]
      /\ name' \in [Folders -> Tree!Names \cup {Nil}]
      /\ \A g \in Folders : parent'[g] = IF g \in S \/ parent[g] \in S THEN Nil ELSE parent[g]
      /\ \A g \in Folders : g \notin S => name'[g] = name[g]
  BY <1>1, <1>2 DEF TypeOK
<1> HIDE DEF S
<1>5. References'
  BY <1>2, <1>3, <1>4 DEF References
<1>. QED BY <1>1, <1>2, <1>3, <1>4, <1>5 DEF Effect, TypeOK

LEMMA CommitEffect ==
  ASSUME IInv, NEW s \in Sessions, Commit(s)
  PROVE  Effect(s)
<1>1. req[s].op \in {"create", "move", "delete", "restore", "purge", "empty"}
  BY DEF Commit
<1>. QED BY <1>1, CommitCreate, CommitMove, CommitTrash, CommitErase

(* whatever a request has locked, the commit of another leaves as it is     *)
LEMMA Undisturbed ==
  ASSUME Compatible, NEW s \in Sessions, NEW t \in Sessions \ {s},
         NEW m, NEW g, <<m, g>> \in locks[t]
  PROVE  <<"update", g>> \notin locks[s]
<1> SUFFICES ASSUME <<"update", g>> \in locks[s] PROVE FALSE
  OBVIOUS
<1>1. \A l \in locks[s], k \in locks[t] : l[2] = k[2] => ~Conflict(l[1], k[1])
  BY DEF Compatible
<1>2. ~Conflict("update", m)
  <2>1. <<"update", g>>[2] = <<m, g>>[2] /\ <<"update", g>>[1] = "update" /\ <<m, g>>[1] = m
    OBVIOUS
  <2>. QED BY <1>1, <2>1
<1>. QED BY <1>2 DEF Conflict

LEMMA CommitUnique ==
  ASSUME IInv, NEW s \in Sessions, Effect(s), req[s].stage = "commit"
  PROVE  Unique'
<1> SUFFICES ASSUME NEW f \in Rows', NEW g \in Rows', parent'[f] # Nil,
                    parent'[f] = parent'[g], name'[f] = name'[g], f # g
             PROVE  FALSE
  BY DEF Unique
<1> DEFINE Old(h) == h \in Rows /\ name'[h] = name[h] /\ parent'[h] \in {parent[h], Nil}
           New(h) == /\ h = req[s].f /\ req[s].op \in {"create", "move", "restore"}
                     /\ name'[h] = NewName(req[s]) /\ parent'[h] = NewParent(req[s])
                     /\ NewName(req[s]) # Nil
<1>1. (Old(f) \/ New(f)) /\ (Old(g) \/ New(g))
  BY DEF Effect
<1>2. CASE Old(f) /\ Old(g)
  BY <1>2 DEF IInv, Unique
<1>3. ASSUME NEW h \in Rows', NEW k \in Rows', h # k, Old(h), New(k), parent'[k] # Nil,
             parent'[h] = parent'[k], name'[h] = name'[k]
      PROVE  FALSE
  <2>1. KeyClash(req[s])
    BY <1>3 DEF KeyClash, Keyed
  <2>. QED BY <2>1 DEF IInv, KeysFree
<1>. QED BY <1>1, <1>2, <1>3

LEMMA CommitKeys ==
  ASSUME IInv, NEW s \in Sessions, Effect(s), req[s].stage = "commit",
         NEW t \in Sessions \ {s}, req[t].stage = "commit", req'[t] = req[t],
         \A u \in Sessions \ {s} : req'[u] = req[u], req'[s].stage = "done"
  PROVE  ~KeyClash(req[t])' /\ ~KeyPending(t)'
<1>0. Ready(t) /\ Compatible /\ ~KeyClash(req[t]) /\ ~KeyPending(t)
  BY DEF IInv, KeysFree
<1>1. ASSUME NEW u \in Sessions \ {s}, req[u].stage = "commit"
      PROVE  /\ Keyed(req[u])' <=> Keyed(req[u])
             /\ Keyed(req[u]) => NewName(req[u])' = NewName(req[u])
                                 /\ NewParent(req[u])' = NewParent(req[u])
  <2>0. req'[u] = req[u] /\ Ready(u)
    BY DEF IInv
  <2>1. CASE req[u].op = "create"
    BY <2>0, <2>1 DEF Keyed, NewName, NewParent
  <2>2. CASE req[u].op \in {"move", "restore"}
    <3>1. req[u].f \in Rows /\ \E m : <<m, req[u].f>> \in locks[u]
      BY <1>1, <2>0, <2>2 DEF Ready, Written
    <3>2. <<"update", req[u].f>> \notin locks[s]
      BY <1>0, <3>1, Undisturbed
    <3>3. parent'[req[u].f] = parent[req[u].f] /\ name'[req[u].f] = name[req[u].f]
      BY <3>1, <3>2 DEF Effect
    <3>. QED BY <2>0, <2>2, <3>3 DEF Keyed, NewName, NewParent
  <2>3. CASE req[u].op \notin {"create", "move", "restore"}
    BY <2>0, <2>3 DEF Keyed
  <2>. QED BY <2>1, <2>2, <2>3
<1>2. ~KeyPending(t)'
  <2>1. \A u \in Sessions : req'[u].stage = "commit" => u # s /\ req[u].stage = "commit"
    OBVIOUS
  <2>. QED BY <1>0, <1>1, <2>1 DEF KeyPending
<1>3. ~KeyClash(req[t])'
  <2> SUFFICES ASSUME KeyClash(req[t])' PROVE FALSE
    OBVIOUS
  <2>1. Keyed(req[t]) /\ NewParent(req[t]) # Nil
    BY <1>1 DEF KeyClash, Keyed
  <2>2. PICK g \in Rows' \ {req[t].f} : name'[g] = NewName(req[t]) /\ parent'[g] = NewParent(req[t])
    BY <1>1, <2>1 DEF KeyClash
  <2>3. CASE g \in Rows /\ name'[g] = name[g] /\ parent'[g] \in {parent[g], Nil}
    BY <1>0, <2>1, <2>2, <2>3 DEF KeyClash
  <2>4. CASE /\ req[s].op \in {"create", "move", "restore"}
             /\ name'[g] = NewName(req[s]) /\ parent'[g] = NewParent(req[s]) /\ NewName(req[s]) # Nil
    <3>1. Keyed(req[s])
      BY <2>1, <2>2, <2>4 DEF Keyed
    <3>. QED BY <1>0, <2>1, <2>2, <2>4, <3>1 DEF KeyPending
  <2>. QED BY <2>2, <2>3, <2>4 DEF Effect
<1>. QED BY <1>2, <1>3

LEMMA CommitStep ==
  ASSUME IInv, NEW s \in Sessions, Commit(s)
  PROVE  IInv'
<1>0. req[s].stage = "commit" /\ Finish(s) /\ Effect(s)
  BY CommitEffect DEF Commit
<1>a. PICK r \in Request : /\ req' = [req EXCEPT ![s] = r]
                          /\ r.stage = "done" /\ r.op = req[s].op /\ r.n = req[s].n
  BY <1>0, Finished DEF IInv
<1>b. locks' = [locks EXCEPT ![s] = {}] /\ taken' = [taken EXCEPT ![s] = {}]
  BY <1>0 DEF Finish
<1>1. TypeOK'
  <2>1. \A f \in live' \cup trashed' : name'[f] # Nil
    BY <1>0, NilAssumption DEF Effect, References, Rows, Tree!Rows
  <2>. QED BY <1>0, <1>a, <1>b, <2>1 DEF IInv, TypeOK, Effect
<1>2. /\ \A t \in Sessions : req'[t] = IF t = s THEN r ELSE req[t]
      /\ \A t \in Sessions : locks'[t] = IF t = s THEN {} ELSE locks[t]
  BY <1>a, <1>b DEF IInv, TypeOK
<1>3. Named'
  BY <1>a, <1>2 DEF IInv, Named
<1>4. References' /\ Unique'
  BY <1>0, CommitUnique DEF Effect
<1>5. Compatible'
  BY <1>2 DEF IInv, Compatible
<1>6. ASSUME NEW t \in Sessions PROVE Ready(t)'
  <2>1. CASE t = s
    BY <1>a, <1>2, <2>1 DEF Ready, Written
  <2>2. CASE t # s
    <3> SUFFICES ASSUME Written(req[t]) PROVE Ready(t)'
      BY <1>2, <2>2 DEF Ready, Written
    <3>0. /\ Ready(t) /\ Ready(s) /\ Written(req[s]) /\ req'[t] = req[t] /\ locks'[t] = locks[t]
          /\ Rows \subseteq Folders
      BY <1>0, <1>2, <2>2 DEF IInv, Written, TypeOK, Rows, Tree!Rows
    <3>1. ASSUME NEW m, NEW g \in Rows, <<m, g>> \in locks[t]
          PROVE  g \in Rows' /\ parent'[g] = parent[g]
      <4>1. <<"update", g>> \notin locks[s]
        BY <2>2, <3>1, Undisturbed DEF IInv
      <4>. QED BY <1>0, <4>1 DEF Effect
    <3>2. req[t].op = "create" => req[t].f \notin Rows'
      <4> SUFFICES ASSUME req[t].op = "create", req[t].f \in Rows' PROVE FALSE
        OBVIOUS
      <4>1. req[t].f \notin Rows /\ req[t].f \notin Mentioned(req[s])
        BY <1>0, <2>2, <3>0 DEF Ready
      <4>2. req[t].f = req[s].f
        BY <1>0, <4>1 DEF Effect
      <4>. QED BY <4>1, <4>2 DEF Mentioned
    <3>3. ASSUME req[t].op \in {"purge", "empty"}, NEW g \in Rows', parent'[g] \in req[t].seen
          PROVE  <<"update", g>> \in locks[t]
      <4>1. req[t].seen \subseteq Rows /\ \A h \in req[t].seen : <<"update", h>> \in locks[t]
        BY <3>0, <3>3 DEF Ready
      <4>2. parent'[g] # Nil
        BY <3>0, <3>3, <4>1, NilAssumption
      <4>3. CASE req[s].op \in {"create", "move"} /\ parent'[g] = req[s].p
        <5>1. <<"keyshare", req[s].p>> \in locks[s]
          BY <3>0, <4>2, <4>3 DEF Ready
        <5>2. <<"update", req[s].p>> \notin locks[t]
          BY <2>2, <5>1, Undisturbed DEF IInv
        <5>. QED BY <3>3, <4>1, <4>3, <5>2
      <4>4. CASE g \in Rows /\ parent'[g] = parent[g]
        BY <3>0, <3>3, <4>4 DEF Ready
      <4>. QED BY <1>0, <4>2, <4>3, <4>4 DEF Effect
    <3>4. req[t].op = "create" =>
            \A u \in Sessions \ {t} : req'[u].stage # "done" => req[t].f \notin Mentioned(req'[u])
      BY <1>a, <1>2, <3>0 DEF Ready
    <3>5. Written(req'[t]) /\ req[t].op = "create" => req[t].f \in Folders \ Rows'
      BY <3>0, <3>2 DEF Ready
    <3>. QED BY <3>0, <3>1, <3>3, <3>4, <3>5 DEF Ready
  <2>. QED BY <2>1, <2>2
<1>7. KeysFree'
  <2> SUFFICES ASSUME NEW t \in Sessions, req'[t].stage = "commit"
               PROVE  ~KeyClash(req[t])' /\ ~KeyPending(t)'
    BY DEF KeysFree
  <2>1. t \in Sessions \ {s} /\ req'[t] = req[t] /\ req'[s].stage = "done"
        /\ \A u \in Sessions \ {s} : req'[u] = req[u]
    BY <1>a, <1>2
  <2>. QED BY <1>0, <2>1, CommitKeys
<1>. QED BY <1>1, <1>3, <1>4, <1>5, <1>6, <1>7 DEF IInv

(* waiting for the rows of a write changes nothing yet                      *)
LEMMA AcquireKeeps ==
  ASSUME NEW s \in Sessions, Acquire(s)
  PROVE  UNCHANGED <<live, trashed, parent, name, req, locks>>
BY DEF Acquire, rows

LEMMA NeededTyped ==
  ASSUME IInv, NEW s \in Sessions, ~Impossible(req[s])
  PROVE  NeededLocks(req[s], ToWrite(s)) \subseteq Modes \X Folders
<1> DEFINE S == ToWrite(s)
<1>1. /\ req[s] \in Request /\ req[s].p \in Folders \cup {Nil} /\ Rows \subseteq Folders
      /\ trashed \subseteq Folders
      /\ req[s].op \in {"move", "restore"} => req[s].f \in Rows
  BY RowsMeaning DEF IInv, TypeOK, Request, Impossible
<1>2. req[s].op \in {"create", "move", "delete", "restore", "purge", "empty"}
  BY <1>1, OpsAssumption DEF Request
<1>3. S \subseteq Folders
  <2>1. CASE req[s].op = "create"
    BY <2>1 DEF ToWrite
  <2>2. CASE req[s].op = "move"
    BY <1>1, <2>2 DEF ToWrite, Target
  <2>3. CASE req[s].op = "restore"
    BY <1>1, <2>3 DEF ToWrite, Target
  <2>4. CASE req[s].op \in {"delete", "purge", "empty"}
    BY <1>1, <2>4 DEF ToWrite, Target
  <2>. QED BY <1>2, <2>1, <2>2, <2>3, <2>4
<1>4. \A m \in Modes, T \in SUBSET Folders : {m} \X T \subseteq Modes \X Folders
  OBVIOUS
<1>5. /\ Orphans(S) \subseteq Folders /\ {req[s].p} \ {Nil} \subseteq Folders
      /\ req[s].op \in {"move", "restore"} => {req[s].f} \subseteq Folders
  BY <1>1 DEF Orphans
<1>6. "update" \in Modes /\ "nokeyupdate" \in Modes /\ "keyshare" \in Modes
  BY DEF Modes
<1> HIDE DEF S
<1>. QED BY <1>2, <1>3, <1>4, <1>5, <1>6 DEF NeededLocks, ParentLock, Lock, S

LEMMA AcquireTyped ==
  ASSUME IInv, NEW s \in Sessions, Acquire(s)
  PROVE  taken' \in [Sessions -> SUBSET (Modes \X Folders)]
<1>1. PICK l \in NextLocks(s) : taken' = [taken EXCEPT ![s] = @ \cup {l}]
  BY DEF Acquire
<1>2. l \in Modes \X Folders
  BY <1>1, NeededTyped DEF Acquire, NextLocks, Missing
<1>3. taken \in [Sessions -> SUBSET (Modes \X Folders)]
  BY DEF IInv, TypeOK
<1>. QED BY <1>1, <1>2, <1>3

(* and so IInv stays                                                        *)
LEMMA RowsAsBefore ==
  ASSUME IInv, UNCHANGED <<live, trashed, parent, name, req, locks>>,
         taken' \in [Sessions -> SUBSET (Modes \X Folders)]
  PROVE  IInv'
<1>1. Rows' = Rows
  BY DEF Rows, Tree!Rows
<1>2. TypeOK' /\ Named' /\ References' /\ Unique' /\ Compatible'
  BY <1>1 DEF IInv, TypeOK, Named, References, Unique, Compatible
<1>3. \A s \in Sessions : Ready(s)'
  BY <1>1 DEF IInv, Ready
<1>4. KeysFree'
  BY <1>1 DEF IInv, KeysFree, KeyClash, KeyPending, Keyed, NewName, NewParent
<1>. QED BY <1>2, <1>3, <1>4 DEF IInv

LEMMA NextIInv == IInv /\ [Next]_vars => IInv'
<1> SUFFICES ASSUME IInv, [Next]_vars PROVE IInv'
  OBVIOUS
<1>1. ASSUME NEW s \in Sessions, Serve(s) \/ Cancel(s) PROVE IInv'
  <2>1. CASE Refuse(s) \/ DbError(s) \/ Deadlock(s) \/ Cancel(s)
    BY <2>1, FailStep DEF Refuse, DbError, Deadlock, Cancel
  <2>2. CASE Acquire(s)
    BY <2>2, AcquireKeeps, AcquireTyped, RowsAsBefore
  <2>. QED BY <1>1, <2>1, <2>2, LoadFolderStep, LoadParentStep, WalkStep, CheckNameStep, QueryStep,
              ListAgainStep, WriteStep, CommitStep DEF Serve
<1>2. CASE UNCHANGED vars
  <2>1. UNCHANGED <<live, trashed, parent, name, req, locks, taken>>
    BY <1>2 DEF vars
  <2>. QED BY <2>1, RowsAsBefore DEF IInv, TypeOK
<1>. QED BY <1>1, <1>2 DEF Next

\* the invariant above holds of tables, requests and locks in every state
LEMMA Invariance == Spec => []IInv
BY InitIInv, NextIInv, PTL DEF Spec

-----------------------------------------------------------------------------
(***************************************************************************)
(* The rows, the progress of every request and its locks stay of their     *)
(* types, and no folder is both in and out of the trash.                   *)
(***************************************************************************)
THEOREM TxnTyped == Spec => []TypeOK
<1>1. IInv => TypeOK
  BY DEF IInv
<1>. QED BY <1>1, Invariance, PTL

(***************************************************************************)
(* Foreign keys and the unique constraint hold in every committed state of *)
(* any number of overlapping requests, whatever they had read.             *)
(***************************************************************************)
THEOREM TablesKeepConstraints == Spec => []TablesOK
BY TablesMeaning, Invariance, PTL

-----------------------------------------------------------------------------
(***************************************************************************)
(* One move at a time closes no cycle.  The folders is_ancestor has passed *)
(* form a chain from the target up to "cur" without the moved folder; what *)
(* other requests commit meanwhile cuts such a chain or hangs new folders  *)
(* below it, but never makes it longer at its top.                         *)
(***************************************************************************)
Apart(f, p, c) ==
  \E C \in SUBSET Folders : p \in C /\ f \notin C /\ \A h \in C : parent[h] \in C \cup {Nil, c}

Cleared(r) ==
  r.op = "move" =>
    /\ r.stage # "walk" => r.cur = Nil
    /\ r.stage \in {"walk", "names", "write", "commit"} /\ r.p # Nil => Apart(r.f, r.p, r.cur)

(* the target has been read and the move under it has not ended             *)
Moving(s) ==
  req[s].op = "move" /\ req[s].p # Nil /\ req[s].stage \in {"walk", "names", "write", "commit"}

(* such moves do not overlap each other, or there is only one move          *)
OneMoveAtATime == \A s, t \in Sessions : Moving(s) /\ Moving(t) => s = t
OneMove == \A s, t \in Sessions : req[s].op = "move" /\ req[t].op = "move" => s = t

Rooted == \A S \in SUBSET Folders : S # {} => \E f \in S : parent[f] \notin S

AInv == IInv /\ Rooted /\ \A s \in Sessions : Cleared(req[s])

LEMMA InitAInv == Init => AInv
<1> SUFFICES ASSUME Init PROVE AInv
  OBVIOUS
<1>1. IInv
  BY InitIInv
<1>2. Rooted
  BY DEF Init, IsTree, Tree!Acyclic, Rooted
<1>3. \A s \in Sessions : req[s].stage = "start" /\ req[s].cur = Nil
  BY DEF Init, Requests
<1>. QED BY <1>1, <1>2, <1>3 DEF AInv, Cleared

LEMMA InitOneMove == ASSUME MaxMoves \in {0, 1} PROVE Init => OneMove
<1> SUFFICES ASSUME Init, NEW s \in Sessions, NEW t \in Sessions, s # t,
                    req[s].op = "move", req[t].op = "move"
             PROVE  FALSE
  BY DEF OneMove
<1> DEFINE M == {u \in Sessions : req[u].op = "move"}
<1>1. IsFiniteSet(M) /\ Cardinality(M) <= MaxMoves
  BY SessionsAssumption, FS_Subset DEF Init
<1>2. {s, t} \subseteq M
  OBVIOUS
<1> HIDE DEF M
<1>3. IsFiniteSet({s, t}) /\ Cardinality({s, t}) = 2
  <2>1. IsFiniteSet({s}) /\ Cardinality({s}) = 1 /\ t \notin {s}
    BY FS_Singleton
  <2>2. IsFiniteSet({s} \cup {t}) /\ Cardinality({s} \cup {t}) = 2
    BY <2>1, FS_AddElement
  <2>3. {s} \cup {t} = {s, t}
    OBVIOUS
  <2>. QED BY <2>2, <2>3
<1>4. Cardinality({s, t}) <= Cardinality(M) /\ Cardinality(M) \in Nat
  BY <1>1, <1>2, FS_Subset, FS_CardinalityType
<1>. QED BY <1>1, <1>3, <1>4

(* a step of one request leaves the others and its own operation alone      *)
LEMMA Stays ==
  ASSUME TypeOK, NEW s \in Sessions, Serve(s) \/ Cancel(s)
  PROVE  /\ \A t \in Sessions \ {s} : req'[t] = req[t]
         /\ req'[s].op = req[s].op
<1>0. req \in [Sessions -> Request] /\ req[s] \in Request
  BY DEF TypeOK
<1>1. CASE LoadFolder(s) \/ LoadParent(s) \/ Walk(s)
  BY <1>0, <1>1 DEF LoadFolder, LoadParent, Walk, Select, Go, Request
<1>2. CASE CheckName(s) \/ QuerySubtree(s)
  BY <1>0, <1>2 DEF CheckName, QuerySubtree, Select, Go, Request
<1>3. CASE LoadCascade(s) \/ ListAgain(s)
  BY <1>0, <1>3 DEF LoadCascade, ListAgain, Select, Go, Request
<1>4. CASE Write(s)
  BY <1>0, <1>4 DEF Write, Go, Request
<1>5. CASE Refuse(s) \/ DbError(s) \/ Deadlock(s) \/ Commit(s) \/ Cancel(s)
  <2>1. Finish(s)
    BY <1>5 DEF Refuse, DbError, Deadlock, Commit, Cancel, Fail
  <2>. QED BY <1>0, <2>1 DEF Finish, Go, Request
<1>6. CASE Acquire(s)
  BY <1>6, AcquireKeeps
<1>. QED BY <1>1, <1>2, <1>3, <1>4, <1>5, <1>6 DEF Serve

(* is_ancestor and what follows it, up to the commit                        *)
LEMMA ReadsClear ==
  ASSUME IInv, NEW s \in Sessions, Serve(s) \/ Cancel(s), ~Commit(s), Cleared(req[s])
  PROVE  parent' = parent /\ Cleared(req[s])'
<1>0. /\ TypeOK /\ References /\ req \in [Sessions -> Request] /\ req[s] \in Request
      /\ Rows \subseteq Folders /\ live \subseteq Rows
  BY DEF IInv, TypeOK, Rows, Tree!Rows
<1>1. parent' = parent
  BY DEF Serve, LoadFolder, LoadParent, Walk, CheckName, QuerySubtree, LoadCascade, ListAgain, Refuse,
         DbError, Deadlock, Cancel, Fail, Select, Acquire, Write, rows
<1>2. req'[s].op = req[s].op
  BY <1>0, Stays
<1> SUFFICES ASSUME req[s].op = "move" PROVE Cleared(req[s])'
  BY <1>1, <1>2 DEF Cleared
<1>3. ASSUME NEW st \in {"parent", "write", "commit", "names", "done"}, req'[s].stage = st, req'[s].cur = Nil,
             st = "write" => req[s].stage = "names",
             st = "commit" => req[s].stage = "write",
             st = "names" => req[s].p = Nil,
             req'[s].p = req[s].p, req'[s].f = req[s].f
      PROVE  Cleared(req[s])'
  <2>1. Apart(req[s].f, req[s].p, req[s].cur) /\ req[s].cur = Nil
          => Apart(req[s].f, req[s].p, req[s].cur)'
    BY <1>1, <1>3 DEF Apart
  <2>. QED BY <1>3, <2>1 DEF Cleared
<1>4. CASE LoadFolder(s)
  <2>1. /\ req[s].stage = "start" /\ req'[s].stage = "parent" /\ req'[s].cur = req[s].cur
        /\ req'[s].p = req[s].p /\ req'[s].f = req[s].f
    BY <1>0, <1>4 DEF LoadFolder, Select, Go, At, Request
  <2>. QED BY <1>3, <2>1 DEF Cleared
<1>5. CASE LoadParent(s)
  <2>1. req[s].stage = "parent" /\ req[s].p \in live \cup {Nil} /\ req[s].p # req[s].f
    BY <1>5 DEF LoadParent, At
  <2>2. CASE req[s].p = Nil
    <3>1. /\ req'[s].stage = "names" /\ req'[s].cur = req[s].cur
          /\ req'[s].p = req[s].p /\ req'[s].f = req[s].f
      BY <1>0, <1>5, <2>2 DEF LoadParent, Select, Go, At, Request
    <3>. QED BY <1>3, <2>1, <2>2, <3>1 DEF Cleared
  <2>3. CASE req[s].p # Nil
    <3>1. /\ req'[s].stage = "walk" /\ req'[s].cur = parent[req[s].p]
          /\ req'[s].p = req[s].p /\ req'[s].f = req[s].f
      BY <1>0, <1>5, <2>3 DEF LoadParent, Select, Go, At, Request
    <3>2. /\ {req[s].p} \in SUBSET Folders /\ req[s].p \in {req[s].p} /\ req[s].f \notin {req[s].p}
          /\ \A h \in {req[s].p} : parent[h] \in {req[s].p} \cup {Nil, parent[req[s].p]}
      BY <1>0, <2>1, <2>3
    <3>3. Apart(req[s].f, req[s].p, req[s].cur)'
      BY <1>1, <3>1, <3>2 DEF Apart
    <3>. QED BY <3>1, <3>3 DEF Cleared
  <2>. QED BY <2>2, <2>3
<1>6. CASE Walk(s)
  <2>1. req[s].stage = "walk"
    BY <1>6 DEF Walk, At
  <2>2. req'[s].p = req[s].p /\ req'[s].f = req[s].f
    BY <1>0, <1>6 DEF Walk, Select, Go, Request
  <2> SUFFICES ASSUME req[s].p # Nil
               PROVE  /\ req'[s].stage # "walk" => req'[s].cur = Nil
                      /\ Apart(req[s].f, req[s].p, req[s].cur)'
    <3>1. req'[s].stage # "walk" => req'[s].cur = Nil
      BY <1>0, <1>6 DEF Walk, Select, Go, Request, At
    <3>. QED BY <2>2, <3>1 DEF Cleared
  <2>3. PICK C \in SUBSET Folders : /\ req[s].p \in C /\ req[s].f \notin C
                                    /\ \A h \in C : parent[h] \in C \cup {Nil, req[s].cur}
    BY <2>1 DEF Cleared, Apart
  <2>4. CASE req[s].cur \in Rows
    <3>1. req[s].cur # req[s].f /\ req'[s].stage = "walk" /\ req'[s].cur = parent[req[s].cur]
      BY <1>0, <1>6, <2>4 DEF Walk, Select, Go, Request, At
    <3> DEFINE D == C \cup {req[s].cur}
    <3>2. /\ D \in SUBSET Folders /\ req[s].p \in D /\ req[s].f \notin D
          /\ \A h \in D : parent[h] \in D \cup {Nil, parent[req[s].cur]}
      BY <1>0, <2>3, <2>4, <3>1
    <3> HIDE DEF D
    <3>. QED BY <1>1, <2>2, <3>1, <3>2 DEF Apart
  <2>5. CASE req[s].cur \notin Rows
    <3>1. req'[s].stage = "names" /\ req'[s].cur = Nil
      BY <1>0, <1>6, <2>5 DEF Walk, Select, Go, Request, At
    <3>2. \A h \in C : parent[h] \in C \cup {Nil}
      BY <1>0, <2>3, <2>5 DEF References
    <3>. QED BY <1>1, <2>2, <2>3, <3>1, <3>2 DEF Apart
  <2>. QED BY <2>4, <2>5
<1>7. CASE CheckName(s)
  <2>1. /\ req[s].stage = "names" /\ req'[s].stage = "write" /\ req'[s].cur = req[s].cur
        /\ req'[s].p = req[s].p /\ req'[s].f = req[s].f
    BY <1>0, <1>7 DEF CheckName, Select, Go, At, Request
  <2>. QED BY <1>3, <2>1 DEF Cleared
<1>8. CASE Write(s)
  <2>1. /\ req[s].stage = "write" /\ req'[s].stage = "commit" /\ req'[s].cur = req[s].cur
        /\ req'[s].p = req[s].p /\ req'[s].f = req[s].f
    <3>1. PICK r \in Request, L \in SUBSET (Modes \X Folders) :
            /\ req' = [req EXCEPT ![s] = r] /\ locks' = [locks EXCEPT ![s] = L]
            /\ Free(s, L) /\ Granted(r, L)
            /\ r.stage = IF r.op = "empty" THEN "again" ELSE "commit"
            /\ r.op = req[s].op /\ r.n = req[s].n /\ r.p = req[s].p /\ r.cur = req[s].cur
            /\ IF r.op = "create" THEN r.f \in Unused(s) ELSE r.f = req[s].f
            /\ r.seen \subseteq Rows
      BY <1>8, WriteFields
    <3>2. req'[s] = r /\ req[s].stage = "write"
      BY <1>0, <1>8, <3>1 DEF Write
    <3>. QED BY <3>1, <3>2
  <2>. QED BY <1>3, <2>1 DEF Cleared
<1>9. CASE Refuse(s) \/ DbError(s) \/ Deadlock(s) \/ Cancel(s)
  <2>1. Finish(s)
    BY <1>9 DEF Refuse, DbError, Deadlock, Cancel, Fail
  <2>2. /\ req'[s].stage = "done" /\ req'[s].cur = Nil
        /\ req'[s].p = req[s].p /\ req'[s].f = req[s].f
    BY <1>0, <2>1 DEF Finish, Go, Request
  <2>. QED BY <1>3, <2>2
<1>10. ~QuerySubtree(s) /\ ~LoadCascade(s) /\ ~ListAgain(s)
  BY DEF QuerySubtree, LoadCascade, ListAgain, At
<1>11. CASE Acquire(s)
  <2>1. req' = req /\ Cleared(req[s])
    BY <1>11, AcquireKeeps
  <2>. QED BY <1>1, <2>1 DEF Cleared, Apart
<1>. QED BY <1>4, <1>5, <1>6, <1>7, <1>8, <1>9, <1>10, <1>11 DEF Serve

(* what a commit does to the parents                                        *)
LEMMA CommitParents ==
  ASSUME IInv, NEW s \in Sessions, Commit(s)
  PROVE  /\ \A g \in Folders : \/ parent'[g] \in {parent[g], Nil}
                               \/ /\ req[s].op \in {"create", "move"} /\ g = req[s].f
                                  /\ parent'[g] = req[s].p
         /\ req[s].op = "create" => req[s].f \notin Rows
         /\ req[s].op = "create" /\ req[s].p # Nil => req[s].p \in Rows
<1>1. Effect(s) /\ Ready(s) /\ Written(req[s])
  BY CommitEffect DEF IInv, Written, Commit
<1>2. ASSUME NEW g \in Folders, g \notin Rows' PROVE parent'[g] = Nil
  BY <1>1, <1>2 DEF Effect, References
<1>3. ASSUME NEW g \in Rows'
      PROVE  \/ parent'[g] \in {parent[g], Nil}
             \/ req[s].op \in {"create", "move"} /\ g = req[s].f /\ parent'[g] = req[s].p
  BY <1>1, <1>3 DEF Effect
<1>4. /\ req[s].op = "create" => req[s].f \notin Rows
      /\ req[s].op = "create" /\ req[s].p # Nil => req[s].p \in Rows
  BY <1>1 DEF Ready
<1>. QED BY <1>2, <1>3, <1>4

LEMMA CommitRooted ==
  ASSUME AInv, NEW s \in Sessions, Commit(s)
  PROVE  Rooted'
<1>0. /\ \A g \in Folders : \/ parent'[g] \in {parent[g], Nil}
                            \/ /\ req[s].op \in {"create", "move"} /\ g = req[s].f
                               /\ parent'[g] = req[s].p
      /\ req[s].op = "create" => req[s].f \notin Rows
      /\ req[s].op = "create" /\ req[s].p # Nil => req[s].p \in Rows
  BY CommitParents DEF AInv
<1>1. \A g \in Folders : parent[g] \in Rows \cup {Nil}
  BY DEF AInv, IInv, References
<1> SUFFICES ASSUME NEW S \in SUBSET Folders, S # {}, \A g \in S : parent'[g] \in S
             PROVE  FALSE
  BY DEF Rooted
<1>2. Nil \notin S
  BY NilAssumption
<1>3. \A T \in SUBSET Folders : T # {} => \E g \in T : parent[g] \notin T
  BY DEF AInv, Rooted
<1>4. /\ req[s].op \in {"create", "move"} /\ req[s].f \in S /\ req[s].p \in S
      /\ \A h \in S : h # req[s].f => parent[h] \in S
  BY <1>0, <1>2, <1>3
<1>5. CASE req[s].op = "create"
  <2>1. /\ S \ {req[s].f} # {}
        /\ \A h \in S \ {req[s].f} : parent[h] \in S \ {req[s].f}
    BY <1>0, <1>1, <1>2, <1>4, <1>5
  <2>2. S \ {req[s].f} \in SUBSET Folders
    OBVIOUS
  <2>. QED BY <1>3, <2>1, <2>2
<1>6. CASE req[s].op = "move"
  <2>1. Apart(req[s].f, req[s].p, Nil)
    BY <1>2, <1>4, <1>6 DEF AInv, Cleared, Commit
  <2>2. PICK C \in SUBSET Folders : /\ req[s].p \in C /\ req[s].f \notin C
                                    /\ \A h \in C : parent[h] \in C \cup {Nil}
    BY <2>1 DEF Apart
  <2>3. S \cap C \in SUBSET Folders /\ S \cap C # {}
    BY <1>4, <2>2
  <2>4. \A h \in S \cap C : parent[h] \in S \cap C
    BY <1>2, <1>4, <2>2
  <2>. QED BY <1>3, <2>3, <2>4
<1>. QED BY <1>4, <1>5, <1>6

LEMMA CommitCleared ==
  ASSUME AInv, OneMoveAtATime, NEW s \in Sessions, Commit(s), NEW t \in Sessions
  PROVE  Cleared(req[t])'
<1>0. /\ \A g \in Folders : \/ parent'[g] \in {parent[g], Nil}
                            \/ /\ req[s].op \in {"create", "move"} /\ g = req[s].f
                               /\ parent'[g] = req[s].p
      /\ req[s].op = "create" => req[s].f \notin Rows
  BY CommitParents DEF AInv
<1>1. \A g \in Folders : parent[g] \in Rows \cup {Nil}
  BY DEF AInv, IInv, References
<1>2. CASE t = s
  <2>1. req'[s].stage = "done" /\ req'[s].cur = Nil
    BY DEF AInv, IInv, TypeOK, Commit, Finish, Go, Request
  <2>. QED BY <1>2, <2>1 DEF Cleared
<1>3. CASE t # s
  <2>0. req'[t] = req[t] /\ Cleared(req[t])
    BY <1>3, Stays DEF AInv, IInv, Serve
  <2> SUFFICES ASSUME req[t].op = "move", req[t].stage \in {"walk", "names", "write", "commit"},
                      req[t].p # Nil, Apart(req[t].f, req[t].p, req[t].cur)
               PROVE  Apart(req[t].f, req[t].p, req[t].cur)'
    BY <2>0 DEF Cleared
  <2>1. req[s].op = "move" => req[s].p = Nil
    BY <1>3 DEF OneMoveAtATime, Moving, Commit
  <2>2. PICK C \in SUBSET Folders : /\ req[t].p \in C /\ req[t].f \notin C
                                    /\ \A h \in C : parent[h] \in C \cup {Nil, req[t].cur}
    BY DEF Apart
  <2>3. CASE req[s].op = "create"
    <3>1. req[s].f # req[t].p
      BY <1>3, <2>3 DEF AInv, IInv, Ready, Written, Commit, Mentioned
    <3> DEFINE D == C \ {req[s].f}
    <3>2. /\ D \in SUBSET Folders /\ req[t].p \in D /\ req[t].f \notin D
          /\ \A h \in D : parent'[h] \in D \cup {Nil, req[t].cur}
      <4>1. ASSUME NEW h \in D PROVE parent'[h] \in D \cup {Nil, req[t].cur}
        <5>1. parent'[h] \in {parent[h], Nil} /\ parent[h] \in C \cup {Nil, req[t].cur}
          BY <1>0, <2>2
        <5>2. parent[h] # req[s].f \/ parent[h] = Nil
          BY <1>0, <1>1, <2>3
        <5>. QED BY <5>1, <5>2
      <4>. QED BY <2>2, <3>1, <4>1
    <3> HIDE DEF D
    <3>. QED BY <2>0, <3>2 DEF Apart
  <2>4. CASE req[s].op # "create"
    <3>1. \A h \in C : parent'[h] \in C \cup {Nil, req[t].cur}
      BY <1>0, <2>1, <2>2, <2>4
    <3>. QED BY <2>0, <2>2, <3>1 DEF Apart
  <2>. QED BY <2>3, <2>4
<1>. QED BY <1>2, <1>3

LEMMA NextAInv == AInv /\ OneMoveAtATime /\ [Next]_vars => AInv'
<1> SUFFICES ASSUME AInv, OneMoveAtATime, [Next]_vars PROVE AInv'
  OBVIOUS
<1>1. IInv'
  BY NextIInv DEF AInv
<1>2. ASSUME NEW s \in Sessions, Serve(s) \/ Cancel(s) PROVE AInv'
  <2>2. CASE Commit(s)
    BY <1>1, <2>2, CommitRooted, CommitCleared DEF AInv
  <2>3. CASE ~Commit(s)
    <3>1. parent' = parent /\ Cleared(req[s])'
      BY <1>2, <2>3, ReadsClear DEF AInv
    <3>2. ASSUME NEW t \in Sessions, t # s PROVE Cleared(req[t])'
      <4>1. req'[t] = req[t] /\ Cleared(req[t])
        BY <1>2, <3>2, Stays DEF AInv, IInv
      <4>. QED BY <3>1, <4>1 DEF Cleared, Apart
    <3>3. Rooted'
      BY <3>1 DEF AInv, Rooted
    <3>. QED BY <1>1, <3>1, <3>2, <3>3 DEF AInv
  <2>. QED BY <2>2, <2>3
<1>3. CASE UNCHANGED vars
  <2>1. req' = req /\ parent' = parent
    BY <1>3 DEF vars, rows
  <2>. QED BY <1>1, <2>1 DEF AInv, Rooted, Cleared, Apart
<1>. QED BY <1>2, <1>3 DEF Next

LEMMA NextOneMove == IInv /\ OneMove /\ [Next]_vars => OneMove'
<1> SUFFICES ASSUME IInv, OneMove, [Next]_vars PROVE OneMove'
  OBVIOUS
<1>1. ASSUME NEW s \in Sessions, Serve(s) \/ Cancel(s) PROVE OneMove'
  BY <1>1, Stays DEF IInv, OneMove
<1>2. CASE UNCHANGED vars
  BY <1>2 DEF vars, OneMove
<1>. QED BY <1>1, <1>2 DEF Next

(***************************************************************************)
(* As long as no two moves are between reading their target folder and     *)
(* their commit, and whatever the other requests do meanwhile, no folder   *)
(* becomes its own ancestor: a row is read at every step of the walk and   *)
(* nothing that commits in between can undo what the walk has found.       *)
(* Moves to the root may overlap anything.  (Two moves under other folders *)
(* can close a cycle, see FolderTxnCycle.cfg.)                             *)
(***************************************************************************)
THEOREM MovesInTurnAcyclic == Spec /\ []OneMoveAtATime => []Acyclic
<1>1. AInv => Acyclic
  BY DEF AInv, Rooted, Acyclic, Tree!Acyclic
<1>. QED BY <1>1, InitAInv, NextAInv, PTL DEF Spec

(***************************************************************************)
(* So no folder does with at most one move among any number of overlapping *)
(* requests.                                                               *)
(***************************************************************************)
THEOREM OneMoverAcyclic ==
  ASSUME MaxMoves \in {0, 1}
  PROVE  Spec => []Acyclic
<1>1. Init => IInv /\ OneMove
  BY InitIInv, InitOneMove
<1>2. OneMove => OneMoveAtATime
  BY DEF OneMove, OneMoveAtATime, Moving
<1>. QED BY <1>1, <1>2, NextIInv, NextOneMove, MovesInTurnAcyclic, PTL DEF Spec

-----------------------------------------------------------------------------
(***************************************************************************)
(* Requests that do not overlap.  While the others have not begun, what a  *)
(* request has read is what the tables hold: "Read" says, operation by     *)
(* operation, what it knows by the time it has reached each of its stages. *)
(***************************************************************************)
Quiet(s) == \A t \in Sessions \ {s} : req[t].stage = "start"

NameFits(r) == r.n # Nil => Tree!Fits(r.n)

CreateRead(r) ==
  r.op = "create" =>
    /\ \E b \in BaseNames : r.n = Tree!Plain(b)
    /\ r.stage \in {"parent", "write", "commit"} => ~Taken(r)
    /\ r.stage \in {"write", "commit"} => r.p \in live \cup {Nil}

MoveRead(r) ==
  r.op = "move" /\ r.stage \in {"parent", "walk", "names", "write", "commit"} =>
    /\ r.f \in live /\ r.n = name[r.f]
    /\ r.stage # "parent" => r.p \in live \cup {Nil} /\ r.p # r.f
    /\ r.stage \in {"write", "commit"} => ~Taken(r)

DeleteRead(r) ==
  r.op = "delete" /\ r.stage \in {"subtree", "write", "commit"} =>
    /\ r.f \in live
    /\ r.stage # "subtree" => r.seen = Tree!Subtree(r.f)

RestoreRead(r) ==
  r.op = "restore" /\ r.stage \in {"parent", "names", "subtree", "write", "commit"} =>
    /\ r.f \in trashed /\ r.p = parent[r.f]
    /\ r.stage # "parent" => r.p \in live \cup {Nil}
    /\ r.stage \in {"parent", "names"} => r.n = name[r.f]
    /\ r.stage \in {"subtree", "write", "commit"} =>
         /\ ~Tree!Ambiguous(name[r.f], User, r.p)
         /\ r.n = IF Tree!Taken(name[r.f], User, r.p) THEN Tree!Suffixed(name[r.f], 0) ELSE Nil
    /\ r.stage = "write" => r.seen = Tree!Subtree(r.f)
    /\ r.stage = "commit" => r.seen = (Tree!Subtree(r.f) \cap trashed) \cup {r.f} /\ NameFits(r)

PurgeRead(r) ==
  r.op = "purge" /\ r.stage \in {"subtree", "cascade", "write", "commit"} =>
    /\ r.f \in Rows
    /\ r.stage # "subtree" => r.seen = Tree!Subtree(r.f)

(* the trashed folders with all that is below them                          *)
UnderTrash == {g \in Rows : \E f \in trashed : g \in Tree!Subtree(f)}

EmptyRead(r) ==
  r.op = "empty" =>
    /\ r.stage = "cascade" => r.seen = trashed
    /\ r.stage \in {"write", "again", "commit"} => r.seen = UnderTrash

Read(r) ==
  /\ CreateRead(r) /\ MoveRead(r) /\ DeleteRead(r)
  /\ RestoreRead(r) /\ PurgeRead(r) /\ EmptyRead(r)

Begun(s) ==
  /\ Read(req[s]) /\ Cleared(req[s])
  /\ req[s].stage \notin {"again", "commit"} => locks[s] = {}
  /\ \A f \in Rows : Tree!Fits(name[f])

SerialInv == \A s \in Sessions : Quiet(s) /\ req[s].stage # "done" => Begun(s)

(***************************************************************************)
(* The one user owns every folder, so FolderTree lets him edit every live  *)
(* one.                                                                    *)
(***************************************************************************)
LEMMA OwnersMeaning ==
  ASSUME TypeOK
  PROVE  /\ Owners \in [Folders -> {User, Nil}]
         /\ \A f \in Folders : f \in Rows <=> Owners[f] = User
BY NilAssumption, RowsMeaning DEF Owners, TypeOK

LEMMA LiveIsEditable ==
  ASSUME TypeOK, NEW f \in live
  PROVE  Tree!MayEdit(User, f)
<1>1. f \in Folders /\ f \in Rows
  BY RowsMeaning DEF TypeOK
<1>2. f \in Tree!Granting(User)
  BY <1>1, OwnersMeaning DEF Tree!Granting
<1>3. \A S : f \in Tree!Walk(f, S)
  BY <1>1 DEF Tree!Walk
<1>4. Tree!HasAccess(User, f)
  BY <1>2, <1>3 DEF Tree!HasAccess
<1>5. \A g \in Folders : Tree!RoleAt(User, g) = IF g \in live THEN "owner" ELSE "none"
  BY OwnersMeaning, RowsMeaning DEF Tree!RoleAt
<1> DEFINE giving == {g \in Folders : Tree!RoleAt(User, g) # "none"}
<1>6. giving = live
  BY <1>5 DEF TypeOK
<1>7. Tree!Walk(f, live) \cap live = {f}
  <2>1. Tree!ClosedUpTo({f}, live)
    BY DEF Tree!ClosedUpTo
  <2>2. Tree!Walk(f, live) \subseteq {f}
    BY <1>1, <2>1 DEF Tree!Walk
  <2>. QED BY <1>3, <2>2
<1>8. Tree!Walk(f, giving) \cap giving = {f}
  BY <1>6, <1>7
<1>9. Tree!EffectiveRole(User, f) = "owner"
  <2>1. (CHOOSE g \in {f} : TRUE) = f
    OBVIOUS
  <2>2. Tree!EffectiveRole(User, f) = Tree!RoleAt(User, CHOOSE g \in {f} : TRUE)
    BY <1>8 DEF Tree!EffectiveRole
  <2>. QED BY <1>1, <1>5, <2>1, <2>2
<1>. QED BY <1>4, <1>9 DEF Tree!MayEdit

LEMMA AccessInTrash ==
  ASSUME TypeOK, NEW f \in Rows
  PROVE  Tree!HasAccessInTrash(User, f)
<1>1. f \in Folders
  BY RowsMeaning DEF TypeOK
<1>2. f \in Tree!Granting(User)
  BY <1>1, OwnersMeaning DEF Tree!Granting
<1>3. f \in Tree!Chain(f)
  BY <1>1 DEF Tree!Chain, Tree!Walk
<1>. QED BY <1>2, <1>3 DEF Tree!HasAccessInTrash, Rows

(* what get_subtree_ids finds: the folder, and with a folder its children   *)
LEMMA SubtreeFacts ==
  ASSUME TypeOK, NEW f \in Rows
  PROVE  /\ f \in Tree!Subtree(f) /\ Tree!Subtree(f) \subseteq Rows
         /\ \A g \in Rows : Tree!Chain(g) \cap Tree!Subtree(f) # {} => g \in Tree!Subtree(f)
         /\ \A g \in Rows : parent[g] \in Tree!Subtree(f) => g \in Tree!Subtree(f)
<1>0. Rows \subseteq Folders
  BY RowsMeaning DEF TypeOK
<1>1. \A g \in Folders : g \in Tree!Chain(g)
  BY DEF Tree!Chain, Tree!Walk
<1>2. f \in Tree!Subtree(f) /\ Tree!Subtree(f) \subseteq Rows
  BY <1>0, <1>1 DEF Tree!Subtree, Rows
<1>3. ASSUME NEW g \in Rows, NEW h \in Tree!Chain(g), h \in Tree!Subtree(f)
      PROVE  g \in Tree!Subtree(f)
  <2>1. f \in Tree!Chain(h)
    BY <1>3 DEF Tree!Subtree
  <2>2. f \in Tree!Chain(g)
    BY <1>0, <1>3, <2>1 DEF Tree!Chain, Tree!Walk
  <2>. QED BY <2>2 DEF Tree!Subtree, Rows
<1>4. ASSUME NEW g \in Rows, parent[g] \in Tree!Subtree(f)
      PROVE  g \in Tree!Subtree(f)
  <2>1. parent[g] \in Folders
    BY <1>0, <1>2, <1>4
  <2>2. parent[g] \in Tree!Chain(g)
    <3> SUFFICES ASSUME NEW C \in SUBSET Folders, g \in C, Tree!ClosedUpTo(C, {})
                 PROVE  parent[g] \in C
      BY <2>1 DEF Tree!Chain, Tree!Walk
    <3>. QED BY <2>1, NilAssumption DEF Tree!ClosedUpTo
  <2>. QED BY <1>3, <1>4, <2>2
<1>. QED BY <1>2, <1>3, <1>4

LEMMA UnderTrashFacts ==
  ASSUME TypeOK
  PROVE  /\ trashed \subseteq UnderTrash /\ UnderTrash \subseteq Rows
         /\ \A g \in Rows : parent[g] \in UnderTrash => g \in UnderTrash
         /\ trashed \cup {g \in Rows : Tree!Chain(g) \cap trashed # {}} = UnderTrash
<1>0. trashed \subseteq Rows
  BY RowsMeaning
<1>1. trashed \subseteq UnderTrash /\ UnderTrash \subseteq Rows
  BY <1>0, SubtreeFacts DEF UnderTrash
<1>2. \A g \in Rows : parent[g] \in UnderTrash => g \in UnderTrash
  BY <1>0, SubtreeFacts DEF UnderTrash
<1>3. \A g \in Rows : Tree!Chain(g) \cap trashed # {} <=> g \in UnderTrash
  BY <1>0 DEF UnderTrash, Tree!Subtree, Rows
<1>. QED BY <1>1, <1>2, <1>3

LEMMA InitSerial == Init => SerialInv
<1> SUFFICES ASSUME Init, NEW s \in Sessions PROVE Begun(s)
  BY DEF SerialInv
<1>1. /\ req[s].stage = "start" /\ req[s].cur = Nil
      /\ req[s].op = "create" => \E b \in BaseNames : req[s].n = Tree!Plain(b)
      /\ locks[s] = {}
  BY DEF Init, Requests
<1>2. Read(req[s])
  BY <1>1 DEF Read, CreateRead, MoveRead, DeleteRead, RestoreRead, PurgeRead, EmptyRead
<1>3. ASSUME NEW f \in Rows PROVE Tree!Fits(name[f])
  <2>1. PICK b \in BaseNames : name[f] = Tree!Plain(b)
    <3>1. f \in Folders /\ name[f] # Nil
      BY RowsMeaning DEF Init, IsTree
    <3>. QED BY <3>1 DEF Init
  <2>2. name[f].suffix = <<>>
    BY <2>1 DEF Tree!Plain
  <2>. QED BY <2>2 DEF Tree!Fits, MaxSuffix
<1>. QED BY <1>1, <1>2, <1>3 DEF Begun, Cleared

(* a step that leaves the tables alone                                      *)
LEMMA ReadOn ==
  ASSUME TypeOK, NEW s \in Sessions, NEW n \in Request, req' = [req EXCEPT ![s] = n],
         UNCHANGED <<live, trashed, parent, name>>, Read(n)
  PROVE  Read(req[s])'
<1>1. req'[s] = n
  BY DEF TypeOK
<1>2. Rows' = Rows /\ Owners' = Owners
  BY DEF Rows, Tree!Rows, Owners
<1>3. \A f \in Folders : Tree!Chain(f)' = Tree!Chain(f)
  BY DEF Tree!Chain, Tree!Walk, Tree!ClosedUpTo
<1>4. \A f : Tree!Subtree(f)' = Tree!Subtree(f)
  <2>1. Rows \subseteq Folders
    BY RowsMeaning DEF TypeOK
  <2>. QED BY <1>2, <1>3, <2>1 DEF Tree!Subtree, Rows
<1>5. \A m, p : Tree!Namesakes(m, User, p)' = Tree!Namesakes(m, User, p)
  BY <1>2 DEF Tree!Namesakes
<1>6. \A m, p : /\ Tree!Taken(m, User, p)' <=> Tree!Taken(m, User, p)
                /\ Tree!Ambiguous(m, User, p)' <=> Tree!Ambiguous(m, User, p)
  BY <1>5 DEF Tree!Taken, Tree!Ambiguous
<1>7. UnderTrash' = UnderTrash
  BY <1>2, <1>4 DEF UnderTrash
<1>8. CreateRead(req[s])' /\ MoveRead(req[s])'
  BY <1>1, <1>6 DEF Read, CreateRead, MoveRead, Taken
<1>9. DeleteRead(req[s])' /\ PurgeRead(req[s])'
  BY <1>1, <1>2, <1>4 DEF Read, DeleteRead, PurgeRead
<1>10. RestoreRead(req[s])'
  <2>1. NameFits(req[s])' <=> NameFits(n)
    BY <1>1 DEF NameFits, Tree!Fits
  <2>. QED BY <1>1, <1>4, <1>6, <2>1 DEF Read, RestoreRead
<1>11. EmptyRead(req[s])'
  BY <1>1, <1>7 DEF Read, EmptyRead
<1>. QED BY <1>8, <1>9, <1>10, <1>11 DEF Read

LEMMA SelectOn ==
  ASSUME IInv, NEW s \in Sessions, NEW n \in Request, req' = [req EXCEPT ![s] = n],
         UNCHANGED <<live, trashed, parent, name, locks>>,
         Begun(s), Cleared(req[s])', Read(n),
         n.stage \notin {"again", "commit"} => req[s].stage \notin {"again", "commit"}
  PROVE  Begun(s)'
<1>0. TypeOK /\ req'[s] = n
  BY DEF IInv, TypeOK
<1>1. Read(req[s])'
  BY <1>0, ReadOn
<1>2. Rows' = Rows
  BY DEF Rows, Tree!Rows
<1>3. (\A f \in Rows : Tree!Fits(name[f]))'
  BY <1>2 DEF Begun, Tree!Fits
<1>. QED BY <1>0, <1>1, <1>3 DEF Begun

(***************************************************************************)
(* The SELECTs.  Each leaves the request with what it says in "Read".      *)
(***************************************************************************)
LEMMA LoadFolderReads ==
  ASSUME IInv, NEW s \in Sessions, Begun(s), LoadFolder(s), Cleared(req[s])'
  PROVE  Begun(s)'
<1>0. /\ req[s] \in Request /\ req[s].stage = "start"
      /\ UNCHANGED <<live, trashed, parent, name, locks, taken>>
  BY DEF LoadFolder, Select, At, rows, IInv, TypeOK
<1>1. CASE req[s].op = "move" /\ req[s].f \in live
             /\ Go(s, [req[s] EXCEPT !.stage = "parent", !.n = name[req[s].f]])
  <2> DEFINE n == [req[s] EXCEPT !.stage = "parent", !.n = name[req[s].f]]
  <2>0. name[req[s].f] \in Tree!Names \cup {Nil}
    BY <1>1 DEF IInv, TypeOK
  <2>1. /\ n \in Request /\ n.stage = "parent" /\ n.op = "move" /\ n.f = req[s].f /\ n.n = name[req[s].f]
    BY <1>0, <1>1, <2>0 DEF Request, Stages
  <2>2. req' = [req EXCEPT ![s] = n]
    BY <1>1 DEF Go
  <2> HIDE DEF n
  <2>3. Read(n)
    BY <1>1, <2>1 DEF Read, CreateRead, MoveRead, DeleteRead, RestoreRead, PurgeRead, EmptyRead
  <2>. QED BY <1>0, <2>1, <2>2, <2>3, SelectOn
<1>2. CASE /\ \/ req[s].op = "delete" /\ req[s].f \in live
              \/ req[s].op = "purge" /\ req[s].f \in Rows
           /\ Go(s, [req[s] EXCEPT !.stage = "subtree"])
  <2> DEFINE n == [req[s] EXCEPT !.stage = "subtree"]
  <2>1. /\ n \in Request /\ n.stage = "subtree" /\ n.op = req[s].op /\ n.f = req[s].f
    BY <1>0 DEF Request, Stages
  <2>2. req' = [req EXCEPT ![s] = n]
    BY <1>2 DEF Go
  <2> HIDE DEF n
  <2>3. Read(n)
    BY <1>2, <2>1 DEF Read, CreateRead, MoveRead, DeleteRead, RestoreRead, PurgeRead, EmptyRead
  <2>. QED BY <1>0, <2>1, <2>2, <2>3, SelectOn
<1>3. CASE /\ req[s].op = "restore" /\ req[s].f \in trashed
           /\ Go(s, [req[s] EXCEPT !.stage = "parent", !.n = name[req[s].f], !.p = parent[req[s].f]])
  <2> DEFINE n == [req[s] EXCEPT !.stage = "parent", !.n = name[req[s].f], !.p = parent[req[s].f]]
  <2>0. name[req[s].f] \in Tree!Names \cup {Nil} /\ parent[req[s].f] \in Folders \cup {Nil}
    BY <1>3 DEF IInv, TypeOK
  <2>1. /\ n \in Request /\ n.stage = "parent" /\ n.op = "restore"
        /\ n.f = req[s].f /\ n.n = name[req[s].f] /\ n.p = parent[req[s].f]
    BY <1>0, <1>3, <2>0 DEF Request, Stages
  <2>2. req' = [req EXCEPT ![s] = n]
    BY <1>3 DEF Go
  <2> HIDE DEF n
  <2>3. Read(n)
    BY <1>3, <2>1 DEF Read, CreateRead, MoveRead, DeleteRead, RestoreRead, PurgeRead, EmptyRead
  <2>. QED BY <1>0, <2>1, <2>2, <2>3, SelectOn
<1>4. CASE req[s].op = "empty" /\ Go(s, [req[s] EXCEPT !.stage = "cascade", !.seen = trashed])
  <2> DEFINE n == [req[s] EXCEPT !.stage = "cascade", !.seen = trashed]
  <2>1. n \in Request /\ n.stage = "cascade" /\ n.op = "empty" /\ n.seen = trashed
    BY <1>0, <1>4 DEF Request, Stages, IInv, TypeOK
  <2>2. req' = [req EXCEPT ![s] = n]
    BY <1>4 DEF Go
  <2> HIDE DEF n
  <2>3. Read(n)
    BY <2>1 DEF Read, CreateRead, MoveRead, DeleteRead, RestoreRead, PurgeRead, EmptyRead
  <2>. QED BY <1>0, <2>1, <2>2, <2>3, SelectOn
<1>. QED BY <1>1, <1>2, <1>3, <1>4 DEF LoadFolder, Select, At

LEMMA LoadParentReads ==
  ASSUME IInv, NEW s \in Sessions, Begun(s), LoadParent(s), Cleared(req[s])'
  PROVE  Begun(s)'
<1>0. /\ req[s] \in Request /\ req[s].stage = "parent" /\ req[s].p \in live \cup {Nil}
      /\ req[s].op \in {"create", "move", "restore"}
      /\ req[s].op = "move" => req[s].p # req[s].f
      /\ UNCHANGED <<live, trashed, parent, name, locks, taken>> /\ Read(req[s])
  BY DEF LoadParent, Select, At, rows, IInv, TypeOK, Begun
<1>1. CASE \E st \in {"write", "names"} :
             st = (IF req[s].op = "create" THEN "write" ELSE "names") /\ Go(s, [req[s] EXCEPT !.stage = st])
  <2>0. PICK st \in {"write", "names"} :
          st = (IF req[s].op = "create" THEN "write" ELSE "names") /\ Go(s, [req[s] EXCEPT !.stage = st])
    BY <1>1
  <2> DEFINE n == [req[s] EXCEPT !.stage = st]
  <2>1. /\ n \in Request /\ n.stage = st /\ n.op = req[s].op /\ n.n = req[s].n
        /\ n.f = req[s].f /\ n.p = req[s].p /\ n.seen = req[s].seen
    BY <1>0 DEF Request, Stages
  <2>2. req' = [req EXCEPT ![s] = n]
    BY <2>0 DEF Go
  <2> HIDE DEF n
  <2>3. Read(n)
    BY <1>0, <2>0, <2>1
       DEF Read, CreateRead, MoveRead, DeleteRead, RestoreRead, PurgeRead, EmptyRead, Taken
  <2>. QED BY <1>0, <2>0, <2>1, <2>2, <2>3, SelectOn
<1>2. CASE /\ req[s].op = "move" /\ req[s].p # Nil
           /\ Go(s, [req[s] EXCEPT !.stage = "walk", !.cur = parent[req[s].p]])
  <2> DEFINE n == [req[s] EXCEPT !.stage = "walk", !.cur = parent[req[s].p]]
  <2>0. parent[req[s].p] \in Folders \cup {Nil}
    BY <1>0, <1>2 DEF IInv, TypeOK
  <2>1. /\ n \in Request /\ n.stage = "walk" /\ n.op = "move" /\ n.n = req[s].n
        /\ n.f = req[s].f /\ n.p = req[s].p
    BY <1>0, <1>2, <2>0 DEF Request, Stages
  <2>2. req' = [req EXCEPT ![s] = n]
    BY <1>2 DEF Go
  <2> HIDE DEF n
  <2>3. Read(n)
    BY <1>0, <1>2, <2>1 DEF Read, CreateRead, MoveRead, DeleteRead, RestoreRead, PurgeRead, EmptyRead
  <2>. QED BY <1>0, <2>1, <2>2, <2>3, SelectOn
<1>. QED BY <1>0, <1>1, <1>2 DEF LoadParent, Select, At

LEMMA WalkReads ==
  ASSUME IInv, NEW s \in Sessions, Begun(s), Walk(s), Cleared(req[s])'
  PROVE  Begun(s)'
<1>0. /\ req[s] \in Request /\ req[s].stage = "walk" /\ req[s].op = "move"
      /\ UNCHANGED <<live, trashed, parent, name, locks, taken>> /\ Read(req[s])
  BY DEF Walk, Select, At, rows, IInv, TypeOK, Begun
<1>1. PICK c \in Folders \cup {Nil}, st \in {"walk", "names"} :
        Go(s, [req[s] EXCEPT !.cur = c, !.stage = st])
  <2>1. CASE req[s].cur \in Rows
    <3>1. parent[req[s].cur] \in Folders \cup {Nil}
      BY <2>1, RowsMeaning DEF IInv, TypeOK
    <3>2. [req[s] EXCEPT !.cur = parent[req[s].cur]] = [req[s] EXCEPT !.cur = parent[req[s].cur], !.stage = "walk"]
      BY <1>0 DEF Request
    <3>3. Go(s, [req[s] EXCEPT !.cur = parent[req[s].cur], !.stage = "walk"])
      BY <2>1, <3>2 DEF Walk, Select
    <3>. QED BY <3>1, <3>3
  <2>2. CASE req[s].cur \notin Rows
    BY <2>2 DEF Walk, Select
  <2>. QED BY <2>1, <2>2
<1> DEFINE n == [req[s] EXCEPT !.cur = c, !.stage = st]
<1>2. /\ n \in Request /\ n.stage = st /\ n.op = "move" /\ n.n = req[s].n
      /\ n.f = req[s].f /\ n.p = req[s].p
  BY <1>0 DEF Request, Stages
<1>3. req' = [req EXCEPT ![s] = n]
  BY <1>1 DEF Go
<1> HIDE DEF n
<1>4. Read(n)
  BY <1>0, <1>2 DEF Read, CreateRead, MoveRead, DeleteRead, RestoreRead, PurgeRead, EmptyRead
<1>. QED BY <1>0, <1>2, <1>3, <1>4, SelectOn

LEMMA CheckNameReads ==
  ASSUME IInv, NEW s \in Sessions, Begun(s), CheckName(s), Cleared(req[s])'
  PROVE  Begun(s)'
<1>0. /\ req[s] \in Request /\ req[s].stage \in {"start", "names"}
      /\ UNCHANGED <<live, trashed, parent, name, locks, taken>> /\ Read(req[s])
  BY DEF CheckName, Select, At, rows, IInv, TypeOK, Begun
<1>1. CASE \E st \in {"parent", "write"} :
             /\ \/ req[s].op = "create" /\ st = "parent"
                \/ req[s].op = "move" /\ st = "write" /\ req[s].stage = "names"
             /\ ~Taken(req[s]) /\ Go(s, [req[s] EXCEPT !.stage = st])
  <2>0. PICK st \in {"parent", "write"} :
             /\ \/ req[s].op = "create" /\ st = "parent"
                \/ req[s].op = "move" /\ st = "write" /\ req[s].stage = "names"
             /\ ~Taken(req[s]) /\ Go(s, [req[s] EXCEPT !.stage = st])
    BY <1>1
  <2> DEFINE n == [req[s] EXCEPT !.stage = st]
  <2>1. /\ n \in Request /\ n.stage = st /\ n.op = req[s].op /\ n.n = req[s].n
        /\ n.f = req[s].f /\ n.p = req[s].p
    BY <1>0 DEF Request, Stages
  <2>2. req' = [req EXCEPT ![s] = n]
    BY <2>0 DEF Go
  <2> HIDE DEF n
  <2>3. Read(n)
    BY <1>0, <2>0, <2>1
       DEF Read, CreateRead, MoveRead, DeleteRead, RestoreRead, PurgeRead, EmptyRead, Taken
  <2>. QED BY <1>0, <2>0, <2>1, <2>2, <2>3, SelectOn
<1>2. CASE /\ req[s].op = "restore" /\ req[s].stage = "names" /\ ~Ambiguous(req[s])
           /\ Go(s, [req[s] EXCEPT !.stage = "subtree",
                                   !.n = IF Taken(req[s]) THEN Tree!Suffixed(@, 0) ELSE Nil])
  <2> DEFINE m == IF Taken(req[s]) THEN Tree!Suffixed(req[s].n, 0) ELSE Nil
             n == [req[s] EXCEPT !.stage = "subtree", !.n = m]
  <2>a. req[s].n = name[req[s].f] /\ req[s].f \in trashed /\ req[s].p = parent[req[s].f]
        /\ req[s].p \in live \cup {Nil}
    BY <1>0, <1>2 DEF Read, RestoreRead
  <2>b. name[req[s].f] \in Tree!Names
    BY <2>a, RowsMeaning DEF IInv, References
  <2>0. m \in Tree!Names \cup {Nil}
    BY <2>a, <2>b, NamesTyped
  <2>1. req' = [req EXCEPT ![s] = n]
    BY <1>2 DEF Go
  <2>2. m = IF Tree!Taken(name[req[s].f], User, req[s].p) THEN Tree!Suffixed(name[req[s].f], 0) ELSE Nil
    BY <2>a DEF Taken
  <2> HIDE DEF m
  <2>3. /\ n \in Request /\ n.stage = "subtree" /\ n.op = "restore" /\ n.n = m
        /\ n.f = req[s].f /\ n.p = req[s].p
    BY <1>0, <1>2, <2>0 DEF Request, Stages
  <2> HIDE DEF n
  <2>4. ~Tree!Ambiguous(name[req[s].f], User, req[s].p)
    BY <1>2, <2>a DEF Ambiguous
  <2>5. Read(n)
    BY <2>a, <2>2, <2>3, <2>4
       DEF Read, CreateRead, MoveRead, DeleteRead, RestoreRead, PurgeRead, EmptyRead
  <2>. QED BY <1>0, <1>2, <2>1, <2>3, <2>5, SelectOn
<1>. QED BY <1>1, <1>2 DEF CheckName, Select, At

LEMMA QueryReads ==
  ASSUME IInv, NEW s \in Sessions, Begun(s), QuerySubtree(s), Cleared(req[s])'
  PROVE  Begun(s)'
<1>0. /\ req[s] \in Request /\ req[s].stage = "subtree" /\ req[s].op \in {"delete", "restore", "purge"}
      /\ UNCHANGED <<live, trashed, parent, name, locks, taken>> /\ Read(req[s])
  BY DEF QuerySubtree, Select, At, rows, IInv, TypeOK, Begun
<1> DEFINE st == IF req[s].op = "purge" THEN "cascade" ELSE "write"
           n == [req[s] EXCEPT !.stage = st, !.seen = Tree!Subtree(req[s].f)]
<1>1. Tree!Subtree(req[s].f) \subseteq Folders
  BY RowsMeaning DEF Tree!Subtree, Rows, IInv, TypeOK
<1>2. /\ n \in Request /\ n.stage = st /\ n.op = req[s].op /\ n.n = req[s].n
      /\ n.f = req[s].f /\ n.p = req[s].p /\ n.seen = Tree!Subtree(req[s].f)
  BY <1>0, <1>1 DEF Request, Stages
<1>3. req' = [req EXCEPT ![s] = n]
  BY DEF QuerySubtree, Select, Go
<1> HIDE DEF n
<1>4. Read(n)
  BY <1>0, <1>2 DEF Read, CreateRead, MoveRead, DeleteRead, RestoreRead, PurgeRead, EmptyRead
<1>. QED BY <1>0, <1>2, <1>3, <1>4, SelectOn

LEMMA CascadeReads ==
  ASSUME IInv, NEW s \in Sessions, Begun(s), LoadCascade(s), Cleared(req[s])'
  PROVE  Begun(s)'
<1>0. /\ req[s] \in Request /\ req[s].stage = "cascade" /\ req[s].op \in {"purge", "empty"}
      /\ UNCHANGED <<live, trashed, parent, name, locks, taken>> /\ Read(req[s]) /\ locks[s] = {}
      /\ TypeOK
  BY DEF LoadCascade, Select, At, rows, IInv, TypeOK, Begun
<1>1. DeletedBy(s) = {}
  BY <1>0 DEF DeletedBy
<1> DEFINE S == req[s].seen \cup {g \in Rows : Tree!Chain(g) \cap req[s].seen # {}}
           n == [req[s] EXCEPT !.stage = "write", !.seen = S]
<1>2. Go(s, [req[s] EXCEPT !.stage = "write",
                           !.seen = @ \cup {g \in Rows : Tree!Walk(g, {}) \cap (req[s].seen \ {}) # {}}])
  BY <1>1 DEF LoadCascade, Select
<1>3. req' = [req EXCEPT ![s] = n]
  BY <1>2 DEF Go, Tree!Chain
<1>4. S \subseteq Folders
  BY <1>0, RowsMeaning DEF TypeOK, Request
<1>5. req[s].op = "purge" => req[s].f \in Rows /\ S = Tree!Subtree(req[s].f)
  <2> SUFFICES ASSUME req[s].op = "purge" PROVE req[s].f \in Rows /\ S = Tree!Subtree(req[s].f)
    OBVIOUS
  <2>1. req[s].f \in Rows /\ req[s].seen = Tree!Subtree(req[s].f)
    BY <1>0 DEF Read, PurgeRead
  <2>. QED BY <1>0, <2>1, SubtreeFacts
<1>6. req[s].op = "empty" => S = UnderTrash
  <2>1. req[s].op = "empty" => req[s].seen = trashed
    BY <1>0 DEF Read, EmptyRead
  <2>. QED BY <1>0, <2>1, UnderTrashFacts
<1> HIDE DEF S
<1>7. /\ n \in Request /\ n.stage = "write" /\ n.op = req[s].op /\ n.f = req[s].f /\ n.seen = S
  BY <1>0, <1>4 DEF Request, Stages
<1> HIDE DEF n
<1>8. Read(n)
  BY <1>0, <1>5, <1>6, <1>7
     DEF Read, CreateRead, MoveRead, DeleteRead, RestoreRead, PurgeRead, EmptyRead
<1>. QED BY <1>0, <1>3, <1>7, <1>8, SelectOn

LEMMA ListAgainReads ==
  ASSUME IInv, NEW s \in Sessions, Begun(s), ListAgain(s), Cleared(req[s])'
  PROVE  Begun(s)'
<1>0. /\ req[s] \in Request /\ req[s].stage = "again" /\ req[s].op = "empty"
      /\ UNCHANGED <<live, trashed, parent, name, locks, taken>> /\ Read(req[s]) /\ TypeOK
  BY DEF ListAgain, Select, At, rows, IInv, TypeOK, Begun
<1>1. req[s].seen = UnderTrash /\ trashed \subseteq UnderTrash
  BY <1>0, UnderTrashFacts DEF Read, EmptyRead
<1> DEFINE S == req[s].seen \cup trashed
           n == [req[s] EXCEPT !.stage = "commit", !.seen = S]
<1>2. S = UnderTrash /\ S \subseteq Folders
  BY <1>0, <1>1 DEF Request
<1>3. req' = [req EXCEPT ![s] = n]
  BY <1>1 DEF ListAgain, Select, Go
<1> HIDE DEF S
<1>4. n \in Request /\ n.stage = "commit" /\ n.op = "empty" /\ n.seen = S
  BY <1>0, <1>2 DEF Request, Stages
<1> HIDE DEF n
<1>5. Read(n)
  BY <1>2, <1>4 DEF Read, CreateRead, MoveRead, DeleteRead, RestoreRead, PurgeRead, EmptyRead
<1>. QED BY <1>0, <1>3, <1>4, <1>5, SelectOn

(* the statements write to the rows the recursive query has found           *)
LEMMA WriteReads ==
  ASSUME IInv, NEW s \in Sessions, Begun(s), Write(s), Cleared(req[s])'
  PROVE  Begun(s)'
<1>1. PICK r \in Request, L \in SUBSET (Modes \X Folders) :
         /\ req' = [req EXCEPT ![s] = r] /\ locks' = [locks EXCEPT ![s] = L]
         /\ Free(s, L) /\ Granted(r, L)
         /\ r.stage = IF r.op = "empty" THEN "again" ELSE "commit"
         /\ r.op = req[s].op /\ r.n = req[s].n /\ r.p = req[s].p /\ r.cur = req[s].cur
         /\ IF r.op = "create" THEN r.f \in Unused(s) ELSE r.f = req[s].f
         /\ r.seen \subseteq Rows /\ (r.op # "create" => r.seen = Target(s))
  BY WriteFields
<1>2. /\ TypeOK /\ req'[s] = r /\ req[s].stage = "write" /\ Read(req[s])
      /\ ~Impossible(req[s]) /\ UNCHANGED <<live, trashed, parent, name>>
  BY <1>1 DEF Write, IInv, TypeOK, Begun, rows
<1>3. NameFits(r)
  <2> SUFFICES ASSUME r.n # Nil PROVE Len(r.n.suffix) <= MaxSuffix
    BY DEF NameFits, Tree!Fits
  <2>1. Len(r.n.suffix) \in Nat
    BY DEF Request, Tree!Names
  <2>2. ~(Len(r.n.suffix) > MaxSuffix)
    BY <1>1, <1>2 DEF Impossible
  <2>. QED BY <2>1, <2>2 DEF MaxSuffix
<1>4. CreateRead(r) /\ MoveRead(r)
  BY <1>1, <1>2 DEF Read, CreateRead, MoveRead, Taken
<1>5. DeleteRead(r) /\ PurgeRead(r)
  <2> SUFFICES ASSUME r.op \in {"delete", "purge"}
               PROVE  r.f \in Rows /\ (r.op = "delete" => r.f \in live) /\ r.seen = Tree!Subtree(r.f)
    BY <1>1 DEF DeleteRead, PurgeRead
  <2>1. /\ r.f \in Rows /\ (r.op = "delete" => r.f \in live)
        /\ req[s].seen = Tree!Subtree(r.f)
    BY <1>1, <1>2, RowsMeaning DEF Read, DeleteRead, PurgeRead
  <2>2. r.seen = req[s].seen \cap Rows
    BY <1>1 DEF Target
  <2>3. Tree!Subtree(r.f) \subseteq Rows
    BY <1>2, <2>1, SubtreeFacts
  <2>. QED BY <2>1, <2>2, <2>3
<1>6. RestoreRead(r)
  <2> SUFFICES ASSUME r.op = "restore" PROVE RestoreRead(r)
    BY DEF RestoreRead
  <2>1. r.seen = (req[s].seen \cap trashed) \cup {r.f}
    BY <1>1 DEF Target
  <2>. QED BY <1>1, <1>2, <1>3, <2>1 DEF Read, RestoreRead
<1>7. EmptyRead(r)
  <2> SUFFICES ASSUME r.op = "empty" PROVE r.seen = UnderTrash
    BY <1>1 DEF EmptyRead
  <2>1. r.seen = req[s].seen \cap Rows
    BY <1>1 DEF Target
  <2>2. req[s].seen = UnderTrash
    BY <1>1, <1>2 DEF Read, EmptyRead
  <2>. QED BY <1>2, <2>1, <2>2, UnderTrashFacts
<1>8. Read(req[s])'
  BY <1>1, <1>2, <1>4, <1>5, <1>6, <1>7, ReadOn DEF Read
<1>9. r.stage \in {"again", "commit"} /\ Rows' = Rows
  BY <1>1, <1>2 DEF Rows, Tree!Rows
<1>10. (\A f \in Rows : Tree!Fits(name[f]))'
  BY <1>2, <1>9 DEF Begun, Tree!Fits
<1>. QED BY <1>2, <1>8, <1>9, <1>10 DEF Begun

LEMMA CommitsWrite ==
  ASSUME NEW s \in Sessions, Serve(s) \/ Cancel(s), ~Commit(s)
  PROVE  UNCHANGED <<live, trashed, parent, name>>
BY DEF Serve, LoadFolder, LoadParent, Walk, CheckName, QuerySubtree, LoadCascade, ListAgain, Refuse,
       DbError, Deadlock, Cancel, Fail, Select, Acquire, Write, rows

LEMMA NothingRead ==
  ASSUME IInv, NEW s \in Sessions, Begun(s), Cleared(req[s])',
         UNCHANGED <<live, trashed, parent, name, req, locks>>
  PROVE  Begun(s)'
<1> DEFINE n == req[s]
<1>1. n \in Request /\ req' = [req EXCEPT ![s] = n] /\ Read(n)
  BY DEF IInv, TypeOK, Begun
<1>. QED BY <1>1, SelectOn

LEMMA StepReads ==
  ASSUME IInv, NEW s \in Sessions, Begun(s), Serve(s) \/ Cancel(s), ~Commit(s)
  PROVE  req'[s].stage = "done" \/ Begun(s)'
<1>1. Cleared(req[s])'
  BY ReadsClear DEF Begun
<1>2. CASE Refuse(s) \/ DbError(s) \/ Deadlock(s) \/ Cancel(s)
  <2>1. Finish(s)
    BY <1>2 DEF Refuse, DbError, Deadlock, Cancel, Fail
  <2>2. req'[s].stage = "done"
    BY <2>1 DEF Finish, Go, IInv, TypeOK, Request
  <2>. QED BY <2>2
<1>3. CASE LoadFolder(s) \/ LoadParent(s) \/ Walk(s) \/ CheckName(s)
  BY <1>1, <1>3, LoadFolderReads, LoadParentReads, WalkReads, CheckNameReads
<1>4. CASE QuerySubtree(s) \/ LoadCascade(s) \/ ListAgain(s) \/ Write(s)
  BY <1>1, <1>4, QueryReads, CascadeReads, ListAgainReads, WriteReads
<1>5. CASE Acquire(s)
  BY <1>1, <1>5, AcquireKeeps, NothingRead
<1>. QED BY <1>2, <1>3, <1>4, <1>5 DEF Serve

(***************************************************************************)
(* The commit of a request nothing has overlapped with, as the operation   *)
(* of FolderTree.                                                          *)
(***************************************************************************)
LEMMA KeysUnique ==
  ASSUME IInv'
  PROVE  Tree!UniqueRows'
BY DEF IInv, Unique, Tree!UniqueRows, Rows, Tree!Rows, Owners, TypeOK

LEMMA OwnersAfter ==
  ASSUME TypeOK, TypeOK'
  PROVE  /\ Owners' \in [Folders -> {User, Nil}]
         /\ \A f \in Folders : Owners'[f] = IF f \in live' \cup trashed' THEN User ELSE Nil
         /\ \A f \in Folders : Owners[f] = IF f \in live \cup trashed THEN User ELSE Nil
BY DEF Owners

LEMMA SerialCreate ==
  ASSUME IInv, IInv', NEW s \in Sessions, Begun(s), Commit(s), req[s].op = "create"
  PROVE  \E b \in BaseNames, p \in Folders \cup {Nil} : Tree!Create(User, b, p)
<1>0. /\ req[s] \in Request /\ req[s].stage = "commit" /\ TypeOK /\ TypeOK'
      /\ live' = live \cup {req[s].f} /\ trashed' = trashed
      /\ parent' = [parent EXCEPT ![req[s].f] = req[s].p]
      /\ name' = [name EXCEPT ![req[s].f] = req[s].n]
      /\ req[s].f \in Folders \ Rows
  BY DEF Commit, IInv, TypeOK, Ready, Written
<1>1. PICK b \in BaseNames : req[s].n = Tree!Plain(b)
  BY <1>0 DEF Begun, Read, CreateRead
<1>2. ~Tree!Taken(Tree!Plain(b), User, req[s].p) /\ req[s].p \in live \cup {Nil}
  BY <1>0, <1>1 DEF Begun, Read, CreateRead, Taken
<1>3. Tree!TargetOK(User, req[s].p)
  BY <1>0, <1>2, OwnersMeaning, RowsMeaning DEF Tree!TargetOK, Tree!OwnedLive, TypeOK
<1>4. Owners' = [Owners EXCEPT ![req[s].f] = User]
  <2>1. \A g \in Folders : Owners'[g] = IF g = req[s].f THEN User ELSE Owners[g]
    BY <1>0, OwnersAfter
  <2>. QED BY <1>0, <2>1, OwnersMeaning, OwnersAfter
<1>5. Tree!Fresh(req[s].f)
  BY <1>0 DEF Tree!Fresh, Rows
<1>6. Tree!UniqueRows'
  BY KeysUnique
<1>7. Tree!Create(User, b, req[s].p)
  BY <1>0, <1>1, <1>2, <1>3, <1>4, <1>5, <1>6 DEF Tree!Create
<1>. QED BY <1>0, <1>7 DEF Request

LEMMA SerialMove ==
  ASSUME IInv, IInv', NEW s \in Sessions, Begun(s), Commit(s), req[s].op = "move"
  PROVE  \E f \in Folders, p \in Folders \cup {Nil} : Tree!Move(User, f, p)
<1>0. /\ req[s] \in Request /\ req[s].stage = "commit" /\ TypeOK
      /\ UNCHANGED <<live, trashed, name>>
      /\ parent' = [parent EXCEPT ![req[s].f] = req[s].p]
  BY DEF Commit, IInv, TypeOK
<1>1. /\ req[s].f \in live /\ req[s].n = name[req[s].f] /\ req[s].p \in live \cup {Nil}
      /\ req[s].p # req[s].f /\ ~Taken(req[s])
  BY <1>0 DEF Begun, Read, MoveRead
<1>2. req[s].f \in Folders /\ req[s].p \in Folders \cup {Nil}
  BY <1>0, <1>1 DEF TypeOK
<1>3. Tree!MayEdit(User, req[s].f)
  BY <1>0, <1>1, LiveIsEditable
<1>4. Tree!TargetOK(User, req[s].p)
  BY <1>0, <1>1, OwnersMeaning, RowsMeaning DEF Tree!TargetOK, Tree!OwnedLive, TypeOK
<1>5. ~Tree!Taken(name[req[s].f], User, req[s].p)
  BY <1>1 DEF Taken
<1>6. ASSUME req[s].p # Nil PROVE ~Tree!IsAncestor(req[s].f, req[s].p)
  <2>1. Apart(req[s].f, req[s].p, Nil)
    BY <1>0, <1>6 DEF Begun, Cleared
  <2>2. PICK C \in SUBSET Folders : /\ req[s].p \in C /\ req[s].f \notin C
                                    /\ \A h \in C : parent[h] \in C \cup {Nil}
    BY <2>1 DEF Apart
  <2>3. Tree!ClosedUpTo(C, {})
    BY <2>2 DEF Tree!ClosedUpTo
  <2>. QED BY <2>2, <2>3 DEF Tree!IsAncestor, Tree!Chain, Tree!Walk
<1>7. Owners' = Owners
  BY <1>0 DEF Owners
<1>8. Tree!UniqueRows'
  BY KeysUnique
<1>9. Tree!MoveAllowed(User, req[s].f, req[s].p)
  BY <1>1, <1>3, <1>4, <1>5, <1>6 DEF Tree!MoveAllowed
<1>10. Tree!Move(User, req[s].f, req[s].p)
  BY <1>0, <1>7, <1>8, <1>9 DEF Tree!Move
<1>. QED BY <1>2, <1>10

LEMMA SerialDelete ==
  ASSUME IInv, NEW s \in Sessions, Begun(s), Commit(s), req[s].op = "delete"
  PROVE  \E f \in Folders : Tree!Delete(User, f)
<1>0. /\ req[s].stage = "commit" /\ TypeOK
      /\ live' = live \ req[s].seen /\ trashed' = trashed \cup req[s].seen
      /\ UNCHANGED <<parent, name>>
  BY DEF Commit, IInv
<1>1. req[s].f \in live /\ req[s].f \in Rows /\ req[s].f \in Folders /\ req[s].seen = Tree!Subtree(req[s].f)
  BY <1>0, RowsMeaning DEF Begun, Read, DeleteRead, TypeOK
<1>2. Tree!MayEdit(User, req[s].f)
  BY <1>0, <1>1, LiveIsEditable
<1>3. req[s].seen \subseteq live \cup trashed
  BY <1>0, <1>1, SubtreeFacts, RowsMeaning
<1>4. Owners' = Owners
  <2>1. live' \cup trashed' = live \cup trashed
    BY <1>0, <1>3
  <2>. QED BY <2>1 DEF Owners
<1>5. Tree!Delete(User, req[s].f)
  BY <1>0, <1>1, <1>2, <1>4 DEF Tree!Delete
<1>. QED BY <1>1, <1>5

LEMMA SerialRestore ==
  ASSUME IInv, IInv', NEW s \in Sessions, Begun(s), Commit(s), req[s].op = "restore"
  PROVE  \E f \in Folders : Tree!Restore(User, f)
<1> DEFINE f == req[s].f
           n == req[s].n
           nameTaken == Tree!Taken(name[f], User, parent[f])
<1>0. /\ req[s] \in Request /\ req[s].stage = "commit" /\ TypeOK /\ References
      /\ live' = live \cup req[s].seen /\ trashed' = trashed \ req[s].seen
      /\ name' = [name EXCEPT ![f] = IF n = Nil THEN @ ELSE n]
      /\ UNCHANGED parent
  BY DEF Commit, IInv, TypeOK
<1>1. /\ f \in trashed /\ f \in Rows /\ f \in Folders /\ parent[f] \in live \cup {Nil}
      /\ ~Tree!Ambiguous(name[f], User, parent[f])
      /\ n = IF nameTaken THEN Tree!Suffixed(name[f], 0) ELSE Nil
      /\ req[s].seen = (Tree!Subtree(f) \cap trashed) \cup {f} /\ NameFits(req[s])
  BY <1>0, RowsMeaning DEF Begun, Read, RestoreRead, TypeOK
<1>2. f \in Tree!Subtree(f) /\ Tree!Subtree(f) \subseteq live \cup trashed
  BY <1>0, <1>1, SubtreeFacts, RowsMeaning
<1>3. live' = live \cup Tree!Subtree(f) /\ trashed' = trashed \ Tree!Subtree(f)
  BY <1>0, <1>1, <1>2
<1>4. Owners' = Owners
  <2>1. live' \cup trashed' = live \cup trashed
    BY <1>2, <1>3
  <2>. QED BY <2>1 DEF Owners
<1>5. name' = [name EXCEPT ![f] = IF nameTaken THEN Tree!Suffixed(@, 0) ELSE @]
  <2>1. Tree!Suffixed(name[f], 0) # Nil
    BY <1>0, <1>1, NamesTyped, NilAssumption DEF References
  <2>. QED BY <1>0, <1>1, <2>1
<1>6. Tree!Fits(name'[f])
  <2>1. CASE nameTaken
    <3>1. name'[f] = n /\ n # Nil
      BY <1>0, <1>1, <1>5, <2>1, NamesTyped, NilAssumption DEF References, TypeOK
    <3>. QED BY <1>1, <3>1 DEF NameFits
  <2>2. CASE ~nameTaken
    <3>1. name'[f] = name[f]
      BY <1>0, <1>1, <1>5, <2>2 DEF TypeOK
    <3>. QED BY <1>1, <3>1 DEF Begun
  <2>. QED BY <2>1, <2>2
<1>7. Tree!TargetOK(User, parent[f])
  BY <1>0, <1>1, OwnersMeaning, RowsMeaning DEF Tree!TargetOK, Tree!OwnedLive, TypeOK
<1>8. Tree!HasAccessInTrash(User, f)
  BY <1>0, <1>1, AccessInTrash
<1>9. Tree!UniqueRows'
  BY KeysUnique
<1>10. Tree!Restore(User, f)
  <2> HIDE DEF f, n
  <2>. QED BY <1>0, <1>1, <1>3, <1>4, <1>5, <1>6, <1>7, <1>8, <1>9 DEF Tree!Restore
<1>. QED BY <1>1, <1>10

(* rows go with the fields they held, and none is left without its parent   *)
LEMMA SerialErase ==
  ASSUME IInv, NEW S \in SUBSET Rows, \A g \in Rows : parent[g] \in S => g \in S, Erase(S)
  PROVE  Tree!Purge(S)
<1>0. TypeOK /\ References /\ S \subseteq Folders
  BY RowsMeaning DEF IInv, TypeOK
<1>1. parent' = [g \in Folders |-> IF g \in S THEN Nil ELSE parent[g]]
  <2>1. ASSUME NEW g \in Folders, g \notin S, parent[g] \in S PROVE FALSE
    BY <1>0, <2>1, NilAssumption DEF References
  <2>2. parent' = [g \in Folders |-> IF g \in S \/ parent[g] \in S THEN Nil ELSE parent[g]]
    BY DEF Erase
  <2>3. \A g \in Folders : (IF g \in S \/ parent[g] \in S THEN Nil ELSE parent[g])
                           = IF g \in S THEN Nil ELSE parent[g]
    BY <2>1
  <2>. QED BY <2>2, <2>3
<1>2. Owners' = [g \in Folders |-> IF g \in S THEN Nil ELSE Owners[g]]
  <2>1. \A g \in Folders : (IF g \in live' \cup trashed' THEN User ELSE Nil)
                           = IF g \in S THEN Nil ELSE Owners[g]
    BY DEF Erase, Owners
  <2>. QED BY <2>1 DEF Owners
<1>. QED BY <1>1, <1>2 DEF Erase, Tree!Purge

LEMMA SerialPurge ==
  ASSUME IInv, NEW s \in Sessions, Begun(s), Commit(s), req[s].op = "purge"
  PROVE  \E f \in Folders : Tree!PermanentDelete(User, f)
<1>0. req[s].stage = "commit" /\ TypeOK /\ Erase(req[s].seen)
  BY DEF Commit, IInv
<1>1. req[s].f \in Rows /\ req[s].f \in Folders /\ req[s].seen = Tree!Subtree(req[s].f)
  BY <1>0, RowsMeaning DEF Begun, Read, PurgeRead, TypeOK
<1>2. Tree!HasAccessInTrash(User, req[s].f)
  BY <1>0, <1>1, AccessInTrash
<1>3. Tree!Purge(req[s].seen)
  BY <1>0, <1>1, SubtreeFacts, SerialErase
<1>4. Tree!PermanentDelete(User, req[s].f)
  BY <1>1, <1>2, <1>3 DEF Tree!PermanentDelete
<1>. QED BY <1>1, <1>4

LEMMA SerialEmpty ==
  ASSUME IInv, NEW s \in Sessions, Begun(s), Commit(s), req[s].op = "empty"
  PROVE  UNCHANGED <<live, trashed, parent, name>> \/ Tree!EmptyTrash(User)
<1>0. req[s].stage = "commit" /\ TypeOK /\ Erase(req[s].seen)
  BY DEF Commit, IInv
<1>1. req[s].seen = UnderTrash
  BY <1>0 DEF Begun, Read, EmptyRead
<1>2. Tree!Trash(User) = trashed
  BY <1>0, OwnersMeaning, RowsMeaning DEF Tree!Trash, TypeOK
<1>3. CASE trashed = {}
  <2>1. req[s].seen = {}
    BY <1>1, <1>3 DEF UnderTrash
  <2>. QED BY <1>0, <2>1 DEF Erase, TypeOK
<1>4. CASE trashed # {}
  <2>1. Tree!Purge(UnderTrash)
    BY <1>0, <1>1, UnderTrashFacts, SerialErase
  <2>. QED BY <1>2, <1>4, <2>1 DEF Tree!EmptyTrash, UnderTrash, Rows
<1>. QED BY <1>3, <1>4

(* a transaction in a circle of waits is in the middle of a write           *)
LEMMA CircleWaits ==
  ASSUME NEW s \in Sessions, InCircle(s)
  PROVE  req[s].stage = "write"
<1> SUFFICES ASSUME req[s].stage # "write" PROVE FALSE
  OBVIOUS
<1>1. Blockers(s) = {}
  BY DEF Blockers
<1>2. {} \in SUBSET Sessions
  OBVIOUS
<1>3. s \in {}
  BY <1>1, <1>2 DEF InCircle
<1>. QED BY <1>3

(* a request that takes a step has begun                                    *)
LEMMA Moves ==
  ASSUME TypeOK, NEW s \in Sessions, Serve(s) \/ Cancel(s)
  PROVE  req[s].stage # "done" /\ req'[s].stage # "start"
<1>0. req \in [Sessions -> Request] /\ req[s] \in Request
  BY DEF TypeOK
<1>1. CASE LoadFolder(s) \/ LoadParent(s) \/ Walk(s)
  BY <1>0, <1>1 DEF LoadFolder, LoadParent, Walk, Select, Go, At, Request
<1>2. CASE CheckName(s) \/ QuerySubtree(s)
  BY <1>0, <1>2 DEF CheckName, QuerySubtree, Select, Go, At, Request
<1>3. CASE LoadCascade(s) \/ ListAgain(s)
  BY <1>0, <1>3 DEF LoadCascade, ListAgain, Select, Go, At, Request
<1>4. CASE Write(s)
  BY <1>0, <1>4 DEF Write, Go, Request
<1>5. CASE Refuse(s) \/ DbError(s) \/ Commit(s) \/ Cancel(s)
  <2>1. Finish(s) /\ req[s].stage # "done"
    BY <1>5 DEF Refuse, DbError, Commit, Cancel, Fail, At
  <2>. QED BY <1>0, <2>1 DEF Finish, Go, Request
<1>6. CASE Acquire(s)
  BY <1>6, AcquireKeeps DEF Acquire
<1>7. CASE Deadlock(s)
  <2>1. Finish(s) /\ req[s].stage # "done"
    BY <1>7, CircleWaits DEF Deadlock, Fail
  <2>. QED BY <1>0, <2>1 DEF Finish, Go, Request
<1>. QED BY <1>1, <1>2, <1>3, <1>4, <1>5, <1>6, <1>7 DEF Serve

LEMMA NextSerial == IInv /\ SerialInv /\ [Next]_vars => SerialInv'
<1> SUFFICES ASSUME IInv, SerialInv, [Next]_vars,
                    NEW s \in Sessions, Quiet(s)', req'[s].stage # "done"
             PROVE  Begun(s)'
  BY DEF SerialInv
<1>0. TypeOK
  BY DEF IInv
<1>1. CASE UNCHANGED vars
  <2>1. UNCHANGED <<live, trashed, parent, name, req, locks>>
    BY <1>1 DEF vars, rows
  <2>2. Begun(s) /\ Cleared(req[s])'
    BY <2>1 DEF SerialInv, Quiet, Begun, Cleared, Apart
  <2>. QED BY <2>1, <2>2, NothingRead
<1>2. ASSUME NEW u \in Sessions, Serve(u) \/ Cancel(u) PROVE Begun(s)'
  <2>1. u = s
    BY <1>0, <1>2, Moves DEF Quiet
  <2>2. Quiet(s)
    BY <1>0, <1>2, <2>1, Stays DEF Quiet
  <2>3. Begun(s)
    BY <1>0, <1>2, <2>1, <2>2, Moves DEF SerialInv
  <2>4. ~Commit(s)
    <3> SUFFICES ASSUME Commit(s) PROVE FALSE
      OBVIOUS
    <3>. QED BY <1>0 DEF Commit, Finish, Go, TypeOK, Request
  <2>. QED BY <1>2, <2>1, <2>3, <2>4, StepReads
<1>. QED BY <1>1, <1>2 DEF Next

LEMMA SerialStep ==
  ASSUME IInv, IInv', SerialInv, NEW s \in Sessions, Alone(s), Next
  PROVE  UNCHANGED Tree!vars \/ Tree!Next
<1>0. TypeOK
  BY DEF IInv
<1>1. UNCHANGED <<live, trashed, parent, name>> => UNCHANGED Tree!vars
  BY DEF Tree!vars, Owners
<1>2. PICK u \in Sessions : Serve(u) \/ Cancel(u)
  BY DEF Next
<1>3. CASE ~Commit(u)
  BY <1>1, <1>2, <1>3, CommitsWrite
<1>4. CASE Commit(u)
  <2>1. u = s /\ Begun(s)
    <3>1. req[u].stage = "commit"
      BY <1>4 DEF Commit
    <3>2. u = s /\ Quiet(s)
      BY <3>1 DEF Alone, Quiet
    <3>. QED BY <3>1, <3>2 DEF SerialInv
  <2>2. req[s].op \in {"create", "move", "delete", "restore", "purge", "empty"}
    BY <1>0, OpsAssumption DEF TypeOK, Request
  <2>3. Tree!FolderStep(User) \/ UNCHANGED <<live, trashed, parent, name>>
    BY <1>4, <2>1, <2>2, SerialCreate, SerialMove, SerialDelete, SerialRestore, SerialPurge, SerialEmpty
       DEF Tree!FolderStep
  <2>. QED BY <1>1, <2>3 DEF Tree!Next
<1>. QED BY <1>3, <1>4

(***************************************************************************)
(* Requests that do not overlap are atomic: what the SELECTs, statements   *)
(* and commit of a request do, with its walk up the parents, its recursive *)
(* query, its cascade and its batches, is one operation of FolderTree, for *)
(* any tree the service can have built and whichever operation it is.      *)
(***************************************************************************)
THEOREM SequentialRequestsAreAtomic == Spec => Serializable
<1>1. Init => IInv /\ SerialInv
  BY InitIInv, InitSerial
<1>2. IInv /\ SerialInv /\ [Next]_vars => (IInv /\ SerialInv)'
  BY NextIInv, NextSerial
<1>3. IInv /\ SerialInv /\ IInv' /\ [Next]_vars
        => [(\E s \in Sessions : Alone(s)) => UNCHANGED Tree!vars \/ Tree!Next]_vars
  BY SerialStep
<1>. QED BY <1>1, <1>2, <1>3, PTL DEF Spec, Serializable

-----------------------------------------------------------------------------
(***************************************************************************)
(* A deletion that does not overlap what hangs a folder somewhere keeps    *)
(* the trash closed.  delete_folder trashes the rows its recursive query   *)
(* found; the danger is a folder that comes to hang under one of them      *)
(* before the commit.                                                      *)
(***************************************************************************)
Deleting(r) == r.op = "delete" /\ r.stage \in {"write", "commit"}

(* the parent of a folder is found live, or about to be                     *)
Attaching(r) ==
  \/ r.op = "create" /\ r.stage \in {"write", "commit"}
  \/ r.op = "move" /\ r.stage \in {"walk", "names", "write", "commit"}
  \/ r.op = "restore" /\ r.stage \in {"parent", "names", "subtree", "write", "commit"}

DeletesApart == \A s, t \in Sessions : ~(Deleting(req[s]) /\ Attaching(req[t]))

Alive == live \cup {Nil}
UnderLive == \A f \in live : parent[f] \in Alive

(* what a deletion found is all that hangs under it                         *)
Sweeps(r) == Deleting(r) => \A g \in Rows : parent[g] \in r.seen => g \in r.seen

(* a new place is live, or its row is gone and the write will fail          *)
Places(r) == r.op \in {"create", "move"} /\ Attaching(r) => r.p \in Alive \/ r.p \notin Rows

(* a restored folder hangs under a live one, and what it brings back under  *)
(* a live one or under another of the same restore                          *)
Returns(r) ==
  r.op = "restore" /\ Attaching(r) =>
    /\ r.f \in Rows => parent[r.f] \in Alive \/ (r.stage = "parent" /\ parent[r.f] = r.p)
    /\ r.stage \in {"write", "commit"} => \A h \in r.seen \cap Rows : parent[h] \in Alive \cup r.seen

Hangs(r) == Sweeps(r) /\ Places(r) /\ Returns(r)

TInv == IInv /\ UnderLive /\ \A s \in Sessions : Hangs(req[s])

LEMMA InitTInv == Init => TInv
<1> SUFFICES ASSUME Init PROVE TInv
  OBVIOUS
<1>1. IInv
  BY InitIInv
<1>2. UnderLive
  BY DEF Init, IsTree, Tree!LiveUnderLive, UnderLive, Alive
<1>3. \A s \in Sessions : req[s].stage = "start"
  BY DEF Init, Requests
<1>. QED BY <1>1, <1>2, <1>3 DEF TInv, Hangs, Sweeps, Places, Returns, Deleting, Attaching

(* the chain of a folder is the folder and the chain of its parent          *)
LEMMA SubtreeEdges ==
  ASSUME IInv, NEW f, NEW g \in Rows
  PROVE  /\ parent[g] \in Tree!Subtree(f) => g \in Tree!Subtree(f)
         /\ g \in Tree!Subtree(f) => g = f \/ parent[g] \in Tree!Subtree(f) \cup {Nil}
<1>0. TypeOK /\ References /\ Rows \subseteq Folders /\ g \in Folders /\ Nil \notin Folders
  BY RowsMeaning, NilAssumption DEF IInv, TypeOK
<1>1. ASSUME parent[g] \in Tree!Subtree(f) PROVE g \in Tree!Subtree(f)
  <2>1. parent[g] \in Rows /\ f \in Tree!Chain(parent[g])
    BY <1>1 DEF Tree!Subtree, Rows
  <2>2. ASSUME NEW C \in SUBSET Folders, g \in C, Tree!ClosedUpTo(C, {})
        PROVE  f \in C
    <3>1. parent[g] \in C
      BY <1>0, <2>1, <2>2 DEF Tree!ClosedUpTo
    <3>. QED BY <2>1, <2>2, <3>1 DEF Tree!Chain, Tree!Walk
  <2>3. f \in Folders
    BY <2>1 DEF Tree!Chain, Tree!Walk
  <2>. QED BY <1>0, <2>2, <2>3 DEF Tree!Subtree, Tree!Chain, Tree!Walk, Rows
<1>2. ASSUME g \in Tree!Subtree(f), g # f, parent[g] # Nil
      PROVE  parent[g] \in Tree!Subtree(f)
  <2>1. f \in Tree!Chain(g) /\ parent[g] \in Rows
    BY <1>0, <1>2 DEF Tree!Subtree, References
  <2>2. ASSUME NEW C \in SUBSET Folders, parent[g] \in C, Tree!ClosedUpTo(C, {})
        PROVE  f \in C
    <3>1. Tree!ClosedUpTo(C \cup {g}, {})
      BY <1>0, <2>2 DEF Tree!ClosedUpTo
    <3>2. f \in C \cup {g}
      BY <1>0, <2>1, <3>1 DEF Tree!Chain, Tree!Walk
    <3>. QED BY <1>2, <3>2
  <2>3. f \in Folders
    BY <2>1 DEF Tree!Chain, Tree!Walk
  <2>. QED BY <1>0, <2>1, <2>2, <2>3 DEF Tree!Subtree, Tree!Chain, Tree!Walk, Rows
<1>. QED BY <1>1, <1>2

(* what a request has read is so when it goes on, as long as no row changes *)
LEMMA GoesOn ==
  ASSUME NEW s \in Sessions, NEW n, req'[s] = n, UNCHANGED <<live, trashed, parent>>, Hangs(n)
  PROVE  Hangs(req[s])'
<1>1. Rows' = Rows /\ Alive' = Alive
  BY DEF Rows, Tree!Rows, Alive
<1>2. Sweeps(req[s])'
  BY <1>1 DEF Hangs, Sweeps, Deleting
<1>3. Places(req[s])'
  BY <1>1 DEF Hangs, Places, Attaching
<1>4. Returns(req[s])'
  BY <1>1 DEF Hangs, Returns, Attaching
<1>. QED BY <1>2, <1>3, <1>4 DEF Hangs

LEMMA LoadFolderHangs ==
  ASSUME IInv, NEW s \in Sessions, LoadFolder(s), Hangs(req[s])
  PROVE  Hangs(req[s])'
<1>0. req[s] \in Request /\ req[s].stage = "start" /\ UNCHANGED <<live, trashed, parent>>
      /\ req \in [Sessions -> Request]
  BY DEF LoadFolder, Select, At, rows, IInv, TypeOK
<1>1. CASE /\ req[s].op = "restore"
           /\ Go(s, [req[s] EXCEPT !.stage = "parent", !.n = name[req[s].f], !.p = parent[req[s].f]])
  <2> DEFINE n == [req[s] EXCEPT !.stage = "parent", !.n = name[req[s].f], !.p = parent[req[s].f]]
  <2>1. n.stage = "parent" /\ n.op = "restore" /\ n.f = req[s].f /\ n.p = parent[req[s].f]
    BY <1>0, <1>1 DEF Request
  <2>2. req'[s] = n
    BY <1>0, <1>1 DEF Go
  <2> HIDE DEF n
  <2>3. Hangs(n)
    BY <2>1 DEF Hangs, Sweeps, Places, Returns, Deleting
  <2>. QED BY <1>0, <2>2, <2>3, GoesOn
<1>2. CASE req[s].op \in {"move", "delete", "purge", "empty"}
  <2>1. req'[s].op = req[s].op /\ req'[s].stage \in {"parent", "subtree", "cascade"}
    BY <1>0, <1>2 DEF LoadFolder, Select, Go, At, Request
  <2>2. PICK n : n = req'[s]
    OBVIOUS
  <2>3. Hangs(n)
    BY <1>2, <2>1, <2>2 DEF Hangs, Sweeps, Places, Returns, Deleting, Attaching
  <2>. QED BY <1>0, <2>2, <2>3, GoesOn
<1>. QED BY <1>1, <1>2 DEF LoadFolder, Select, At

LEMMA LoadParentHangs ==
  ASSUME IInv, NEW s \in Sessions, LoadParent(s), Hangs(req[s])
  PROVE  Hangs(req[s])'
<1>0. /\ req[s] \in Request /\ req[s].stage = "parent" /\ UNCHANGED <<live, trashed, parent>>
      /\ req \in [Sessions -> Request] /\ req[s].p \in Alive
      /\ req[s].op \in {"create", "move", "restore"}
  BY DEF LoadParent, Select, At, rows, IInv, TypeOK, Alive
<1>1. req[s].op = "restore" /\ req[s].f \in Rows => parent[req[s].f] \in Alive
  BY <1>0 DEF Hangs, Returns, Attaching
<1>2. PICK n : n = req'[s]
  OBVIOUS
<1>3. /\ n.op = req[s].op /\ n.f = req[s].f /\ n.p = req[s].p
      /\ n.op = "restore" => n.stage = "names"
  <2>1. CASE Go(s, [req[s] EXCEPT !.stage = "names"])
    BY <1>0, <1>2, <2>1 DEF Go, Request
  <2>2. CASE Go(s, [req[s] EXCEPT !.stage = "walk", !.cur = parent[req[s].p]]) /\ req[s].op = "move"
    BY <1>0, <1>2, <2>2 DEF Go, Request
  <2>3. CASE req[s].op = "move"
    BY <1>0, <2>1, <2>2, <2>3 DEF LoadParent, Select
  <2>4. CASE req[s].op \in {"create", "restore"}
    <3>1. Go(s, [req[s] EXCEPT !.stage = IF req[s].op = "create" THEN "write" ELSE "names"])
      BY <2>4 DEF LoadParent, Select
    <3>. QED BY <1>0, <1>2, <2>4, <3>1 DEF Go, Request
  <2>. QED BY <1>0, <2>3, <2>4
<1>4. Hangs(n)
  BY <1>0, <1>1, <1>3 DEF Hangs, Sweeps, Places, Returns, Deleting
<1>. QED BY <1>0, <1>2, <1>4, GoesOn

LEMMA WalkHangs ==
  ASSUME IInv, NEW s \in Sessions, Walk(s), Hangs(req[s])
  PROVE  Hangs(req[s])'
<1>0. /\ req[s] \in Request /\ req[s].stage = "walk" /\ UNCHANGED <<live, trashed, parent>>
      /\ req \in [Sessions -> Request] /\ req[s].op = "move"
  BY DEF Walk, Select, At, rows, IInv, TypeOK
<1>1. PICK n : n = req'[s]
  OBVIOUS
<1>2. n.op = "move" /\ n.p = req[s].p
  BY <1>0, <1>1 DEF Walk, Select, Go, Request
<1>3. Hangs(n)
  BY <1>0, <1>2 DEF Hangs, Sweeps, Places, Returns, Deleting, Attaching
<1>. QED BY <1>0, <1>1, <1>3, GoesOn

LEMMA CheckNameHangs ==
  ASSUME IInv, NEW s \in Sessions, CheckName(s), Hangs(req[s])
  PROVE  Hangs(req[s])'
<1>0. /\ req[s] \in Request /\ UNCHANGED <<live, trashed, parent>>
      /\ req \in [Sessions -> Request] /\ req[s].op \in {"create", "move", "restore"}
      /\ req[s].stage = IF req[s].op = "create" THEN "start" ELSE "names"
  BY DEF CheckName, Select, At, rows, IInv, TypeOK
<1>1. PICK n : n = req'[s]
  OBVIOUS
<1>2. /\ n.op = req[s].op /\ n.f = req[s].f /\ n.p = req[s].p
      /\ n.op = "create" => n.stage = "parent"
      /\ n.op = "restore" => n.stage = "subtree"
  <2>1. CASE \/ req[s].op = "create" /\ Go(s, [req[s] EXCEPT !.stage = "parent"])
             \/ req[s].op = "move" /\ Go(s, [req[s] EXCEPT !.stage = "write"])
    BY <1>0, <1>1, <2>1 DEF Go, Request
  <2>2. CASE req[s].op = "restore"
    <3> DEFINE m == IF Taken(req[s]) THEN Tree!Suffixed(req[s].n, 0) ELSE Nil
    <3>1. req' = [req EXCEPT ![s] = [req[s] EXCEPT !.stage = "subtree", !.n = m]]
      BY <2>2 DEF CheckName, Select, Go, At
    <3> HIDE DEF m
    <3>. QED BY <1>0, <1>1, <2>2, <3>1 DEF Request
  <2>. QED BY <1>0, <2>1, <2>2 DEF CheckName, Select, At
<1>3. Hangs(n)
  BY <1>0, <1>2 DEF Hangs, Sweeps, Places, Returns, Deleting, Attaching
<1>. QED BY <1>0, <1>1, <1>3, GoesOn

LEMMA QueryHangs ==
  ASSUME IInv, NEW s \in Sessions, QuerySubtree(s), Hangs(req[s])
  PROVE  Hangs(req[s])'
<1>0. /\ req[s] \in Request /\ req[s].stage = "subtree" /\ UNCHANGED <<live, trashed, parent>>
      /\ req \in [Sessions -> Request] /\ req[s].op \in {"delete", "restore", "purge"}
  BY DEF QuerySubtree, Select, At, rows, IInv, TypeOK
<1> DEFINE S == Tree!Subtree(req[s].f)
<1>1. \A g \in Rows : /\ parent[g] \in S => g \in S
                      /\ g \in S => g = req[s].f \/ parent[g] \in S \cup {Nil}
  BY SubtreeEdges
<1>2. req' = [req EXCEPT ![s] = [req[s] EXCEPT
          !.stage = IF req[s].op = "purge" THEN "cascade" ELSE "write", !.seen = S]]
  BY DEF QuerySubtree, Select, Go
<1> HIDE DEF S
<1>3. PICK n : n = req'[s]
  OBVIOUS
<1>4. n.op = req[s].op /\ n.f = req[s].f /\ n.seen = S
  BY <1>0, <1>2, <1>3 DEF Request
<1>5. req[s].op = "restore" /\ req[s].f \in Rows => parent[req[s].f] \in Alive
  BY <1>0 DEF Hangs, Returns, Attaching
<1>6. Sweeps(n)
  BY <1>1, <1>4 DEF Sweeps
<1>7. Places(n)
  BY <1>0, <1>4 DEF Places
<1>8. Returns(n)
  BY <1>1, <1>4, <1>5 DEF Returns, Alive
<1>. QED BY <1>0, <1>3, <1>6, <1>7, <1>8, GoesOn DEF Hangs

LEMMA WriteHangs ==
  ASSUME IInv, NEW s \in Sessions, Write(s), Hangs(req[s])
  PROVE  Hangs(req[s])'
<1>0. /\ req[s] \in Request /\ req[s].stage = "write" /\ UNCHANGED <<live, trashed, parent>>
      /\ req \in [Sessions -> Request] /\ References /\ trashed \subseteq Rows
  BY RowsMeaning DEF Write, rows, IInv, TypeOK
<1>1. PICK r \in Request, L \in SUBSET (Modes \X Folders) :
        /\ req' = [req EXCEPT ![s] = r] /\ locks' = [locks EXCEPT ![s] = L]
        /\ Free(s, L) /\ Granted(r, L)
        /\ r.stage = IF r.op = "empty" THEN "again" ELSE "commit"
        /\ r.op = req[s].op /\ r.n = req[s].n /\ r.p = req[s].p /\ r.cur = req[s].cur
        /\ IF r.op = "create" THEN r.f \in Unused(s) ELSE r.f = req[s].f
        /\ r.seen \subseteq Rows /\ (r.op # "create" => r.seen = Target(s))
  BY WriteFields
<1>2. /\ req'[s] = r /\ r.p = req[s].p /\ r.op = req[s].op
      /\ r.op # "create" => r.f = req[s].f /\ r.seen = Target(s)
  BY <1>0, <1>1
<1>3. Sweeps(r)
  <2> SUFFICES ASSUME req[s].op = "delete" PROVE \A g \in Rows : parent[g] \in r.seen => g \in r.seen
    BY <1>2 DEF Sweeps, Deleting
  <2>1. r.seen = req[s].seen \cap Rows
    BY <1>2 DEF Target
  <2>. QED BY <1>0, <2>1 DEF Hangs, Sweeps, Deleting
<1>4. Places(r)
  BY <1>0, <1>2 DEF Hangs, Places, Attaching
<1>5. Returns(r)
  <2> SUFFICES ASSUME req[s].op = "restore"
               PROVE  /\ req[s].f \in Rows => parent[req[s].f] \in Alive
                      /\ \A h \in r.seen \cap Rows : parent[h] \in Alive \cup r.seen
    BY <1>2 DEF Returns
  <2>1. r.seen = (req[s].seen \cap trashed) \cup {req[s].f}
    BY <1>2 DEF Target
  <2>2. /\ req[s].f \in Rows => parent[req[s].f] \in Alive
        /\ \A h \in req[s].seen \cap Rows : parent[h] \in Alive \cup req[s].seen
    BY <1>0 DEF Hangs, Returns, Attaching
  <2>3. \A h \in Rows : parent[h] \in trashed \cup Alive
    BY <1>0, RowsMeaning DEF References, Alive
  <2>. QED BY <1>0, <2>1, <2>2, <2>3
<1>. QED BY <1>0, <1>2, <1>3, <1>4, <1>5, GoesOn DEF Hangs

LEMMA ReadsHang ==
  ASSUME IInv, NEW s \in Sessions, Serve(s) \/ Cancel(s), ~Commit(s), Hangs(req[s])
  PROVE  UNCHANGED <<live, trashed, parent>> /\ Hangs(req[s])'
<1>0. req \in [Sessions -> Request] /\ req[s] \in Request
  BY DEF IInv, TypeOK
<1>1. UNCHANGED <<live, trashed, parent>>
  BY DEF Serve, LoadFolder, LoadParent, Walk, CheckName, QuerySubtree, LoadCascade, ListAgain, Refuse,
         DbError, Deadlock, Cancel, Fail, Select, Acquire, Write, rows
<1>2. CASE LoadCascade(s) \/ ListAgain(s) \/ Refuse(s) \/ DbError(s) \/ Deadlock(s) \/ Cancel(s)
  <2>1. PICK n : n = req'[s]
    OBVIOUS
  <2>2. n.op \in {"purge", "empty"} \/ n.stage = "done"
    <3>1. CASE LoadCascade(s) \/ ListAgain(s)
      <4>1. req[s].op \in {"purge", "empty"} /\ n.op = req[s].op
        BY <2>1, <3>1, Stays DEF LoadCascade, ListAgain, At, Serve, IInv
      <4>. QED BY <4>1
    <3>2. CASE Refuse(s) \/ DbError(s) \/ Deadlock(s) \/ Cancel(s)
      <4>1. Finish(s)
        BY <3>2 DEF Refuse, DbError, Deadlock, Cancel, Fail
      <4>. QED BY <1>0, <2>1, <4>1 DEF Finish, Go, Request
    <3>. QED BY <1>2, <3>1, <3>2
  <2>3. Hangs(n)
    BY <2>2 DEF Hangs, Sweeps, Places, Returns, Deleting, Attaching
  <2>. QED BY <1>1, <2>1, <2>3, GoesOn
<1>3. CASE Acquire(s)
  <2>1. req' = req /\ UNCHANGED <<live, trashed, parent>>
    BY <1>3, AcquireKeeps
  <2>. QED BY <1>0, <2>1, GoesOn
<1>4. CASE LoadFolder(s) \/ LoadParent(s) \/ Walk(s) \/ CheckName(s) \/ QuerySubtree(s) \/ Write(s)
  BY <1>1, <1>4, LoadFolderHangs, LoadParentHangs, WalkHangs, CheckNameHangs, QueryHangs, WriteHangs
<1>. QED BY <1>1, <1>2, <1>3, <1>4 DEF Serve

(***************************************************************************)
(* The commits.                                                            *)
(***************************************************************************)
LEMMA CommitDeleteHangs ==
  ASSUME TInv, DeletesApart, NEW s \in Sessions, Commit(s), req[s].op = "delete"
  PROVE  UnderLive' /\ \A t \in Sessions \ {s} : Hangs(req[t])'
<1>0. /\ live' = live \ req[s].seen /\ trashed' = trashed \cup req[s].seen /\ parent' = parent
      /\ req[s].stage = "commit" /\ req[s].seen \subseteq Rows
      /\ live \subseteq Rows
  BY RowsMeaning DEF Commit, TInv, IInv, Ready, Written
<1>1. \A g \in Rows : parent[g] \in req[s].seen => g \in req[s].seen
  BY <1>0 DEF TInv, Hangs, Sweeps, Deleting
<1>2. UnderLive'
  BY <1>0, <1>1 DEF TInv, UnderLive, Alive
<1>3. Rows' = Rows
  BY <1>0 DEF Rows, Tree!Rows
<1>4. ASSUME NEW t \in Sessions, t # s PROVE Hangs(req[t])'
  <2>1. req'[t] = req[t] /\ Hangs(req[t]) /\ ~Attaching(req[t])
    BY <1>0, <1>4, Stays DEF TInv, IInv, Serve, DeletesApart, Deleting
  <2>2. PICK n : n = req[t]
    OBVIOUS
  <2>3. Sweeps(n)' /\ Places(n)' /\ Returns(n)'
    BY <1>0, <1>3, <2>1, <2>2 DEF Hangs, Sweeps, Places, Returns
  <2>. QED BY <2>1, <2>2, <2>3 DEF Hangs, Sweeps, Places, Returns, Deleting, Attaching
<1>. QED BY <1>2, <1>4

(* one that hangs folders under a live one, or under those it brings back   *)
LEMMA CommitAttachHangs ==
  ASSUME TInv, DeletesApart, NEW s \in Sessions, Commit(s), req[s].op \in {"create", "move", "restore"}
  PROVE  UnderLive' /\ \A t \in Sessions \ {s} : Hangs(req[t])'
<1>0. /\ IInv /\ TypeOK /\ References /\ Effect(s) /\ Ready(s) /\ Written(req[s]) /\ req[s].stage = "commit"
      /\ live \subseteq Rows /\ Hangs(req[s]) /\ Attaching(req[s]) /\ Nil \notin Rows
  BY CommitEffect, RowsMeaning, NilAssumption DEF TInv, IInv, TypeOK, Written, Commit, Attaching
<1>1. /\ live \subseteq live' /\ live' \subseteq Rows'
      /\ live' \ live = (CASE req[s].op = "create" -> {req[s].f}
                           [] req[s].op = "move" -> {}
                           [] req[s].op = "restore" -> req[s].seen \ live)
  <2>1. live' \subseteq Rows'
    BY DEF Rows, Tree!Rows
  <2>2. req[s].op = "create" => req[s].f \notin live
    BY <1>0 DEF Ready
  <2>. QED BY <2>1, <2>2 DEF Commit
<1>2. req[s].op \in {"create", "move"} => req[s].p \in Alive
  BY <1>0 DEF Ready, Hangs, Places, Alive
<1>3. req[s].op = "restore" => /\ parent' = parent /\ Rows' = Rows /\ req[s].seen \subseteq live'
                               /\ \A h \in req[s].seen : h \in Rows /\ parent[h] \in Alive \cup req[s].seen
  <2> SUFFICES ASSUME req[s].op = "restore"
               PROVE  /\ parent' = parent /\ Rows' = Rows /\ req[s].seen \subseteq live'
                      /\ \A h \in req[s].seen : h \in Rows /\ parent[h] \in Alive \cup req[s].seen
    OBVIOUS
  <2>1. /\ live' = live \cup req[s].seen /\ trashed' = trashed \ req[s].seen /\ parent' = parent
        /\ req[s].seen \subseteq Rows
    BY <1>0 DEF Commit, Ready
  <2>2. Rows' = Rows
    BY <2>1, RowsMeaning DEF Rows, Tree!Rows
  <2>3. \A h \in req[s].seen \cap Rows : parent[h] \in Alive \cup req[s].seen
    BY <1>0 DEF Hangs, Returns
  <2>. QED BY <2>1, <2>2, <2>3
  (* every folder keeps its parent, loses it or gets a live one *)
<1>4. \A g \in Rows' : \/ g \in Rows /\ parent'[g] = parent[g]
                       \/ parent'[g] \in Alive
  BY <1>0, <1>2 DEF Effect, Alive
<1>5. UnderLive'
  <2>1. ASSUME NEW g \in live' PROVE parent'[g] \in live' \cup {Nil}
    <3>1. CASE g \in live
      <4>1. parent[g] \in Alive
        BY <3>1 DEF TInv, UnderLive
      <4>. QED BY <1>1, <1>4, <2>1, <4>1 DEF Alive
    <3>2. CASE g \notin live
      <4>1. CASE req[s].op = "create"
        <5>1. g \notin Rows
          BY <1>0, <1>1, <2>1, <3>2, <4>1 DEF Ready
        <5>. QED BY <1>1, <1>4, <2>1, <5>1 DEF Alive
      <4>2. CASE req[s].op = "restore"
        BY <1>1, <1>3, <2>1, <3>2, <4>2 DEF Alive
      <4>. QED BY <1>1, <2>1, <3>2, <4>1, <4>2
    <3>. QED BY <3>1, <3>2
  <2>. QED BY <2>1 DEF UnderLive, Alive
<1>6. ASSUME NEW t \in Sessions, t # s PROVE Hangs(req[t])'
  <2>1. req'[t] = req[t] /\ Hangs(req[t]) /\ ~Deleting(req[t])
    BY <1>0, <1>6, Stays DEF TInv, Serve, DeletesApart
  <2>2. PICK n : n = req[t]
    OBVIOUS
  <2>3. Places(n)'
    <3>1. n.op \in {"create", "move"} /\ Attaching(n) => n.p \in Alive \/ n.p \notin Rows
      BY <2>1, <2>2 DEF Hangs, Places
    <3>2. n.p \in Rows' /\ n.p \notin Rows => n.p \in live'
      BY <1>0, <1>1 DEF Effect
    <3>. QED BY <1>1, <3>1, <3>2 DEF Places, Alive, Attaching
  <2>4. Returns(n)'
    <3> SUFFICES ASSUME n.op = "restore", Attaching(n)
                 PROVE  /\ n.f \in Rows' => parent'[n.f] \in Alive' \/ (n.stage = "parent" /\ parent'[n.f] = n.p)
                        /\ n.stage \in {"write", "commit"} =>
                             \A h \in n.seen \cap Rows' : parent'[h] \in Alive' \cup n.seen
      BY DEF Returns, Attaching
    <3>1. /\ n.f \in Rows => parent[n.f] \in Alive \/ (n.stage = "parent" /\ parent[n.f] = n.p)
          /\ n.stage \in {"write", "commit"} => \A h \in n.seen \cap Rows : parent[h] \in Alive \cup n.seen
      BY <2>1, <2>2 DEF Hangs, Returns
    <3>2. Alive \subseteq Alive'
      BY <1>1 DEF Alive
    <3>. QED BY <1>4, <3>1, <3>2
  <2>. QED BY <2>1, <2>2, <2>3, <2>4 DEF Hangs, Sweeps, Places, Returns, Deleting, Attaching
<1>. QED BY <1>5, <1>6

LEMMA CommitEraseHangs ==
  ASSUME TInv, NEW s \in Sessions, Commit(s), req[s].op \in {"purge", "empty"}
  PROVE  UnderLive' /\ \A t \in Sessions \ {s} : Hangs(req[t])'
<1> DEFINE S == req[s].seen
<1>0. /\ live' = live \ S /\ trashed' = trashed \ S
      /\ parent' = [g \in Folders |-> IF g \in S \/ parent[g] \in S THEN Nil ELSE parent[g]]
      /\ live \subseteq Folders /\ Rows \subseteq Folders /\ IInv /\ req[s] \in Request
  BY RowsMeaning DEF Commit, Erase, TInv, IInv, TypeOK
<1>1. S \subseteq Folders
  BY <1>0 DEF Request
<1> HIDE DEF S
<1>2. Rows' = Rows \ S /\ Alive' = Alive \ S
  BY <1>0, <1>1, NilAssumption DEF Rows, Tree!Rows, Alive
<1>3. \A g \in Rows' : parent'[g] = IF parent[g] \in S THEN Nil ELSE parent[g]
  BY <1>0, <1>2
<1>4. Nil \in Alive' /\ Nil \notin S /\ Nil \notin Folders
  BY <1>1, NilAssumption DEF Alive
<1>5. UnderLive'
  <2>1. \A g \in live' : g \in Rows' /\ parent[g] \in Alive
    BY <1>0, <1>2, RowsMeaning DEF TInv, UnderLive
  <2>. QED BY <1>2, <1>3, <1>4, <2>1 DEF UnderLive
<1>6. ASSUME NEW t \in Sessions, t # s PROVE Hangs(req[t])'
  <2>1. req'[t] = req[t] /\ Hangs(req[t]) /\ req[t] \in Request
    BY <1>0, <1>6, Stays DEF TInv, IInv, TypeOK, Serve
  <2>2. PICK n \in Request : n = req[t]
    BY <2>1
  <2>a. n.seen \subseteq Folders
    BY DEF Request
  <2>3. Sweeps(n)'
    <3>1. Deleting(n) => \A g \in Rows : parent[g] \in n.seen => g \in n.seen
      BY <2>1, <2>2 DEF Hangs, Sweeps
    <3>. QED BY <1>2, <1>3, <1>4, <2>a, <3>1 DEF Sweeps, Deleting
  <2>4. Places(n)'
    <3>1. n.op \in {"create", "move"} /\ Attaching(n) => n.p \in Alive \/ n.p \notin Rows
      BY <2>1, <2>2 DEF Hangs, Places
    <3>. QED BY <1>2, <3>1 DEF Places, Attaching
  <2>5. Returns(n)'
    <3>1. n.op = "restore" /\ Attaching(n) =>
            /\ n.f \in Rows => parent[n.f] \in Alive \/ (n.stage = "parent" /\ parent[n.f] = n.p)
            /\ n.stage \in {"write", "commit"} => \A h \in n.seen \cap Rows : parent[h] \in Alive \cup n.seen
      BY <2>1, <2>2 DEF Hangs, Returns
    <3>. QED BY <1>2, <1>3, <1>4, <3>1 DEF Returns, Attaching
  <2>. QED BY <2>1, <2>2, <2>3, <2>4, <2>5 DEF Hangs, Sweeps, Places, Returns, Deleting, Attaching
<1>. QED BY <1>5, <1>6

LEMMA NextTInv == TInv /\ DeletesApart /\ [Next]_vars => TInv'
<1> SUFFICES ASSUME TInv, DeletesApart, [Next]_vars PROVE TInv'
  OBVIOUS
<1>1. IInv'
  BY NextIInv DEF TInv
<1>2. ASSUME NEW s \in Sessions, Serve(s) \/ Cancel(s) PROVE TInv'
  <2>1. CASE Commit(s)
    <3>1. UnderLive' /\ \A t \in Sessions \ {s} : Hangs(req[t])'
      <4>1. req[s].op \in {"create", "move", "delete", "restore", "purge", "empty"}
        BY <2>1 DEF Commit
      <4>. QED BY <2>1, <4>1, CommitDeleteHangs, CommitAttachHangs, CommitEraseHangs
    <3>2. req'[s].stage = "done"
      BY <2>1 DEF TInv, IInv, TypeOK, Commit, Finish, Go, Request
    <3>3. Hangs(req[s])'
      BY <3>2 DEF Hangs, Sweeps, Places, Returns, Deleting, Attaching
    <3>. QED BY <1>1, <3>1, <3>3 DEF TInv
  <2>2. CASE ~Commit(s)
    <3>1. UNCHANGED <<live, trashed, parent>> /\ Hangs(req[s])'
      BY <1>2, <2>2, ReadsHang DEF TInv
    <3>2. \A t \in Sessions \ {s} : Hangs(req[t])'
      <4>1. \A t \in Sessions \ {s} : req'[t] = req[t] /\ Hangs(req[t])
        BY <1>2, Stays DEF TInv, IInv
      <4>. QED BY <3>1, <4>1, GoesOn
    <3>3. UnderLive'
      BY <3>1 DEF TInv, UnderLive, Alive
    <3>. QED BY <1>1, <3>1, <3>2, <3>3 DEF TInv
  <2>. QED BY <2>1, <2>2
<1>3. CASE UNCHANGED vars
  <2>1. UNCHANGED <<live, trashed, parent, req>>
    BY <1>3 DEF vars, rows
  <2>2. UnderLive'
    BY <2>1 DEF TInv, UnderLive, Alive
  <2>3. \A t \in Sessions : Hangs(req[t])'
    BY <2>1, GoesOn DEF TInv
  <2>. QED BY <1>1, <2>2, <2>3 DEF TInv
<1>. QED BY <1>2, <1>3 DEF Next

(***************************************************************************)
(* As long as no deletion is between its recursive query and its commit    *)
(* while another request is between finding a parent live and its own      *)
(* commit, no live folder comes to hang under one in the trash.  Deletions *)
(* may overlap each other, and everything else may overlap.                *)
(***************************************************************************)
THEOREM DeletesApartKeepTrashClosed == Spec /\ []DeletesApart => []Tree!LiveUnderLive
<1>1. TInv => Tree!LiveUnderLive
  BY DEF TInv, UnderLive, Alive, Tree!LiveUnderLive
<1>. QED BY <1>1, InitTInv, NextTInv, PTL DEF Spec
==============================================================================
