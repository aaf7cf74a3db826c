-------------------------- MODULE VersionTxnProofs --------------------------
(***************************************************************************)
(* VersionTxn for any number of versions, contents and overlapping         *)
(* requests.                                                               *)
(***************************************************************************)
EXTENDS VersionTxn, FiniteSetTheorems, SequenceTheorems, WellFoundedInduction, TLAPS

(***************************************************************************)
(* A request that is past the is_current check of delete_version has in    *)
(* hand a row that is not current, and no other request can make it so: an *)
(* upload or a restore only marks the row it inserts itself.               *)
(***************************************************************************)
Hiding(s) == At(s, {"delete"}, "count") \/ At(s, {"delete"}, "hide") \/ At(s, {"delete"}, "commit")
Adding(s) == txn[s].op # "delete" /\ txn[s].stage \in Inserted

\* the values of the row to insert are known before it is
Prepared(t) ==
  t.op # "delete" =>
    /\ t.stage \in {"max", "insert"} \cup Inserted => t.checksum \in Contents
    /\ t.stage \in {"insert"} \cup Inserted => t.number \in 1..MaxNumber

IInv ==
  /\ TypeOK
  /\ CurrentKept
  /\ ServesCurrent
  /\ \A s \in Sessions : At(s, {"delete"}, "version") => txn[s].v \in rows
  /\ \A s \in Sessions : Hiding(s) => txn[s].v \in rows \ current
  /\ \A s \in Sessions : Adding(s) => txn[s].v \in Versions \ rows
  /\ \A s \in Sessions : Prepared(txn[s])
  /\ \A s, t \in Sessions : Adding(s) /\ Adding(t) /\ s # t => txn[s].v # txn[t].v

LEMMA InitIInv == Init => IInv
<1> SUFFICES ASSUME Init PROVE IInv
  OBVIOUS
<1> USE NilAssumption, BoundAssumption
<1>1. PICK c \in Contents :
        /\ content = [b \in Versions \cup {Nil} |-> c]
        /\ \/ rows = {} /\ file = [blob |-> Nil, checksum |-> c, number |-> 1]
           \/ \E v \in Versions : rows = {v} /\ file = [blob |-> v, checksum |-> c, number |-> 1]
  BY DEF Init
<1>2. file \in FileRow /\ rows \subseteq Versions /\ (rows # {} => file.blob \in rows)
  BY <1>1 DEF FileRow
<1>3. Idle \in Txn
  BY DEF Idle, Txn, Stages
<1>4. TypeOK
  BY <1>1, <1>2, <1>3 DEF Init, TypeOK
<1>. QED BY <1>2, <1>4 DEF Init, IInv, CurrentKept, ServesCurrent, At, Hiding, Adding, Prepared, Idle, Inserted

(***************************************************************************)
(* A step that moves one transaction on and leaves the tables alone.       *)
(***************************************************************************)
LEMMA SelectStep ==
  ASSUME IInv, NEW s \in Sessions, NEW t \in Txn, Select(s, t), Prepared(t),
         t.op = "delete" /\ t.stage = "version" => t.v \in rows,
         t.op = "delete" /\ t.stage \in {"count", "hide", "commit"} => t.v \in rows \ current,
         t.op # "delete" /\ t.stage \in Inserted =>
           /\ t.v \in Versions \ rows
           /\ \A u \in Sessions \ {s} : Adding(u) => txn[u].v # t.v
  PROVE  IInv'
<1>1. txn' = [txn EXCEPT ![s] = t] /\ UNCHANGED <<rows, number, current, deleted, content, file>>
  BY DEF Select, Go, tables
<1>2. txn'[s] = t /\ \A u \in Sessions \ {s} : txn'[u] = txn[u]
  BY <1>1 DEF IInv, TypeOK
<1>3. TypeOK'
  BY <1>1 DEF IInv, TypeOK
<1>4. CurrentKept' /\ ServesCurrent'
  BY <1>1 DEF IInv, CurrentKept, ServesCurrent
<1>5. \A u \in Sessions : At(u, {"delete"}, "version")' => txn'[u].v \in rows'
  BY <1>1, <1>2 DEF IInv, At
<1>6. \A u \in Sessions : Hiding(u)' => txn'[u].v \in rows' \ current'
  BY <1>1, <1>2 DEF IInv, At, Hiding
<1>7. \A u \in Sessions : Adding(u)' => txn'[u].v \in Versions \ rows'
  BY <1>1, <1>2 DEF IInv, Adding
<1>8. \A u, w \in Sessions : Adding(u)' /\ Adding(w)' /\ u # w => txn'[u].v # txn'[w].v
  <2> TAKE u, w \in Sessions
  <2>1. CASE u # s /\ w # s
    BY <1>2, <2>1 DEF IInv, Adding
  <2>2. CASE u = s \/ w = s
    BY <1>2, <2>2 DEF Adding
  <2>. QED BY <2>1, <2>2
<1>9. \A u \in Sessions : Prepared(txn[u])'
  <2> SUFFICES ASSUME NEW u \in Sessions PROVE Prepared(txn'[u])
    BY DEF Prepared
  <2>. QED BY <1>2 DEF IInv
<1>. QED BY <1>3, <1>4, <1>5, <1>6, <1>7, <1>8, <1>9 DEF IInv

LEMMA IdleInTxn == Idle \in Txn /\ Prepared(Idle)
BY BoundAssumption DEF Idle, Txn, Stages, Prepared, Inserted

LEMMA ReadSteps ==
  ASSUME IInv, NEW s \in Sessions,
         \/ FindFile(s) \/ VerifyAccess(s) \/ LoadVersion(s) \/ ReadMax(s) \/ Insert(s) \/ Mark(s)
         \/ MarkLocked(s) \/ LoadFile(s) \/ SaveFile(s) \/ CountVersions(s) \/ HideVersion(s) \/ Refuse(s)
         \/ Cancel(s)
  PROVE  IInv'
<1> DEFINE t == txn[s]
<1>0. /\ t \in Txn /\ file \in FileRow /\ rows \subseteq Versions /\ current \subseteq Versions
      /\ content \in [Versions \cup {Nil} -> Contents]
  BY DEF IInv, TypeOK
<1>1. CASE FindFile(s)
  <2>1. PICK c \in Contents :
          Select(s, [Idle EXCEPT !.op = "upload", !.stage = "max", !.checksum = c, !.old = file])
    BY <1>1 DEF FindFile
  <2>2. [Idle EXCEPT !.op = "upload", !.stage = "max", !.checksum = c, !.old = file] \in Txn
    BY <1>0, IdleInTxn DEF Txn, Stages
  <2>. QED BY <2>1, <2>2, SelectStep DEF Idle, Inserted, Prepared
<1>2. CASE VerifyAccess(s)
  <2>1. PICK v \in Readable, op \in {"restore", "delete"} :
          Select(s, [Idle EXCEPT !.op = op, !.stage = "version", !.v = v])
    BY <1>2 DEF VerifyAccess
  <2>2. v \in rows /\ v \in Versions
    BY <1>0 DEF Readable
  <2>3. [Idle EXCEPT !.op = op, !.stage = "version", !.v = v] \in Txn
    BY <1>0, <2>2, IdleInTxn DEF Txn, Stages
  <2>. QED BY <2>1, <2>2, <2>3, SelectStep DEF Idle, Inserted, Prepared
<1>3. CASE LoadVersion(s)
  <2>1. CASE t.op = "restore"
    <3> DEFINE r == [t EXCEPT !.stage = "max", !.checksum = content[t.v]]
    <3>1. t.v \in Versions /\ Select(s, r)
      BY <1>0, <1>3, <2>1 DEF LoadVersion, Readable
    <3>2. r \in Txn /\ r.op = "restore" /\ r.stage = "max" /\ r.checksum \in Contents
      BY <1>0, <2>1, <3>1 DEF Txn, Stages
    <3> HIDE DEF r
    <3>. QED BY <3>1, <3>2, SelectStep DEF Inserted, Prepared
  <2>2. CASE t.op = "delete"
    <3> DEFINE r == [t EXCEPT !.stage = "count"]
    <3>1. t.v \in rows \ current /\ Select(s, r)
      BY <1>3, <2>2 DEF LoadVersion, Readable
    <3>2. r \in Txn /\ r.op = "delete" /\ r.stage = "count" /\ r.v = t.v
      BY <1>0, <2>2 DEF Txn, Stages
    <3> HIDE DEF r
    <3>. QED BY <3>1, <3>2, SelectStep DEF Prepared
  <2>. QED BY <1>3, <2>1, <2>2 DEF LoadVersion
<1>4. CASE ReadMax(s)
  <2>1. PICK n \in 1..MaxNumber : Select(s, [t EXCEPT !.stage = "insert", !.number = n])
    BY <1>4 DEF ReadMax
  <2> DEFINE r == [t EXCEPT !.stage = "insert", !.number = n]
  <2>0. n \in 0..MaxNumber
    BY BoundAssumption
  <2>2. /\ r \in Txn /\ r.op = t.op /\ r.op # "delete" /\ r.stage = "insert"
        /\ r.checksum = t.checksum /\ r.number = n
    BY <1>0, <1>4, <2>0 DEF Txn, Stages, ReadMax, At
  <2>4. t.checksum \in Contents
    BY <1>4 DEF ReadMax, At, IInv, Prepared
  <2>3. Select(s, r)
    BY <2>1
  <2> HIDE DEF r
  <2>. QED BY <2>2, <2>3, <2>4, SelectStep DEF Inserted, Prepared
<1>5. CASE Insert(s)
  <2>1. PICK v \in Versions \ (rows \cup Reserved) : Select(s, [t EXCEPT !.stage = "mark", !.v = v])
    BY <1>5 DEF Insert
  <2> DEFINE r == [t EXCEPT !.stage = "mark", !.v = v]
  <2>2. /\ r \in Txn /\ r.op = t.op /\ r.op # "delete" /\ r.stage = "mark" /\ r.v = v
        /\ r.checksum = t.checksum /\ r.number = t.number
    BY <1>0, <1>5, <2>1 DEF Txn, Stages, Insert, At
  <2>5. t.checksum \in Contents /\ t.number \in 1..MaxNumber
    BY <1>5 DEF Insert, At, IInv, Prepared
  <2>3. \A u \in Sessions \ {s} : Adding(u) => txn[u].v # v
    BY <2>1 DEF Reserved, Adding
  <2>4. Select(s, r)
    BY <2>1
  <2> HIDE DEF r
  <2>. QED BY <2>1, <2>2, <2>3, <2>4, <2>5, SelectStep DEF Prepared
<1>6. CASE Mark(s) \/ MarkLocked(s) \/ LoadFile(s) \/ SaveFile(s)
  <2>1. /\ t.op # "delete" /\ Adding(s)
        /\ \E r \in Txn : /\ Select(s, r) /\ r.op = t.op /\ r.v = t.v
                          /\ r.checksum = t.checksum /\ r.number = t.number
                          /\ r.stage \in Inserted
    <3>1. CASE Mark(s)
      <4> DEFINE r == [t EXCEPT !.stage = "marking", !.marked = current]
      <4>1. /\ r \in Txn /\ r.op = t.op /\ r.v = t.v /\ r.stage = "marking"
            /\ r.checksum = t.checksum /\ r.number = t.number
        BY <1>0 DEF Txn, Stages
      <4>2. Select(s, r) /\ t.op # "delete" /\ t.stage = "mark"
        BY <3>1 DEF Mark, At
      <4> HIDE DEF r
      <4>. QED BY <4>1, <4>2 DEF Adding, Inserted
    <3>2. CASE MarkLocked(s)
      <4> DEFINE stage == IF t.op = "restore" THEN "load" ELSE "save"
                 r == [t EXCEPT !.stage = stage, !.marked = Recheck(@)]
      <4>1. Recheck(t.marked) \subseteq Versions
        BY <1>0 DEF Recheck
      <4>2. /\ r \in Txn /\ r.op = t.op /\ r.v = t.v /\ r.stage \in {"load", "save"}
            /\ r.checksum = t.checksum /\ r.number = t.number
        BY <1>0, <4>1 DEF Txn, Stages
      <4>3. Select(s, r) /\ t.op # "delete" /\ t.stage = "marking"
        BY <3>2 DEF MarkLocked, At
      <4> HIDE DEF r
      <4>. QED BY <4>2, <4>3 DEF Adding, Inserted
    <3>3. CASE SaveFile(s)
      <4> DEFINE r == [t EXCEPT !.stage = "commit"]
      <4>1. /\ r \in Txn /\ r.op = t.op /\ r.v = t.v /\ r.stage = "commit"
            /\ r.checksum = t.checksum /\ r.number = t.number
        BY <1>0 DEF Txn, Stages
      <4>2. Select(s, r) /\ t.op # "delete" /\ t.stage = "save"
        BY <3>3 DEF SaveFile, At
      <4> HIDE DEF r
      <4>. QED BY <4>1, <4>2 DEF Adding, Inserted
    <3>4. CASE LoadFile(s)
      <4> DEFINE r == [t EXCEPT !.stage = "save", !.old = file]
      <4>1. /\ r \in Txn /\ r.op = t.op /\ r.v = t.v /\ r.stage = "save"
            /\ r.checksum = t.checksum /\ r.number = t.number
        BY <1>0 DEF Txn, Stages
      <4>2. Select(s, r) /\ t.op # "delete" /\ t.stage = "load"
        BY <3>4 DEF LoadFile, At
      <4> HIDE DEF r
      <4>. QED BY <4>1, <4>2 DEF Adding, Inserted
    <3>. QED BY <1>6, <3>1, <3>2, <3>3, <3>4
  <2>2. t.v \in Versions \ rows /\ \A u \in Sessions \ {s} : Adding(u) => txn[u].v # t.v
    BY <2>1 DEF IInv
  <2>3. t.checksum \in Contents /\ t.number \in 1..MaxNumber
    BY <2>1 DEF IInv, Prepared, Adding
  <2>. QED BY <2>1, <2>2, <2>3, SelectStep DEF Prepared
<1>7. CASE CountVersions(s) \/ HideVersion(s)
  <2>1. t.op = "delete" /\ Hiding(s)
    BY <1>7 DEF CountVersions, HideVersion, At, Hiding
  <2>2. PICK stage \in {"hide", "commit"} : Select(s, [t EXCEPT !.stage = stage])
    BY <1>7 DEF CountVersions, HideVersion
  <2> DEFINE r == [t EXCEPT !.stage = stage]
  <2>3. r \in Txn /\ r.op = "delete" /\ r.v = t.v /\ r.stage \in {"hide", "commit"}
    BY <1>0, <2>1, <2>2 DEF Txn, Stages
  <2>4. t.v \in rows \ current /\ Select(s, r)
    BY <2>1, <2>2 DEF IInv
  <2> HIDE DEF r
  <2>. QED BY <2>3, <2>4, SelectStep DEF Prepared
<1>8. CASE Refuse(s) \/ Cancel(s)
  <2>1. Select(s, Idle) /\ Idle.stage = "idle" /\ Idle.op = "upload"
    BY <1>8 DEF Refuse, Cancel, Idle
  <2>. QED BY <2>1, IdleInTxn, SelectStep DEF Inserted
<1>. QED BY <1>1, <1>2, <1>3, <1>4, <1>5, <1>6, <1>7, <1>8

(***************************************************************************)
(* The commits.                                                            *)
(***************************************************************************)
LEMMA CommitStep ==
  ASSUME IInv, NEW s \in Sessions, Commit(s)
  PROVE  IInv'
<1> DEFINE t == txn[s]
<1>0. t \in Txn /\ t.stage = "commit" /\ txn' = [txn EXCEPT ![s] = Idle]
  BY DEF IInv, TypeOK, Commit, Go
<1>1. txn'[s] = Idle /\ \A u \in Sessions \ {s} : txn'[u] = txn[u]
  BY <1>0 DEF IInv, TypeOK
<1>2. txn' \in [Sessions -> Txn]
  BY <1>0, IdleInTxn DEF IInv, TypeOK
<1>3. ~At(s, {"delete"}, "version")' /\ ~Hiding(s)' /\ ~Adding(s)'
  BY <1>1 DEF At, Hiding, Adding, Idle, Inserted
<1>4. \A u, w \in Sessions : Adding(u)' /\ Adding(w)' /\ u # w => txn'[u].v # txn'[w].v
  BY <1>1, <1>3 DEF IInv, Adding
<1>5. \A u \in Sessions : Prepared(txn[u])'
  <2> SUFFICES ASSUME NEW u \in Sessions PROVE Prepared(txn'[u])
    BY DEF Prepared
  <2>. QED BY <1>1, IdleInTxn DEF IInv
<1>6. CASE t.op # "delete"
  <2>1. /\ rows' = rows \cup {t.v}
        /\ number' = [number EXCEPT ![t.v] = t.number]
        /\ current' = (current \ t.marked) \cup {t.v}
        /\ content' = [content EXCEPT ![t.v] = t.checksum]
        /\ file' = FileUpdate(t)
        /\ deleted' = deleted
    BY <1>6 DEF Commit
  <2>2. Adding(s) /\ t.v \in Versions \ rows
    BY <1>0, <1>6 DEF IInv, Adding, Inserted
  <2>3. t.checksum \in Contents /\ t.number \in 1..MaxNumber
    BY <2>2 DEF IInv, Prepared, Adding
  <2>4. file' \in FileRow
    BY <2>1, <2>2, <2>3 DEF IInv, TypeOK, FileRow, FileUpdate, Changed
  <2>5. TypeOK'
    BY <2>1, <2>2, <2>3, <2>4, <1>2, BoundAssumption DEF IInv, TypeOK
  <2>6. ServesCurrent' /\ CurrentKept'
    BY <2>1, <2>2 DEF IInv, TypeOK, CurrentKept, ServesCurrent, FileUpdate
  <2>7. \A u \in Sessions : At(u, {"delete"}, "version")' => txn'[u].v \in rows'
    BY <2>1, <1>1, <1>3 DEF IInv, At
  <2>8. \A u \in Sessions : Hiding(u)' => txn'[u].v \in rows' \ current'
    <3> TAKE u \in Sessions
    <3>1. CASE u # s /\ Hiding(u)
      BY <2>1, <2>2, <1>1, <3>1 DEF IInv
    <3>. QED BY <1>1, <1>3, <3>1 DEF Hiding, At
  <2>9. \A u \in Sessions : Adding(u)' => txn'[u].v \in Versions \ rows'
    <3> TAKE u \in Sessions
    <3>1. CASE u # s /\ Adding(u)
      BY <2>1, <2>2, <1>1, <3>1 DEF IInv
    <3>. QED BY <1>1, <1>3, <3>1 DEF Adding
  <2>. QED BY <2>5, <2>6, <2>7, <2>8, <2>9, <1>4, <1>5 DEF IInv
<1>7. CASE t.op = "delete"
  <2>1. deleted' = deleted \cup {t.v} /\ UNCHANGED <<rows, number, current, content, file>>
    BY <1>7 DEF Commit
  <2>2. t.v \in rows \ current
    BY <1>0, <1>7 DEF IInv, Hiding, At
  <2>3. TypeOK' /\ ServesCurrent' /\ CurrentKept'
    BY <2>1, <2>2, <1>2 DEF IInv, TypeOK, CurrentKept, ServesCurrent
  <2>4. \A u \in Sessions : /\ At(u, {"delete"}, "version")' => txn'[u].v \in rows'
                            /\ Hiding(u)' => txn'[u].v \in rows' \ current'
                            /\ Adding(u)' => txn'[u].v \in Versions \ rows'
    BY <2>1, <1>1, <1>3 DEF IInv, At, Hiding, Adding
  <2>. QED BY <2>3, <2>4, <1>4, <1>5 DEF IInv
<1>. QED BY <1>6, <1>7

LEMMA NextIInv == IInv /\ [Next]_vars => IInv'
<1> SUFFICES ASSUME IInv, [Next]_vars PROVE IInv'
  OBVIOUS
<1>1. CASE Next
  BY <1>1, ReadSteps, CommitStep DEF Next, Serve
<1>2. CASE UNCHANGED vars
  <2>1. UNCHANGED <<rows, number, current, deleted, content, file, txn>>
    BY <1>2 DEF vars
  <2>. QED BY <2>1 DEF IInv, TypeOK, CurrentKept, ServesCurrent, At, Hiding, Adding, Prepared
<1>. QED BY <1>1, <1>2

(* Any number of overlapping uploads, restores and deletions leaves the    *)
(* file serving a version that is marked current.                          *)
THEOREM FileServesCurrent == Spec => []ServesCurrent
<1>1. IInv => ServesCurrent
  BY DEF IInv
<1>. QED BY <1>1, InitIInv, NextIInv, PTL DEF Spec

(* A version is never deleted while it is current, although the check and  *)
(* the write of delete_version are different statements.                   *)
THEOREM CurrentNeverDeleted == Spec => []CurrentKept
<1>1. IInv => CurrentKept
  BY DEF IInv
<1>. QED BY <1>1, InitIInv, NextIInv, PTL DEF Spec

(* Tables and transactions stay well typed however the requests overlap.   *)
THEOREM VersionsTyped == Spec => []TypeOK
<1>1. IInv => TypeOK
  BY DEF IInv
<1>. QED BY <1>1, InitIInv, NextIInv, PTL DEF Spec
-----------------------------------------------------------------------------
(***************************************************************************)
(* Uploads and restores of the file that do not overlap; deletions may     *)
(* overlap with them and with each other.  A restore that has only checked *)
(* access has not begun to write.                                          *)
(***************************************************************************)
Writing(s) == txn[s].op # "delete" /\ txn[s].stage \in {"max", "insert"} \cup Inserted
OneWriter == \A s, t \in Sessions : Writing(s) /\ Writing(t) => s = t

Latest == Cardinality(rows)
FileLoaded(t) == t.op = "upload" \/ t.stage \in {"save", "commit"}

\* what the writer has read is still what the tables hold
UpToDate(t) ==
  /\ t.stage \in {"insert"} \cup Inserted => t.number = Latest + 1
  /\ t.stage \in {"marking", "load", "save", "commit"} => t.marked = current
  /\ FileLoaded(t) => t.old = file

\* the versions are numbered 1..Latest, and the latest alone is current
SInv ==
  /\ IsFiniteSet(rows)
  /\ \A v \in rows : number[v] \in 1..Latest
  /\ \A i \in 1..Latest : \E v \in rows : number[v] = i
  /\ NumbersDistinct
  /\ current = {v \in rows : number[v] = Latest}
  /\ file.checksum = content[file.blob]
  /\ \A s \in Sessions : Writing(s) => UpToDate(txn[s])

\* a new file has version 1 or, if it is a copy, none
LEMMA InitSInv == Init => SInv
<1> SUFFICES ASSUME Init PROVE SInv
  OBVIOUS
<1>1. PICK c \in Contents :
        /\ content = [b \in Versions \cup {Nil} |-> c]
        /\ \/ rows = {} /\ file = [blob |-> Nil, checksum |-> c, number |-> 1]
           \/ \E v \in Versions : rows = {v} /\ file = [blob |-> v, checksum |-> c, number |-> 1]
  BY DEF Init
<1>2. file.checksum = content[file.blob]
  BY <1>1
<1>3. \A s \in Sessions : ~Writing(s)
  BY DEF Init, Writing, Idle, Inserted
<1>4. IsFiniteSet(rows) /\ (rows = {} => Latest = 0) /\ (rows # {} => Latest = 1)
  BY <1>1, FS_EmptySet, FS_Singleton DEF Latest
<1>5. \A v \in rows : number[v] = 1
  BY <1>1 DEF Init
<1>6. \A v, w \in rows : v = w
  BY <1>1
<1>7. 1..0 = {} /\ 1..1 = {1}
  OBVIOUS
<1>8. CASE rows = {}
  BY <1>2, <1>3, <1>4, <1>7, <1>8 DEF Init, SInv, NumbersDistinct
<1>9. CASE rows # {}
  <2>1. \A i \in 1..Latest : \E v \in rows : number[v] = i
    BY <1>4, <1>5, <1>7, <1>9
  <2>2. current = {v \in rows : number[v] = Latest}
    BY <1>4, <1>5, <1>9 DEF Init
  <2>. QED BY <1>2, <1>3, <1>4, <1>5, <1>6, <1>7, <1>9, <2>1, <2>2 DEF SInv, NumbersDistinct
<1>. QED BY <1>8, <1>9

\* a step of one transaction that leaves the tables alone
LEMMA SelectSerial ==
  ASSUME IInv, SInv, NEW s \in Sessions, NEW t \in Txn, Select(s, t),
         t.op # "delete" /\ t.stage \in {"max", "insert"} \cup Inserted => UpToDate(t)
  PROVE  SInv'
<1>1. txn' = [txn EXCEPT ![s] = t] /\ UNCHANGED <<rows, number, current, deleted, content, file>>
  BY DEF Select, Go, tables
<1>2. txn'[s] = t /\ \A u \in Sessions \ {s} : txn'[u] = txn[u]
  BY <1>1 DEF IInv, TypeOK
<1>3. \A u \in Sessions : Writing(u)' => UpToDate(txn[u])'
  <2> SUFFICES ASSUME NEW u \in Sessions, Writing(u)' PROVE UpToDate(txn[u])'
    OBVIOUS
  <2>1. CASE u = s
    BY <1>1, <1>2, <2>1 DEF Writing, UpToDate, FileLoaded, Latest
  <2>2. CASE u # s
    BY <1>1, <1>2, <2>2 DEF SInv, Writing, UpToDate, FileLoaded, Latest
  <2>. QED BY <2>1, <2>2
<1>. QED BY <1>1, <1>3 DEF SInv, NumbersDistinct, Latest

\* get_max_version_number finds the number of the latest version
LEMMA MaxNumberIsLatest ==
  ASSUME SInv
  PROVE  Max({0} \cup {number[v] : v \in rows}) = Latest
<1> DEFINE S == {0} \cup {number[v] : v \in rows}
<1>1. Latest \in Nat
  BY FS_CardinalityType DEF SInv, Latest
<1>2. \A x \in S : x \in Nat /\ Latest >= x
  BY <1>1 DEF SInv
<1>3. Latest \in S
  <2>1. CASE Latest = 0
    BY <2>1
  <2>2. CASE Latest # 0
    BY <1>1, <2>2 DEF SInv
  <2>. QED BY <2>1, <2>2
<1> HIDE DEF S
<1>4. \A m \in S : (\A y \in S : m >= y) => m = Latest
  <2> SUFFICES ASSUME NEW m \in S, \A y \in S : m >= y PROVE m = Latest
    OBVIOUS
  <2>1. m \in Nat /\ Latest >= m /\ m >= Latest
    BY <1>2, <1>3
  <2>. QED BY <1>1, <2>1
<1>5. Max(S) = Latest
  BY <1>2, <1>3, <1>4 DEF Max
<1>. QED BY <1>5 DEF S

\* only the commits of uploads and restores change what the writer has read
LEMMA ReadSerial ==
  ASSUME IInv, SInv, NEW s \in Sessions,
         \/ FindFile(s) \/ VerifyAccess(s) \/ LoadVersion(s) \/ ReadMax(s) \/ Insert(s) \/ Mark(s)
         \/ MarkLocked(s) \/ LoadFile(s) \/ SaveFile(s) \/ CountVersions(s) \/ HideVersion(s) \/ Refuse(s)
         \/ Cancel(s)
  PROVE  SInv'
<1> DEFINE t == txn[s]
<1>0. /\ t \in Txn /\ file \in FileRow /\ rows \subseteq Versions /\ current \subseteq Versions
      /\ content \in [Versions \cup {Nil} -> Contents]
  BY DEF IInv, TypeOK
<1>a. Writing(s) => UpToDate(t)
  BY DEF SInv
<1>1. CASE FindFile(s)
  <2>1. PICK c \in Contents :
          Select(s, [Idle EXCEPT !.op = "upload", !.stage = "max", !.checksum = c, !.old = file])
    BY <1>1 DEF FindFile
  <2> DEFINE r == [Idle EXCEPT !.op = "upload", !.stage = "max", !.checksum = c, !.old = file]
  <2>2. r \in Txn /\ r.op = "upload" /\ r.stage = "max" /\ r.old = file
    BY <1>0, IdleInTxn DEF Txn, Stages
  <2>3. Select(s, r)
    BY <2>1
  <2> HIDE DEF r
  <2>. QED BY <2>2, <2>3, SelectSerial DEF UpToDate, Inserted
<1>2. CASE VerifyAccess(s)
  <2>1. PICK v \in Readable, op \in {"restore", "delete"} :
          Select(s, [Idle EXCEPT !.op = op, !.stage = "version", !.v = v])
    BY <1>2 DEF VerifyAccess
  <2> DEFINE r == [Idle EXCEPT !.op = op, !.stage = "version", !.v = v]
  <2>2. r \in Txn /\ r.stage = "version"
    BY <1>0, IdleInTxn DEF Txn, Stages, Readable
  <2>3. Select(s, r)
    BY <2>1
  <2> HIDE DEF r
  <2>. QED BY <2>2, <2>3, SelectSerial DEF Inserted
<1>3. CASE LoadVersion(s)
  <2>1. CASE t.op = "restore"
    <3> DEFINE r == [t EXCEPT !.stage = "max", !.checksum = content[t.v]]
    <3>1. t.v \in Versions /\ Select(s, r)
      BY <1>0, <1>3, <2>1 DEF LoadVersion, Readable
    <3>2. r \in Txn /\ r.op = "restore" /\ r.stage = "max"
      BY <1>0, <2>1, <3>1 DEF Txn, Stages
    <3> HIDE DEF r
    <3>. QED BY <3>1, <3>2, SelectSerial DEF Inserted, UpToDate, FileLoaded
  <2>2. CASE t.op = "delete"
    <3> DEFINE r == [t EXCEPT !.stage = "count"]
    <3>1. Select(s, r)
      BY <1>3, <2>2 DEF LoadVersion
    <3>2. r \in Txn /\ r.op = "delete"
      BY <1>0, <2>2 DEF Txn, Stages
    <3> HIDE DEF r
    <3>. QED BY <3>1, <3>2, SelectSerial
  <2>. QED BY <1>3, <2>1, <2>2 DEF LoadVersion
<1>4. CASE ReadMax(s)
  <2> DEFINE n == Latest + 1
             r == [t EXCEPT !.stage = "insert", !.number = n]
  <2>1. n \in 1..MaxNumber /\ Select(s, r) /\ Writing(s) /\ t.op # "delete" /\ t.stage = "max"
    BY <1>4, MaxNumberIsLatest DEF ReadMax, At, Writing
  <2>2. n \in 0..MaxNumber
    BY <2>1, BoundAssumption
  <2>3. r \in Txn /\ r.op = t.op /\ r.stage = "insert" /\ r.number = n /\ r.old = t.old
    BY <1>0, <2>2 DEF Txn, Stages
  <2>4. t.op = "upload" => t.old = file
    BY <1>a, <2>1 DEF UpToDate, FileLoaded
  <2> HIDE DEF r
  <2>5. UpToDate(r)
    BY <2>3, <2>4 DEF UpToDate, FileLoaded
  <2>. QED BY <2>1, <2>3, <2>5, SelectSerial
<1>5. CASE Insert(s)
  <2>1. PICK v \in Versions \ (rows \cup Reserved) : Select(s, [t EXCEPT !.stage = "mark", !.v = v])
    BY <1>5 DEF Insert
  <2> DEFINE r == [t EXCEPT !.stage = "mark", !.v = v]
  <2>2. r \in Txn /\ r.op = t.op /\ r.stage = "mark" /\ r.number = t.number /\ r.old = t.old
    BY <1>0 DEF Txn, Stages
  <2>3. Select(s, r) /\ t.op # "delete" /\ t.stage = "insert" /\ Writing(s)
    BY <1>5, <2>1 DEF Insert, At, Writing
  <2> HIDE DEF r
  <2>4. UpToDate(r)
    BY <1>a, <2>2, <2>3 DEF UpToDate, FileLoaded, Inserted
  <2>. QED BY <2>2, <2>3, <2>4, SelectSerial
<1>6. CASE Mark(s)
  <2> DEFINE r == [t EXCEPT !.stage = "marking", !.marked = current]
  <2>1. /\ r \in Txn /\ r.op = t.op /\ r.stage = "marking" /\ r.marked = current
        /\ r.number = t.number /\ r.old = t.old
    BY <1>0 DEF Txn, Stages
  <2>2. Select(s, r) /\ t.op # "delete" /\ t.stage = "mark" /\ Writing(s)
    BY <1>6 DEF Mark, At, Writing, Inserted
  <2> HIDE DEF r
  <2>3. UpToDate(r)
    BY <1>a, <2>1, <2>2 DEF UpToDate, FileLoaded, Inserted
  <2>. QED BY <2>1, <2>2, <2>3, SelectSerial
<1>7. CASE MarkLocked(s)
  <2> DEFINE stage == IF t.op = "restore" THEN "load" ELSE "save"
             r == [t EXCEPT !.stage = stage, !.marked = Recheck(@)]
  <2>1. Select(s, r) /\ t.op \in {"upload", "restore"} /\ t.stage = "marking" /\ Writing(s)
    BY <1>7 DEF MarkLocked, At, Writing, Inserted
  <2>2. t.marked = current
    BY <1>a, <2>1 DEF UpToDate
  <2>3. Recheck(t.marked) = current
    BY <2>2 DEF Recheck
  <2>4. /\ r \in Txn /\ r.op = t.op /\ r.marked = current /\ r.number = t.number /\ r.old = t.old
        /\ r.stage = IF r.op = "restore" THEN "load" ELSE "save"
    BY <1>0, <2>3 DEF Txn, Stages
  <2> HIDE DEF r
  <2>5. UpToDate(r)
    BY <1>a, <2>1, <2>4 DEF UpToDate, FileLoaded, Inserted
  <2>. QED BY <2>1, <2>4, <2>5, SelectSerial
<1>8. CASE LoadFile(s)
  <2> DEFINE r == [t EXCEPT !.stage = "save", !.old = file]
  <2>1. /\ r \in Txn /\ r.op = t.op /\ r.stage = "save" /\ r.marked = t.marked
        /\ r.number = t.number /\ r.old = file
    BY <1>0 DEF Txn, Stages
  <2>2. Select(s, r) /\ t.op # "delete" /\ t.stage = "load" /\ Writing(s)
    BY <1>8 DEF LoadFile, At, Writing, Inserted
  <2> HIDE DEF r
  <2>3. UpToDate(r)
    BY <1>a, <2>1, <2>2 DEF UpToDate, FileLoaded, Inserted
  <2>. QED BY <2>1, <2>2, <2>3, SelectSerial
<1>9. CASE SaveFile(s)
  <2> DEFINE r == [t EXCEPT !.stage = "commit"]
  <2>1. /\ r \in Txn /\ r.op = t.op /\ r.stage = "commit" /\ r.marked = t.marked
        /\ r.number = t.number /\ r.old = t.old
    BY <1>0 DEF Txn, Stages
  <2>2. Select(s, r) /\ t.op # "delete" /\ t.stage = "save" /\ Writing(s)
    BY <1>9 DEF SaveFile, At, Writing, Inserted
  <2> HIDE DEF r
  <2>3. UpToDate(r)
    BY <1>a, <2>1, <2>2 DEF UpToDate, FileLoaded, Inserted
  <2>. QED BY <2>1, <2>2, <2>3, SelectSerial
<1>10. CASE CountVersions(s) \/ HideVersion(s)
  <2>1. PICK stage \in {"hide", "commit"} : Select(s, [t EXCEPT !.stage = stage])
    BY <1>10 DEF CountVersions, HideVersion
  <2> DEFINE r == [t EXCEPT !.stage = stage]
  <2>2. Select(s, r) /\ t.op = "delete"
    BY <1>10, <2>1 DEF CountVersions, HideVersion, At
  <2>3. r \in Txn /\ r.op = "delete"
    BY <1>0, <2>1, <2>2 DEF Txn, Stages
  <2> HIDE DEF r
  <2>. QED BY <2>2, <2>3, SelectSerial
<1>11. CASE Refuse(s) \/ Cancel(s)
  <2>1. Select(s, Idle) /\ Idle.stage = "idle"
    BY <1>11 DEF Refuse, Cancel, Idle
  <2>. QED BY <2>1, IdleInTxn, SelectSerial DEF Inserted
<1>. QED BY <1>1, <1>2, <1>3, <1>4, <1>5, <1>6, <1>7, <1>8, <1>9, <1>10, <1>11

\* what the commit of an upload or a restore adds
LEMMA CommitAdds ==
  ASSUME IInv, SInv, NEW s \in Sessions, Commit(s), txn[s].op # "delete"
  PROVE  /\ txn[s].v \in Versions \ rows /\ txn[s].checksum \in Contents
         /\ rows' = rows \cup {txn[s].v} /\ deleted' = deleted
         /\ number' = [number EXCEPT ![txn[s].v] = Latest + 1]
         /\ current' = {txn[s].v}
         /\ content' = [content EXCEPT ![txn[s].v] = txn[s].checksum]
         /\ file'.blob = txn[s].v /\ file'.checksum = txn[s].checksum
         /\ txn' = [txn EXCEPT ![s] = Idle]
         /\ Latest \in Nat /\ Latest' = Latest + 1 /\ IsFiniteSet(rows')
<1> DEFINE t == txn[s]
<1>1. /\ rows' = rows \cup {t.v}
      /\ number' = [number EXCEPT ![t.v] = t.number]
      /\ current' = (current \ t.marked) \cup {t.v}
      /\ content' = [content EXCEPT ![t.v] = t.checksum]
      /\ file' = FileUpdate(t)
      /\ deleted' = deleted
      /\ txn' = [txn EXCEPT ![s] = Idle]
      /\ t.stage = "commit"
  BY DEF Commit, Go
<1>2. Adding(s) /\ Writing(s) /\ t.stage \in Inserted
  BY <1>1 DEF Adding, Writing, Inserted
<1>3. t.v \in Versions \ rows /\ t.checksum \in Contents
  BY <1>2 DEF IInv, Prepared, Adding
<1>4. t.number = Latest + 1 /\ t.marked = current /\ t.old = file
  BY <1>1, <1>2 DEF SInv, UpToDate, FileLoaded
<1>5. file'.blob = t.v /\ file'.checksum = t.checksum
  BY <1>1, <1>4 DEF FileUpdate, Changed
<1>6. Latest \in Nat /\ Latest' = Latest + 1 /\ IsFiniteSet(rows')
  BY <1>1, <1>3, FS_CardinalityType, FS_AddElement DEF SInv, Latest
<1>. QED BY <1>1, <1>3, <1>4, <1>5, <1>6

LEMMA CommitSerial ==
  ASSUME IInv, SInv, OneWriter, NEW s \in Sessions, Commit(s)
  PROVE  SInv'
<1> DEFINE t == txn[s]
<1>0. /\ number \in [Versions -> 0..MaxNumber] /\ content \in [Versions \cup {Nil} -> Contents]
      /\ txn \in [Sessions -> Txn] /\ rows \subseteq Versions
  BY DEF IInv, TypeOK
<1>1. CASE t.op # "delete"
  <2>1. /\ t.v \in Versions \ rows
        /\ rows' = rows \cup {t.v} /\ current' = {t.v}
        /\ number' = [number EXCEPT ![t.v] = Latest + 1]
        /\ content' = [content EXCEPT ![t.v] = t.checksum]
        /\ file'.blob = t.v /\ file'.checksum = t.checksum
        /\ txn' = [txn EXCEPT ![s] = Idle]
        /\ Latest \in Nat /\ Latest' = Latest + 1 /\ IsFiniteSet(rows')
    BY <1>1, CommitAdds
  <2>2. number'[t.v] = Latest' /\ \A v \in rows : number'[v] = number[v]
    BY <2>1, <1>0
  <2>3. \A v \in rows : number[v] \in 1..Latest
    BY DEF SInv
  <2>4. \A v \in rows' : number'[v] \in 1..Latest'
    BY <2>1, <2>2, <2>3
  <2>5. \A i \in 1..Latest' : \E v \in rows' : number'[v] = i
    <3> SUFFICES ASSUME NEW i \in 1..Latest' PROVE \E v \in rows' : number'[v] = i
      OBVIOUS
    <3>1. CASE i = Latest'
      BY <2>1, <2>2, <3>1
    <3>2. CASE i # Latest'
      <4>1. i \in 1..Latest
        BY <2>1, <3>2
      <4>2. PICK v \in rows : number[v] = i
        BY <4>1 DEF SInv
      <4>. QED BY <2>1, <2>2, <4>2
    <3>. QED BY <3>1, <3>2
  <2>6. NumbersDistinct'
    <3> SUFFICES ASSUME NEW v \in rows', NEW w \in rows', number'[v] = number'[w] PROVE v = w
      BY DEF NumbersDistinct
    <3>1. CASE v \in rows /\ w \in rows
      BY <2>2, <3>1 DEF SInv, NumbersDistinct
    <3>2. CASE v = t.v \/ w = t.v
      BY <2>1, <2>2, <2>3, <3>2
    <3>. QED BY <2>1, <3>1, <3>2
  <2>7. current' = {v \in rows' : number'[v] = Latest'}
    BY <2>1, <2>2, <2>3
  <2>8. file'.checksum = content'[file'.blob]
    BY <2>1, <1>0
  <2>9. \A u \in Sessions : ~Writing(u)'
    <3> SUFFICES ASSUME NEW u \in Sessions, Writing(u)' PROVE FALSE
      OBVIOUS
    <3>1. txn'[s] = Idle /\ Writing(s)
      BY <2>1, <1>0, <1>1 DEF Commit, Writing, Inserted
    <3>2. u # s
      BY <3>1 DEF Writing, Idle, Inserted
    <3>3. Writing(u)
      BY <2>1, <1>0, <3>2 DEF Writing
    <3>. QED BY <3>1, <3>2, <3>3 DEF OneWriter
  <2>. QED BY <2>1, <2>4, <2>5, <2>6, <2>7, <2>8, <2>9 DEF SInv
<1>2. CASE t.op = "delete"
  <2>1. UNCHANGED <<rows, number, current, content, file>> /\ txn' = [txn EXCEPT ![s] = Idle]
    BY <1>2 DEF Commit, Go
  <2>2. \A u \in Sessions : Writing(u)' => UpToDate(txn[u])'
    <3> SUFFICES ASSUME NEW u \in Sessions, Writing(u)' PROVE UpToDate(txn[u])'
      OBVIOUS
    <3>1. u # s
      BY <2>1, <1>0 DEF Writing, Idle, Inserted
    <3>2. txn'[u] = txn[u] /\ Writing(u)
      BY <2>1, <1>0, <3>1 DEF Writing
    <3>. QED BY <2>1, <3>2 DEF SInv, UpToDate, FileLoaded, Latest
  <2>. QED BY <2>1, <2>2 DEF SInv, NumbersDistinct, Latest
<1>. QED BY <1>1, <1>2

LEMMA NextSInv == IInv /\ SInv /\ OneWriter /\ [Next]_vars => SInv'
<1> SUFFICES ASSUME IInv, SInv, OneWriter, [Next]_vars PROVE SInv'
  OBVIOUS
<1>1. CASE Next
  BY <1>1, ReadSerial, CommitSerial DEF Next, Serve
<1>2. CASE UNCHANGED vars
  <2>1. UNCHANGED <<rows, number, current, deleted, content, file, txn>>
    BY <1>2 DEF vars
  <2>. QED BY <2>1 DEF SInv, NumbersDistinct, Latest, Writing, UpToDate, FileLoaded
<1>. QED BY <1>1, <1>2

LEMMA SerialInvariance == Spec /\ []OneWriter => [](IInv /\ SInv)
BY InitIInv, InitSInv, NextIInv, NextSInv, PTL DEF Spec

-----------------------------------------------------------------------------
(***************************************************************************)
(* VersionHistory, step by step.                                           *)
(***************************************************************************)
\* one more entry at the end is what Append adds
LEMMA OneMoreIsAppend ==
  ASSUME NEW S, NEW n \in Nat, NEW h \in [1..n -> S], NEW k \in [1..n + 1 -> S],
         \A i \in 1..n : k[i] = h[i]
  PROVE  k = Append(h, k[n + 1])
<1> DEFINE a == Append(h, k[n + 1])
<1>1. h \in Seq(S) /\ Len(h) = n /\ k[n + 1] \in S
  BY SeqDef
<1>2. /\ a \in Seq(S) /\ Len(a) = n + 1 /\ a[n + 1] = k[n + 1]
      /\ \A i \in 1..n : a[i] = h[i]
  BY <1>1, AppendProperties
<1>3. a \in [1..n + 1 -> S]
  BY <1>2, LenProperties
<1> HIDE DEF a
<1>4. \A i \in 1..n + 1 : a[i] = k[i]
  BY <1>2
<1>5. a = k
  BY <1>3, <1>4
<1>. QED BY <1>5 DEF a

\* the version a number names
LEMMA VersionNumbered ==
  ASSUME SInv
  PROVE  /\ \A i \in 1..Latest : VersionAt(i) \in rows /\ number[VersionAt(i)] = i
         /\ \A v \in rows : VersionAt(number[v]) = v
<1>1. ASSUME NEW i \in 1..Latest PROVE VersionAt(i) \in rows /\ number[VersionAt(i)] = i
  <2>1. \E v \in rows : number[v] = i
    BY DEF SInv
  <2>. QED BY <2>1 DEF VersionAt
<1>2. ASSUME NEW v \in rows PROVE VersionAt(number[v]) = v
  <2>1. number[v] \in 1..Latest
    BY DEF SInv
  <2>. QED BY <2>1, <1>1 DEF SInv, NumbersDistinct
<1>. QED BY <1>1, <1>2

TheHistory == [i \in 1..Cardinality(rows) |-> content[VersionAt(i)]]

LEMMA HistoryIsSeq ==
  ASSUME IInv, SInv
  PROVE  Latest \in Nat /\ TheHistory \in [1..Latest -> Contents] /\ Len(TheHistory) = Latest
<1>1. Latest \in Nat
  BY FS_CardinalityType DEF SInv, Latest
<1>2. \A i \in 1..Latest : content[VersionAt(i)] \in Contents
  BY VersionNumbered DEF IInv, TypeOK
<1>3. TheHistory \in [1..Latest -> Contents]
  BY <1>2 DEF TheHistory, Latest
<1>4. TheHistory \in Seq(Contents)
  BY <1>1, <1>3, SeqDef
<1>. QED BY <1>1, <1>3, <1>4

\* the commit of an upload or a restore
LEMMA CommitExtends ==
  ASSUME IInv, SInv, SInv', NEW s \in Sessions, Commit(s), txn[s].op # "delete"
  PROVE  /\ TheHistory' = Append(TheHistory, txn[s].checksum)
         /\ content'[file'.blob] = txn[s].checksum
         /\ {number[v] : v \in deleted}' = {number[v] : v \in deleted}
<1> DEFINE t == txn[s]
<1>0. number \in [Versions -> 0..MaxNumber] /\ content \in [Versions \cup {Nil} -> Contents] /\ rows \subseteq Versions /\ deleted \subseteq rows
  BY DEF IInv, TypeOK
<1>1. /\ t.v \in Versions \ rows /\ t.checksum \in Contents
      /\ rows' = rows \cup {t.v} /\ deleted' = deleted
      /\ number' = [number EXCEPT ![t.v] = Latest + 1]
      /\ content' = [content EXCEPT ![t.v] = t.checksum]
      /\ file'.blob = t.v
      /\ Latest \in Nat /\ Latest' = Latest + 1
  BY CommitAdds
<1>2. number'[t.v] = Latest + 1 /\ \A v \in rows : number'[v] = number[v]
  BY <1>0, <1>1
<1>3. content'[t.v] = t.checksum /\ \A v \in rows : content'[v] = content[v]
  BY <1>0, <1>1
<1>4. {number'[v] : v \in deleted'} = {number[v] : v \in deleted}
  BY <1>0, <1>1, <1>2
<1>5. \A v, w \in rows' : number'[v] = number'[w] => v = w
  BY DEF SInv, NumbersDistinct
<1> DEFINE Then(i) == CHOOSE v \in rows' : number'[v] = i
           k == [i \in 1..Latest + 1 |-> content'[Then(i)]]
<1>6. ASSUME NEW v \in rows' PROVE Then(number'[v]) = v
  BY <1>5
<1>7. Then(Latest + 1) = t.v
  BY <1>1, <1>2, <1>6
<1>8. ASSUME NEW i \in 1..Latest PROVE Then(i) = VersionAt(i) /\ VersionAt(i) \in rows
  <2>1. VersionAt(i) \in rows /\ number[VersionAt(i)] = i
    BY VersionNumbered
  <2>2. VersionAt(i) \in rows' /\ number'[VersionAt(i)] = i
    BY <1>1, <1>2, <2>1
  <2>3. Then(number'[VersionAt(i)]) = VersionAt(i)
    BY <1>6, <2>2
  <2>. QED BY <2>1, <2>2, <2>3
<1>9. TheHistory' = k
  BY <1>1 DEF TheHistory, Latest, VersionAt
<1> HIDE DEF Then
<1>10. TheHistory \in [1..Latest -> Contents] /\ \A i \in 1..Latest : TheHistory[i] = content[VersionAt(i)]
  BY HistoryIsSeq DEF TheHistory, Latest
<1>11. \A i \in 1..Latest : k[i] = TheHistory[i]
  <2> TAKE i \in 1..Latest
  <2>1. k[i] = content'[Then(i)]
    BY <1>1
  <2>. QED BY <2>1, <1>3, <1>8, <1>10
<1>12. k[Latest + 1] = t.checksum
  BY <1>1, <1>3, <1>7
<1>13. k \in [1..Latest + 1 -> Contents]
  <2>1. ASSUME NEW i \in 1..Latest + 1 PROVE k[i] \in Contents
    <3>1. CASE i \in 1..Latest
      BY <1>10, <1>11, <3>1
    <3>2. CASE i = Latest + 1
      BY <1>1, <1>12, <3>2
    <3>. QED BY <1>1, <3>1, <3>2
  <2>. QED BY <2>1
<1> HIDE DEF k
<1>14. k = Append(TheHistory, t.checksum)
  BY <1>1, <1>10, <1>11, <1>12, <1>13, OneMoreIsAppend
<1>. QED BY <1>1, <1>3, <1>4, <1>9, <1>14

\* a new file has a history of one entry, a copied one an empty history
LEMMA InitRefines == Init => History!Init
<1> SUFFICES ASSUME Init PROVE History!Init
  OBVIOUS
<1>1. IInv /\ SInv
  BY InitIInv, InitSInv
<1>2. file.blob \in Versions \cup {Nil}
  BY <1>1 DEF IInv, TypeOK, FileRow
<1>3. PICK c \in Contents :
        /\ content = [b \in Versions \cup {Nil} |-> c]
        /\ \/ rows = {} /\ file = [blob |-> Nil, checksum |-> c, number |-> 1]
           \/ \E v \in Versions : rows = {v} /\ file = [blob |-> v, checksum |-> c, number |-> 1]
  BY DEF Init
<1>4. content[file.blob] = c /\ file.checksum = c
  BY <1>2, <1>3
<1>5. {number[v] : v \in deleted} = {}
  BY DEF Init
<1>6. /\ TheHistory \in {<<>>} \cup {<<d>> : d \in Contents}
      /\ TheHistory # <<>> => TheHistory[1] = c
  <2>1. TheHistory \in [1..Latest -> Contents] /\ Latest \in Nat
    BY <1>1, HistoryIsSeq
  <2>2. CASE rows = {}
    <3>1. Latest = 0 /\ 1..0 = {}
      BY <2>2, FS_EmptySet DEF Latest
    <3>2. TheHistory = <<>>
      BY <2>1, <3>1
    <3>. QED BY <3>2
  <2>3. CASE \E v \in Versions : rows = {v}
    <3>0. PICK v \in Versions : rows = {v}
      BY <2>3
    <3>a. Cardinality({v}) = 1
      BY FS_Singleton
    <3>1. Latest = 1 /\ 1..1 = {1}
      BY <3>0, <3>a DEF Latest
    <3>2. TheHistory[1] = content[VersionAt(1)] /\ VersionAt(1) \in Versions
      BY <1>1, <3>1, VersionNumbered DEF TheHistory, Latest, IInv, TypeOK
    <3>3. TheHistory[1] = c
      BY <1>3, <3>2
    <3>4. TheHistory = <<c>>
      BY <2>1, <3>1, <3>3
    <3>. QED BY <3>3, <3>4
  <2>. QED BY <1>3, <2>2, <2>3
<1>. QED BY <1>4, <1>5, <1>6 DEF History!Init, TheHistory

\* each commit is a step of VersionHistory, everything else a stutter
LEMMA NextRefines ==
  ASSUME IInv, SInv, SInv', [Next]_vars
  PROVE  [History!Next]_(History!vars)
<1>1. CASE UNCHANGED tables
  <2>1. UNCHANGED <<rows, number, deleted, content, file>>
    BY <1>1 DEF tables
  <2>. QED BY <2>1 DEF History!vars, VersionAt
<1>2. ASSUME NEW s \in Sessions, Commit(s), txn[s].op # "delete"
      PROVE  History!Next
  <2>1. /\ TheHistory' = Append(TheHistory, txn[s].checksum)
        /\ content'[file'.blob] = txn[s].checksum
        /\ {number[v] : v \in deleted}' = {number[v] : v \in deleted}
    BY <1>2, CommitExtends
  <2>2. file'.checksum = txn[s].checksum /\ txn[s].checksum \in Contents
    BY <1>2, CommitAdds
  <2>3. History!Extend(txn[s].checksum)
    BY <2>1, <2>2 DEF History!Extend, TheHistory
  <2>. QED BY <2>2, <2>3 DEF History!Next, History!Upload
<1>3. ASSUME NEW s \in Sessions, Commit(s), txn[s].op = "delete"
      PROVE  History!Next
  <2> DEFINE v == txn[s].v
  <2>1. deleted' = deleted \cup {v} /\ UNCHANGED <<rows, number, current, content, file>>
    BY <1>3 DEF Commit
  <2>2. v \in rows \ current
    BY <1>3 DEF IInv, Hiding, At, Commit
  <2>3. number[v] \in 1..Latest - 1
    <3>1. number[v] \in 1..Latest /\ number[v] # Latest
      BY <2>2 DEF SInv
    <3>. QED BY <3>1, HistoryIsSeq
  <2>4. {number'[w] : w \in deleted'} = {number[w] : w \in deleted} \cup {number[v]}
    BY <2>1
  <2>5. Len(TheHistory) = Latest
    BY HistoryIsSeq
  <2>6. TheHistory' = TheHistory
    BY <2>1 DEF TheHistory, VersionAt
  <2>7. History!Hide
    BY <2>1, <2>3, <2>4, <2>5, <2>6 DEF History!Hide, TheHistory
  <2>. QED BY <2>7 DEF History!Next
<1>4. CASE \E s \in Sessions : Commit(s)
  BY <1>2, <1>3, <1>4
<1>5. CASE Next /\ ~\E s \in Sessions : Commit(s)
  <2>1. PICK s \in Sessions : Serve(s) \/ Cancel(s)
    BY <1>5 DEF Next
  <2>2. UNCHANGED tables
    BY <1>5, <2>1 DEF Serve, Cancel, Select, FindFile, VerifyAccess, LoadVersion, ReadMax, Insert, Mark,
                      MarkLocked, LoadFile, SaveFile, CountVersions, HideVersion, Refuse
  <2>. QED BY <1>1, <2>2
<1>6. CASE UNCHANGED vars
  BY <1>1, <1>6 DEF vars, tables
<1>. QED BY <1>4, <1>5, <1>6

(* While uploads and restores of a file do not overlap, its versions are   *)
(* the history VersionHistory describes, of which the file serves the last *)
(* entry under its own checksum, however deletions overlap with them.      *)
THEOREM ImplementsHistory == Spec /\ []OneWriter => Implements
<1>1. Init => History!Init
  BY InitRefines
<1>2. IInv /\ SInv /\ (IInv /\ SInv)' /\ [Next]_vars => [History!Next]_(History!vars)
  BY NextRefines
<1>. QED BY <1>1, <1>2, SerialInvariance, PTL DEF Spec, Implements, History!Spec

-----------------------------------------------------------------------------
(***************************************************************************)
(* Uploads and restores that do overlap.  A number is read before the row  *)
(* that gets it is inserted, and the rows to clear before the new current  *)
(* one is: between the two, another request may commit.                    *)
(***************************************************************************)
Numbering(s) == txn[s].op # "delete" /\ txn[s].stage \in {"insert"} \cup Inserted
Marking(s) == txn[s].op # "delete" /\ txn[s].stage \in {"marking", "load", "save", "commit"}

Highest == Max({0} \cup {number[v] : v \in rows})

LEMMA HighestIsMax ==
  ASSUME IInv
  PROVE  /\ Highest \in 0..MaxNumber
         /\ \A v \in rows : number[v] <= Highest
         /\ Highest # 0 => \E v \in rows : number[v] = Highest
<1> DEFINE S == {0} \cup {number[v] : v \in rows}
<1>1. S \subseteq 0..MaxNumber /\ 0 \in S
  BY BoundAssumption DEF IInv, TypeOK
<1> HIDE DEF S
<1>2. PICK m \in S : \A y \in S : m >= y
  <2> DEFINE R == {p \in Nat \X Nat : p[1] < p[2]}
             T == {MaxNumber - y : y \in S}
  <2>1. \A x, y \in Nat : <<x, y>> \in R <=> x < y
    OBVIOUS
  <2>2. IsWellFoundedOn(R, Nat)
    BY NatLessThanWellFounded DEF OpToRel
  <2>3. T \subseteq Nat /\ T # {}
    BY <1>1, BoundAssumption
  <2> HIDE DEF R
  <2>4. PICK x \in T : \A y \in T : ~ (<<y, x>> \in R)
    <3> HIDE DEF T
    <3>. QED BY <2>2, <2>3, WFMin
  <2>5. PICK m \in S : x = MaxNumber - m
    BY <2>4
  <2>6. ASSUME NEW y \in S PROVE m >= y
    <3>1. MaxNumber - y \in T /\ x \in Nat /\ y \in 0..MaxNumber /\ m \in 0..MaxNumber
      BY <1>1, <2>3, <2>4, <2>5
    <3>a. MaxNumber - y \in Nat
      BY <3>1, <2>3
    <3>2. ~ (MaxNumber - y < x)
      BY <2>1, <2>4, <3>1, <3>a
    <3>. QED BY <2>5, <3>1, <3>2, BoundAssumption
  <2>. QED BY <2>6
<1>3. Max(S) \in S /\ \A y \in S : Max(S) >= y
  BY <1>2 DEF Max
<1>4. Highest \in S /\ \A y \in S : Highest >= y
  BY <1>3 DEF S, Highest
<1>5. Highest \in 0..MaxNumber
  BY <1>1, <1>4
<1>6. ASSUME NEW v \in rows PROVE number[v] <= Highest
  <2>1. number[v] \in S
    BY DEF S
  <2>. QED BY <1>1, <1>4, <1>5, <2>1
<1>7. Highest # 0 => \E v \in rows : number[v] = Highest
  BY <1>4 DEF S
<1>. QED BY <1>5, <1>6, <1>7

(* what a step other than a commit may change of what has been read         *)
LEMMA ReadsOn ==
  ASSUME IInv, NEW s \in Sessions, Serve(s) \/ Cancel(s), ~Commit(s)
  PROVE  /\ UNCHANGED tables
         /\ \A t \in Sessions \ {s} : txn'[t] = txn[t]
         /\ Numbering(s)' => \/ Numbering(s) /\ txn'[s].number = txn[s].number
                             \/ txn'[s].number = Highest + 1
         /\ Marking(s)' => \/ txn'[s].marked = current
                           \/ Marking(s) /\ txn'[s].marked \in {txn[s].marked, txn[s].marked \cap current}
<1>0. txn \in [Sessions -> Txn] /\ txn[s] \in Txn
  BY DEF IInv, TypeOK
<1>1. \A n : Go(s, n) => txn'[s] = n /\ \A t \in Sessions \ {s} : txn'[t] = txn[t]
  BY <1>0 DEF Go
<1>2. /\ UNCHANGED tables
      /\ \E n : Go(s, n)
  BY DEF Serve, FindFile, VerifyAccess, LoadVersion, ReadMax, Insert, Mark, MarkLocked, LoadFile,
         SaveFile, CountVersions, HideVersion, Refuse, Cancel, Select
<1> DEFINE m == txn'[s]
<1>3. CASE FindFile(s) \/ VerifyAccess(s) \/ LoadVersion(s) \/ CountVersions(s) \/ HideVersion(s)
           \/ Refuse(s) \/ Cancel(s)
  <2>1. m.op = "delete" \/ m.stage \in {"idle", "version", "max"}
    <3>1. CASE FindFile(s) \/ VerifyAccess(s) \/ Refuse(s) \/ Cancel(s)
      <4>1. CASE FindFile(s)
        BY <1>0, <4>1 DEF FindFile, Select, Go, Idle
      <4>2. CASE VerifyAccess(s)
        BY <1>0, <4>2 DEF VerifyAccess, Select, Go, Idle
      <4>3. CASE Refuse(s) \/ Cancel(s)
        <5>1. txn' = [txn EXCEPT ![s] = Idle]
          BY <4>3 DEF Refuse, Cancel, Select, Go
        <5>. QED BY <1>0, <5>1 DEF Idle
      <4>. QED BY <3>1, <4>1, <4>2, <4>3
    <3>2. CASE LoadVersion(s) \/ CountVersions(s) \/ HideVersion(s)
      BY <1>0, <3>2 DEF LoadVersion, CountVersions, HideVersion, Select, Go, Txn, At
    <3>. QED BY <1>3, <3>1, <3>2
  <2>. QED BY <1>1, <1>2, <2>1 DEF Numbering, Marking, Inserted
<1>4. CASE ReadMax(s)
  <2>1. m.stage = "insert" /\ m.number = Highest + 1
    BY <1>0, <1>4 DEF ReadMax, Highest, Select, Go, Txn
  <2>. QED BY <1>1, <1>2, <2>1 DEF Numbering, Marking
<1>5. CASE Insert(s) \/ Mark(s)
  <2>1. Numbering(s) /\ m.number = txn[s].number /\ (m.stage = "mark" \/ m.marked = current)
    <3>1. CASE Insert(s)
      <4>1. PICK v : Go(s, [txn[s] EXCEPT !.stage = "mark", !.v = v])
        BY <3>1 DEF Insert, Select
      <4>2. Numbering(s)
        BY <3>1 DEF Insert, At, Numbering
      <4>. QED BY <1>0, <4>1, <4>2 DEF Go, Txn
    <3>2. CASE Mark(s)
      BY <1>0, <3>2 DEF Mark, Select, Go, Txn, At, Numbering, Inserted
    <3>. QED BY <1>5, <3>1, <3>2
  <2>. QED BY <1>1, <1>2, <2>1 DEF Numbering, Marking
<1>6. CASE MarkLocked(s) \/ LoadFile(s) \/ SaveFile(s)
  <2>1. /\ Numbering(s) /\ m.number = txn[s].number
        /\ Marking(s) /\ m.marked \in {txn[s].marked, txn[s].marked \cap current}
    <3>1. Numbering(s) /\ Marking(s)
      BY <1>6 DEF MarkLocked, LoadFile, SaveFile, At, Numbering, Marking, Inserted
    <3>2. CASE MarkLocked(s)
      <4>1. PICK st : Go(s, [txn[s] EXCEPT !.stage = st, !.marked = Recheck(@)])
        BY <3>2 DEF MarkLocked, Select
      <4>. QED BY <1>0, <3>1, <4>1 DEF Go, Txn, Recheck
    <3>3. CASE LoadFile(s)
      BY <1>0, <3>1, <3>3 DEF LoadFile, Select, Go, Txn
    <3>4. CASE SaveFile(s)
      BY <1>0, <3>1, <3>4 DEF SaveFile, Select, Go, Txn
    <3>. QED BY <1>6, <3>1, <3>2, <3>3, <3>4
  <2>. QED BY <1>1, <1>2, <2>1 DEF Numbering, Marking
<1>. QED BY <1>3, <1>4, <1>5, <1>6 DEF Serve

(* what the commit of an upload or a restore adds; that of a deletion       *)
(* changes neither rows, numbers nor what is current                        *)
Adds(s) ==
  LET t == txn[s] IN
  /\ Numbering(s) /\ Marking(s)
  /\ t.v \in Versions \ rows /\ t.number \in 1..MaxNumber
  /\ rows' = rows \cup {t.v}
  /\ number'[t.v] = t.number /\ \A w \in rows : number'[w] = number[w]
  /\ current' = (current \ t.marked) \cup {t.v}

LEMMA CommitsOn ==
  ASSUME IInv, NEW s \in Sessions, Commit(s)
  PROVE  /\ \A t \in Sessions \ {s} : txn'[t] = txn[t]
         /\ ~Numbering(s)' /\ ~Marking(s)'
         /\ Adds(s) \/ UNCHANGED <<rows, number, current>>
<1>0. /\ TypeOK /\ txn \in [Sessions -> Txn] /\ txn[s] \in Txn /\ txn[s].stage = "commit"
      /\ txn' = [txn EXCEPT ![s] = Idle]
  BY DEF IInv, TypeOK, Commit, Go
<1>1. txn'[s] = Idle /\ \A t \in Sessions \ {s} : txn'[t] = txn[t]
  BY <1>0
<1>2. ~Numbering(s)' /\ ~Marking(s)'
  BY <1>1 DEF Numbering, Marking, Idle, Inserted
<1>3. ASSUME txn[s].op # "delete" PROVE Adds(s)
  <2>1. Numbering(s) /\ Marking(s) /\ Adding(s)
    BY <1>0, <1>3 DEF Numbering, Marking, Adding, Inserted
  <2>2. txn[s].v \in Versions \ rows /\ txn[s].number \in 1..MaxNumber
    BY <1>3, <2>1 DEF IInv, Prepared, Numbering
  <2>3. /\ rows' = rows \cup {txn[s].v}
        /\ number' = [number EXCEPT ![txn[s].v] = txn[s].number]
        /\ current' = (current \ txn[s].marked) \cup {txn[s].v}
    BY <1>3 DEF Commit
  <2>4. number \in [Versions -> 0..MaxNumber] /\ rows \subseteq Versions
    BY <1>0 DEF TypeOK
  <2>. QED BY <2>1, <2>2, <2>3, <2>4 DEF Adds
<1>4. txn[s].op = "delete" => UNCHANGED <<rows, number, current>>
  BY DEF Commit
<1>. QED BY <1>1, <1>2, <1>3, <1>4

(***************************************************************************)
(* No number is left out.                                                  *)
(***************************************************************************)
NoGaps == \A v \in rows : \A n \in 1..number[v] : \E w \in rows : number[w] = n

Continues == \A s \in Sessions : Numbering(s) =>
               \A n \in 1..(txn[s].number - 1) : \E w \in rows : number[w] = n

LEMMA NextContinues == IInv /\ NoGaps /\ Continues /\ [Next]_vars => NoGaps' /\ Continues'
<1> SUFFICES ASSUME IInv, NoGaps, Continues, [Next]_vars PROVE NoGaps' /\ Continues'
  OBVIOUS
<1>0. /\ number \in [Versions -> 0..MaxNumber] /\ rows \subseteq Versions
      /\ \A t \in Sessions : txn[t] \in Txn
  BY DEF IInv, TypeOK
<1>1. ASSUME NEW s \in Sessions, Commit(s) PROVE NoGaps' /\ Continues'
  <2>1. /\ \A t \in Sessions \ {s} : txn'[t] = txn[t]
        /\ ~Numbering(s)' /\ (Adds(s) \/ UNCHANGED <<rows, number, current>>)
    BY <1>1, CommitsOn
  <2>2. \A n : (\E w \in rows : number[w] = n) => \E w \in rows' : number'[w] = n
    BY <2>1 DEF Adds
  <2>3. Continues'
    BY <2>1, <2>2 DEF Continues, Numbering
  <2>4. CASE Adds(s)
    <3>1. ASSUME NEW v \in rows', NEW n \in 1..number'[v] PROVE \E w \in rows' : number'[w] = n
      <4>1. CASE v \in rows
        <5>1. number'[v] = number[v]
          BY <2>4, <4>1 DEF Adds
        <5>. QED BY <2>2, <3>1, <4>1, <5>1 DEF NoGaps
      <4>2. CASE v \notin rows
        <5>1. /\ v = txn[s].v /\ number'[v] = txn[s].number /\ txn[s].number \in 1..MaxNumber
              /\ Numbering(s)
          BY <2>4, <3>1, <4>2 DEF Adds
        <5>2. CASE n = txn[s].number
          BY <3>1, <5>1, <5>2
        <5>3. CASE n # txn[s].number
          <6>1. n \in 1..(txn[s].number - 1)
            BY <3>1, <5>1, <5>3, BoundAssumption
          <6>. QED BY <2>2, <5>1, <6>1 DEF Continues
        <5>. QED BY <5>2, <5>3
      <4>. QED BY <4>1, <4>2
    <3>. QED BY <2>3, <3>1 DEF NoGaps
  <2>5. CASE UNCHANGED <<rows, number, current>>
    BY <2>3, <2>5 DEF NoGaps
  <2>. QED BY <2>1, <2>4, <2>5
<1>2. ASSUME NEW s \in Sessions, Serve(s) \/ Cancel(s), ~Commit(s) PROVE NoGaps' /\ Continues'
  <2>1. /\ UNCHANGED <<rows, number>>
        /\ \A t \in Sessions \ {s} : txn'[t] = txn[t]
        /\ Numbering(s)' => \/ Numbering(s) /\ txn'[s].number = txn[s].number
                            \/ txn'[s].number = Highest + 1
    BY <1>2, ReadsOn DEF tables
  <2>2. \A n \in 1..Highest : \E w \in rows : number[w] = n
    BY HighestIsMax DEF NoGaps
  <2>3. (Highest + 1) - 1 = Highest
    BY HighestIsMax, BoundAssumption
  <2>4. Numbering(s)' => \A n \in 1..(txn'[s].number - 1) : \E w \in rows : number[w] = n
    BY <2>1, <2>2, <2>3 DEF Continues
  <2>5. \A t \in Sessions \ {s} : Numbering(t)' <=> Numbering(t)
    BY <2>1 DEF Numbering
  <2>. QED BY <2>1, <2>4, <2>5 DEF NoGaps, Continues
<1>3. CASE UNCHANGED vars
  BY <1>3 DEF vars, NoGaps, Continues, Numbering
<1>. QED BY <1>1, <1>2, <1>3 DEF Next, Serve

(***************************************************************************)
(* However uploads, restores and deletions of a file overlap, the numbers  *)
(* of its versions have no gaps: get_max_version_number counts deleted     *)
(* rows too, and a number that two requests have read is only used twice.  *)
(***************************************************************************)
THEOREM NumbersHaveNoGaps == Spec => []NoGaps
<1>1. Init => NoGaps /\ Continues
  <2> SUFFICES ASSUME Init PROVE NoGaps /\ Continues
    OBVIOUS
  <2>1. \A s \in Sessions : ~Numbering(s)
    BY DEF Init, Numbering, Idle, Inserted
  <2>2. rows \subseteq Versions
    BY InitIInv DEF IInv, TypeOK
  <2>3. \A v \in rows : number[v] = 1
    BY <2>2 DEF Init
  <2>4. NoGaps
    BY <2>3 DEF NoGaps
  <2>. QED BY <2>1, <2>4 DEF Continues
<1>. QED BY <1>1, InitIInv, NextIInv, NextContinues, PTL DEF Spec

(***************************************************************************)
(* How far uniqueness can be lost.  Each of the versions that share a      *)
(* number, or are current together, is charged to a session of its own,    *)
(* and a session that is charged for one will not add another to them.     *)
(***************************************************************************)
Numbered(n) == {v \in rows : number[v] = n}
Holding(n) == {s \in Sessions : Numbering(s) /\ txn[s].number = n}

Charged(n) == Injection(Numbered(n), Sessions \ Holding(n)) # {}

\* a session charged for a current version will clear it with its next commit
Clears(s, v) == Marking(s) => v \in txn[s].marked
CurrentCharged == \E g \in Injection(current, Sessions) : \A v \in current : Clears(g[v], v)

LEMMA ChargeOneMore ==
  ASSUME NEW S, NEW T, NEW g \in Injection(S, T), NEW s \in T, \A a \in S : g[a] # s, NEW v, v \notin S
  PROVE  [a \in S \cup {v} |-> IF a = v THEN s ELSE g[a]] \in Injection(S \cup {v}, T)
BY DEF Injection, IsInjective

LEMMA InjectionInto ==
  ASSUME NEW S, NEW T, NEW U, NEW g \in Injection(S, T), \A a \in S : g[a] \in U
  PROVE  g \in Injection(S, U)
BY DEF Injection, IsInjective

LEMMA NothingCharged == ASSUME NEW T PROVE Injection({}, T) # {}
<1>1. [a \in {} |-> a] \in Injection({}, T)
  BY DEF Injection, IsInjective
<1>. QED BY <1>1

LEMMA NextCharged ==
  ASSUME IInv, [Next]_vars, NEW n \in 1..MaxNumber, Charged(n)
  PROVE  Charged(n)'
<1>0. /\ number \in [Versions -> 0..MaxNumber] /\ rows \subseteq Versions
      /\ \A t \in Sessions : txn[t] \in Txn
  BY DEF IInv, TypeOK
<1>1. PICK g \in Injection(Numbered(n), Sessions \ Holding(n)) : TRUE
  BY DEF Charged
<1>2. g \in [Numbered(n) -> Sessions \ Holding(n)]
  BY <1>1 DEF Injection
<1>3. ASSUME NEW s \in Sessions, Commit(s) PROVE Charged(n)'
  <2>1. /\ \A t \in Sessions \ {s} : txn'[t] = txn[t]
        /\ ~Numbering(s)' /\ (Adds(s) \/ UNCHANGED <<rows, number, current>>)
    BY <1>3, CommitsOn
  <2>2. Holding(n)' = Holding(n) \ {s}
    BY <2>1 DEF Holding, Numbering
  <2>3. CASE Adds(s) /\ txn[s].number = n
    <3>1. PICK v : v = txn[s].v
      OBVIOUS
    <3>2. Numbered(n)' = Numbered(n) \cup {v} /\ v \notin Numbered(n) /\ s \in Holding(n)
      BY <2>3, <3>1 DEF Adds, Numbered, Holding
    <3>3. g \in Injection(Numbered(n), Sessions \ Holding(n)') /\ \A a \in Numbered(n) : g[a] # s
      <4>1. \A a \in Numbered(n) : g[a] \in Sessions \ Holding(n)' /\ g[a] # s
        BY <1>2, <2>2, <3>2
      <4>. QED BY <1>1, <4>1, InjectionInto
    <3>4. s \in Sessions \ Holding(n)'
      BY <2>2
    <3>5. Injection(Numbered(n) \cup {v}, Sessions \ Holding(n)') # {}
      BY <3>2, <3>3, <3>4, ChargeOneMore
    <3>. QED BY <3>2, <3>5 DEF Charged
  <2>4. CASE ~(Adds(s) /\ txn[s].number = n)
    <3>1. Numbered(n)' = Numbered(n)
      BY <2>1, <2>4 DEF Adds, Numbered
    <3>2. \A a \in Numbered(n) : g[a] \in Sessions \ Holding(n)'
      BY <1>2, <2>2
    <3>3. g \in Injection(Numbered(n), Sessions \ Holding(n)')
      BY <1>1, <3>2, InjectionInto
    <3>. QED BY <3>1, <3>3 DEF Charged
  <2>. QED BY <2>3, <2>4
<1>4. ASSUME NEW s \in Sessions, Serve(s) \/ Cancel(s), ~Commit(s) PROVE Charged(n)'
  <2>1. /\ UNCHANGED <<rows, number>>
        /\ \A t \in Sessions \ {s} : txn'[t] = txn[t]
        /\ Numbering(s)' => \/ Numbering(s) /\ txn'[s].number = txn[s].number
                            \/ txn'[s].number = Highest + 1
    BY <1>4, ReadsOn DEF tables
  <2>2. Numbered(n)' = Numbered(n)
    BY <2>1 DEF Numbered
  <2>3. \A t \in Sessions \ {s} : t \in Holding(n)' <=> t \in Holding(n)
    BY <2>1 DEF Holding, Numbering
  <2>4. CASE Numbering(s)' /\ n = Highest + 1
    <3>1. Numbered(n) = {}
      <4> SUFFICES ASSUME NEW v \in Numbered(n) PROVE FALSE
        OBVIOUS
      <4>1. number[v] = Highest + 1 /\ number[v] <= Highest /\ Highest \in 0..MaxNumber
        BY <2>4, HighestIsMax DEF Numbered
      <4>. QED BY <4>1, BoundAssumption
    <3>. QED BY <2>2, <3>1, NothingCharged DEF Charged
  <2>5. CASE ~(Numbering(s)' /\ n = Highest + 1)
    <3>1. s \in Holding(n)' => s \in Holding(n)
      BY <2>1, <2>5 DEF Holding
    <3>2. \A a \in Numbered(n) : g[a] \in Sessions \ Holding(n)'
      <4>1. Holding(n)' \subseteq Holding(n)
        <5>1. Holding(n)' \subseteq Sessions
          BY DEF Holding
        <5>. QED BY <2>3, <3>1, <5>1
      <4>. QED BY <1>2, <4>1
    <3>3. g \in Injection(Numbered(n), Sessions \ Holding(n)')
      BY <1>1, <3>2, InjectionInto
    <3>. QED BY <2>2, <3>3 DEF Charged
  <2>. QED BY <2>4, <2>5
<1>5. CASE UNCHANGED vars
  BY <1>5 DEF vars, Charged, Numbered, Holding, Numbering
<1>. QED BY <1>3, <1>4, <1>5 DEF Next, Serve

LEMMA InitCharged ==
  ASSUME Init, Sessions # {}
  PROVE  (\A n \in 1..MaxNumber : Charged(n)) /\ CurrentCharged
<1>1. PICK s \in Sessions : TRUE
  OBVIOUS
<1>2. (\A v, w \in rows : v = w) /\ current = rows
  BY DEF Init
<1>3. \A t \in Sessions : ~Numbering(t) /\ ~Marking(t)
  BY DEF Init, Numbering, Marking, Idle, Inserted
<1>4. ASSUME NEW n \in 1..MaxNumber PROVE Charged(n)
  <2>1. Holding(n) = {}
    BY <1>3 DEF Holding
  <2>2. [v \in Numbered(n) |-> s] \in Injection(Numbered(n), Sessions \ Holding(n))
    BY <1>2, <2>1 DEF Numbered, Injection, IsInjective
  <2>. QED BY <2>2 DEF Charged
<1>5. [v \in current |-> s] \in Injection(current, Sessions)
  BY <1>2 DEF Injection, IsInjective
<1>6. CurrentCharged
  BY <1>3, <1>5 DEF CurrentCharged, Clears
<1>. QED BY <1>4, <1>6

LEMMA NextCurrentCharged ==
  ASSUME IInv, [Next]_vars, CurrentCharged
  PROVE  CurrentCharged'
<1>1. PICK g \in Injection(current, Sessions) : \A v \in current : Clears(g[v], v)
  BY DEF CurrentCharged
<1>2. g \in [current -> Sessions]
  BY <1>1 DEF Injection
<1>3. ASSUME NEW s \in Sessions, Commit(s) PROVE CurrentCharged'
  <2>1. /\ \A t \in Sessions \ {s} : txn'[t] = txn[t]
        /\ ~Marking(s)' /\ (Adds(s) \/ UNCHANGED <<rows, number, current>>)
    BY <1>3, CommitsOn
  <2>2. \A v : Clears(s, v)'
    BY <2>1 DEF Clears
  <2>3. \A t \in Sessions, v \in current : Clears(t, v) => Clears(t, v)'
    BY <2>1, <2>2 DEF Clears, Marking
  <2>4. CASE Adds(s)
    <3> DEFINE K == current \ txn[s].marked
    <3>1. PICK v : v = txn[s].v
      OBVIOUS
    <3>2. current' = K \cup {v} /\ v \notin current /\ Marking(s)
      BY <2>4, <3>1 DEF Adds, IInv, TypeOK
    <3>3. \A a \in K : a \in current /\ g[a] # s
      BY <1>1, <3>2 DEF Clears
    <3> HIDE DEF K
    <3> DEFINE k == [a \in K |-> g[a]]
    <3>4. k \in Injection(K, Sessions) /\ \A a \in K : k[a] # s /\ k[a] = g[a]
      BY <1>1, <1>2, <3>3 DEF Injection, IsInjective
    <3> HIDE DEF k
    <3> DEFINE h == [a \in K \cup {v} |-> IF a = v THEN s ELSE k[a]]
    <3>5. h \in Injection(K \cup {v}, Sessions)
      BY <3>2, <3>3, <3>4, ChargeOneMore
    <3>6. \A a \in K \cup {v} : h[a] = IF a = v THEN s ELSE g[a]
      BY <3>4
    <3> HIDE DEF h
    <3>7. PICK f \in Injection(K \cup {v}, Sessions) : \A a \in K \cup {v} : f[a] = IF a = v THEN s ELSE g[a]
      BY <3>5, <3>6
    <3>8. \A a \in K \cup {v} : Clears(f[a], a)'
      <4> SUFFICES ASSUME NEW a \in K \cup {v} PROVE Clears(f[a], a)'
        OBVIOUS
      <4>1. CASE a = v
        BY <2>2, <3>7, <4>1
      <4>2. CASE a # v
        <5>1. a \in current /\ f[a] = g[a] /\ g[a] \in Sessions /\ Clears(g[a], a)
          BY <1>1, <1>2, <3>3, <3>7, <4>2
        <5>2. PICK t \in Sessions : t = f[a]
          BY <5>1
        <5>. QED BY <2>3, <5>1, <5>2
      <4>. QED BY <4>1, <4>2
    <3>. QED BY <3>2, <3>7, <3>8 DEF CurrentCharged
  <2>5. CASE UNCHANGED <<rows, number, current>>
    <3>1. \A v \in current : Clears(g[v], v)'
      BY <1>1, <1>2, <2>3
    <3>. QED BY <1>1, <2>5, <3>1 DEF CurrentCharged
  <2>. QED BY <2>1, <2>4, <2>5
<1>4. ASSUME NEW s \in Sessions, Serve(s) \/ Cancel(s), ~Commit(s) PROVE CurrentCharged'
  <2>1. /\ UNCHANGED current
        /\ \A t \in Sessions \ {s} : txn'[t] = txn[t]
        /\ Marking(s)' => \/ txn'[s].marked = current
                          \/ Marking(s) /\ txn'[s].marked \in {txn[s].marked, txn[s].marked \cap current}
    BY <1>4, ReadsOn DEF tables
  <2>2. \A t \in Sessions, v \in current : Clears(t, v) => Clears(t, v)'
    <3> SUFFICES ASSUME NEW t \in Sessions, NEW v \in current, Clears(t, v) PROVE Clears(t, v)'
      OBVIOUS
    <3>1. CASE t = s
      BY <2>1, <3>1 DEF Clears
    <3>2. CASE t # s
      BY <2>1, <3>2 DEF Clears, Marking
    <3>. QED BY <3>1, <3>2
  <2>3. \A v \in current : Clears(g[v], v)'
    BY <1>1, <1>2, <2>2
  <2>. QED BY <1>1, <2>1, <2>3 DEF CurrentCharged
<1>5. CASE UNCHANGED vars
  BY <1>5 DEF vars, CurrentCharged, Clears, Marking
<1>. QED BY <1>3, <1>4, <1>5 DEF Next, Serve

(***************************************************************************)
(* However many uploads and restores of a file overlap, at most as many of *)
(* its versions share a number as requests are served at the same time:    *)
(* those that read the maximum before the first of them committed.         *)
(***************************************************************************)
NumbersShared == \A n \in 1..MaxNumber : Cardinality(Numbered(n)) <= Cardinality(Sessions)

THEOREM NumbersSharedBySessions ==
  ASSUME Sessions # {}, IsFiniteSet(Sessions)
  PROVE  Spec => []NumbersShared
<1> DEFINE AllCharged == \A n \in 1..MaxNumber : Charged(n)
<1>1. Init => IInv /\ AllCharged
  BY InitIInv, InitCharged
<1>2. IInv /\ AllCharged /\ [Next]_vars => (IInv /\ AllCharged)'
  <2> SUFFICES ASSUME IInv, AllCharged, [Next]_vars PROVE IInv' /\ AllCharged'
    OBVIOUS
  <2>1. IInv'
    BY NextIInv
  <2>2. \A n \in 1..MaxNumber : Charged(n)'
    BY NextCharged
  <2>. QED BY <2>1, <2>2
<1>3. IInv /\ AllCharged => NumbersShared
  <2> SUFFICES ASSUME AllCharged, NEW n \in 1..MaxNumber
               PROVE  Cardinality(Numbered(n)) <= Cardinality(Sessions)
    BY DEF NumbersShared
  <2>1. PICK g \in Injection(Numbered(n), Sessions \ Holding(n)) : TRUE
    BY DEF Charged
  <2>2. g \in Injection(Numbered(n), Sessions)
    BY <2>1 DEF Injection
  <2>. QED BY <2>2, FS_Injection
<1> HIDE DEF AllCharged
<1>. QED BY <1>1, <1>2, <1>3, PTL DEF Spec

(***************************************************************************)
(* Nor are more versions current together than requests are served at the  *)
(* same time.  A request that commits a second version has begun its       *)
(* set_current after the commit of its first, and clears it.               *)
(***************************************************************************)
CurrentShared == Cardinality(current) <= Cardinality(Sessions)

THEOREM CurrentSharedBySessions ==
  ASSUME Sessions # {}, IsFiniteSet(Sessions)
  PROVE  Spec => []CurrentShared
<1>1. Init => IInv /\ CurrentCharged
  BY InitIInv, InitCharged
<1>2. IInv /\ CurrentCharged /\ [Next]_vars => (IInv /\ CurrentCharged)'
  BY NextIInv, NextCurrentCharged
<1>3. CurrentCharged => CurrentShared
  BY FS_Injection DEF CurrentCharged, CurrentShared
<1>. QED BY <1>1, <1>2, <1>3, PTL DEF Spec

(***************************************************************************)
(* What it takes for them to be unique.                                    *)
(***************************************************************************)
OneMarking == \A s, t \in Sessions : Marking(s) /\ Marking(t) => s = t
OneNumbering == \A s, t \in Sessions : Numbering(s) /\ Numbering(t) => s = t

MInv ==
  /\ \A v, w \in current : v = w
  /\ \A s \in Sessions : Marking(s) => current \subseteq txn[s].marked

NInv ==
  /\ NumbersDistinct
  /\ \A s \in Sessions : Numbering(s) => \A v \in rows : number[v] < txn[s].number

LEMMA InitUnique == Init => MInv /\ NInv
<1> SUFFICES ASSUME Init PROVE MInv /\ NInv
  OBVIOUS
<1>1. \A s \in Sessions : ~Numbering(s) /\ ~Marking(s)
  BY DEF Init, Numbering, Marking, Idle, Inserted
<1>2. current = rows /\ \A v, w \in rows : v = w
  BY DEF Init
<1>. QED BY <1>1, <1>2 DEF MInv, NInv, NumbersDistinct

LEMMA NextMInv == IInv /\ MInv /\ OneMarking /\ [Next]_vars => MInv'
<1> SUFFICES ASSUME IInv, MInv, OneMarking, [Next]_vars PROVE MInv'
  OBVIOUS
<1>1. ASSUME NEW s \in Sessions, Commit(s) PROVE MInv'
  <2>1. /\ \A t \in Sessions \ {s} : txn'[t] = txn[t]
        /\ ~Marking(s)' /\ (Adds(s) \/ UNCHANGED <<rows, number, current>>)
    BY <1>1, CommitsOn
  <2>2. \A t \in Sessions \ {s} : Marking(t)' => Marking(t)
    BY <2>1 DEF Marking
  <2>3. CASE Adds(s)
    <3>1. current' = {txn[s].v}
      BY <2>3 DEF Adds, MInv
    <3>2. \A t \in Sessions : ~Marking(t)'
      BY <2>1, <2>2, <2>3 DEF Adds, OneMarking
    <3>. QED BY <3>1, <3>2 DEF MInv
  <2>4. CASE UNCHANGED <<rows, number, current>>
    BY <2>1, <2>2, <2>4 DEF MInv
  <2>. QED BY <2>1, <2>3, <2>4
<1>2. ASSUME NEW s \in Sessions, Serve(s) \/ Cancel(s), ~Commit(s) PROVE MInv'
  <2>1. /\ UNCHANGED current
        /\ \A t \in Sessions \ {s} : txn'[t] = txn[t]
        /\ Marking(s)' => \/ txn'[s].marked = current
                          \/ Marking(s) /\ txn'[s].marked \in {txn[s].marked, txn[s].marked \cap current}
    BY <1>2, ReadsOn DEF tables
  <2>2. \A t \in Sessions \ {s} : Marking(t)' => Marking(t)
    BY <2>1 DEF Marking
  <2>3. Marking(s)' => current \subseteq txn'[s].marked
    BY <2>1 DEF MInv
  <2>. QED BY <2>1, <2>2, <2>3 DEF MInv
<1>3. CASE UNCHANGED vars
  BY <1>3 DEF vars, MInv, Marking
<1>. QED BY <1>1, <1>2, <1>3 DEF Next, Serve

LEMMA NextNInv == IInv /\ NInv /\ OneNumbering /\ [Next]_vars => NInv'
<1> SUFFICES ASSUME IInv, NInv, OneNumbering, [Next]_vars PROVE NInv'
  OBVIOUS
<1>0. number \in [Versions -> 0..MaxNumber] /\ rows \subseteq Versions
  BY DEF IInv, TypeOK
<1>1. ASSUME NEW s \in Sessions, Commit(s) PROVE NInv'
  <2>1. /\ \A t \in Sessions \ {s} : txn'[t] = txn[t]
        /\ ~Numbering(s)' /\ (Adds(s) \/ UNCHANGED <<rows, number, current>>)
    BY <1>1, CommitsOn
  <2>2. \A t \in Sessions \ {s} : Numbering(t)' => Numbering(t)
    BY <2>1 DEF Numbering
  <2>3. CASE Adds(s)
    <3>1. \A v \in rows : number[v] < txn[s].number
      BY <2>3 DEF Adds, NInv
    <3>2. ASSUME NEW v \in rows', NEW w \in rows', number'[v] = number'[w] PROVE v = w
      <4>1. \A u \in rows : number'[u] = number[u] /\ number[u] # txn[s].number
        BY <1>0, <2>3, <3>1, BoundAssumption DEF Adds
      <4>2. \A u \in rows' : u \in rows \/ (u = txn[s].v /\ number'[u] = txn[s].number)
        BY <2>3 DEF Adds
      <4>. QED BY <3>2, <4>1, <4>2 DEF NInv, NumbersDistinct
    <3>3. \A t \in Sessions : ~Numbering(t)'
      BY <2>1, <2>2, <2>3 DEF Adds, OneNumbering
    <3>. QED BY <3>2, <3>3 DEF NInv, NumbersDistinct
  <2>4. CASE UNCHANGED <<rows, number, current>>
    BY <2>1, <2>2, <2>4 DEF NInv, NumbersDistinct
  <2>. QED BY <2>1, <2>3, <2>4
<1>2. ASSUME NEW s \in Sessions, Serve(s) \/ Cancel(s), ~Commit(s) PROVE NInv'
  <2>1. /\ UNCHANGED <<rows, number>>
        /\ \A t \in Sessions \ {s} : txn'[t] = txn[t]
        /\ Numbering(s)' => \/ Numbering(s) /\ txn'[s].number = txn[s].number
                            \/ txn'[s].number = Highest + 1
    BY <1>2, ReadsOn DEF tables
  <2>2. \A t \in Sessions \ {s} : Numbering(t)' => Numbering(t)
    BY <2>1 DEF Numbering
  <2>3. \A v \in rows : number[v] < Highest + 1
    <3>1. \A v \in rows : number[v] \in 0..MaxNumber /\ number[v] <= Highest /\ Highest \in 0..MaxNumber
      BY <1>0, HighestIsMax
    <3>. QED BY <3>1, BoundAssumption
  <2>4. Numbering(s)' => \A v \in rows : number[v] < txn'[s].number
    BY <2>1, <2>3 DEF NInv
  <2>. QED BY <2>1, <2>2, <2>4 DEF NInv, NumbersDistinct
<1>3. CASE UNCHANGED vars
  BY <1>3 DEF vars, NInv, NumbersDistinct, Numbering
<1>. QED BY <1>1, <1>2, <1>3 DEF Next, Serve

(* While no two uploads or restores of a file are between the UPDATE of    *)
(* set_current and their commit, at most one version is current.           *)
THEOREM OneCurrentVersion == Spec /\ []OneMarking => []OneCurrent
<1>1. MInv => OneCurrent
  <2> SUFFICES ASSUME MInv PROVE OneCurrent
    OBVIOUS
  <2>1. CASE current = {}
    BY <2>1, FS_EmptySet DEF OneCurrent
  <2>2. CASE current # {}
    <3>1. PICK v : current = {v}
      BY <2>2 DEF MInv
    <3>2. Cardinality({v}) = 1
      BY FS_Singleton
    <3>. QED BY <3>1, <3>2 DEF OneCurrent
  <2>. QED BY <2>1, <2>2
<1>. QED BY <1>1, InitIInv, InitUnique, NextIInv, NextMInv, PTL DEF Spec

(* While no two uploads or restores of a file are between reading the      *)
(* maximum and their commit, no two versions get the same number.          *)
THEOREM NumbersAreDistinct == Spec /\ []OneNumbering => []NumbersDistinct
<1>1. NInv => NumbersDistinct
  BY DEF NInv
<1>. QED BY <1>1, InitIInv, InitUnique, NextIInv, NextNInv, PTL DEF Spec
==============================================================================
