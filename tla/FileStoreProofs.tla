--------------------------- MODULE FileStoreProofs ---------------------------
(***************************************************************************)
(* FileStore for any number of files, blobs and overlapping requests, and  *)
(* for every fault: what unlinking a blob beside the transaction can reach.*)
(***************************************************************************)
EXTENDS FileStore, TLAPS

(* where a blob can be, or will be                                          *)
There == stored \cup hollow \cup {c[2] : c \in copying}

(* the file serves the blob, or one of its versions does                    *)
Owns(f, b) == blob[f] = b \/ <<f, b>> \in versions

Writing == {"upload", "copy", "revert"}
Unlinking == {"delete", "purge", "empty"}

(* the blobs it has loaded the names of                                     *)
Marked(r) == r.old \cup {v[2] : v \in r.left}

(* what the stage of a request says about the rest of it                    *)
Shape(r) ==
  /\ r.new => r.op \in {"upload", "copy"} /\ r.stage \in {"version", "commit"}
  /\ r.op = "copy" /\ r.stage = "commit" => r.new
  /\ r.stage \in {"insert", "version", "cleanup"} => r.op \in Writing /\ r.b # Nil
  /\ r.stage = "find" => r.op \in Writing /\ (r.op = "upload" => r.b # Nil)
  /\ r.stage = "commit" /\ r.op \in Writing => r.b # Nil
  /\ r.stage = "write" => r.op \notin Writing
  /\ r.stage = "unlink" => r.op \in Unlinking
  /\ r.op \in Writing => \A f, g \in r.F : f = g
  /\ r.held \subseteq r.F
  /\ r.held # {} => r.stage = "commit" \/ r.op \in Unlinking
  /\ r.stage = "unlink" => r.held = Reached(r)
  /\ r.stage = "commit" => r.held = r.F
  /\ r.left # {} => r.op = "empty" /\ r.stage # "commit"

(***************************************************************************)
(* What r, the request of s, has to be, when D are the doomed files and T  *)
(* the blobs there are: a row it inserts is nobody else's, the rows it has *)
(* written are still there and nobody else has written them, the blob it   *)
(* creates is its own until it commits, and the blobs it deletes belong to *)
(* files whose deletion was asked for.                                     *)
(***************************************************************************)
Apart(s, r) ==
  \A t \in Sessions \ {s} :
    /\ r.new \/ req[t].new => r.F \cap req[t].F = {}
    /\ r.held \cap req[t].held = {}
    /\ r.b # Nil => r.b # req[t].b /\ r.b \notin Marked(req[t])
    /\ req[t].b \notin Marked(r)

OwnRows(r) ==
  /\ r.new => r.F \cap Rows = {}
  /\ r.op \notin {"purge", "empty"} /\ ~r.new => r.held \subseteq Rows

OwnBlob(r, T) ==
  r.b # Nil => r.b \in T /\ r.b \notin Marked(r) /\ \A f \in Files : ~Owns(f, r.b)

Condemned(r, D) ==
  /\ r.op \in Deleting \cup {"restore"} => r.F \subseteq D
  /\ r.op \notin {"copy", "revert"} => \A b \in Marked(r), f \in Files : Owns(f, b) => f \in D

Fits(s, r, D, T) ==
  /\ Shape(r) /\ Apart(s, r) /\ OwnRows(r) /\ OwnBlob(r, T) /\ Condemned(r, D)

(* no two files share a blob                                                *)
OneOwner == \A b \in Blobs, f, g \in Files : Owns(f, b) /\ Owns(g, b) => f = g

IInv ==
  /\ TypeOK
  /\ \A s \in Sessions : Fits(s, req[s], doomed, There)
  /\ OneOwner
  /\ trashed \subseteq doomed
  /\ VersionsHaveFile
  /\ UntouchedHaveContent

-----------------------------------------------------------------------------
LEMMA IdleFields ==
  /\ Idle \in Request
  /\ Idle.stage = "idle" /\ Idle.F = {} /\ Idle.p = Nil /\ Idle.b = Nil
  /\ Idle.old = {} /\ Idle.new = FALSE /\ Idle.held = {} /\ Idle.left = {}
  /\ Marked(Idle) = {}
BY OpsAssumption DEF Idle, Request, Stages, Marked

(* the names are names of blobs, and Nil is none                            *)
LEMMA MarkedBlobs ==
  ASSUME NEW r \in Request
  PROVE  Marked(r) \in SUBSET Blobs /\ Nil \notin Marked(r)
<1>1. \A v \in r.left : v[2] \in Blobs
  BY DEF Request
<1>. QED BY <1>1, NilAssumption DEF Marked, Request

(* a request that is over asks for nothing                                  *)
LEMMA IdleFits ==
  ASSUME TypeOK, NEW s \in Sessions, NEW D, NEW T
  PROVE  Fits(s, Idle, D, T)
<1>1. Apart(s, Idle)
  <2>1. \A t \in Sessions : req[t] \in Request => Nil \notin Marked(req[t])
    BY MarkedBlobs
  <2>2. \A t \in Sessions : req[t] \in Request
    BY DEF TypeOK
  <2>. QED BY <2>1, <2>2, IdleFields DEF Apart
<1>2. OwnRows(Idle) /\ OwnBlob(Idle, T) /\ Condemned(Idle, D)
  BY IdleFields DEF OwnRows, OwnBlob, Condemned
<1>3. Shape(Idle)
  BY IdleFields DEF Shape
<1>. QED BY <1>1, <1>2, <1>3 DEF Fits

LEMMA InitIInv == Init => IInv
<1> SUFFICES ASSUME Init PROVE IInv
  OBVIOUS
<1> USE DEF Init
<1>1. TypeOK
  BY IdleFields DEF TypeOK
<1>2. \A s \in Sessions : Fits(s, req[s], doomed, There)
  BY <1>1, IdleFits
<1>3. OneOwner
  BY NilAssumption DEF OneOwner, Owns
<1>. QED BY <1>1, <1>2, <1>3 DEF IInv, VersionsHaveFile, UntouchedHaveContent, Rows

(***************************************************************************)
(* A step that writes no rows gives session s another request r and takes  *)
(* at most the blobs K away.                                               *)
(***************************************************************************)
LEMMA ReplaceStep ==
  ASSUME IInv, NEW s \in Sessions, NEW r \in Request, NEW K \in SUBSET Blobs,
         req' = [req EXCEPT ![s] = r], UNCHANGED tables,
         doomed \subseteq doomed', doomed' \subseteq Files,
         stored' \subseteq Blobs, hollow' \subseteq Blobs, copying' \subseteq Blobs \X Blobs,
         There \ K \subseteq There',
         \A b \in K, f \in Files : Owns(f, b) => f \in doomed,
         \A b \in K, t \in Sessions \ {s} : b # req[t].b,
         Fits(s, r, doomed', There')
  PROVE  IInv'
<1>1. TypeOK'
  BY DEF IInv, TypeOK, tables
<1>2. \A t \in Sessions : req'[t] = IF t = s THEN r ELSE req[t]
  BY DEF IInv, TypeOK
<1>3. /\ \A f, b : Owns(f, b)' <=> Owns(f, b)
      /\ Rows' = Rows
  BY DEF Owns, Rows, tables
<1>4. ASSUME NEW t \in Sessions PROVE Fits(t, req[t], doomed, There)'
  <2>1. CASE t = s
    <3>1. Shape(r) /\ Apart(s, r) /\ OwnRows(r) /\ OwnBlob(r, There') /\ Condemned(r, doomed')
      BY DEF Fits
    <3>2. Apart(s, r)'
      BY <1>2, <3>1 DEF Apart
    <3>3. OwnRows(r)' /\ OwnBlob(r, There)' /\ Condemned(r, doomed)'
      BY <1>3, <3>1 DEF OwnRows, OwnBlob, Condemned
    <3>. QED BY <1>2, <2>1, <3>1, <3>2, <3>3 DEF Fits
  <2>2. CASE t # s
    <3>0. PICK q \in Request : q = req[t] /\ q = req'[t]
      BY <1>2, <2>2 DEF IInv, TypeOK
    <3>1. /\ Shape(q) /\ Apart(t, q) /\ OwnRows(q) /\ OwnBlob(q, There)
          /\ Condemned(q, doomed)
      BY <3>0 DEF IInv, Fits
    <3>2. /\ r.new \/ q.new => r.F \cap q.F = {}
          /\ r.held \cap q.held = {}
          /\ r.b # Nil => r.b # q.b /\ r.b \notin Marked(q)
          /\ q.b \notin Marked(r)
      BY <2>2, <3>0 DEF Fits, Apart
    <3>3. r.b \notin Marked(q)
      BY <3>2, MarkedBlobs
    <3>4. Apart(t, q)'
      BY <1>2, <2>2, <3>1, <3>2, <3>3 DEF Apart
    <3>5. OwnRows(q)' /\ Condemned(q, doomed)'
      BY <1>3, <3>1 DEF OwnRows, Condemned
    <3>6. OwnBlob(q, There)'
      <4>1. q.b \notin K
        BY <2>2, <3>0, NilAssumption
      <4>. QED BY <1>3, <3>1, <4>1 DEF OwnBlob
    <3>. QED BY <3>0, <3>1, <3>4, <3>5, <3>6 DEF Fits
  <2>. QED BY <2>1, <2>2
<1>5. OneOwner'
  BY <1>3 DEF IInv, OneOwner
<1>6. VersionsHaveFile' /\ (trashed \subseteq doomed)'
  BY <1>3 DEF IInv, VersionsHaveFile, tables
<1>7. UntouchedHaveContent'
  <2>1. ASSUME NEW f \in live \ doomed PROVE blob[f] \in There \ K
    BY DEF IInv, TypeOK, UntouchedHaveContent, There, Owns
  <2>2. ASSUME NEW v \in versions, v[1] \notin doomed PROVE v[2] \in There \ K
    <3>1. v = <<v[1], v[2]>> /\ v[1] \in Files /\ v[2] \in Blobs
      BY DEF IInv, TypeOK
    <3>2. v[2] \in There
      BY <2>2 DEF IInv, UntouchedHaveContent, There
    <3>. QED BY <2>2, <3>1, <3>2 DEF Owns
  <2>. QED BY <2>1, <2>2 DEF UntouchedHaveContent, There, tables
<1>. QED BY <1>1, <1>4, <1>5, <1>6, <1>7 DEF IInv

(* the same when no blob is taken away                                      *)
LEMMA KeepStep ==
  ASSUME IInv, NEW s \in Sessions, NEW r \in Request,
         req' = [req EXCEPT ![s] = r], UNCHANGED tables,
         doomed \subseteq doomed', doomed' \subseteq Files,
         stored' \subseteq Blobs, hollow' \subseteq Blobs, copying' \subseteq Blobs \X Blobs,
         There \subseteq There',
         Fits(s, r, doomed', There')
  PROVE  IInv'
<1>1. {} \in SUBSET Blobs /\ There \ {} \subseteq There'
  OBVIOUS
<1>2. \A b \in {} : FALSE
  OBVIOUS
<1>. QED BY <1>1, <1>2, ReplaceStep

(* one that changes neither rows nor requests and loses no blob             *)
LEMMA EndCopyStep == IInv /\ EndCopy => IInv'
<1> SUFFICES ASSUME IInv, EndCopy PROVE IInv'
  OBVIOUS
<1>1. PICK c \in copying :
        /\ copying' = copying \ {c}
        /\ \/ stored' = stored \cup {c[2]} /\ UNCHANGED hollow
           \/ hollow' = hollow \cup {c[2]} /\ UNCHANGED stored
  BY DEF EndCopy
<1>2. UNCHANGED <<live, trashed, place, blob, versions, req, doomed>>
  BY DEF EndCopy, tables
<1>3. TypeOK'
  BY <1>1, <1>2 DEF IInv, TypeOK
<1>4. There \subseteq There'
  BY <1>1 DEF There
<1>5. \A s \in Sessions : Fits(s, req[s], doomed, There)'
  <2> SUFFICES ASSUME NEW s \in Sessions PROVE Fits(s, req[s], doomed, There)'
    OBVIOUS
  <2>1. Fits(s, req[s], doomed, There)
    BY DEF IInv
  <2>2. OwnBlob(req[s], There)'
    BY <1>2, <1>4, <2>1 DEF Fits, OwnBlob, Owns
  <2>3. Condemned(req[s], doomed)' /\ OwnRows(req[s])' /\ Apart(s, req[s])' /\ Shape(req[s])'
    BY <1>2, <2>1 DEF Fits, Condemned, OwnRows, Apart, Shape, Owns, Rows
  <2>. QED BY <2>2, <2>3 DEF Fits
<1>6. OneOwner' /\ VersionsHaveFile' /\ (trashed \subseteq doomed)'
  BY <1>2 DEF IInv, OneOwner, VersionsHaveFile, Rows, Owns
<1>7. UntouchedHaveContent'
  BY <1>2, <1>4 DEF IInv, UntouchedHaveContent, There
<1>. QED BY <1>3, <1>5, <1>6, <1>7 DEF IInv

(* failing and being cancelled                                              *)
LEMMA FailStep ==
  ASSUME IInv, NEW s \in Sessions, Fail(s), UNCHANGED <<tables, doomed>>,
         stored' \subseteq Blobs, hollow' \subseteq Blobs, copying' \subseteq Blobs \X Blobs,
         There \subseteq There'
  PROVE  IInv'
<1>1. req' = [req EXCEPT ![s] = Idle] /\ Idle \in Request
  BY IdleFields DEF Fail, Go
<1>2. Fits(s, Idle, doomed', There')
  BY IdleFits DEF IInv
<1>3. doomed' = doomed /\ doomed \subseteq Files
  BY DEF IInv, TypeOK
<1>. QED BY <1>1, <1>2, <1>3, KeepStep

(***************************************************************************)
(* A request that goes on with what it has.                                *)
(***************************************************************************)
LEMMA StageFields ==
  ASSUME NEW r \in Request, NEW st \in Stages
  PROVE  LET n == [r EXCEPT !.stage = st] IN
         /\ n \in Request /\ n.stage = st
         /\ n.op = r.op /\ n.F = r.F /\ n.b = r.b /\ n.old = r.old /\ n.new = r.new
         /\ n.held = r.held /\ n.left = r.left
BY DEF Request

LEMMA HoldFields ==
  ASSUME NEW r \in Request, NEW st \in Stages
  PROVE  LET n == [r EXCEPT !.stage = st, !.held = Reached(r)] IN
         /\ n \in Request /\ n.stage = st
         /\ n.op = r.op /\ n.F = r.F /\ n.b = r.b /\ n.old = r.old /\ n.new = r.new
         /\ n.held = Reached(r) /\ n.left = r.left
<1>1. Reached(r) \in SUBSET Files
  BY DEF Request, Reached
<1>. QED BY <1>1 DEF Request

LEMMA KeptFits ==
  ASSUME IInv, NEW s \in Sessions, NEW r \in Request, NEW T,
         r.op = req[s].op, r.F = req[s].F, r.b = req[s].b, r.new = req[s].new,
         Marked(r) \subseteq Marked(req[s]), Shape(r),
         \A f \in r.held : f \in req[s].held \/ ~Locked(f, s),
         r.op \notin {"purge", "empty"} /\ ~r.new => r.held \subseteq Rows,
         r.b # Nil => r.b \in T
  PROVE  Fits(s, r, doomed, T)
<1>1. Fits(s, req[s], doomed, There)
  BY DEF IInv
<1>2. Apart(s, r)
  <2> SUFFICES ASSUME NEW t \in Sessions \ {s}
               PROVE  /\ r.new \/ req[t].new => r.F \cap req[t].F = {}
                      /\ r.held \cap req[t].held = {}
                      /\ r.b # Nil => r.b # req[t].b /\ r.b \notin Marked(req[t])
                      /\ req[t].b \notin Marked(r)
    BY DEF Apart
  <2>1. r.held \cap req[t].held = {}
    BY <1>1 DEF Fits, Apart, Locked
  <2>. QED BY <1>1, <2>1 DEF Fits, Apart
<1>3. OwnRows(r)
  BY <1>1 DEF Fits, OwnRows
<1>4. OwnBlob(r, T)
  BY <1>1 DEF Fits, OwnBlob
<1>5. Condemned(r, doomed)
  BY <1>1 DEF Fits, Condemned
<1>. QED BY <1>2, <1>3, <1>4, <1>5 DEF Fits

(* the step of one that also leaves the blobs alone                         *)
LEMMA KeptStep ==
  ASSUME IInv, NEW s \in Sessions, NEW r \in Request, req' = [req EXCEPT ![s] = r],
         UNCHANGED <<tables, azure, doomed>>,
         r.op = req[s].op, r.F = req[s].F, r.b = req[s].b, r.new = req[s].new,
         r.old = req[s].old, r.left = req[s].left, Shape(r),
         \A f \in r.held : f \in req[s].held \/ ~Locked(f, s),
         r.op \notin {"purge", "empty"} /\ ~r.new => r.held \subseteq Rows
  PROVE  IInv'
<1>1. doomed' = doomed /\ There' = There /\ UNCHANGED tables
  BY DEF azure, There
<1>2. OwnBlob(req[s], There)
  BY DEF IInv, Fits
<1>3. Marked(r) = Marked(req[s])
  BY DEF Marked
<1>4. Fits(s, r, doomed', There')
  BY <1>1, <1>2, <1>3, KeptFits DEF OwnBlob
<1>5. /\ doomed' \subseteq Files /\ stored' \subseteq Blobs /\ hollow' \subseteq Blobs
      /\ copying' \subseteq Blobs \X Blobs
  BY <1>1 DEF IInv, TypeOK, azure
<1>. QED BY <1>1, <1>4, <1>5, KeepStep

LEMMA StageStep ==
  ASSUME IInv, NEW s \in Sessions, NEW st \in Stages, Step(s, st),
         UNCHANGED <<tables, azure, doomed>>, Shape([req[s] EXCEPT !.stage = st])
  PROVE  IInv'
<1>1. req[s] \in Request /\ OwnRows(req[s])
  BY DEF IInv, TypeOK, Fits
<1>2. PICK r \in Request :
        /\ r = [req[s] EXCEPT !.stage = st]
        /\ r.op = req[s].op /\ r.F = req[s].F /\ r.b = req[s].b
        /\ r.old = req[s].old /\ r.new = req[s].new
        /\ r.held = req[s].held /\ r.left = req[s].left
  BY <1>1, StageFields
<1>3. req' = [req EXCEPT ![s] = r] /\ Shape(r)
  BY <1>2 DEF Step, Go
<1>4. r.op \notin {"purge", "empty"} /\ ~r.new => r.held \subseteq Rows
  BY <1>1, <1>2 DEF OwnRows
<1>. QED BY <1>2, <1>3, <1>4, KeptStep

(* the step of one that writes its rows                                     *)
LEMMA HoldStep ==
  ASSUME IInv, NEW s \in Sessions, NEW st \in Stages, Hold(s, req[s], st),
         UNCHANGED <<tables, azure, doomed>>,
         Shape([req[s] EXCEPT !.stage = st, !.held = Reached(req[s])]),
         \A f \in Reached(req[s]) : ~Locked(f, s),
         req[s].op \notin {"purge", "empty"} /\ ~req[s].new => Reached(req[s]) \subseteq Rows
  PROVE  IInv'
<1>1. req[s] \in Request
  BY DEF IInv, TypeOK
<1>2. PICK r \in Request :
        /\ r = [req[s] EXCEPT !.stage = st, !.held = Reached(req[s])]
        /\ r.op = req[s].op /\ r.F = req[s].F /\ r.b = req[s].b
        /\ r.old = req[s].old /\ r.new = req[s].new
        /\ r.held = Reached(req[s]) /\ r.left = req[s].left
  <2> DEFINE n == [req[s] EXCEPT !.stage = st, !.held = Reached(req[s])]
  <2>1. /\ n \in Request /\ n.op = req[s].op /\ n.F = req[s].F /\ n.b = req[s].b
        /\ n.old = req[s].old /\ n.new = req[s].new
        /\ n.held = Reached(req[s]) /\ n.left = req[s].left
    BY <1>1, HoldFields
  <2>2. n = [req[s] EXCEPT !.stage = st, !.held = Reached(req[s])]
    OBVIOUS
  <2> HIDE DEF n
  <2>. QED BY <2>1, <2>2
<1>3. req' = [req EXCEPT ![s] = r] /\ Shape(r)
  BY <1>2 DEF Hold, Go
<1>. QED BY <1>2, <1>3, KeptStep

(* abandoned with everything as it is                                       *)
LEMMA GiveUpStep ==
  ASSUME IInv, NEW s \in Sessions, Fail(s), UNCHANGED <<tables, azure, doomed>>
  PROVE  IInv'
<1>1. There' = There
  BY DEF azure, There
<1>2. stored' \subseteq Blobs /\ hollow' \subseteq Blobs /\ copying' \subseteq Blobs \X Blobs
  BY DEF IInv, TypeOK, azure
<1>. QED BY <1>1, <1>2, FailStep

LEMMA CancelStep ==
  ASSUME IInv, NEW s \in Sessions, Cancel(s)
  PROVE  IInv'
BY GiveUpStep DEF Cancel

LEMMA WriteVersionStep ==
  ASSUME IInv, NEW s \in Sessions, WriteVersion(s)
  PROVE  IInv'
<1>1. CASE Fail(s)
  BY <1>1, GiveUpStep DEF WriteVersion
<1>2. CASE Hold(s, req[s], "commit") /\ (req[s].new \/ req[s].F \subseteq Rows)
  <2>1. Shape(req[s]) /\ req[s] \in Request
    BY DEF IInv, Fits, TypeOK
  <2>2. "commit" \in Stages
    BY DEF Stages
  <2>3. req[s].left = {} /\ Reached(req[s]) = req[s].F
    BY <2>1 DEF Shape, WriteVersion, At, Reached
  <2> DEFINE n == [req[s] EXCEPT !.stage = "commit", !.held = Reached(req[s])]
  <2>4. /\ n.stage = "commit" /\ n.op = req[s].op /\ n.F = req[s].F /\ n.b = req[s].b
        /\ n.new = req[s].new /\ n.held = Reached(req[s]) /\ n.left = req[s].left
    BY <2>1, <2>2, HoldFields
  <2>5. n = [req[s] EXCEPT !.stage = "commit", !.held = Reached(req[s])]
    OBVIOUS
  <2> HIDE DEF n
  <2>6. Shape(n)
    BY <2>1, <2>3, <2>4 DEF Shape, WriteVersion, At, Writing
  <2>. QED BY <1>2, <2>2, <2>3, <2>5, <2>6, HoldStep DEF WriteVersion
<1>. QED BY <1>1, <1>2 DEF WriteVersion

LEMMA WriteRowsStep ==
  ASSUME IInv, NEW s \in Sessions, WriteRows(s)
  PROVE  IInv'
<1>1. CASE Fail(s)
  BY <1>1, GiveUpStep DEF WriteRows
<1>2. ASSUME ~Gone(req[s]), NEW st \in {"unlink", "commit"},
             st = IF req[s].op \in {"delete", "purge", "empty"} THEN "unlink" ELSE "commit",
             Hold(s, req[s], st)
      PROVE  IInv'
  <2>1. Shape(req[s]) /\ req[s] \in Request /\ req[s].stage = "write"
    BY DEF IInv, Fits, TypeOK, WriteRows
  <2>2. st \in Stages
    BY DEF Stages
  <2>3. /\ Reached(req[s]) \subseteq req[s].F
        /\ req[s].op # "empty" => req[s].left = {} /\ Reached(req[s]) = req[s].F
    BY <2>1 DEF Shape, Reached
  <2> DEFINE n == [req[s] EXCEPT !.stage = st, !.held = Reached(req[s])]
  <2>4. /\ n.stage = st /\ n.op = req[s].op /\ n.F = req[s].F /\ n.b = req[s].b
        /\ n.new = req[s].new /\ n.held = Reached(req[s]) /\ n.left = req[s].left
    BY <2>1, <2>2, HoldFields
  <2>5. n = [req[s] EXCEPT !.stage = st, !.held = Reached(req[s])]
    OBVIOUS
  <2> HIDE DEF n
  <2>6. Reached(n) = Reached(req[s])
    BY <2>4 DEF Reached
  <2>7. Shape(n)
    BY <1>2, <2>1, <2>3, <2>4, <2>6 DEF Shape, Writing, Unlinking
  <2>. QED BY <1>2, <2>2, <2>3, <2>5, <2>7, HoldStep DEF WriteRows, Gone
<1>3. PICK st \in {"unlink", "commit"} :
        st = IF req[s].op \in {"delete", "purge", "empty"} THEN "unlink" ELSE "commit"
  OBVIOUS
<1>. QED BY <1>1, <1>2, <1>3 DEF WriteRows

-----------------------------------------------------------------------------
(***************************************************************************)
(* Deleting blobs takes none away that an untouched file needs, nor the    *)
(* one another request is about to write into its row.                     *)
(***************************************************************************)
LEMMA UnlinkedBlobs ==
  ASSUME IInv, NEW B \in SUBSET Blobs, Unlinked(B)
  PROVE  \E K \in SUBSET B :
           /\ There \ K \subseteq There'
           /\ stored' \subseteq Blobs /\ hollow' \subseteq Blobs /\ copying' \subseteq Blobs \X Blobs
<1>1. PICK K \in SUBSET B :
        /\ stored' = stored \ K /\ hollow' = hollow \ K
        /\ copying' = {c \in copying : c[2] \notin K}
  BY DEF Unlinked
<1>2. There \ K \subseteq There'
  BY <1>1 DEF There
<1>3. stored' \subseteq Blobs /\ hollow' \subseteq Blobs /\ copying' \subseteq Blobs \X Blobs
  BY <1>1 DEF IInv, TypeOK
<1>. QED BY <1>2, <1>3

(* deleting blobs whose names a request of these has loaded                 *)
LEMMA UnlinkMarked ==
  ASSUME IInv, NEW s \in Sessions, NEW B \in SUBSET Marked(req[s]), Unlinked(B),
         NEW r \in Request, req' = [req EXCEPT ![s] = r], UNCHANGED <<tables, doomed>>,
         req[s].op \in Unlinking,
         r.op = req[s].op, r.F = req[s].F, r.b = req[s].b, r.new = req[s].new,
         r.held = req[s].held, Marked(r) \subseteq Marked(req[s]), Shape(r)
  PROVE  IInv'
<1>1. /\ req[s] \in Request /\ Marked(req[s]) \in SUBSET Blobs
      /\ Fits(s, req[s], doomed, There)
  BY MarkedBlobs DEF IInv, TypeOK
<1>2. PICK K \in SUBSET B :
        /\ There \ K \subseteq There'
        /\ stored' \subseteq Blobs /\ hollow' \subseteq Blobs /\ copying' \subseteq Blobs \X Blobs
  BY <1>1, UnlinkedBlobs
<1>3. \A b \in K, f \in Files : Owns(f, b) => f \in doomed
  BY <1>1 DEF Fits, Condemned, Unlinking
<1>4. \A b \in K, t \in Sessions \ {s} : b # req[t].b
  BY <1>1 DEF Fits, Apart
<1>5. r.op \notin {"purge", "empty"} /\ ~r.new => r.held \subseteq Rows
  BY <1>1 DEF Fits, OwnRows
<1>6. r.b # Nil => r.b \in There'
  BY <1>1, <1>2 DEF Fits, OwnBlob
<1>7. Fits(s, r, doomed', There')
  BY <1>5, <1>6, KeptFits
<1>8. doomed' = doomed /\ doomed \subseteq Files /\ UNCHANGED tables /\ K \in SUBSET Blobs
  BY <1>1 DEF IInv, TypeOK
<1>. QED BY <1>2, <1>3, <1>4, <1>7, <1>8, ReplaceStep

LEMMA UnlinkStep ==
  ASSUME IInv, NEW s \in Sessions, Unlink(s)
  PROVE  IInv'
<1>1. /\ req[s] \in Request /\ Shape(req[s])
      /\ req[s].stage = "unlink" /\ req[s].op \in {"delete", "purge"}
  BY DEF IInv, TypeOK, Fits, Unlink, At
<1> DEFINE n == [req[s] EXCEPT !.stage = "commit", !.old = {}]
<1>2. /\ n \in Request /\ n.stage = "commit" /\ n.old = {}
      /\ n.op = req[s].op /\ n.F = req[s].F /\ n.b = req[s].b /\ n.new = req[s].new
      /\ n.held = req[s].held /\ n.left = req[s].left
  BY <1>1 DEF Request, Stages
<1>3. req' = [req EXCEPT ![s] = n]
  BY DEF Unlink, Go
<1> HIDE DEF n
<1>4. PICK r \in Request : r = n
  BY <1>2
<1>5. req[s].left = {} /\ req[s].held = req[s].F
  BY <1>1 DEF Shape, Reached
<1>6. Shape(r)
  BY <1>1, <1>2, <1>4, <1>5 DEF Shape, Writing, Unlinking
<1>7. Marked(r) \subseteq Marked(req[s]) /\ req[s].old \in SUBSET Marked(req[s])
  BY <1>2, <1>4 DEF Marked
<1>8. req[s].op \in Unlinking /\ Unlinked(req[s].old) /\ UNCHANGED <<tables, doomed>>
  BY <1>1 DEF Unlink, Unlinking
<1>. QED BY <1>2, <1>3, <1>4, <1>6, <1>7, <1>8, UnlinkMarked

LEMMA UnlinkListedStep ==
  ASSUME IInv, NEW s \in Sessions, UnlinkListed(s)
  PROVE  IInv'
<1>1. /\ req[s] \in Request /\ Shape(req[s])
      /\ req[s].stage = "unlink" /\ req[s].op = "empty"
  BY DEF IInv, TypeOK, Fits, UnlinkListed, At
<1>2. PICK v \in req[s].left :
        /\ Unlinked({v[2]})
        /\ Go(s, [req[s] EXCEPT !.stage = "write", !.left = @ \ {v}])
  BY DEF UnlinkListed
<1> DEFINE n == [req[s] EXCEPT !.stage = "write", !.left = @ \ {v}]
<1>3. /\ n \in Request /\ n.stage = "write" /\ n.old = req[s].old
      /\ n.op = req[s].op /\ n.F = req[s].F /\ n.b = req[s].b /\ n.new = req[s].new
      /\ n.held = req[s].held /\ n.left = req[s].left \ {v}
  BY <1>1 DEF Request, Stages
<1>4. req' = [req EXCEPT ![s] = n]
  BY <1>2 DEF Go
<1> HIDE DEF n
<1>5. PICK r \in Request : r = n
  BY <1>3
<1>6. Shape(r)
  BY <1>1, <1>3, <1>5 DEF Shape, Writing, Unlinking
<1>7. Marked(r) \subseteq Marked(req[s]) /\ {v[2]} \in SUBSET Marked(req[s])
  BY <1>3, <1>5 DEF Marked
<1>8. req[s].op \in Unlinking /\ UNCHANGED <<tables, doomed>>
  BY <1>1 DEF UnlinkListed, Unlinking
<1>. QED BY <1>2, <1>3, <1>4, <1>5, <1>6, <1>7, <1>8, UnlinkMarked

LEMMA CleanUpStep ==
  ASSUME IInv, NEW s \in Sessions, CleanUp(s)
  PROVE  IInv'
<1>1. req[s] \in Request /\ Fits(s, req[s], doomed, There)
  BY DEF IInv, TypeOK
<1>2. req[s].b # Nil /\ req[s].b \in Blobs
  BY <1>1 DEF CleanUp, At, Fits, Shape, Request
<1>3. PICK K \in SUBSET {req[s].b} :
        /\ There \ K \subseteq There'
        /\ stored' \subseteq Blobs /\ hollow' \subseteq Blobs /\ copying' \subseteq Blobs \X Blobs
  BY <1>2, UnlinkedBlobs DEF CleanUp
<1>4. \A b \in K, f \in Files : Owns(f, b) => f \in doomed
  BY <1>1, <1>2 DEF Fits, OwnBlob
<1>5. \A b \in K, t \in Sessions \ {s} : b # req[t].b
  BY <1>1, <1>2 DEF Fits, Apart
<1>6. doomed' = doomed /\ doomed \subseteq Files /\ UNCHANGED tables /\ K \in SUBSET Blobs
  BY <1>2 DEF CleanUp, IInv, TypeOK
<1>7. req' = [req EXCEPT ![s] = Idle] /\ Idle \in Request
  BY IdleFields DEF CleanUp, Fail, Go
<1>8. Fits(s, Idle, doomed', There')
  BY IdleFits DEF IInv
<1>. QED BY <1>3, <1>4, <1>5, <1>6, <1>7, <1>8, ReplaceStep

-----------------------------------------------------------------------------
(***************************************************************************)
(* A request that begins, or gets a file or a blob of its own.             *)
(***************************************************************************)
(* what is new to everything                                                *)
LEMMA Unheard ==
  ASSUME IInv, NEW b \in FreshBlobs
  PROVE  /\ b \in Blobs /\ b # Nil
         /\ \A f \in Files : ~Owns(f, b)
         /\ \A t \in Sessions : b # req[t].b /\ b \notin Marked(req[t])
BY NilAssumption DEF FreshBlobs, Used, Owns, Marked

LEMMA PutBlobStep ==
  ASSUME IInv, NEW s \in Sessions, PutBlob(s)
  PROVE  IInv'
<1>1. PICK b \in FreshBlobs, p \in Places :
        \/ /\ stored' = stored \cup {b}
           /\ \E next \in {"find", "cleanup"} :
                Go(s, [[Idle EXCEPT !.op = "upload", !.p = p, !.b = b] EXCEPT !.stage = next])
        \/ stored' \in {stored, stored \cup {b}} /\ Fail(s)
  BY DEF PutBlob
<1>2. /\ b \in Blobs /\ b # Nil /\ \A f \in Files : ~Owns(f, b)
      /\ \A t \in Sessions : b # req[t].b /\ b \notin Marked(req[t])
  BY Unheard
<1>3. UNCHANGED <<tables, hollow, copying, doomed>> /\ "upload" \in Ops
  BY DEF PutBlob, Begin
<1>4. /\ There \subseteq There' /\ stored' \subseteq Blobs /\ hollow' \subseteq Blobs
      /\ copying' \subseteq Blobs \X Blobs /\ doomed' = doomed /\ doomed \subseteq Files
  BY <1>1, <1>2, <1>3 DEF There, IInv, TypeOK
<1>5. CASE Fail(s)
  BY <1>3, <1>4, <1>5, FailStep
<1>6. ASSUME stored' = stored \cup {b}, NEW next \in {"find", "cleanup"},
             Go(s, [[Idle EXCEPT !.op = "upload", !.p = p, !.b = b] EXCEPT !.stage = next])
      PROVE  IInv'
  <2>1. PICK r \in Request :
          /\ r = [[Idle EXCEPT !.op = "upload", !.p = p, !.b = b] EXCEPT !.stage = next]
          /\ r.op = "upload" /\ r.stage = next /\ r.F = {} /\ r.b = b /\ r.old = {} /\ r.new = FALSE
          /\ r.held = {} /\ r.left = {}
    <3> DEFINE i == [Idle EXCEPT !.op = "upload", !.p = p, !.b = b]
               n == [i EXCEPT !.stage = next]
    <3>1. /\ i \in Request /\ i.op = "upload" /\ i.F = {} /\ i.b = b
          /\ i.old = {} /\ i.new = FALSE /\ i.held = {} /\ i.left = {}
      BY <1>2, <1>3, IdleFields DEF Request
    <3>2. next \in Stages
      BY DEF Stages
    <3> HIDE DEF i
    <3>3. /\ n \in Request /\ n.stage = next
          /\ n.op = "upload" /\ n.F = {} /\ n.b = b /\ n.old = {} /\ n.new = FALSE
          /\ n.held = {} /\ n.left = {}
      BY <3>1, <3>2, StageFields
    <3>4. n = [[Idle EXCEPT !.op = "upload", !.p = p, !.b = b] EXCEPT !.stage = next]
      BY DEF i
    <3> HIDE DEF n
    <3>. QED BY <3>3, <3>4
  <2>2. req' = [req EXCEPT ![s] = r]
    BY <1>6, <2>1 DEF Go
  <2>3. Shape(r)
    BY <1>2, <2>1 DEF Shape, Writing
  <2>0. Marked(r) = {}
    BY <2>1 DEF Marked
  <2>4. Apart(s, r)
    BY <1>2, <2>0, <2>1 DEF Apart
  <2>5. b \in There'
    BY <1>6 DEF There
  <2>6. OwnRows(r) /\ OwnBlob(r, There') /\ Condemned(r, doomed)
    BY <1>2, <2>0, <2>1, <2>5 DEF OwnRows, OwnBlob, Condemned, Deleting
  <2>. QED BY <1>3, <1>4, <2>2, <2>3, <2>4, <2>6, KeepStep DEF Fits
<1>. QED BY <1>1, <1>5, <1>6

(* find_by_name gives an upload the one live file of that name              *)
LEMMA FindByNameStep ==
  ASSUME IInv, NEW s \in Sessions, FindByName(s)
  PROVE  IInv'
<1>1. req[s] \in Request /\ Fits(s, req[s], doomed, There)
  BY DEF IInv, TypeOK
<1>2. req[s].op = "upload" /\ req[s].stage = "find" /\ UNCHANGED <<tables, azure, doomed>>
  BY DEF FindByName, At
<1>3. \/ Step(s, "insert")
      \/ \E f \in live : Go(s, [req[s] EXCEPT !.stage = "version", !.F = {f}])
      \/ Fail(s)
  BY DEF FindByName
<1>4. CASE Step(s, "insert")
  <2>1. "insert" \in Stages
    BY DEF Stages
  <2>2. Shape([req[s] EXCEPT !.stage = "insert"])
    BY <1>1, <1>2, <2>1, StageFields DEF Fits, Shape, Writing
  <2>. QED BY <1>2, <1>4, <2>1, <2>2, StageStep
<1>5. ASSUME NEW f \in live, Go(s, [req[s] EXCEPT !.stage = "version", !.F = {f}])
      PROVE  IInv'
  <2>1. f \in Files /\ {f} \in SUBSET Files /\ "version" \in Stages /\ f \in Rows
    BY DEF IInv, TypeOK, Stages, Rows
  <2>0. PICK F \in SUBSET Files : F = {f}
    BY <2>1
  <2> DEFINE n == [req[s] EXCEPT !.stage = "version", !.F = F]
  <2>2. /\ n \in Request /\ n.stage = "version" /\ n.F = F
        /\ n.op = "upload" /\ n.b = req[s].b /\ n.old = req[s].old /\ n.new = req[s].new
        /\ n.held = req[s].held /\ n.left = req[s].left
    BY <1>1, <1>2, <2>1 DEF Request
  <2>3. req' = [req EXCEPT ![s] = n]
    BY <1>5, <2>0 DEF Go
  <2> HIDE DEF n
  <2>4. PICK r \in Request : r = n
    BY <2>2
  <2>9. req[s].held = {} /\ req[s].left = {} /\ req[s].new = FALSE
    BY <1>1, <1>2 DEF Fits, Shape, Unlinking, Request
  <2>5. Shape(r)
    BY <1>1, <1>2, <2>0, <2>2, <2>4, <2>9 DEF Fits, Shape, Writing
  <2>10. Marked(r) = Marked(req[s])
    BY <2>2, <2>4 DEF Marked
  <2>6. Apart(s, r)
    <3>1. \A t \in Sessions : req[t].new => f \notin req[t].F
      BY <2>1 DEF IInv, Fits, OwnRows
    <3>. QED BY <1>1, <2>0, <2>2, <2>4, <2>9, <2>10, <3>1 DEF Fits, Apart
  <2>7. OwnRows(r) /\ OwnBlob(r, There) /\ Condemned(r, doomed)
    BY <1>1, <1>2, <2>0, <2>2, <2>4, <2>9, <2>10 DEF Fits, OwnRows, OwnBlob, Condemned, Deleting
  <2>8. /\ There' = There /\ doomed' = doomed /\ doomed \subseteq Files /\ UNCHANGED tables
        /\ stored' \subseteq Blobs /\ hollow' \subseteq Blobs /\ copying' \subseteq Blobs \X Blobs
    BY <1>2 DEF There, IInv, TypeOK, azure
  <2>. QED BY <2>3, <2>4, <2>5, <2>6, <2>7, <2>8, KeepStep DEF Fits
<1>6. CASE Fail(s)
  BY <1>2, <1>6, GiveUpStep
<1>. QED BY <1>3, <1>4, <1>5, <1>6

(* the row an upload or a copy inserts                                      *)
LEMMA InsertFileStep ==
  ASSUME IInv, NEW s \in Sessions, InsertFile(s)
  PROVE  IInv'
<1>1. req[s] \in Request /\ Fits(s, req[s], doomed, There)
  BY DEF IInv, TypeOK
<1>2. /\ req[s].op \in {"upload", "copy"} /\ req[s].stage = "insert"
      /\ UNCHANGED <<tables, azure, doomed>>
  BY DEF InsertFile, At
<1>3. /\ req[s].held = {} /\ req[s].left = {}
      /\ \A t \in Sessions : req[t].held \subseteq req[t].F
  BY <1>1, <1>2 DEF IInv, Fits, Shape, Unlinking
<1>4. \/ \E f \in FreshFiles :
           LET n == [req[s] EXCEPT !.F = {f}, !.new = TRUE] IN
           \/ req[s].op = "upload" /\ Go(s, [n EXCEPT !.stage = "version"])
           \/ req[s].op = "copy" /\ Hold(s, n, "commit")
      \/ req[s].op = "upload" /\ Step(s, "cleanup")
      \/ Fail(s)
  BY <1>2 DEF InsertFile
<1>5. CASE req[s].op = "upload" /\ Step(s, "cleanup")
  <2>1. "cleanup" \in Stages
    BY DEF Stages
  <2>2. Shape([req[s] EXCEPT !.stage = "cleanup"])
    BY <1>1, <1>2, <2>1, StageFields DEF Fits, Shape, Writing
  <2>. QED BY <1>2, <1>5, <2>1, <2>2, StageStep
<1>6. ASSUME NEW f \in FreshFiles, NEW r \in Request, req' = [req EXCEPT ![s] = r],
             r.op = req[s].op, r.F = {f}, r.b = req[s].b, r.old = req[s].old, r.new = TRUE,
             r.left = {},
             \/ r.op = "upload" /\ r.stage = "version" /\ r.held = {}
             \/ r.op = "copy" /\ r.stage = "commit" /\ r.held = {f}
      PROVE  IInv'
  <2>1. /\ f \in Files /\ f \notin Rows
        /\ \A t \in Sessions : f \notin req[t].F
    BY DEF FreshFiles
  <2>2. Marked(r) = Marked(req[s])
    BY <1>3, <1>6 DEF Marked
  <2>3. r.b # Nil
    BY <1>1, <1>2, <1>6 DEF Fits, Shape
  <2>5. Shape(r)
    BY <1>2, <1>6, <2>3 DEF Shape, Writing
  <2>6. Apart(s, r)
    BY <1>1, <1>3, <1>6, <2>1, <2>2 DEF Fits, Apart
  <2>7. OwnRows(r) /\ OwnBlob(r, There) /\ Condemned(r, doomed)
    BY <1>1, <1>2, <1>6, <2>1, <2>2 DEF Fits, OwnRows, OwnBlob, Condemned, Deleting
  <2>8. /\ There' = There /\ doomed' = doomed /\ doomed \subseteq Files /\ UNCHANGED tables
        /\ stored' \subseteq Blobs /\ hollow' \subseteq Blobs /\ copying' \subseteq Blobs \X Blobs
    BY <1>2 DEF There, IInv, TypeOK, azure
  <2>. QED BY <1>6, <2>5, <2>6, <2>7, <2>8, KeepStep DEF Fits
<1>8. ASSUME NEW f \in FreshFiles, req[s].op = "upload",
             Go(s, [[req[s] EXCEPT !.F = {f}, !.new = TRUE] EXCEPT !.stage = "version"])
      PROVE  IInv'
  <2> DEFINE n == [[req[s] EXCEPT !.F = {f}, !.new = TRUE] EXCEPT !.stage = "version"]
  <2>1. /\ n \in Request /\ n.stage = "version" /\ n.F = {f} /\ n.new = TRUE
        /\ n.op = req[s].op /\ n.b = req[s].b /\ n.old = req[s].old
        /\ n.held = req[s].held /\ n.left = req[s].left
    BY <1>1 DEF Request, Stages, FreshFiles
  <2>2. req' = [req EXCEPT ![s] = n]
    BY <1>8 DEF Go
  <2> HIDE DEF n
  <2>. QED BY <1>3, <1>6, <1>8, <2>1, <2>2
<1>9. ASSUME NEW f \in FreshFiles, req[s].op = "copy",
             Hold(s, [req[s] EXCEPT !.F = {f}, !.new = TRUE], "commit")
      PROVE  IInv'
  <2> DEFINE m == [req[s] EXCEPT !.F = {f}, !.new = TRUE]
             n == [m EXCEPT !.stage = "commit", !.held = Reached(m)]
  <2>1. /\ m \in Request /\ m.F = {f} /\ m.new = TRUE
        /\ m.op = req[s].op /\ m.b = req[s].b /\ m.old = req[s].old /\ m.left = req[s].left
    BY <1>1 DEF Request, FreshFiles
  <2>2. req' = [req EXCEPT ![s] = n]
    BY <1>9 DEF Hold, Go
  <2> HIDE DEF m
  <2>3. Reached(m) = {f}
    BY <1>3, <2>1 DEF Reached
  <2>4. "commit" \in Stages
    BY DEF Stages
  <2>5. /\ n \in Request /\ n.stage = "commit" /\ n.F = {f} /\ n.new = TRUE
        /\ n.op = req[s].op /\ n.b = req[s].b /\ n.old = req[s].old
        /\ n.held = {f} /\ n.left = req[s].left
    BY <2>1, <2>3, <2>4, HoldFields
  <2> HIDE DEF n
  <2>. QED BY <1>3, <1>6, <1>9, <2>2, <2>5
<1>7. CASE Fail(s)
  BY <1>2, <1>7, GiveUpStep
<1>. QED BY <1>4, <1>5, <1>7, <1>8, <1>9

(***************************************************************************)
(* A request that loads rows: the blob names it remembers are names of     *)
(* their files, and if it is to delete the blobs, of files it dooms.       *)
(***************************************************************************)
LEMMA LoadStep ==
  ASSUME IInv, NEW s \in Sessions, NEW op, NEW F \in SUBSET Rows, NEW p \in Places \cup {Nil},
         NEW old \in SUBSET Blobs, NEW stage,
         Load(s, op, F, p, old, stage),
         \/ stage = "write" /\ op \notin Writing
         \/ stage = "find" /\ op \in {"copy", "revert"},
         op \in Writing => \A f, g \in F : f = g,
         op = "restore" => F \subseteq doomed,
         \A b \in old : \E f \in F : Owns(f, b),
         old # {} => op \in Deleting \cup {"copy", "revert"}
  PROVE  IInv'
<1>1. /\ op \in Ops /\ UNCHANGED <<tables, azure>>
      /\ doomed' = IF op \in Deleting THEN doomed \cup F ELSE doomed
  BY DEF Load, Begin
<1>2. PICK G \in SUBSET F : G = IF op = "copy" THEN {} ELSE F
  OBVIOUS
<1>3. F \subseteq Files /\ G \in SUBSET Files /\ stage \in Stages
  BY DEF IInv, TypeOK, Rows, Stages
<1> DEFINE n == [Idle EXCEPT !.op = op, !.stage = stage, !.F = G, !.p = p, !.old = old]
<1>4. /\ n \in Request /\ n.op = op /\ n.stage = stage /\ n.F = G /\ n.b = Nil
      /\ n.old = old /\ n.new = FALSE /\ n.held = {} /\ n.left = {}
  BY <1>1, <1>3, IdleFields DEF Request
<1>5. req' = [req EXCEPT ![s] = n]
  BY <1>2 DEF Load, Go
<1> HIDE DEF n
<1>6. PICK r \in Request : r = n
  BY <1>4
<1>7. Shape(r)
  BY <1>4, <1>6 DEF Shape, Writing, Unlinking
<1>12. Marked(r) = old
  BY <1>4, <1>6 DEF Marked
<1>8. Apart(s, r)
  <2>1. ASSUME NEW t \in Sessions, req[t].new PROVE F \cap req[t].F = {}
    BY <2>1 DEF IInv, Fits, OwnRows
  <2>2. ASSUME NEW t \in Sessions, req[t].b \in old PROVE FALSE
    <3>1. PICK f \in F : Owns(f, req[t].b)
      BY <2>2
    <3>2. req[t].b # Nil
      BY <2>2, NilAssumption
    <3>. QED BY <1>3, <3>1, <3>2 DEF IInv, Fits, OwnBlob
  <2>. QED BY <1>4, <1>6, <1>12, <2>1, <2>2 DEF Apart
<1>9. OwnRows(r) /\ OwnBlob(r, There')
  BY <1>4, <1>6 DEF OwnRows, OwnBlob
<1>10. Condemned(r, doomed')
  <2>1. r.op \in Deleting \cup {"restore"} => r.F \subseteq doomed'
    BY <1>1, <1>4, <1>6
  <2>2. ASSUME r.op \notin {"copy", "revert"}, NEW b \in Marked(r), NEW f \in Files, Owns(f, b)
        PROVE  f \in doomed'
    <3>1. PICK g \in F : Owns(g, b)
      BY <1>12, <2>2
    <3>2. f = g
      BY <1>3, <1>12, <2>2, <3>1 DEF IInv, OneOwner
    <3>3. op \in Deleting
      BY <1>4, <1>6, <1>12, <2>2
    <3>. QED BY <1>1, <3>2, <3>3
  <2>. QED BY <2>1, <2>2 DEF Condemned
<1>11. /\ There' = There /\ doomed \subseteq doomed' /\ doomed' \subseteq Files /\ UNCHANGED tables
       /\ stored' \subseteq Blobs /\ hollow' \subseteq Blobs /\ copying' \subseteq Blobs \X Blobs
  BY <1>1, <1>3 DEF There, IInv, TypeOK, azure
<1>. QED BY <1>5, <1>6, <1>7, <1>8, <1>9, <1>10, <1>11, KeepStep DEF Fits

(* a row has a blob of its own                                              *)
LEMMA RowBlob ==
  ASSUME IInv, NEW f \in Rows
  PROVE  f \in Files /\ {blob[f]} \in SUBSET Blobs /\ Owns(f, blob[f])
BY DEF IInv, TypeOK, Rows, Owns

LEMMA NamesOwned ==
  ASSUME IInv, NEW F \in SUBSET Rows
  PROVE  Names(F) \in SUBSET Blobs /\ \A b \in Names(F) : \E f \in F : Owns(f, b)
BY RowBlob DEF Names

LEMMA LoadFileStep ==
  ASSUME IInv, NEW s \in Sessions, LoadFile(s)
  PROVE  IInv'
<1> USE DEF Writing, Deleting
<1>0. /\ live \subseteq Rows /\ trashed \subseteq Rows /\ trashed \subseteq doomed
      /\ {} \in SUBSET Blobs /\ Nil \in Places \cup {Nil} /\ Places \subseteq Places \cup {Nil}
  BY DEF Rows, IInv
<1>1. ASSUME NEW f \in live, Load(s, "delete", {f}, Nil, {blob[f]}, "write") PROVE IInv'
  BY <1>0, <1>1, RowBlob, LoadStep
<1>2. ASSUME NEW f \in trashed, Load(s, "restore", {f}, Nil, {}, "write") PROVE IInv'
  BY <1>0, <1>2, LoadStep
<1>3. ASSUME NEW f \in Rows, Load(s, "purge", {f}, Nil, {blob[f]}, "write") PROVE IInv'
  BY <1>0, <1>3, RowBlob, LoadStep
<1>4. ASSUME NEW f \in live, NEW p \in Places, Load(s, "move", {f}, p, {}, "write") PROVE IInv'
  BY <1>0, <1>4, LoadStep
<1>5. ASSUME NEW f \in live, NEW p \in Places, Load(s, "copy", {f}, p, {blob[f]}, "find") PROVE IInv'
  BY <1>0, <1>5, RowBlob, LoadStep
<1>6. ASSUME NEW v \in versions, v[1] \in live, Load(s, "revert", {v[1]}, Nil, {v[2]}, "find")
      PROVE  IInv'
  <2>1. v = <<v[1], v[2]>> /\ v[2] \in Blobs /\ {v[2]} \in SUBSET Blobs
    BY DEF IInv, TypeOK
  <2>2. Owns(v[1], v[2])
    BY <2>1 DEF Owns
  <2>3. {v[1]} \in SUBSET Rows /\ \A b \in {v[2]} : \E f \in {v[1]} : Owns(f, b)
    BY <1>0, <1>6, <2>2
  <2>4. \A f, g \in {v[1]} : f = g
    OBVIOUS
  <2>. QED BY <1>0, <1>6, <2>1, <2>3, <2>4, LoadStep
<1>. QED BY <1>1, <1>2, <1>3, <1>4, <1>5, <1>6 DEF LoadFile

LEMMA LoadFolderStep ==
  ASSUME IInv, NEW s \in Sessions, LoadFolder(s)
  PROVE  IInv'
<1> USE DEF Writing, Deleting
<1>1. PICK p \in Places :
        \/ Load(s, "trash", {f \in Rows : place[f] = p} \cap live, Nil, {}, "write")
        \/ Load(s, "restore", {f \in Rows : place[f] = p} \cap trashed, Nil, {}, "write")
        \/ Load(s, "purge", {f \in Rows : place[f] = p}, Nil, Names({f \in Rows : place[f] = p}), "write")
  BY DEF LoadFolder
<1>2. PICK at \in SUBSET Rows : at = {f \in Rows : place[f] = p}
  OBVIOUS
<1>3. {} \in SUBSET Blobs /\ Nil \in Places \cup {Nil}
  OBVIOUS
<1>4. CASE Load(s, "trash", at \cap live, Nil, {}, "write")
  <2>1. at \cap live \in SUBSET Rows
    OBVIOUS
  <2>. QED BY <1>3, <1>4, <2>1, LoadStep
<1>5. CASE Load(s, "restore", at \cap trashed, Nil, {}, "write")
  <2>1. at \cap trashed \in SUBSET Rows /\ at \cap trashed \subseteq doomed
    BY DEF IInv
  <2>. QED BY <1>3, <1>5, <2>1, LoadStep
<1>6. CASE Load(s, "purge", at, Nil, Names(at), "write")
  <2>1. Names(at) \in SUBSET Blobs /\ \A b \in Names(at) : \E f \in at : Owns(f, b)
    BY NamesOwned
  <2>. QED BY <1>3, <1>6, <2>1, LoadStep
<1>. QED BY <1>1, <1>2, <1>4, <1>5, <1>6

(* empty_trash lists rows: it dooms them and loads the names of their blobs *)
LEMMA ListStep ==
  ASSUME IInv, NEW s \in Sessions, NEW q \in Request, Fits(s, q, doomed, There),
         q.op = "empty", q.stage = "unlink", q.left = {}, NEW F \in SUBSET Rows,
         Go(s, [q EXCEPT !.F = @ \cup F, !.left = {<<f, blob[f]>> : f \in F \ q.F}]),
         doomed' = doomed \cup F, UNCHANGED <<tables, azure>>
  PROVE  IInv'
<1>1. /\ F \subseteq Files /\ \A f \in F : blob[f] \in Blobs /\ Owns(f, blob[f])
      /\ q.F \subseteq Files
  BY RowBlob DEF Request
<1> DEFINE L == {<<f, blob[f]>> : f \in F \ q.F}
           n == [q EXCEPT !.F = @ \cup F, !.left = L]
<1>2. /\ L \in SUBSET (Files \X Blobs)
      /\ {v[1] : v \in L} = F \ q.F
      /\ \A v \in L : v[2] \in Blobs /\ \E f \in F : Owns(f, v[2])
  <2>1. L \in SUBSET (Files \X Blobs)
    BY <1>1
  <2>2. \A v \in L : \E f \in F \ q.F : v[1] = f /\ v[2] = blob[f]
    OBVIOUS
  <2>3. \A f \in F \ q.F : <<f, blob[f]>> \in L /\ <<f, blob[f]>>[1] = f
    OBVIOUS
  <2> HIDE DEF L
  <2>4. {v[1] : v \in L} = F \ q.F
    <3>1. \A v \in L : v[1] \in F \ q.F
      BY <2>2
    <3>2. \A f \in F \ q.F : \E v \in L : v[1] = f
      BY <2>3
    <3>. QED BY <3>1, <3>2
  <2>5. \A v \in L : v[2] \in Blobs /\ \E f \in F : Owns(f, v[2])
    BY <1>1, <2>2
  <2>. QED BY <2>1, <2>4, <2>5
<1>3. req' = [req EXCEPT ![s] = n]
  BY DEF Go
<1> HIDE DEF L
<1>4. /\ n \in Request /\ n.op = "empty" /\ n.stage = "unlink" /\ n.F = q.F \cup F
      /\ n.b = q.b /\ n.old = q.old /\ n.new = q.new /\ n.held = q.held /\ n.left = L
  BY <1>1, <1>2 DEF Request
<1> HIDE DEF n
<1>5. PICK r \in Request : r = n
  BY <1>4
<1>6. /\ q.new = FALSE /\ q.held = q.F /\ q.F \subseteq doomed
      /\ Apart(s, q) /\ OwnBlob(q, There) /\ Condemned(q, doomed)
  BY DEF Fits, Shape, Reached, Condemned, Deleting, Request
<1>7. /\ Marked(r) = Marked(q) \cup {v[2] : v \in L}
      /\ Reached(r) = q.F
  BY <1>2, <1>4, <1>5 DEF Marked, Reached
<1>8. Shape(r)
  BY <1>4, <1>5, <1>6, <1>7 DEF Shape, Writing, Unlinking
<1>9. Apart(s, r)
  <2>1. ASSUME NEW t \in Sessions, req[t].new PROVE F \cap req[t].F = {}
    BY <2>1 DEF IInv, Fits, OwnRows
  <2>2. ASSUME NEW t \in Sessions, NEW v \in L, req[t].b = v[2] PROVE FALSE
    <3>1. PICK f \in F : Owns(f, req[t].b)
      BY <1>2, <2>2
    <3>2. req[t].b # Nil
      BY <1>2, <2>2, NilAssumption
    <3>. QED BY <1>1, <3>1, <3>2 DEF IInv, Fits, OwnBlob
  <2>. QED BY <1>4, <1>5, <1>6, <1>7, <2>1, <2>2 DEF Apart
<1>10. OwnRows(r)
  BY <1>4, <1>5, <1>6 DEF OwnRows
<1>11. OwnBlob(r, There)
  BY <1>1, <1>2, <1>4, <1>5, <1>6, <1>7 DEF OwnBlob
<1>12. Condemned(r, doomed')
  <2>1. ASSUME NEW v \in L, NEW f \in Files, Owns(f, v[2]) PROVE f \in doomed'
    <3>1. PICK g \in F : Owns(g, v[2])
      BY <1>2
    <3>2. f = g
      BY <1>1, <1>2, <2>1, <3>1 DEF IInv, OneOwner
    <3>. QED BY <3>2
  <2>. QED BY <1>4, <1>5, <1>6, <1>7, <2>1 DEF Condemned
<1>13. /\ There' = There /\ doomed \subseteq doomed' /\ doomed' \subseteq Files /\ UNCHANGED tables
       /\ stored' \subseteq Blobs /\ hollow' \subseteq Blobs /\ copying' \subseteq Blobs \X Blobs
  BY <1>1 DEF There, IInv, TypeOK, azure
<1>. QED BY <1>3, <1>4, <1>5, <1>8, <1>9, <1>10, <1>11, <1>12, <1>13, KeepStep DEF Fits

LEMMA LoadTrashStep ==
  ASSUME IInv, NEW s \in Sessions, LoadTrash(s)
  PROVE  IInv'
<1>1. req[s] \in Request /\ Fits(s, req[s], doomed, There)
  BY DEF IInv, TypeOK
<1>2. PICK q : q = IF req[s] = Idle THEN [Idle EXCEPT !.op = "empty", !.stage = "unlink"] ELSE req[s]
  OBVIOUS
<1>3. /\ "empty" \in Ops /\ q.op = "empty" /\ q.stage = "unlink" /\ q.left = {}
      /\ UNCHANGED <<tables, azure>>
  BY <1>2 DEF LoadTrash
<1>4. q \in Request /\ Fits(s, q, doomed, There)
  <2>1. CASE req[s] = Idle
    <3>1. /\ q \in Request /\ q.op = "empty" /\ q.stage = "unlink" /\ q.F = {} /\ q.b = Nil
          /\ q.old = {} /\ q.new = FALSE /\ q.held = {} /\ q.left = {}
      BY <1>2, <1>3, <2>1, IdleFields DEF Request, Stages
    <3>2. PICK r \in Request : r = q
      BY <3>1
    <3>3. Marked(r) = {} /\ Reached(r) = {}
      BY <3>1, <3>2 DEF Marked, Reached
    <3>4. Shape(r)
      BY <3>1, <3>2, <3>3 DEF Shape, Writing, Unlinking
    <3>5. Apart(s, r)
      <4>1. Fits(s, Idle, doomed, There)
        BY IdleFits DEF IInv
      <4>. QED BY <3>1, <3>2, <3>3, <4>1, IdleFields DEF Fits, Apart
    <3>6. OwnRows(r) /\ OwnBlob(r, There) /\ Condemned(r, doomed)
      BY <3>1, <3>2, <3>3 DEF OwnRows, OwnBlob, Condemned
    <3>. QED BY <3>2, <3>4, <3>5, <3>6 DEF Fits
  <2>2. CASE req[s] # Idle
    BY <1>1, <1>2, <2>2
  <2>. QED BY <2>1, <2>2
<1>5. ASSUME NEW F \in SUBSET Rows, doomed' = doomed \cup F,
             Go(s, [q EXCEPT !.F = @ \cup F, !.left = {<<f, blob[f]>> : f \in F \ q.F}])
      PROVE  IInv'
  BY <1>3, <1>4, <1>5, ListStep
<1>6. CASE req[s] # Idle /\ Step(s, "commit") /\ UNCHANGED doomed
  <2>1. "commit" \in Stages /\ q = req[s]
    BY <1>2, <1>6 DEF Stages
  <2>2. q.held = q.F
    BY <1>3, <1>4 DEF Fits, Shape, Reached
  <2>3. Shape([req[s] EXCEPT !.stage = "commit"])
    BY <1>1, <1>3, <2>1, <2>2, StageFields DEF Fits, Shape, Writing, Unlinking
  <2>. QED BY <1>3, <1>6, <2>1, <2>3, StageStep
<1>7. trashed \in SUBSET Rows /\ \A p : {f \in Rows : place[f] = p} \in SUBSET Rows
  BY DEF Rows
<1>8. \/ \E F \in SUBSET Rows :
           /\ doomed' = doomed \cup F
           /\ Go(s, [q EXCEPT !.F = @ \cup F, !.left = {<<f, blob[f]>> : f \in F \ q.F}])
      \/ req[s] # Idle /\ Step(s, "commit") /\ UNCHANGED doomed
  BY <1>2, <1>7 DEF LoadTrash
<1>. QED BY <1>5, <1>6, <1>8

(* copy and restore_version make their blob, and forget the source          *)
LEMMA StartCopyStep ==
  ASSUME IInv, NEW s \in Sessions, StartCopy(s)
  PROVE  IInv'
<1>1. /\ req[s] \in Request /\ req[s].old \subseteq Blobs
      /\ Fits(s, req[s], doomed, There)
  BY DEF IInv, TypeOK, Request
<1>2. /\ req[s].op \in {"copy", "revert"} /\ req[s].stage = "find"
      /\ UNCHANGED <<tables, stored, doomed>>
  BY DEF StartCopy, At
<1>3. PICK st \in {"insert", "version"} : st = IF req[s].op = "copy" THEN "insert" ELSE "version"
  OBVIOUS
<1>4. CASE Fail(s) /\ UNCHANGED <<hollow, copying>>
  BY <1>2, <1>4, GiveUpStep DEF azure
<1>5. ASSUME NEW b \in FreshBlobs, NEW source \in req[s].old,
             \/ copying' = copying \cup {<<source, b>>} /\ UNCHANGED hollow
             \/ hollow' = hollow \cup {b} /\ UNCHANGED copying,
             Go(s, [req[s] EXCEPT !.stage = st, !.b = b, !.old = {}])
      PROVE  IInv'
  <2>1. /\ b \in Blobs /\ b # Nil /\ \A f \in Files : ~Owns(f, b)
        /\ \A t \in Sessions : b # req[t].b /\ b \notin Marked(req[t])
    BY Unheard
  <2> DEFINE n == [req[s] EXCEPT !.stage = st, !.b = b, !.old = {}]
  <2>2. /\ n \in Request /\ n.stage = st /\ n.b = b /\ n.old = {}
        /\ n.op = req[s].op /\ n.F = req[s].F /\ n.new = req[s].new
        /\ n.held = req[s].held /\ n.left = req[s].left
    BY <1>1, <2>1 DEF Request, Stages
  <2>3. req' = [req EXCEPT ![s] = n]
    BY <1>5 DEF Go
  <2> HIDE DEF n
  <2>4. PICK r \in Request : r = n
    BY <2>2
  <2>5. There \subseteq There' /\ b \in There'
    <3>1. CASE copying' = copying \cup {<<source, b>>} /\ UNCHANGED hollow
      <4>1. <<source, b>> \in copying' /\ <<source, b>>[2] = b
        BY <3>1
      <4>. QED BY <1>2, <3>1, <4>1 DEF There
    <3>2. CASE hollow' = hollow \cup {b} /\ UNCHANGED copying
      BY <1>2, <3>2 DEF There
    <3>. QED BY <1>5, <3>1, <3>2
  <2>11. req[s].held = {} /\ req[s].left = {}
    BY <1>1, <1>2 DEF Fits, Shape, Unlinking
  <2>12. Marked(r) = {}
    BY <2>2, <2>4, <2>11 DEF Marked
  <2>6. Shape(r)
    BY <1>1, <1>2, <1>3, <2>1, <2>2, <2>4, <2>11 DEF Fits, Shape, Writing
  <2>7. Apart(s, r)
    BY <1>1, <2>1, <2>2, <2>4, <2>11, <2>12 DEF Fits, Apart
  <2>8. OwnRows(r) /\ OwnBlob(r, There') /\ Condemned(r, doomed)
    BY <1>1, <1>2, <2>1, <2>2, <2>4, <2>5, <2>11, <2>12
    DEF Fits, OwnRows, OwnBlob, Condemned, Deleting
  <2>9. stored' \subseteq Blobs /\ hollow' \subseteq Blobs /\ copying' \subseteq Blobs \X Blobs
    BY <1>1, <1>2, <1>5, <2>1 DEF IInv, TypeOK
  <2>10. doomed' = doomed /\ doomed \subseteq Files /\ UNCHANGED tables
    BY <1>2 DEF IInv, TypeOK
  <2>. QED BY <2>3, <2>4, <2>5, <2>6, <2>7, <2>8, <2>9, <2>10, KeepStep DEF Fits
<1>. QED BY <1>3, <1>4, <1>5 DEF StartCopy

-----------------------------------------------------------------------------
(***************************************************************************)
(* A commit changes the rows of its own files only, gives them no blob but *)
(* the one its request has created, and is not seen by the others.         *)
(***************************************************************************)
LEMMA CommitFrame ==
  ASSUME IInv, NEW s \in Sessions, NEW q \in Request, q = req[s],
         req' = [req EXCEPT ![s] = Idle], UNCHANGED azure, q.stage = "commit",
         doomed' = IF q.new THEN doomed \ q.F ELSE doomed,
         TypeOK', (trashed \subseteq doomed)', VersionsHaveFile',
         Rows \ q.F \subseteq Rows', Rows' \subseteq Rows \cup q.F,
         \A f \in Files, b \in Blobs :
           blob'[f] = b \/ <<f, b>> \in versions'
                      => \/ Owns(f, b) /\ ~(q.new /\ f \in q.F)
                         \/ q.op \in Writing /\ f \in q.F /\ b = q.b,
         \A f \in live' \ doomed' : \/ f \in live \ doomed /\ blob'[f] = blob[f]
                                    \/ q.b # Nil /\ blob'[f] = q.b,
         \A v \in versions' : v \in versions \/ (q.b # Nil /\ v[2] = q.b)
  PROVE  IInv'
<1>0. \A f \in Files, b \in Blobs :
        Owns(f, b)' => \/ Owns(f, b) /\ ~(q.new /\ f \in q.F)
                       \/ q.op \in Writing /\ f \in q.F /\ b = q.b
  BY DEF Owns
<1>1. There' = There
  BY DEF There, azure
<1>2. Shape(q) /\ Apart(s, q) /\ OwnRows(q) /\ OwnBlob(q, There) /\ Condemned(q, doomed)
  BY DEF IInv, Fits
<1>3. q.op \in Writing => q.b # Nil
  BY <1>2 DEF Shape
<1>4. ASSUME NEW t \in Sessions PROVE Fits(t, req[t], doomed, There)'
  <2>1. CASE t = s
    <3>1. req'[t] = Idle
      BY <2>1 DEF IInv, TypeOK
    <3>2. Apart(t, Idle)'
      <4>1. \A u \in Sessions : req'[u] \in Request
        BY DEF TypeOK
      <4>2. \A u \in Sessions : Nil \notin Marked(req'[u])
        BY <4>1, MarkedBlobs
      <4>. QED BY <4>2, IdleFields DEF Apart
    <3>4. Shape(Idle) /\ OwnRows(Idle)' /\ OwnBlob(Idle, There)' /\ Condemned(Idle, doomed)'
      BY IdleFields DEF Shape, OwnRows, OwnBlob, Condemned
    <3>3. Fits(t, Idle, doomed, There)'
      BY <3>2, <3>4 DEF Fits
    <3>. QED BY <3>1, <3>3
  <2>2. CASE t # s
    <3>0. PICK r \in Request : r = req[t] /\ r = req'[t]
      BY <2>2 DEF IInv, TypeOK
    <3>1. Shape(r) /\ Apart(t, r) /\ OwnRows(r) /\ OwnBlob(r, There) /\ Condemned(r, doomed)
      BY <3>0 DEF IInv, Fits
    <3>2. /\ q.new \/ r.new => q.F \cap r.F = {}
          /\ q.held \cap r.held = {}
          /\ q.b # Nil => q.b # r.b /\ q.b \notin Marked(r)
      BY <1>2, <2>2, <3>0 DEF Apart
    <3>3. q.held = q.F
      BY <1>2 DEF Shape
    <3>4. Apart(t, r)'
      <4>1. \A u \in Sessions : req'[u] = IF u = s THEN Idle ELSE req[u]
        BY DEF IInv, TypeOK
      <4>2. Nil \notin Marked(r)
        BY MarkedBlobs
      <4>. QED BY <3>1, <4>1, <4>2, IdleFields DEF Apart
    <3>5. OwnRows(r)'
      BY <3>1, <3>2, <3>3 DEF OwnRows
    <3>6. OwnBlob(r, There)'
      <4>1. ASSUME NEW f \in Files, r.b # Nil, Owns(f, r.b)' PROVE FALSE
        <5>1. r.b \in Blobs
          BY <4>1 DEF Request
        <5>2. ~Owns(f, r.b)
          BY <3>1, <4>1 DEF OwnBlob
        <5>. QED BY <1>0, <1>3, <3>2, <4>1, <5>1, <5>2
      <4>. QED BY <1>1, <3>1, <4>1 DEF OwnBlob
    <3>7. Condemned(r, doomed)'
      <4>1. r.op \in Deleting \cup {"restore"} => r.F \subseteq doomed'
        BY <3>1, <3>2 DEF Condemned
      <4>2. ASSUME r.op \notin {"copy", "revert"}, NEW b \in Marked(r), NEW f \in Files, Owns(f, b)'
            PROVE  f \in doomed'
        <5>1. b \in Blobs
          BY MarkedBlobs
        <5>2. Owns(f, b) /\ ~(q.new /\ f \in q.F)
          BY <1>0, <1>3, <3>2, <4>2, <5>1
        <5>. QED BY <3>1, <4>2, <5>2 DEF Condemned
      <4>. QED BY <4>1, <4>2 DEF Condemned
    <3>. QED BY <3>0, <3>1, <3>4, <3>5, <3>6, <3>7 DEF Fits
  <2>. QED BY <2>1, <2>2
<1>5. OneOwner'
  <2> SUFFICES ASSUME NEW b \in Blobs, NEW f \in Files, NEW g \in Files, Owns(f, b)', Owns(g, b)'
               PROVE  f = g
    BY DEF OneOwner
  <2>1. CASE Owns(f, b) /\ Owns(g, b)
    BY <2>1 DEF IInv, OneOwner
  <2>2. CASE q.op \in Writing /\ b = q.b /\ (f \in q.F \/ g \in q.F)
    <3>1. ~Owns(f, b) /\ ~Owns(g, b)
      BY <1>2, <1>3, <2>2 DEF OwnBlob
    <3>2. f \in q.F /\ g \in q.F
      BY <1>0, <3>1
    <3>. QED BY <1>2, <2>2, <3>2 DEF Shape
  <2>. QED BY <1>0, <2>1, <2>2
<1>6. UntouchedHaveContent'
  <2>0. q.b # Nil => q.b \in There
    BY <1>2 DEF OwnBlob
  <2>1. ASSUME NEW f \in live' \ doomed' PROVE blob'[f] \in There
    BY <2>0 DEF IInv, UntouchedHaveContent, There
  <2>2. ASSUME NEW v \in versions', v[1] \notin doomed' PROVE v[2] \in There
    <3>1. CASE v \in versions
      <4>1. v[1] \in Rows
        BY <3>1 DEF IInv, VersionsHaveFile
      <4>2. ~(q.new /\ v[1] \in q.F)
        BY <1>2, <4>1 DEF OwnRows
      <4>3. v[1] \notin doomed
        BY <2>2, <4>2
      <4>. QED BY <3>1, <4>3 DEF IInv, UntouchedHaveContent, There
    <3>2. CASE q.b # Nil /\ v[2] = q.b
      BY <2>0, <3>2
    <3>. QED BY <3>1, <3>2
  <2>. QED BY <1>1, <2>1, <2>2 DEF UntouchedHaveContent, There
<1>. QED BY <1>4, <1>5, <1>6 DEF IInv

(* what every commit starts from                                            *)
LEMMA CommitStart ==
  ASSUME IInv, NEW s \in Sessions, NEW q \in Request, q = req[s], q.stage = "commit"
  PROVE  /\ q.F \subseteq Files
         /\ q.op \in Writing => q.b # Nil /\ q.b \in Blobs
         /\ q.op = "copy" => q.new
         /\ q.new => q.op \in {"upload", "copy"} /\ q.F \cap live = {} /\ q.F \cap trashed = {}
         /\ q.op \notin {"purge", "empty"} /\ ~q.new => q.F \subseteq live \cup trashed
         /\ q.op \in Deleting \cup {"restore"} => q.F \subseteq doomed
         /\ q.new => \A f \in q.F, b \in Blobs : <<f, b>> \notin versions
<1>1. Fits(s, q, doomed, There)
  BY DEF IInv
<1>2. /\ q.F \subseteq Files
      /\ q.op \in Writing => q.b # Nil /\ q.b \in Blobs
      /\ q.op = "copy" => q.new
      /\ q.new => q.op \in {"upload", "copy"}
  BY <1>1 DEF Fits, Shape, Request
<1>3. /\ q.new => q.F \cap Rows = {}
      /\ q.op \notin {"purge", "empty"} /\ ~q.new => q.F \subseteq Rows
  BY <1>1 DEF Fits, OwnRows, Shape
<1>4. q.op \in Deleting \cup {"restore"} => q.F \subseteq doomed
  BY <1>1 DEF Fits, Condemned
<1>5. ASSUME NEW f, NEW b, <<f, b>> \in versions PROVE f \in Rows
  <2>1. <<f, b>>[1] = f
    OBVIOUS
  <2>. QED BY <1>5, <2>1 DEF IInv, VersionsHaveFile
<1>. QED BY <1>2, <1>3, <1>4, <1>5 DEF Rows

LEMMA WriteCommit ==
  ASSUME IInv, NEW s \in Sessions, NEW q \in Request, q = req[s], q.stage = "commit",
         q.op \in Writing, Apply(q), Go(s, Idle), UNCHANGED azure,
         doomed' = IF q.new THEN doomed \ q.F ELSE doomed
  PROVE  IInv'
<1>1. /\ q.F \subseteq Files /\ q.b # Nil /\ q.b \in Blobs
      /\ q.new => q.F \cap live = {} /\ q.F \cap trashed = {}
      /\ ~q.new => q.F \subseteq live \cup trashed
      /\ q.new => \A f \in q.F, b \in Blobs : <<f, b>> \notin versions
      /\ q.op = "copy" => q.new
  BY CommitStart DEF Writing
<1>2. /\ live' = IF q.new THEN live \cup q.F ELSE live
      /\ place' = IF q.new THEN Assign(place, q.F, q.p) ELSE place
      /\ blob' = Assign(blob, q.F, q.b)
      /\ versions' = versions \/ versions' = versions \cup (q.F \X {q.b})
      /\ q.op # "copy" => versions' = versions \cup (q.F \X {q.b})
      /\ trashed' = trashed
  BY <1>1 DEF Apply, Writing
<1>3. /\ place \in [Files -> Places \cup {Nil}] /\ q.p \in Places \cup {Nil}
      /\ blob \in [Files -> Blobs \cup {Nil}] /\ q.b \in Blobs \cup {Nil}
      /\ live \subseteq Files /\ trashed \subseteq Files /\ live \cap trashed = {}
      /\ versions \subseteq Files \X Blobs /\ doomed \subseteq Files
      /\ \A f \in live \cup trashed : blob[f] # Nil
      /\ req \in [Sessions -> Request]
  BY <1>1 DEF IInv, TypeOK, Request
<1>4. /\ blob' \in [Files -> Blobs \cup {Nil}]
      /\ \A f \in Files : blob'[f] = IF f \in q.F THEN q.b ELSE blob[f]
  BY <1>2, <1>3 DEF Assign
<1>5. place' \in [Files -> Places \cup {Nil}]
  BY <1>2, <1>3 DEF Assign
<1>6. versions' \subseteq Files \X Blobs
  BY <1>1, <1>2, <1>3
<1>7. req' = [req EXCEPT ![s] = Idle] /\ req' \in [Sessions -> Request]
  BY <1>3, IdleFields DEF Go
<1>8. TypeOK'
  <2>1. live' \subseteq Files /\ trashed' \subseteq Files /\ live' \cap trashed' = {}
    BY <1>1, <1>2, <1>3
  <2>2. \A f \in live' \cup trashed' : blob'[f] # Nil
    BY <1>1, <1>2, <1>3, <1>4
  <2>3. doomed' \subseteq Files /\ stored' \subseteq Blobs /\ hollow' \subseteq Blobs
        /\ copying' \subseteq Blobs \X Blobs
    BY <1>3 DEF IInv, TypeOK, azure
  <2>. QED BY <1>4, <1>5, <1>6, <1>7, <2>1, <2>2, <2>3 DEF TypeOK
<1>9. (trashed \subseteq doomed)'
  BY <1>1, <1>2 DEF IInv
<1>10. Rows \ q.F \subseteq Rows' /\ Rows' \subseteq Rows \cup q.F /\ q.F \cup Rows \subseteq Rows'
  BY <1>1, <1>2 DEF Rows
<1>11. \A v \in versions' : v \in versions \/ (q.b # Nil /\ v[2] = q.b /\ v[1] \in q.F)
  BY <1>1, <1>2
<1>12. VersionsHaveFile'
  BY <1>10, <1>11 DEF IInv, VersionsHaveFile
<1>13. \A f \in Files, b \in Blobs :
         blob'[f] = b \/ <<f, b>> \in versions'
                    => \/ Owns(f, b) /\ ~(q.new /\ f \in q.F)
                       \/ q.op \in Writing /\ f \in q.F /\ b = q.b
  <2> SUFFICES ASSUME NEW f \in Files, NEW b \in Blobs, blob'[f] = b \/ <<f, b>> \in versions'
               PROVE  \/ Owns(f, b) /\ ~(q.new /\ f \in q.F)
                      \/ q.op \in Writing /\ f \in q.F /\ b = q.b
    OBVIOUS
  <2>1. CASE blob'[f] = b
    BY <1>4, <2>1 DEF Owns
  <2>2. CASE <<f, b>> \in versions'
    <3>1. <<f, b>> \in versions \/ (f \in q.F /\ b = q.b)
      BY <1>2, <2>2
    <3>. QED BY <1>1, <3>1 DEF Owns
  <2>. QED BY <2>1, <2>2 DEF Owns
<1>14. \A f \in live' \ doomed' : \/ f \in live \ doomed /\ blob'[f] = blob[f]
                                  \/ q.b # Nil /\ blob'[f] = q.b
  <2> SUFFICES ASSUME NEW f \in live' \ doomed', f \notin q.F
               PROVE  f \in live \ doomed /\ blob'[f] = blob[f]
    <3>1. \A f \in live' : f \in Files /\ (f \in q.F => blob'[f] = q.b)
      BY <1>1, <1>2, <1>3, <1>4
    <3>. QED BY <1>1, <3>1
  <2>1. f \in live /\ f \in Files
    BY <1>2, <1>3
  <2>2. f \notin doomed
    OBVIOUS
  <2>. QED BY <1>4, <2>1, <2>2
<1>. QED BY <1>7, <1>8, <1>9, <1>10, <1>11, <1>12, <1>13, <1>14, CommitFrame

(* those that give no file a blob                                           *)
LEMMA MoveCommit ==
  ASSUME IInv, NEW s \in Sessions, NEW q \in Request, q = req[s], q.stage = "commit",
         q.op \notin Writing, Apply(q), Go(s, Idle), UNCHANGED azure,
         doomed' = IF q.new THEN doomed \ q.F ELSE doomed
  PROVE  IInv'
<1>1. /\ q.F \subseteq Files /\ ~q.new
      /\ q.op \notin {"purge", "empty"} => q.F \subseteq live \cup trashed
      /\ q.op \in Deleting \cup {"restore"} => q.F \subseteq doomed
  BY CommitStart DEF Writing
<1>2. /\ place \in [Files -> Places \cup {Nil}] /\ q.p \in Places \cup {Nil}
      /\ blob \in [Files -> Blobs \cup {Nil}]
      /\ live \subseteq Files /\ trashed \subseteq Files /\ live \cap trashed = {}
      /\ versions \subseteq Files \X Blobs /\ doomed \subseteq Files
      /\ \A f \in live \cup trashed : blob[f] # Nil
      /\ req \in [Sessions -> Request] /\ trashed \subseteq doomed /\ doomed' = doomed
      /\ \A v \in versions : v[1] \in live \cup trashed
  BY <1>1 DEF IInv, TypeOK, Request, VersionsHaveFile, Rows
<1>3. req' = [req EXCEPT ![s] = Idle] /\ req' \in [Sessions -> Request]
  BY <1>2, IdleFields DEF Go
<1>4. /\ live' \subseteq live \cup (q.F \cap doomed) /\ live' \subseteq Files
      /\ trashed' \subseteq doomed /\ live' \cap trashed' = {}
      /\ Rows \ q.F \subseteq Rows' /\ Rows' \subseteq Rows
      /\ place' \in [Files -> Places \cup {Nil}]
      /\ blob' \in [Files -> Blobs \cup {Nil}]
      /\ \A f \in Files : blob'[f] = blob[f] \/ (blob'[f] = Nil /\ f \notin Rows')
      /\ versions' \subseteq versions
      /\ \A v \in versions' : v[1] \in Rows'
  <2>1. CASE q.op \in {"purge", "empty"}
    <3>1. /\ live' = live \ q.F /\ trashed' = trashed \ q.F
          /\ place' = Assign(place, q.F, Nil) /\ blob' = Assign(blob, q.F, Nil)
          /\ versions' = {v \in versions : v[1] \notin q.F}
      BY <2>1 DEF Apply
    <3>2. /\ place' \in [Files -> Places \cup {Nil}]
          /\ blob' \in [Files -> Blobs \cup {Nil}]
          /\ \A f \in Files : blob'[f] = IF f \in q.F THEN Nil ELSE blob[f]
      BY <1>2, <3>1 DEF Assign
    <3>. QED BY <1>2, <3>1, <3>2 DEF Rows
  <2>2. CASE q.op = "move"
    <3>1. place' = Assign(place, q.F, q.p) /\ UNCHANGED <<live, trashed, blob, versions>>
      BY <2>2 DEF Apply
    <3>2. place' \in [Files -> Places \cup {Nil}]
      BY <1>2, <3>1 DEF Assign
    <3>. QED BY <1>2, <3>1, <3>2 DEF Rows
  <2>3. CASE q.op \in {"delete", "trash"}
    <3>1. /\ live' = live \ q.F /\ trashed' = trashed \cup q.F
          /\ UNCHANGED <<place, blob, versions>>
      BY <2>3 DEF Apply
    <3>. QED BY <1>1, <1>2, <2>3, <3>1 DEF Rows, Deleting
  <2>4. CASE q.op = "restore"
    <3>1. /\ live' = live \cup q.F /\ trashed' = trashed \ q.F
          /\ UNCHANGED <<place, blob, versions>>
      BY <2>4 DEF Apply
    <3>. QED BY <1>1, <1>2, <2>4, <3>1 DEF Rows
  <2>5. CASE q.op \notin {"purge", "empty", "move", "delete", "trash", "restore"}
    <3>1. /\ live' = live \ q.F /\ trashed' = trashed \ q.F
          /\ place' = Assign(place, q.F, Nil) /\ blob' = Assign(blob, q.F, Nil)
          /\ versions' = {v \in versions : v[1] \notin q.F}
      BY <2>5 DEF Apply, Writing
    <3>2. /\ place' \in [Files -> Places \cup {Nil}]
          /\ blob' \in [Files -> Blobs \cup {Nil}]
          /\ \A f \in Files : blob'[f] = IF f \in q.F THEN Nil ELSE blob[f]
      BY <1>2, <3>1 DEF Assign
    <3>. QED BY <1>2, <3>1, <3>2 DEF Rows
  <2>. QED BY <2>1, <2>2, <2>3, <2>4, <2>5
<1>5. TypeOK'
  <2>1. \A f \in live' \cup trashed' : blob'[f] # Nil
    BY <1>2, <1>4 DEF Rows
  <2>2. doomed' \subseteq Files /\ stored' \subseteq Blobs /\ hollow' \subseteq Blobs
        /\ copying' \subseteq Blobs \X Blobs
    BY <1>2 DEF IInv, TypeOK, azure
  <2>. QED BY <1>2, <1>3, <1>4, <2>1, <2>2 DEF TypeOK
<1>6. \A f \in Files, b \in Blobs :
        blob'[f] = b \/ <<f, b>> \in versions' => Owns(f, b) /\ ~(q.new /\ f \in q.F)
  BY <1>1, <1>4, NilAssumption DEF Owns
<1>7. \A f \in live' \ doomed' : f \in live \ doomed /\ blob'[f] = blob[f]
  BY <1>2, <1>4 DEF Rows
<1>8. (trashed \subseteq doomed)' /\ VersionsHaveFile' /\ Rows' \subseteq Rows \cup q.F
  BY <1>2, <1>4 DEF VersionsHaveFile
<1>. QED BY <1>3, <1>4, <1>5, <1>6, <1>7, <1>8, CommitFrame

LEMMA CommitStep ==
  ASSUME IInv, NEW s \in Sessions, Commit(s)
  PROVE  IInv'
<1>1. PICK q \in Request : q = req[s]
  BY DEF IInv, TypeOK
<1>2. q.stage = "commit" /\ UNCHANGED azure
  BY <1>1 DEF Commit
<1>3. CASE Apply(q) /\ Go(s, Idle) /\ doomed' = IF q.new THEN doomed \ q.F ELSE doomed
  BY <1>1, <1>2, <1>3, WriteCommit, MoveCommit
<1>4. CASE Fail(s) /\ UNCHANGED <<tables, doomed>>
  BY <1>2, <1>4, GiveUpStep
<1>. QED BY <1>1, <1>3, <1>4 DEF Commit

-----------------------------------------------------------------------------
LEMMA NextIInv == IInv /\ [Next]_vars => IInv'
<1> SUFFICES ASSUME IInv, [Next]_vars PROVE IInv'
  OBVIOUS
<1>1. CASE EndCopy
  BY <1>1, EndCopyStep
<1>2. ASSUME NEW s \in Sessions, Serve(s) PROVE IInv'
  BY <1>2, PutBlobStep, FindByNameStep, InsertFileStep, WriteVersionStep, CleanUpStep,
     LoadFileStep, LoadFolderStep, LoadTrashStep, StartCopyStep, WriteRowsStep,
     UnlinkStep, UnlinkListedStep, CommitStep DEF Serve
<1>3. ASSUME NEW s \in Sessions, Cancel(s) PROVE IInv'
  BY <1>3, CancelStep
<1>4. CASE UNCHANGED vars
  <2>1. UNCHANGED <<live, trashed, place, blob, versions, stored, hollow, copying, req, doomed>>
    BY <1>4 DEF vars
  <2>. QED BY <2>1 DEF IInv, TypeOK, Fits, Shape, Apart, OwnRows, OwnBlob, Condemned,
                      Owns, There, Rows, OneOwner, VersionsHaveFile, UntouchedHaveContent
<1>. QED BY <1>1, <1>2, <1>3, <1>4 DEF Next

\* the invariant above holds of rows and requests in every state
LEMMA Invariance == Spec => []IInv
BY InitIInv, NextIInv, PTL DEF Spec

(* Rows, blobs and requests stay well typed, whatever fails: no file is    *)
(* live and in the trash at once, and every row names a blob.              *)
THEOREM FilesTyped == Spec => []TypeOK
<1>1. IInv => TypeOK
  BY DEF IInv
<1>. QED BY <1>1, Invariance, PTL

(* However many requests overlap and whichever of them fail, no deletion,  *)
(* cleanup or purge takes away the content of a file, or of a version of   *)
(* it, unless somebody asked to delete that file or a folder it was in.    *)
THEOREM UntouchedKeepContent == Spec => []UntouchedHaveContent
<1>1. IInv => UntouchedHaveContent
  BY DEF IInv
<1>. QED BY <1>1, Invariance, PTL

(* No request leaves the version row of a file that is gone.               *)
THEOREM VersionsKeepFile == Spec => []VersionsHaveFile
<1>1. IInv => VersionsHaveFile
  BY DEF IInv
<1>. QED BY <1>1, Invariance, PTL

(* Two files never share a blob, so that deleting one cannot hurt the      *)
(* other.                                                                  *)
THEOREM BlobsAreUnshared == Spec => []OneOwner
<1>1. IInv => OneOwner
  BY DEF IInv
<1>. QED BY <1>1, Invariance, PTL
=============================================================================
