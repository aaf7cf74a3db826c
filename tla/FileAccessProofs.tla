-------------------------- MODULE FileAccessProofs --------------------------
(***************************************************************************)
(* FileAccess for any number of users and overlapping requests.            *)
(***************************************************************************)
EXTENDS FileAccess, FiniteSetTheorems, WellFoundedInduction, TLAPS

\* what request r has locked, nobody else holds in a way that excludes it
Compatible(r, o) == Exclusive(r) \cap (Exclusive(o) \cup Shared(o)) = {}

\* what a request still knows of the row it has found
Sound(r) ==
  /\ r.stage # "idle" => r.user \in Users
  /\ r.seen = "row" => Reads(r) \in rows
  /\ TableOf[r.kind] = "file" => r.seen = "none"
  /\ r.kind \in {"create_tag", "create_link", "favorite"} => r.seen = "none"
  /\ r.kind = "assign" => r.seen # "none"
  /\ r.stage = "commit" => ~Fails(r)

(***************************************************************************)
(* The rows are in order, every request is sound, those about to commit    *)
(* hold compatible locks, and one marked alone is.                         *)
(***************************************************************************)
IInv ==
  /\ TypeOK
  /\ NoOrphans
  /\ FailsOnlyByOverlap
  /\ \A s \in Sessions : Sound(sess[s])
  /\ \A s, d \in Sessions :
       s # d /\ sess[s].stage = "commit" /\ sess[d].stage = "commit" => Compatible(sess[s], sess[d])
  /\ \A s, d \in Sessions : s # d /\ Active(s) /\ sess[s].alone => ~Active(d)

LEMMA IdleSound == Idle \in Session /\ Sound(Idle) /\ Idle.stage = "idle" /\ ~Idle.alone
BY DEF Idle, Session, Kinds, TableOf, Sound

LEMMA InitIInv == Init => IInv
<1> SUFFICES ASSUME Init PROVE IInv
  OBVIOUS
<1>1. \A s \in Sessions : sess[s] = Idle
  BY DEF Init
<1>2. TypeOK /\ NoOrphans
  BY IdleSound DEF Init, TypeOK, NoOrphans
<1>3. \A s \in Sessions : Sound(sess[s]) /\ sess[s].stage = "idle"
  BY <1>1, IdleSound
<1>. QED BY <1>2, <1>3 DEF IInv, FailsOnlyByOverlap, Active

(* No kind of request has a table that Keys does not know, but the file's. *)
LEMMA Tables ==
  ASSUME NEW k \in Kinds
  PROVE  TableOf[k] \in {"permission", "tag", "link", "file"} \cup Children
BY DEF Kinds, TableOf, Children

(* A request keeps its statement and its locks when the row it found goes. *)
LEMMA SameLocks ==
  ASSUME NEW r \in Session, r.seen = "row", NEW o, o = [r EXCEPT !.seen = "gone"]
  PROVE  /\ o \in Session
         /\ o.kind = r.kind /\ o.user = r.user /\ o.stage = r.stage /\ o.alone = r.alone
         /\ o.seen = "gone" /\ o.actor = r.actor /\ o.read = r.read
         /\ Op(o) = Op(r) /\ Target(o) = Target(r) /\ Reads(o) = Reads(r) /\ IsChild(o) = IsChild(r)
         /\ Exclusive(o) = Exclusive(r) /\ Shared(o) = Shared(r)
<1>1. /\ o \in Session
      /\ o.kind = r.kind /\ o.user = r.user /\ o.stage = r.stage /\ o.alone = r.alone
      /\ o.seen = "gone" /\ o.actor = r.actor /\ o.read = r.read
  BY DEF Session
<1>2. Op(o) = Op(r)
  BY <1>1 DEF Op, Upsert, Record
<1>3. Target(o) = Target(r) /\ Reads(o) = Reads(r) /\ IsChild(o) = IsChild(r)
  BY <1>1 DEF Target, Reads, IsChild
<1>4. Exclusive(o) = Exclusive(r) /\ Shared(o) = Shared(r)
  BY <1>1, <1>2, <1>3 DEF Exclusive, Shared
<1>. QED BY <1>1, <1>2, <1>3, <1>4

(* What the checks of a request have established when it starts to write.  *)
LEMMA Allows ==
  ASSUME NEW kind \in Kinds, NEW a \in Users, NEW u \in Users, Allowed(kind, a, u)
  PROVE  /\ kind = "create_tag" => Key("tag", u) \notin rows
         /\ kind = "create_link" => Key("link", u) \notin rows
         /\ kind = "assign" => Key("tag", u) \in rows
         /\ kind \in {"assign", "favorite", "download", "transfer", "metadata"} => file = "live"
BY DEF Allowed, MayGrant, MayTransfer, MayPurge, MayTag, MayFavorite, MayRead, MayLink, CanOpen, Has

(* Nothing but its own commit makes a row or key that r has locked vanish  *)
(* or appear, so what did not fail when it was written does not fail later. *)
(* Locks and failures depend on the rows and on the request's kind, user   *)
(* and findings only.                                                      *)
LEMMA Unmoved ==
  ASSUME NEW d \in Sessions, rows' = rows, file' = "gone" <=> file = "gone",
         sess'[d].kind = sess[d].kind, sess'[d].user = sess[d].user, sess'[d].seen = sess[d].seen
  PROVE  /\ Reads(sess[d])' = Reads(sess[d])
         /\ Fails(sess[d])' = Fails(sess[d])
         /\ Exclusive(sess[d])' = Exclusive(sess[d])
         /\ Shared(sess[d])' = Shared(sess[d])
BY DEF Reads, Fails, Op, Upsert, Record, Target, IsChild, Exclusive, Shared

(* Those about to commit keep compatible locks if they have kept their own. *)
LEMMA StillCompatible ==
  ASSUME IInv,
         \A d \in Sessions : sess'[d].stage = "commit" =>
           /\ sess[d].stage = "commit"
           /\ Exclusive(sess[d])' = Exclusive(sess[d])
           /\ Shared(sess[d])' = Shared(sess[d])
  PROVE  \A c, d \in Sessions :
           c # d /\ sess'[c].stage = "commit" /\ sess'[d].stage = "commit" => Compatible(sess[c], sess[d])'
<1> SUFFICES ASSUME NEW c \in Sessions, NEW d \in Sessions, c # d,
                    sess'[c].stage = "commit", sess'[d].stage = "commit"
             PROVE  Compatible(sess[c], sess[d])'
  OBVIOUS
<1>1. Compatible(sess[c], sess[d])
  BY DEF IInv
<1>2. Exclusive(sess[c])' = Exclusive(sess[c])
  OBVIOUS
<1>3. Exclusive(sess[d])' = Exclusive(sess[d]) /\ Shared(sess[d])' = Shared(sess[d])
  OBVIOUS
<1>. QED BY <1>1, <1>2, <1>3 DEF Compatible

LEMMA CheckStep ==
  ASSUME IInv, NEW s \in Sessions, Check(s)
  PROVE  IInv'
<1>1. PICK kind \in kinds, a \in Users, u \in Users :
        /\ Allowed(kind, a, u)
        /\ sess' = [d \in Sessions |->
                      IF d = s THEN Request(kind, a, u) ELSE [sess[d] EXCEPT !.alone = FALSE]]
  BY DEF Check
<1>2. UNCHANGED <<file, owner, rows, count, enabled, granted, kinds>>
  BY DEF Check, link
<1>3. kind \in Kinds
  BY ScopesAssumption DEF IInv, TypeOK
<1> PICK new : new = Request(kind, a, u)
  OBVIOUS
<1>4. /\ new.stage = "write" /\ new.kind = kind /\ new.user = u /\ new.alone = Alone
      /\ Reads(new) = Reads([kind |-> kind, user |-> u])
      /\ new.seen = IF kind # "favorite" /\ Reads(new) \in rows THEN "row" ELSE "none"
  BY DEF Request, Reads
<1>5. new \in Session
  <2>1. Alone \in BOOLEAN
    BY DEF Alone
  <2>. QED BY <1>3, <2>1 DEF Session, IInv, TypeOK, Request
<1>6. /\ sess'[s] = new
      /\ \A d \in Sessions \ {s} : sess'[d] = [sess[d] EXCEPT !.alone = FALSE]
  BY <1>1
<1>7. \A d \in Sessions : [sess[d] EXCEPT !.alone = FALSE] \in Session
  BY DEF Session, IInv, TypeOK
<1>8. TypeOK'
  BY <1>1, <1>2, <1>5, <1>7 DEF IInv, TypeOK
<1>9. NoOrphans'
  BY <1>2 DEF IInv, NoOrphans, ChildKeys
<1>10. Sound(new)'
  <2>1. new.seen = "row" => Reads(new) \in rows
    BY <1>4
  <2>2. TableOf[kind] = "file" => new.seen = "none"
    <3>1. TableOf[kind] = "file" => Reads(new) \notin Keys
      BY <1>4 DEF Reads, Key, Keys, Children, TableOf
    <3>. QED BY <1>4, <3>1 DEF IInv, TypeOK
  <2>3. kind \in {"create_tag", "create_link", "favorite"} => new.seen = "none"
    BY <1>1, <1>3, <1>4, Allows DEF Reads, TableOf
  <2>4. kind = "assign" => new.seen # "none"
    BY <1>1, <1>3, <1>4, Allows DEF Reads
  <2>. QED BY <1>2, <1>4, <2>1, <2>2, <2>3, <2>4 DEF Sound, Reads
<1>11. \A d \in Sessions : Sound(sess[d])'
  <2> SUFFICES ASSUME NEW d \in Sessions PROVE Sound(sess[d])'
    OBVIOUS
  <2>1. CASE d = s
    BY <1>6, <1>10, <2>1 DEF Sound, Reads, Fails, Op, Upsert, Record, Target, IsChild
  <2>2. CASE d # s
    <3>1. sess'[d] = [sess[d] EXCEPT !.alone = FALSE]
      BY <1>6, <2>2
    <3>2. /\ sess'[d].stage = sess[d].stage /\ sess'[d].kind = sess[d].kind
          /\ sess'[d].user = sess[d].user /\ sess'[d].seen = sess[d].seen
      BY <3>1 DEF IInv, TypeOK, Session
    <3>3. Sound(sess[d])
      BY DEF IInv
    <3>4. Reads(sess[d])' = Reads(sess[d])
      BY <3>2 DEF Reads
    <3>5. Fails(sess[d])' = Fails(sess[d])
      BY <1>2, <3>2 DEF Fails, Op, Upsert, Record, Target, IsChild
    <3>. QED BY <1>2, <3>2, <3>3, <3>4, <3>5 DEF Sound
  <2>. QED BY <2>1, <2>2
<1>12. \A d \in Sessions : sess'[d].stage = "commit" =>
           /\ sess[d].stage = "commit"
           /\ Exclusive(sess[d])' = Exclusive(sess[d])
           /\ Shared(sess[d])' = Shared(sess[d])
  <2> SUFFICES ASSUME NEW d \in Sessions, sess'[d].stage = "commit"
               PROVE  /\ sess[d].stage = "commit"
                      /\ Exclusive(sess[d])' = Exclusive(sess[d])
                      /\ Shared(sess[d])' = Shared(sess[d])
    OBVIOUS
  <2>1. d # s
    BY <1>4, <1>6
  <2>2. /\ sess'[d].stage = sess[d].stage /\ sess'[d].kind = sess[d].kind
        /\ sess'[d].user = sess[d].user /\ sess'[d].seen = sess[d].seen
    BY <1>6, <2>1 DEF IInv, TypeOK, Session
  <2>. QED BY <1>2, <2>2, Unmoved
<1>13. \A c, d \in Sessions :
         c # d /\ sess'[c].stage = "commit" /\ sess'[d].stage = "commit" => Compatible(sess[c], sess[d])'
  BY <1>12, StillCompatible
<1>14. \A d \in Sessions : sess'[d].alone => d = s /\ Alone
  BY <1>4, <1>6 DEF IInv, TypeOK, Session
<1>15. \A c, d \in Sessions : c # d /\ Active(c)' /\ sess'[c].alone => ~Active(d)'
  <2>1. Alone => \A d \in Sessions : sess[d].stage = "idle"
    BY DEF Alone, Active
  <2>2. \A d \in Sessions \ {s} : sess'[d].stage = sess[d].stage
    BY <1>6 DEF IInv, TypeOK, Session
  <2>. QED BY <1>14, <2>1, <2>2 DEF Active
<1>16. FailsOnlyByOverlap'
  <2>1. kind \notin {"favorite", "assign"} => ~Fails(new)
    <3> SUFFICES ASSUME kind \notin {"favorite", "assign"} PROVE ~Fails(new)
      OBVIOUS
    <3>1. Target(new) = Reads(new) /\ new.seen # "gone"
      BY <1>4 DEF Target, Reads
    <3>2. Op(new) = "insert" => new.seen = "none"
      BY <1>4, <1>10 DEF Op, Upsert, Record, Adding, Sound
    <3>3. Op(new) = "insert" /\ IsChild(new) => kind = "download"
      BY <1>4 DEF Op, Upsert, Record, Adding, IsChild, TableOf, Children
    <3>4. Op(new) = "update" /\ TableOf[kind] = "file" => kind \in {"transfer", "metadata"}
      BY <1>3, <1>4 DEF Op, Deleting, TableOf, Kinds
    <3>5. kind \in {"download", "transfer", "metadata"} => file # "gone"
      BY <1>1, <1>3, Allows
    <3>. QED BY <1>4, <3>1, <3>2, <3>3, <3>4, <3>5 DEF Fails
  <2>2. Fails(sess[s])' = Fails(new)
    BY <1>2, <1>6 DEF Fails, Op, Upsert, Record, Target, IsChild
  <2>. QED BY <1>4, <1>6, <1>14, <2>1, <2>2 DEF FailsOnlyByOverlap
<1>. QED BY <1>8, <1>9, <1>11, <1>13, <1>15, <1>16 DEF IInv

LEMMA CancelStep ==
  ASSUME IInv, NEW s \in Sessions, Cancel(s)
  PROVE  IInv'
<1>1. UNCHANGED <<file, owner, rows, count, enabled, granted, kinds>> /\ sess' = [sess EXCEPT ![s] = Idle]
  BY DEF Cancel, End, link
<1>2. sess'[s] = Idle /\ \A d \in Sessions \ {s} : sess'[d] = sess[d]
  BY <1>1 DEF IInv, TypeOK
<1>3. TypeOK' /\ NoOrphans'
  BY <1>1, IdleSound DEF IInv, TypeOK, NoOrphans, ChildKeys
<1>4. \A d \in Sessions \ {s} :
        /\ Reads(sess[d])' = Reads(sess[d]) /\ Fails(sess[d])' = Fails(sess[d])
        /\ Exclusive(sess[d])' = Exclusive(sess[d]) /\ Shared(sess[d])' = Shared(sess[d])
  BY <1>1, <1>2, Unmoved
<1>5. sess'[s].stage = "idle" /\ ~sess'[s].alone
  BY <1>2, IdleSound
<1>6. \A d \in Sessions : Sound(sess[d])'
  <2> SUFFICES ASSUME NEW d \in Sessions PROVE Sound(sess[d])'
    OBVIOUS
  <2>1. CASE d = s
    BY <1>2, <2>1 DEF Sound, Idle, TableOf
  <2>2. CASE d # s
    BY <1>1, <1>2, <1>4, <2>2 DEF IInv, Sound
  <2>. QED BY <2>1, <2>2
<1>7. \A c, d \in Sessions :
        c # d /\ sess'[c].stage = "commit" /\ sess'[d].stage = "commit" => Compatible(sess[c], sess[d])'
  BY <1>2, <1>4, <1>5, StillCompatible
<1>8. FailsOnlyByOverlap'
  BY <1>2, <1>4, <1>5 DEF IInv, FailsOnlyByOverlap
<1>9. \A c, d \in Sessions : c # d /\ Active(c)' /\ sess'[c].alone => ~Active(d)'
  BY <1>2, <1>5 DEF IInv, Active
<1>. QED BY <1>3, <1>6, <1>7, <1>8, <1>9 DEF IInv

LEMMA TrashOrRestoreStep ==
  ASSUME IInv, TrashOrRestore
  PROVE  IInv'
<1>1. UNCHANGED <<owner, rows, count, enabled, granted, kinds, sess>>
  BY DEF TrashOrRestore, link
<1>2. file # "gone" /\ file' \in {"live", "trashed"}
  BY DEF TrashOrRestore
<1>3. TypeOK' /\ NoOrphans'
  BY <1>1, <1>2 DEF IInv, TypeOK, NoOrphans, ChildKeys
<1>4. \A d \in Sessions :
        /\ Reads(sess[d])' = Reads(sess[d]) /\ Fails(sess[d])' = Fails(sess[d])
        /\ Exclusive(sess[d])' = Exclusive(sess[d]) /\ Shared(sess[d])' = Shared(sess[d])
  BY <1>1, <1>2, Unmoved
<1>5. \A d \in Sessions : Sound(sess[d])'
  <2> SUFFICES ASSUME NEW d \in Sessions PROVE Sound(sess[d])'
    OBVIOUS
  <2>. QED BY <1>1, <1>4 DEF IInv, Sound
<1>6. \A c, d \in Sessions :
        c # d /\ sess'[c].stage = "commit" /\ sess'[d].stage = "commit" => Compatible(sess[c], sess[d])'
  BY <1>1, <1>4, StillCompatible
<1>7. FailsOnlyByOverlap'
  BY <1>1, <1>4 DEF IInv, FailsOnlyByOverlap
<1>8. \A c, d \in Sessions : c # d /\ Active(c)' /\ sess'[c].alone => ~Active(d)'
  BY <1>1 DEF IInv, Active
<1>. QED BY <1>3, <1>5, <1>6, <1>7, <1>8 DEF IInv

LEMMA WriteStep ==
  ASSUME IInv, NEW s \in Sessions, Write(s), ~Fails(sess[s])
  PROVE  IInv'
<1>1. UNCHANGED <<file, owner, rows, count, enabled, granted, kinds>> /\ sess' = [sess EXCEPT ![s].stage = "commit"]
  BY DEF Write, link
<1>2. /\ sess'[s] = [sess[s] EXCEPT !.stage = "commit"]
      /\ \A d \in Sessions \ {s} : sess'[d] = sess[d]
  BY <1>1 DEF IInv, TypeOK
<1>3. /\ sess'[s] \in Session /\ sess'[s].stage = "commit"
      /\ sess'[s].kind = sess[s].kind /\ sess'[s].user = sess[s].user
      /\ sess'[s].seen = sess[s].seen /\ sess'[s].alone = sess[s].alone
  BY <1>2 DEF IInv, TypeOK, Session
<1>4. TypeOK' /\ NoOrphans'
  BY <1>1, <1>2, <1>3 DEF IInv, TypeOK, NoOrphans, ChildKeys
<1>5. \A d \in Sessions :
        /\ Reads(sess[d])' = Reads(sess[d]) /\ Fails(sess[d])' = Fails(sess[d])
        /\ Exclusive(sess[d])' = Exclusive(sess[d]) /\ Shared(sess[d])' = Shared(sess[d])
  BY <1>1, <1>2, <1>3, Unmoved
<1>6. \A d \in Sessions : Sound(sess[d])'
  <2> SUFFICES ASSUME NEW d \in Sessions PROVE Sound(sess[d])'
    OBVIOUS
  <2>1. CASE d = s
    BY <1>1, <1>3, <1>5, <2>1 DEF IInv, Sound, Write
  <2>2. CASE d # s
    BY <1>1, <1>2, <1>5, <2>2 DEF IInv, Sound
  <2>. QED BY <2>1, <2>2
<1>7. \A c, d \in Sessions :
        c # d /\ sess'[c].stage = "commit" /\ sess'[d].stage = "commit" => Compatible(sess[c], sess[d])'
  <2> SUFFICES ASSUME NEW c \in Sessions, NEW d \in Sessions, c # d,
                      sess'[c].stage = "commit", sess'[d].stage = "commit"
               PROVE  Compatible(sess[c], sess[d])'
    OBVIOUS
  <2>1. \A e \in Sessions \ {s} : sess[e].stage = "commit" =>
          Compatible(sess[s], sess[e]) /\ Compatible(sess[e], sess[s])
    BY DEF Write, Waits, Compatible
  <2>2. Compatible(sess[c], sess[d])
    BY <1>2, <2>1 DEF IInv
  <2>3. Exclusive(sess[c])' = Exclusive(sess[c])
    BY <1>5
  <2>4. Exclusive(sess[d])' = Exclusive(sess[d]) /\ Shared(sess[d])' = Shared(sess[d])
    BY <1>5
  <2>. QED BY <2>2, <2>3, <2>4 DEF Compatible
<1>8. FailsOnlyByOverlap'
  BY <1>2, <1>3, <1>5 DEF IInv, FailsOnlyByOverlap
<1>9. \A c, d \in Sessions : c # d /\ Active(c)' /\ sess'[c].alone => ~Active(d)'
  BY <1>2, <1>3 DEF IInv, Active, Write
<1>. QED BY <1>4, <1>6, <1>7, <1>8, <1>9 DEF IInv

LEMMA Deletions ==
  ASSUME NEW r \in Session
  PROVE  /\ r.kind \in Deleting <=> Op(r) = "delete"
         /\ TableOf[r.kind] = "file_tag" /\ Op(r) = "insert" => r.kind = "assign"
         /\ TableOf["purge"] = "file"
         /\ Removed(r) # {} => Op(r) = "delete" /\ r.seen # "gone"
<1>1. r.kind \in Deleting <=> Op(r) = "delete"
  BY DEF Op, Upsert, Record, Deleting, Adding
<1>2. TableOf[r.kind] = "file_tag" /\ Op(r) = "insert" => r.kind = "assign"
  <2>1. TableOf[r.kind] = "file_tag" => r.kind \in {"assign", "untag"}
    BY DEF TableOf, Session, Kinds
  <2>. QED BY <1>1, <2>1 DEF Deleting
<1>3. TableOf["purge"] = "file"
  BY DEF TableOf
<1>4. Removed(r) # {} => Op(r) = "delete" /\ r.seen # "gone"
  BY DEF Removed
<1>. QED BY <1>1, <1>2, <1>3, <1>4

(* What each statement locks.                                              *)
LEMMA LocksOfStatement ==
  ASSUME NEW r \in Session
  PROVE  /\ Removed(r) \subseteq Exclusive(r)
         /\ Op(r) = "insert" => Target(r) \in Exclusive(r) /\ TableOf[r.kind] # "file" /\ r.kind # "purge"
         /\ Op(r) = "insert" /\ IsChild(r) => FileKey \in Shared(r)
         /\ r.kind = "assign" => Op(r) = "insert" /\ IsChild(r) /\ Reads(r) \in Shared(r)
         /\ Op(r) = "update" => r.kind # "assign"
         /\ Op(r) = "update" /\ TableOf[r.kind] = "file" => FileRow \in Exclusive(r)
         /\ Op(r) = "update" /\ TableOf[r.kind] # "file" => Target(r) \in Exclusive(r)
         /\ r.kind = "purge" => FileRow \in Exclusive(r) /\ FileKey \in Exclusive(r)
<1> USE DEF Session, Kinds
<1>1. Removed(r) \subseteq Exclusive(r)
  <2>1. Op(r) = "delete" => r.kind \in Deleting
    BY DEF Op, Upsert, Record
  <2>. QED BY <2>1 DEF Removed, Exclusive, Deleting
<1>2. Op(r) = "insert" => Target(r) \in Exclusive(r) /\ TableOf[r.kind] # "file" /\ r.kind # "purge"
  BY DEF Op, Deleting, Adding, Exclusive, TableOf
<1>3. Op(r) = "insert" /\ IsChild(r) => FileKey \in Shared(r)
  BY DEF Shared, IsChild, Children, FileKey, Target, Key
<1>4. r.kind = "assign" => Op(r) = "insert" /\ IsChild(r) /\ Reads(r) \in Shared(r)
  <2> SUFFICES ASSUME r.kind = "assign" PROVE Op(r) = "insert" /\ IsChild(r) /\ Reads(r) \in Shared(r)
    OBVIOUS
  <2>1. Op(r) = "insert" /\ IsChild(r)
    BY DEF Op, Deleting, Adding, IsChild, TableOf, Children
  <2>2. Reads(r) # Target(r)
    BY DEF Reads, Target, Key, TableOf
  <2>. QED BY <2>1, <2>2 DEF Shared
<1>5. Op(r) = "update" => r.kind # "assign"
  BY DEF Op, Deleting, Adding
<1>6. Op(r) = "update" /\ TableOf[r.kind] = "file" => FileRow \in Exclusive(r)
  BY DEF Op, Deleting, TableOf, Exclusive
<1>7. Op(r) = "update" /\ TableOf[r.kind] # "file" => Target(r) \in Exclusive(r)
  BY DEF Op, Deleting, TableOf, Exclusive
<1>8. r.kind = "purge" => FileRow \in Exclusive(r) /\ FileKey \in Exclusive(r)
  BY DEF Exclusive
<1>. QED BY <1>1, <1>2, <1>3, <1>4, <1>5, <1>6, <1>7, <1>8

(* What a commit does to the rows and to the other requests.               *)
LEMMA CommitEffect ==
  ASSUME IInv, NEW s \in Sessions, Commit(s)
  PROVE  /\ sess[s].stage = "commit" /\ sess'[s] = Idle
         /\ rows' = (rows \ Removed(sess[s])) \cup (IF Op(sess[s]) = "insert" THEN {Target(sess[s])} ELSE {})
         /\ file' = IF sess[s].kind = "purge" THEN "gone" ELSE file
         /\ \A d \in Sessions \ {s} :
              sess'[d] = IF sess[d].seen = "row" /\ Reads(sess[d]) \in Removed(sess[s])
                           THEN [sess[d] EXCEPT !.seen = "gone"] ELSE sess[d]
BY DEF Commit, IInv, TypeOK

LEMMA CommitOthers ==
  ASSUME IInv, NEW s \in Sessions, Commit(s), NEW d \in Sessions \ {s}
  PROVE  /\ sess'[d] \in Session
         /\ sess'[d].kind = sess[d].kind /\ sess'[d].user = sess[d].user
         /\ sess'[d].stage = sess[d].stage /\ sess'[d].alone = sess[d].alone
         /\ sess'[d].seen = sess[d].seen \/ (sess'[d].seen = "gone" /\ sess[d].seen = "row" /\ Reads(sess[d]) \in Removed(sess[s]))
         /\ sess'[d].seen = "row" => Reads(sess[d]) \notin Removed(sess[s])
         /\ Op(sess[d])' = Op(sess[d]) /\ Target(sess[d])' = Target(sess[d])
         /\ Reads(sess[d])' = Reads(sess[d]) /\ IsChild(sess[d])' = IsChild(sess[d])
         /\ Exclusive(sess[d])' = Exclusive(sess[d]) /\ Shared(sess[d])' = Shared(sess[d])
<1>1. sess[d] \in Session
  BY DEF IInv, TypeOK
<1>2. CASE sess[d].seen = "row" /\ Reads(sess[d]) \in Removed(sess[s])
  <2>1. sess'[d] = [sess[d] EXCEPT !.seen = "gone"]
    BY <1>2, CommitEffect
  <2>. QED BY <1>1, <1>2, <2>1, SameLocks
<1>3. CASE ~(sess[d].seen = "row" /\ Reads(sess[d]) \in Removed(sess[s]))
  <2>1. sess'[d] = sess[d]
    BY <1>3, CommitEffect
  <2>. QED BY <1>1, <1>3, <2>1
<1>. QED BY <1>2, <1>3

(* What another request has locked does not vanish or appear under it.     *)
LEMMA CommitSparesOthers ==
  ASSUME IInv, NEW s \in Sessions, Commit(s), NEW d \in Sessions \ {s}, sess[d].stage = "commit"
  PROVE  ~Fails(sess[d])'
<1>1. PICK r : r = sess[s]
  OBVIOUS
<1>2. PICK o : o = sess[d]
  OBVIOUS
<1>3. r \in Session /\ o \in Session /\ Sound(o) /\ ~Fails(o) /\ Compatible(r, o)
  BY <1>1, <1>2, CommitEffect DEF IInv, TypeOK, Sound
<1>4. /\ Removed(r) \subseteq Exclusive(r)
      /\ Exclusive(r) \cap Exclusive(o) = {} /\ Exclusive(r) \cap Shared(o) = {}
  BY <1>3, LocksOfStatement DEF Compatible
<1>5. CASE Op(o) = "insert"
  <2>1. Target(o) \notin rows'
    BY <1>1, <1>3, <1>4, <1>5, CommitEffect, LocksOfStatement DEF Fails
  <2>2. IsChild(o) => file' # "gone"
    <3> SUFFICES ASSUME IsChild(o) PROVE file' # "gone"
      OBVIOUS
    <3>1. file # "gone"
      BY <1>3, <1>5 DEF Fails
    <3>2. r.kind # "purge"
      BY <1>3, <1>4, <1>5, LocksOfStatement
    <3>. QED BY <1>1, <3>1, <3>2, CommitEffect
  <2>3. o.kind = "assign" => sess'[d].seen # "gone"
    <3> SUFFICES ASSUME o.kind = "assign" PROVE sess'[d].seen # "gone"
      OBVIOUS
    <3>1. o.seen # "gone"
      BY <1>3, <1>5 DEF Fails
    <3>2. Reads(o) \notin Removed(r)
      BY <1>3, <1>4, LocksOfStatement
    <3>. QED BY <1>1, <1>2, <3>1, <3>2, CommitOthers
  <2>. QED BY <1>2, <1>5, <2>1, <2>2, <2>3, CommitOthers DEF Fails
<1>6. CASE Op(o) = "update"
  <2>1. sess'[d].seen # "gone"
    <3>1. o.seen # "gone"
      BY <1>3, <1>6 DEF Fails
    <3>2. o.seen = "row" => Reads(o) \notin Removed(r)
      <4>1. o.seen = "row" => TableOf[o.kind] # "file" /\ o.kind # "assign"
        BY <1>3, <1>6, LocksOfStatement DEF Sound
      <4>2. o.kind # "assign" => Reads(o) = Target(o)
        BY DEF Reads, Target
      <4>. QED BY <1>3, <1>4, <1>6, <4>1, <4>2, LocksOfStatement
    <3>. QED BY <1>1, <1>2, <3>1, <3>2, CommitOthers
  <2>2. TableOf[o.kind] = "file" => file' # "gone"
    <3> SUFFICES ASSUME TableOf[o.kind] = "file" PROVE file' # "gone"
      OBVIOUS
    <3>1. file # "gone"
      BY <1>3, <1>6 DEF Fails
    <3>2. r.kind # "purge"
      BY <1>3, <1>4, <1>6, LocksOfStatement
    <3>. QED BY <1>1, <3>1, <3>2, CommitEffect
  <2>. QED BY <1>2, <1>6, <2>1, <2>2, CommitOthers DEF Fails
<1>7. CASE Op(o) \notin {"insert", "update"}
  BY <1>2, <1>7, CommitOthers DEF Fails
<1>. QED BY <1>5, <1>6, <1>7

(* A request that still knows of a vanished row does not insert it.        *)
LEMMA GoneNotInserted ==
  ASSUME NEW r \in Session, Sound(r), r.stage = "commit", r.seen = "gone"
  PROVE  Op(r) # "insert"
BY DEF Op, Upsert, Record, Adding, Sound, Fails

(* A commit leaves no row without the file or tag it refers to.            *)
LEMMA CommitOrphansNothing ==
  ASSUME IInv, NEW s \in Sessions, Commit(s)
  PROVE  NoOrphans'
<1>1. PICK r : r = sess[s]
  OBVIOUS
<1>2. r \in Session /\ Sound(r) /\ ~Fails(r) /\ r.stage = "commit" /\ NoOrphans
  BY <1>1, CommitEffect DEF IInv, TypeOK, Sound
<1>3. /\ rows' = (rows \ Removed(r)) \cup (IF Op(r) = "insert" THEN {Target(r)} ELSE {})
      /\ file' = IF r.kind = "purge" THEN "gone" ELSE file
  BY <1>1, CommitEffect
<1>4. file' = "gone" => rows' \cap ChildKeys = {}
  <2>1. CASE r.kind = "purge"
    <3>1. Op(r) = "delete" /\ r.seen = "none"
      BY <1>2, <2>1, Deletions DEF Deleting, Sound
    <3>2. Removed(r) = ChildKeys
      BY <2>1, <3>1 DEF Removed
    <3>. QED BY <1>3, <3>1, <3>2
  <2>2. CASE r.kind # "purge"
    <3>1. Op(r) = "insert" /\ Target(r) \in ChildKeys => IsChild(r)
      BY DEF Target, Key, ChildKeys, IsChild
    <3>. QED BY <1>2, <1>3, <2>2, <3>1 DEF NoOrphans, Fails
  <2>. QED BY <2>1, <2>2
<1>5. \A u \in Users : Key("file_tag", u) \in rows' => Key("tag", u) \in rows'
  <2> SUFFICES ASSUME NEW u \in Users, Key("file_tag", u) \in rows' PROVE Key("tag", u) \in rows'
    OBVIOUS
  <2>1. Key("tag", u) \in rows
    <3>1. CASE Key("file_tag", u) \in rows
      BY <1>2, <3>1 DEF NoOrphans
    <3>2. CASE Key("file_tag", u) \notin rows
      <4>1. Op(r) = "insert" /\ Target(r) = Key("file_tag", u)
        BY <1>3, <3>2
      <4>2. r.kind = "assign" /\ r.user = u
        <5>1. TableOf[r.kind] = "file_tag" /\ r.user = u
          BY <4>1 DEF Target, Key
        <5>. QED BY <1>2, <4>1, <5>1, Deletions
      <4>3. r.seen = "row" /\ Reads(r) = Key("tag", u)
        BY <1>2, <4>1, <4>2 DEF Sound, Fails, Session, Reads
      <4>. QED BY <1>2, <4>3 DEF Sound
    <3>. QED BY <3>1, <3>2
  <2>2. Key("tag", u) \notin Removed(r)
    <3> SUFFICES ASSUME Key("tag", u) \in Removed(r) PROVE FALSE
      OBVIOUS
    <3>1. r.kind = "delete_tag" /\ r.user = u
      BY <1>2 DEF Removed, Target, Key, ChildKeys, Children, TableOf, Session, Kinds, Op, Deleting
    <3>2. Key("file_tag", u) \in Removed(r) /\ Op(r) # "insert"
      <4>1. Op(r) = "delete" /\ r.seen # "gone"
        BY <1>2, Deletions
      <4>. QED BY <3>1, <4>1 DEF Removed
    <3>. QED BY <1>3, <3>2
  <2>. QED BY <1>3, <2>1, <2>2
<1>. QED BY <1>4, <1>5 DEF NoOrphans

LEMMA CommitTyped ==
  ASSUME IInv, NEW s \in Sessions, Commit(s)
  PROVE  TypeOK'
<1>1. sess[s] \in Session /\ Sound(sess[s]) /\ sess[s].stage = "commit"
  BY CommitEffect DEF IInv, TypeOK
<1>2. sess[s].user \in Users
  BY <1>1 DEF Sound
<1>3. rows' \subseteq Keys
  <2>1. Op(sess[s]) = "insert" => Target(sess[s]) \in Keys
    <3>1. Op(sess[s]) = "insert" => TableOf[sess[s].kind] \in {"permission", "tag", "link"} \cup Children
      BY <1>1, Tables, LocksOfStatement DEF Session
    <3>. QED BY <1>2, <3>1 DEF Target, Key, Keys
  <2>. QED BY <2>1, CommitEffect DEF IInv, TypeOK
<1>4. sess' \in [Sessions -> Session]
  <2>1. \A d \in Sessions : sess'[d] \in Session
    BY CommitEffect, CommitOthers, IdleSound
  <2>. QED BY <2>1 DEF Commit
<1>5. file' \in {"live", "trashed", "gone"}
  BY CommitEffect DEF IInv, TypeOK
<1>6. owner' \in Users
  BY <1>2 DEF Commit, OwnerAfter, IInv, TypeOK
<1>7. sess[s].read \in Nat
  BY <1>1 DEF Session
<1>8. count' \in Nat /\ granted' \in Nat
  BY <1>7 DEF Commit, IInv, TypeOK
<1>9. enabled' \in BOOLEAN
  BY DEF Commit, IInv, TypeOK
<1>10. kinds' \in Scopes
  BY DEF Commit, IInv, TypeOK
<1>. QED BY <1>3, <1>4, <1>5, <1>6, <1>8, <1>9, <1>10 DEF TypeOK

LEMMA CommitStep ==
  ASSUME IInv, NEW s \in Sessions, Commit(s)
  PROVE  IInv'
<1>1. sess'[s].stage = "idle" /\ ~sess'[s].alone
  BY CommitEffect, IdleSound
<1>2. \A d \in Sessions : Sound(sess[d])'
  <2> SUFFICES ASSUME NEW d \in Sessions PROVE Sound(sess[d])'
    OBVIOUS
  <2>1. CASE d = s
    BY <2>1, CommitEffect DEF Sound, Idle, TableOf
  <2>2. CASE d # s
    <3>1. Sound(sess[d]) /\ sess[d] \in Session
      BY DEF IInv, TypeOK
    <3>2. /\ sess'[d].kind = sess[d].kind /\ sess'[d].user = sess[d].user
          /\ sess'[d].stage = sess[d].stage
          /\ sess'[d].seen = sess[d].seen \/ (sess'[d].seen = "gone" /\ sess[d].seen = "row")
      BY <2>2, CommitOthers
    <3>3. sess'[d].seen = "row" => Reads(sess[d])' \in rows'
      <4> SUFFICES ASSUME sess'[d].seen = "row" PROVE Reads(sess[d])' \in rows'
        OBVIOUS
      <4>1. Reads(sess[d]) \in rows
        BY <3>1, <3>2 DEF Sound
      <4>2. Reads(sess[d])' = Reads(sess[d]) /\ Reads(sess[d]) \notin Removed(sess[s])
        BY <2>2, CommitOthers
      <4>. QED BY <4>1, <4>2, CommitEffect
    <3>4. sess'[d].stage = "commit" => ~Fails(sess[d])'
      BY <2>2, <3>2, CommitSparesOthers
    <3>. QED BY <3>1, <3>2, <3>3, <3>4 DEF Sound
  <2>. QED BY <2>1, <2>2
<1>3. \A c, d \in Sessions :
        c # d /\ sess'[c].stage = "commit" /\ sess'[d].stage = "commit" => Compatible(sess[c], sess[d])'
  <2>1. \A d \in Sessions : sess'[d].stage = "commit" =>
           /\ sess[d].stage = "commit"
           /\ Exclusive(sess[d])' = Exclusive(sess[d])
           /\ Shared(sess[d])' = Shared(sess[d])
    BY <1>1, CommitOthers
  <2>. QED BY <2>1, StillCompatible
<1>4. \A d \in Sessions : Active(d) /\ sess[d].alone => d = s
  BY CommitEffect DEF IInv, Active
<1>5. \A d \in Sessions : ~(sess'[d].stage # "idle" /\ sess'[d].alone)
  BY <1>1, <1>4, CommitOthers DEF Active
<1>6. FailsOnlyByOverlap'
  BY <1>5 DEF FailsOnlyByOverlap
<1>7. \A c, d \in Sessions : c # d /\ Active(c)' /\ sess'[c].alone => ~Active(d)'
  BY <1>5 DEF Active
<1>. QED BY <1>2, <1>3, <1>6, <1>7, CommitTyped, CommitOrphansNothing DEF IInv

LEMMA NextIInv == IInv /\ [Next]_vars => IInv'
<1> SUFFICES ASSUME IInv, [Next]_vars PROVE IInv'
  OBVIOUS
<1>1. ASSUME NEW s \in Sessions, Write(s) PROVE IInv'
  <2>1. CASE Fails(sess[s])
    <3>1. Cancel(s)
      BY <1>1, <2>1 DEF Write, Cancel, Active
    <3>. QED BY <3>1, CancelStep
  <2>2. CASE ~Fails(sess[s])
    BY <1>1, <2>2, WriteStep
  <2>. QED BY <2>1, <2>2
<1>2. ASSUME UNCHANGED vars PROVE IInv'
  <2>1. UNCHANGED <<file, owner, rows, count, enabled, granted, kinds, sess>>
    BY <1>2 DEF vars, link
  <2>2. TypeOK' /\ NoOrphans'
    BY <2>1 DEF IInv, TypeOK, NoOrphans, ChildKeys
  <2>3. \A d \in Sessions :
          /\ Reads(sess[d])' = Reads(sess[d]) /\ Fails(sess[d])' = Fails(sess[d])
          /\ Exclusive(sess[d])' = Exclusive(sess[d]) /\ Shared(sess[d])' = Shared(sess[d])
    BY <2>1, Unmoved
  <2>4. \A d \in Sessions : Sound(sess[d])'
    BY <2>1, <2>3 DEF IInv, Sound
  <2>5. \A c, d \in Sessions :
          c # d /\ sess'[c].stage = "commit" /\ sess'[d].stage = "commit" => Compatible(sess[c], sess[d])'
    BY <2>1, <2>3, StillCompatible
  <2>6. FailsOnlyByOverlap'
    BY <2>1, <2>3 DEF IInv, FailsOnlyByOverlap
  <2>7. \A c, d \in Sessions : c # d /\ Active(c)' /\ sess'[c].alone => ~Active(d)'
    BY <2>1 DEF IInv, Active
  <2>. QED BY <2>2, <2>4, <2>5, <2>6, <2>7 DEF IInv
<1>. QED BY <1>1, <1>2, CheckStep, CommitStep, CancelStep, TrashOrRestoreStep DEF Next

LEMMA Invariance == Spec => []IInv
BY InitIInv, NextIInv, PTL DEF Spec

(* However many requests overlap, the tables stay well formed.             *)
THEOREM AccessTyped == Spec => []TypeOK
<1>1. IInv => TypeOK
  BY DEF IInv
<1>. QED BY <1>1, Invariance, PTL

(* No tag, favorite or recent access outlives the file or tag it refers to, *)
(* for any number of users and overlapping requests.                       *)
THEOREM NothingOrphaned == Spec => []NoOrphans
<1>1. IInv => NoOrphans
  BY DEF IInv
<1>. QED BY <1>1, Invariance, PTL

(* A request that nothing overlaps is never refused by the database.       *)
THEOREM NobodyFailsAlone == Spec => []FailsOnlyByOverlap
<1>1. IInv => FailsOnlyByOverlap
  BY DEF IInv
<1>. QED BY <1>1, Invariance, PTL

(* What another request has withdrawn, no commit brings back.              *)
THEOREM WithdrawnStaysAway == Spec => NoResurrection
<1> DEFINE Withdrawn(s) ==
             sess[s].stage = "commit" /\ sess'[s].stage = "idle" /\ sess[s].seen = "gone"
               => (Target(sess[s]) \in rows' => Target(sess[s]) \in rows)
<1>1. ASSUME IInv, [Next]_vars, NEW s \in Sessions PROVE Withdrawn(s)
  <2> SUFFICES ASSUME sess[s].stage = "commit", sess[s].seen = "gone" PROVE rows' \subseteq rows \/ sess'[s].stage # "idle"
    OBVIOUS
  <2>1. CASE Commit(s)
    <3>1. Op(sess[s]) # "insert"
      BY <1>1, GoneNotInserted DEF IInv, TypeOK
    <3>. QED BY <1>1, <2>1, <3>1, CommitEffect
  <2>2. ASSUME NEW d \in Sessions \ {s}, Commit(d) PROVE sess'[s].stage # "idle"
    BY <1>1, <2>2, CommitOthers
  <2>3. CASE UNCHANGED rows
    BY <2>3
  <2>. QED BY <1>1, <2>1, <2>2, <2>3 DEF Next, Check, Write, Cancel, TrashOrRestore, vars
<1>2. IInv /\ [Next]_vars => \A s \in Sessions : Withdrawn(s)
  BY <1>1
<1>. QED BY <1>2, Invariance, PTL DEF Spec, NoResurrection

-----------------------------------------------------------------------------
(***************************************************************************)
(* Accesses of the link that do not overlap each other, whatever else      *)
(* happens to the link and the file meanwhile.                             *)
(***************************************************************************)
Accessing(s) == Active(s) /\ sess[s].kind = "get_link"
OneAccess == \A s, d \in Sessions : Accessing(s) /\ Accessing(d) => s = d

\* every access granted is counted, and the one under way has a place left
Counted ==
  /\ granted <= count /\ count <= MaxDownloads
  /\ \A s \in Sessions : Accessing(s) => granted <= sess[s].read /\ sess[s].read < MaxDownloads

LEMMA InitCounted == Init => Counted
BY MaxAssumption DEF Init, Counted, Accessing, Active, Idle

LEMMA NextCounted == IInv /\ Counted /\ OneAccess /\ [Next]_vars => Counted'
<1> SUFFICES ASSUME IInv, Counted, OneAccess, [Next]_vars PROVE Counted'
  OBVIOUS
<1> USE MaxAssumption
<1>0. count \in Nat /\ granted \in Nat /\ \A s \in Sessions : sess[s] \in Session /\ sess[s].read \in Nat
  BY DEF IInv, TypeOK, Session
<1>1. ASSUME NEW s \in Sessions, Check(s) PROVE Counted'
  <2>1. PICK kind \in kinds, a \in Users, u \in Users :
          /\ Allowed(kind, a, u)
          /\ sess' = [d \in Sessions |->
                        IF d = s THEN Request(kind, a, u) ELSE [sess[d] EXCEPT !.alone = FALSE]]
    BY <1>1 DEF Check
  <2>2. UNCHANGED <<count, enabled, granted>>
    BY <1>1 DEF Check, link
  <2>3. kind = "get_link" => LinkValid
    BY <2>1 DEF Allowed, MayGrant, MayTransfer, MayPurge, MayTag, MayFavorite, MayRead, MayLink
  <2>4. /\ sess'[s].kind = kind
        /\ kind = "get_link" => sess'[s].read = count
    BY <2>1 DEF Request
  <2>5. \A d \in Sessions \ {s} :
          sess'[d].kind = sess[d].kind /\ sess'[d].read = sess[d].read /\ sess'[d].stage = sess[d].stage
    BY <2>1, <1>0 DEF Session
  <2>6. ASSUME NEW d \in Sessions, Accessing(d)'
        PROVE  granted <= sess'[d].read /\ sess'[d].read < MaxDownloads
    <3>1. CASE d = s
      BY <1>0, <2>3, <2>4, <2>6, <3>1 DEF Accessing, LinkValid, Counted
    <3>2. CASE d # s
      BY <2>5, <2>6, <3>2 DEF Accessing, Active, Counted
    <3>. QED BY <3>1, <3>2
  <2>. QED BY <2>2, <2>6 DEF Counted
<1>2. ASSUME NEW s \in Sessions, Write(s) \/ Cancel(s) PROVE Counted'
  <2>1. UNCHANGED <<count, granted>>
    BY <1>2 DEF Write, Cancel, link
  <2>2. \A d \in Sessions : Accessing(d)' => Accessing(d) /\ sess'[d].read = sess[d].read
    BY <1>0, <1>2 DEF Write, Cancel, End, Accessing, Active, Idle, Session, IInv, TypeOK
  <2>. QED BY <2>1, <2>2 DEF Counted
<1>3. ASSUME NEW s \in Sessions, Commit(s) PROVE Counted'
  <2> DEFINE r == sess[s]
  <2>1. /\ r.stage = "commit"
        /\ count' = IF r.kind = "get_link" THEN r.read + 1 ELSE IF r.kind = "create_link" THEN 0 ELSE count
        /\ granted' = IF r.kind = "get_link" THEN granted + 1 ELSE IF r.kind = "create_link" THEN 0 ELSE granted
    BY <1>3 DEF Commit
  <2>2. \A d \in Sessions : Accessing(d)' => d # s /\ Accessing(d) /\ sess'[d].read = sess[d].read
    BY <1>0, <1>3 DEF Commit, Accessing, Active, Idle, Session
  <2>3. CASE r.kind = "get_link"
    <3>1. Accessing(s)
      BY <2>1, <2>3 DEF Accessing, Active
    <3>2. \A d \in Sessions : ~Accessing(d)'
      BY <2>2, <3>1 DEF OneAccess
    <3>3. granted <= r.read /\ r.read < MaxDownloads
      BY <3>1 DEF Counted
    <3>. QED BY <1>0, <2>1, <2>3, <3>2, <3>3 DEF Counted
  <2>4. CASE r.kind # "get_link"
    BY <1>0, <2>1, <2>2, <2>4 DEF Counted
  <2>. QED BY <2>3, <2>4
<1>4. CASE TrashOrRestore \/ UNCHANGED vars
  BY <1>4 DEF TrashOrRestore, vars, link, Counted, Accessing, Active
<1>. QED BY <1>1, <1>2, <1>3, <1>4 DEF Next

(* As long as accesses of a shared link do not overlap, it never grants    *)
(* more than max_downloads of them, also when it is disabled, deleted and  *)
(* created again, or its file changes hands, between check and commit.     *)
THEOREM LinkGrantsInTurn == Spec /\ []OneAccess => [](granted <= MaxDownloads)
<1>1. IInv /\ Counted => granted <= MaxDownloads
  BY MaxAssumption DEF IInv, TypeOK, Counted
<1>. QED BY <1>1, InitIInv, NextIInv, InitCounted, NextCounted, PTL DEF Spec

-----------------------------------------------------------------------------
(***************************************************************************)
(* Accesses that do overlap.  The bound is a binomial coefficient, and the *)
(* lemmas that follow derive its rules from the recursive definition of    *)
(* factorial: what Ways, choose and Draws are is shown by induction.       *)
(***************************************************************************)

(* Induction over the natural numbers, stated about a set.                 *)
LEMMA SetInduction ==
  ASSUME NEW S, S \subseteq Nat, 0 \in S, \A n \in S : n + 1 \in S
  PROVE  S = Nat
<1> SUFFICES ASSUME Nat \ S # {} PROVE FALSE
  OBVIOUS
<1> DEFINE R == {p \in Nat \X Nat : p[1] < p[2]}
<1>1. \A x, y \in Nat : <<x, y>> \in R <=> x < y
  OBVIOUS
<1>2. IsWellFoundedOn(R, Nat)
  BY NatLessThanWellFounded DEF OpToRel
<1> HIDE DEF R
<1>3. PICK x \in Nat \ S : \A y \in Nat \ S : ~ (<<y, x>> \in R)
  <2>1. Nat \ S \subseteq Nat
    OBVIOUS
  <2>. QED BY <1>2, <2>1, WFMin
<1>4. x # 0 /\ x - 1 \in Nat /\ x - 1 < x
  OBVIOUS
<1>5. x - 1 \in S
  BY <1>1, <1>3, <1>4
<1>6. (x - 1) + 1 = x
  OBVIOUS
<1>. QED BY <1>5, <1>6

\* factorial is defined recursively; a table is a finite part of it
Table(g, n) == g \in [0..n -> Nat] /\ g[0] = 1 /\ \A i \in 1..n : g[i] = i * g[i-1]

LEMMA TablesExist == \A n \in Nat : \E g : Table(g, n)
<1> DEFINE S == {n \in Nat : \E g : Table(g, n)}
<1>1. 0 \in S
  <2> DEFINE g == [i \in 0..0 |-> 1]
  <2>1. Table(g, 0)
    BY DEF Table
  <2>. QED BY <2>1
<1>2. ASSUME NEW n \in S PROVE n + 1 \in S
  <2>1. PICK g : Table(g, n)
    OBVIOUS
  <2> DEFINE h == [i \in 0..n+1 |-> IF i = n + 1 THEN (n + 1) * g[n] ELSE g[i]]
  <2>2. g[n] \in Nat /\ (n + 1) * g[n] \in Nat
    BY <2>1 DEF Table
  <2>3. h \in [0..n+1 -> Nat]
    BY <2>1, <2>2 DEF Table
  <2>4. h[0] = 1
    BY <2>1 DEF Table
  <2>5. ASSUME NEW i \in 1..n+1 PROVE h[i] = i * h[i-1]
    <3>1. CASE i = n + 1
      <4>1. h[i] = (n + 1) * g[n] /\ i - 1 = n /\ i - 1 \in 0..n+1 /\ i - 1 # n + 1
        BY <3>1
      <4>. QED BY <4>1, <3>1
    <3>2. CASE i # n + 1
      <4>1. i \in 1..n /\ i - 1 \in 0..n+1 /\ i - 1 # n + 1
        BY <3>2
      <4>2. h[i] = g[i] /\ h[i-1] = g[i-1]
        BY <3>2, <4>1
      <4>. QED BY <2>1, <4>1, <4>2 DEF Table
    <3>. QED BY <3>1, <3>2
  <2>6. Table(h, n + 1)
    BY <2>3, <2>4, <2>5 DEF Table
  <2>. QED BY <2>6
<1> HIDE DEF S
<1>3. S = Nat
  BY <1>1, <1>2, SetInduction DEF S
<1>. QED BY <1>3 DEF S

LEMMA TablesAgree ==
  ASSUME NEW n \in Nat, NEW m \in Nat, n <= m, NEW g, Table(g, n), NEW h, Table(h, m)
  PROVE  g[n] = h[n]
<1> DEFINE S == {i \in Nat : i <= n => g[i] = h[i]}
<1>1. 0 \in S
  BY DEF Table
<1>2. ASSUME NEW i \in S PROVE i + 1 \in S
  <2> SUFFICES ASSUME i + 1 <= n PROVE g[i + 1] = h[i + 1]
    OBVIOUS
  <2>1. i \in Nat /\ i + 1 \in 1..n /\ i + 1 \in 1..m /\ (i + 1) - 1 = i /\ g[i] = h[i]
    OBVIOUS
  <2>2. g[i + 1] = (i + 1) * g[i]
    BY <2>1 DEF Table
  <2>3. h[i + 1] = (i + 1) * h[i]
    BY <2>1 DEF Table
  <2>. QED BY <2>1, <2>2, <2>3
<1> HIDE DEF S
<1>3. S = Nat
  BY <1>1, <1>2, SetInduction DEF S
<1>. QED BY <1>3 DEF S

(* The recursive definition of factorial defines it.                       *)
LEMMA Factorial ==
  /\ factorial[0] = 1
  /\ \A n \in Nat : factorial[n] \in Nat
  /\ \A n \in Nat : factorial[n + 1] = (n + 1) * factorial[n]
<1> DEFINE g(n) == CHOOSE g : Table(g, n)
           f == [n \in Nat |-> g(n)[n]]
<1>1. \A n \in Nat : Table(g(n), n)
  BY TablesExist
<1> HIDE DEF g
<1>2. \A n \in Nat : f[n] \in Nat
  BY <1>1 DEF Table
<1>3. f[0] = 1
  BY <1>1 DEF Table
<1>4. ASSUME NEW n \in Nat PROVE f[n + 1] = (n + 1) * f[n]
  <2>1. g(n + 1)[n + 1] = (n + 1) * g(n + 1)[n]
    <3>1. Table(g(n + 1), n + 1) /\ n + 1 \in 1..n+1 /\ (n + 1) - 1 = n
      BY <1>1
    <3>. QED BY <3>1 DEF Table
  <2>2. g(n)[n] = g(n + 1)[n]
    BY <1>1, TablesAgree
  <2>. QED BY <2>1, <2>2
<1>5. f = [n \in Nat |-> IF n = 0 THEN 1 ELSE n * f[n - 1]]
  <2> SUFFICES ASSUME NEW n \in Nat PROVE f[n] = IF n = 0 THEN 1 ELSE n * f[n - 1]
    BY Zenon
  <2>1. CASE n = 0
    BY <1>3, <2>1
  <2>2. CASE n # 0
    <3>1. n - 1 \in Nat /\ (n - 1) + 1 = n
      BY <2>2
    <3>2. f[(n - 1) + 1] = ((n - 1) + 1) * f[n - 1]
      BY <1>4, <3>1
    <3>. QED BY <2>2, <3>1, <3>2
  <2>. QED BY <2>1, <2>2
<1> HIDE DEF f
<1>6. factorial = [n \in Nat |-> IF n = 0 THEN 1 ELSE n * factorial[n - 1]]
  BY <1>5 DEF factorial
<1>7. \E x : x = factorial
  OBVIOUS
<1>8. \A n \in Nat : factorial[n] = IF n = 0 THEN 1 ELSE n * factorial[n - 1]
  BY <1>6, Zenon
<1>9. \A n \in Nat : factorial[n + 1] = (n + 1) * factorial[n]
  <2> SUFFICES ASSUME NEW n \in Nat PROVE factorial[n + 1] = (n + 1) * factorial[n]
    OBVIOUS
  <2>1. n + 1 \in Nat /\ n + 1 # 0 /\ (n + 1) - 1 = n
    OBVIOUS
  <2>. QED BY <1>8, <2>1
<1>10. factorial[0] = 1
  BY <1>8
<1> DEFINE S == {n \in Nat : factorial[n] \in Nat}
<1>11. 0 \in S /\ \A n \in S : n + 1 \in S
  BY <1>9, <1>10
<1> HIDE DEF S
<1>12. S = Nat
  BY <1>11, SetInduction DEF S
<1>. QED BY <1>9, <1>10, <1>12 DEF S

\* c is the number of ways to choose a things out of a + b
Ways(c, a, b) == c \in Nat \ {0} /\ factorial[a + b] = c * (factorial[a] * factorial[b])

(* Pascal's rule.                                                          *)
LEMMA WaysExistStep ==
  ASSUME NEW a \in Nat, NEW b \in Nat, NEW c \in Nat, NEW d \in Nat,
         Ways(c, a, b + 1), Ways(d, a + 1, b)
  PROVE  Ways(c + d, a + 1, b + 1)
<1> DEFINE A == factorial[a]
           B == factorial[b]
           N == factorial[a + b + 1]
<1>1. A \in Nat /\ B \in Nat /\ N \in Nat
  BY Factorial
<1>2. factorial[a + 1] = (a + 1) * A /\ factorial[b + 1] = (b + 1) * B
  BY Factorial
<1>3. /\ a + (b + 1) = a + b + 1 /\ (a + 1) + b = a + b + 1
      /\ (a + 1) + (b + 1) = (a + b + 1) + 1 /\ a + b + 1 \in Nat
  OBVIOUS
<1>4. factorial[(a + 1) + (b + 1)] = ((a + b + 1) + 1) * N
  BY <1>3, Factorial
<1>5. N = c * (A * ((b + 1) * B))
  BY <1>2, <1>3 DEF Ways
<1>6. N = d * (((a + 1) * A) * B)
  BY <1>2, <1>3 DEF Ways
<1> HIDE DEF A, B, N
<1>7. ((a + b + 1) + 1) * N = (a + 1) * N + (b + 1) * N
  BY <1>1
<1>8. (a + 1) * N = c * (((a + 1) * A) * ((b + 1) * B))
  BY <1>1, <1>5
<1>9. (b + 1) * N = d * (((a + 1) * A) * ((b + 1) * B))
  BY <1>1, <1>6
<1>10. ((a + b + 1) + 1) * N = (c + d) * (((a + 1) * A) * ((b + 1) * B))
  BY <1>1, <1>7, <1>8, <1>9
<1>11. c + d \in Nat \ {0}
  BY DEF Ways
<1>. QED BY <1>2, <1>4, <1>10, <1>11 DEF Ways

LEMMA WaysExist == \A a, b \in Nat : \E c : Ways(c, a, b)
<1> DEFINE S == {n \in Nat : \A a, b \in Nat : a + b = n => \E c : Ways(c, a, b)}
<1>1. ASSUME NEW a \in Nat, NEW b \in Nat, a = 0 \/ b = 0 PROVE \E c : Ways(c, a, b)
  <2>1. factorial[0] = 1 /\ factorial[a] \in Nat /\ factorial[b] \in Nat
    BY Factorial
  <2>2. (a = 0 /\ a + b = b) \/ (b = 0 /\ a + b = a)
    BY <1>1
  <2>3. factorial[a + b] = factorial[a] * factorial[b]
    BY <2>1, <2>2
  <2>4. factorial[a + b] = 1 * (factorial[a] * factorial[b])
    BY <2>1, <2>3
  <2>. QED BY <2>4 DEF Ways
<1>2. 0 \in S
  BY <1>1
<1>3. ASSUME NEW n \in S PROVE n + 1 \in S
  <2> SUFFICES ASSUME NEW a \in Nat, NEW b \in Nat, a + b = n + 1, a # 0, b # 0
               PROVE  \E c : Ways(c, a, b)
    BY <1>1
  <2>1. /\ a - 1 \in Nat /\ b - 1 \in Nat /\ (a - 1) + 1 = a /\ (b - 1) + 1 = b
        /\ (a - 1) + b = n /\ a + (b - 1) = n
    OBVIOUS
  <2>2. PICK c : Ways(c, a - 1, b)
    BY <2>1
  <2>3. PICK d : Ways(d, a, b - 1)
    BY <2>1
  <2>4. c \in Nat /\ d \in Nat
    BY <2>2, <2>3 DEF Ways
  <2>5. Ways(c + d, (a - 1) + 1, (b - 1) + 1)
    BY <2>1, <2>2, <2>3, <2>4, WaysExistStep
  <2>. QED BY <2>1, <2>5
<1> HIDE DEF S
<1>4. S = Nat
  BY <1>2, <1>3, SetInduction DEF S
<1>5. ASSUME NEW a \in Nat, NEW b \in Nat PROVE \E c : Ways(c, a, b)
  <2>1. a + b \in S
    BY <1>4
  <2>. QED BY <2>1 DEF S
<1>. QED BY <1>5

LEMMA FactorialPositive == \A n \in Nat : factorial[n] \in Nat \ {0}
<1> DEFINE S == {n \in Nat : factorial[n] \in Nat \ {0}}
<1>1. 0 \in S
  BY Factorial
<1>2. ASSUME NEW n \in S PROVE n + 1 \in S
  <2>1. factorial[n + 1] = (n + 1) * factorial[n] /\ n + 1 \in Nat /\ n + 1 > 0
    BY Factorial
  <2>2. \A x, y \in Nat : x > 0 /\ y > 0 => x * y \in Nat /\ x * y # 0
    OBVIOUS
  <2>. QED BY <2>1, <2>2
<1> HIDE DEF S
<1>3. S = Nat
  BY <1>1, <1>2, SetInduction DEF S
<1>. QED BY <1>3 DEF S

LEMMA Quotient ==
  ASSUME NEW c \in Nat, NEW x \in Nat, x > 0
  PROVE  (c * x) \div x = c
OBVIOUS

(* choose divides without a remainder.                                     *)
LEMMA ChooseWays ==
  ASSUME NEW a \in Nat, NEW b \in Nat, NEW c \in Nat, Ways(c, a, b)
  PROVE  choose(a + b, b) = c /\ choose(a + b, a) = c
<1> DEFINE x == factorial[a] * factorial[b]
<1>1. factorial[a] \in Nat /\ factorial[a] > 0 /\ factorial[b] \in Nat /\ factorial[b] > 0
  BY FactorialPositive
<1>2. x \in Nat /\ x > 0 /\ factorial[b] * factorial[a] = x
  BY <1>1
<1>3. (a + b) - b = a /\ (a + b) - a = b
  OBVIOUS
<1>4. factorial[a + b] = c * x
  BY DEF Ways
<1> HIDE DEF x
<1>5. (c * x) \div x = c
  BY <1>2, Quotient
<1>6. choose(a + b, b) = factorial[a + b] \div (factorial[b] * factorial[a])
  BY <1>3 DEF choose
<1>7. choose(a + b, a) = factorial[a + b] \div (factorial[a] * factorial[b])
  BY <1>3 DEF choose
<1>. QED BY <1>2, <1>4, <1>5, <1>6, <1>7 DEF x

\* how often v things can be drawn from k, the same one more than once
Draws(k, v) == IF k = 0 THEN 0 ELSE choose(k - 1 + v, v)

LEMMA DrawsRule ==
  /\ \A k, v \in Nat : Draws(k, v) \in Nat
  /\ \A k \in Nat : Draws(k + 1, 0) = 1
  /\ \A k, v \in Nat : Draws(k + 1, v + 1) = Draws(k, v + 1) + Draws(k + 1, v)
<1>1. \A k, v \in Nat : k + 1 # 0 /\ (k + 1) - 1 + v = k + v /\ Draws(k + 1, v) = choose(k + v, v)
  BY DEF Draws
<1>2. ASSUME NEW k \in Nat, NEW v \in Nat PROVE Draws(k, v) \in Nat
  <2>1. CASE k = 0
    BY <2>1 DEF Draws
  <2>2. CASE k # 0
    <3>1. k - 1 \in Nat
      BY <2>2
    <3>2. PICK c : Ways(c, k - 1, v)
      BY <3>1, WaysExist
    <3>3. c \in Nat /\ choose(k - 1 + v, v) = c
      BY <3>1, <3>2, ChooseWays DEF Ways
    <3>. QED BY <2>2, <3>3 DEF Draws
  <2>. QED BY <2>1, <2>2
<1>3. ASSUME NEW k \in Nat PROVE Draws(k + 1, 0) = 1
  <2>1. k + 0 = k /\ factorial[k] \in Nat /\ factorial[0] = 1
    BY Factorial
  <2>2. factorial[k + 0] = 1 * (factorial[k] * factorial[0])
    BY <2>1
  <2>3. Ways(1, k, 0)
    BY <2>2 DEF Ways
  <2>4. choose(k + 0, 0) = 1
    BY <2>3, ChooseWays
  <2>. QED BY <1>1, <2>4
<1>4. ASSUME NEW k \in Nat, NEW v \in Nat
      PROVE  Draws(k + 1, v + 1) = Draws(k, v + 1) + Draws(k + 1, v)
  <2>0. v + 1 \in Nat
    OBVIOUS
  <2>1. CASE k = 0
    <3>1. ASSUME NEW w \in Nat PROVE Draws(1, w) = 1
      <4>1. 0 + w = w /\ factorial[w] \in Nat /\ factorial[0] = 1
        BY Factorial
      <4>2. factorial[0 + w] = 1 * (factorial[0] * factorial[w])
        BY <4>1
      <4>3. Ways(1, 0, w)
        BY <4>2 DEF Ways
      <4>4. choose(0 + w, w) = 1
        BY <4>3, ChooseWays
      <4>5. Draws(0 + 1, w) = choose(0 + w, w)
        BY <1>1
      <4>. QED BY <4>4, <4>5
    <3>2. Draws(0, v + 1) = 0
      BY DEF Draws
    <3>3. Draws(1, v) = 1 /\ Draws(1, v + 1) = 1
      BY <3>1, <2>0
    <3>4. k + 1 = 1
      BY <2>1
    <3>. QED BY <2>1, <3>2, <3>3, <3>4
  <2>2. CASE k # 0
    <3> DEFINE j == k - 1
    <3>1. j \in Nat /\ j + 1 = k
      BY <2>2
    <3> HIDE DEF j
    <3>2. PICK c : Ways(c, j, v + 1)
      BY <3>1, <2>0, WaysExist
    <3>3. PICK d : Ways(d, j + 1, v)
      BY <3>1, <2>0, WaysExist
    <3>4. c \in Nat /\ d \in Nat
      BY <3>2, <3>3 DEF Ways
    <3>5. Ways(c + d, j + 1, v + 1)
      BY <3>1, <3>2, <3>3, <3>4, WaysExistStep
    <3>6. choose(j + (v + 1), v + 1) = c
      BY <3>1, <2>0, <3>2, <3>4, ChooseWays
    <3>7. choose(k + v, v) = d
      BY <3>1, <2>0, <3>3, <3>4, ChooseWays
    <3>8. choose(k + (v + 1), v + 1) = c + d
      <4>1. c + d \in Nat
        BY <3>4
      <4>. QED BY <3>1, <2>0, <3>5, <4>1, ChooseWays
    <3>9. Draws(k, v + 1) = choose(j + (v + 1), v + 1)
      BY <1>1, <3>1, <2>0
    <3>10. Draws(k + 1, v) = choose(k + v, v) /\ Draws(k + 1, v + 1) = choose(k + (v + 1), v + 1)
      BY <1>1, <2>0
    <3>. QED BY <3>6, <3>7, <3>8, <3>9, <3>10
  <2>. QED BY <2>1, <2>2
<1>. QED BY <1>2, <1>3, <1>4

LEMMA DrawsNat == \A k, v \in Nat : Draws(k, v) \in Nat
BY DrawsRule

LEMMA DrawsStep ==
  ASSUME NEW v \in Nat \ {0}, NEW k \in Nat
  PROVE  Draws(k, v) <= Draws(k + 1, v)
<1> DEFINE w == v - 1
<1>1. w \in Nat /\ w + 1 = v
  OBVIOUS
<1> HIDE DEF w
<1>2. Draws(k + 1, w + 1) = Draws(k, w + 1) + Draws(k + 1, w)
  BY <1>1, DrawsRule
<1>3. Draws(k, v) \in Nat /\ Draws(k + 1, w) \in Nat /\ Draws(k + 1, v) \in Nat
  <2>1. k + 1 \in Nat /\ v \in Nat
    OBVIOUS
  <2>. QED BY <1>1, <2>1, DrawsNat
<1>. QED BY <1>1, <1>2, <1>3

(* Who has more to draw from can draw more often.                          *)
LEMMA DrawsGrow ==
  ASSUME NEW v \in Nat \ {0}, NEW k \in Nat, NEW n \in Nat, k <= n
  PROVE  Draws(k, v) <= Draws(n, v)
<1> DEFINE S == {i \in Nat : Draws(k, v) <= Draws(k + i, v)}
<1>1. 0 \in S
  <2>1. k + 0 = k /\ Draws(k, v) \in Nat
    BY DrawsRule
  <2>. QED BY <2>1
<1>2. ASSUME NEW i \in Nat, Draws(k, v) <= Draws(k + i, v) PROVE Draws(k, v) <= Draws(k + (i + 1), v)
  <2>1. PICK m \in Nat : m = k + i
    OBVIOUS
  <2>2. Draws(m, v) <= Draws(m + 1, v)
    BY DrawsStep
  <2>3. Draws(k, v) \in Nat /\ Draws(m, v) \in Nat /\ Draws(m + 1, v) \in Nat
    <3>1. m + 1 \in Nat /\ v \in Nat
      OBVIOUS
    <3>. QED BY <3>1, DrawsNat
  <2>4. k + (i + 1) = m + 1
    BY <2>1
  <2>. QED BY <1>2, <2>1, <2>2, <2>3, <2>4
<1>3. \A i \in S : i + 1 \in S
  BY <1>2
<1> HIDE DEF S
<1>4. S = Nat
  BY <1>1, <1>3, SetInduction DEF S
<1>5. n - k \in S /\ k + (n - k) = n
  BY <1>4
<1>. QED BY <1>5 DEF S

(* Levels 1 to e of which each draws from k at most, together, draw less   *)
(* than e draws from k + 1.                                                *)
LEMMA BudgetBound ==
  ASSUME NEW k \in Nat, NEW e \in Nat, NEW b, NEW L,
         b[0] = 0,
         \A y \in 1..e : /\ b[y] \in Nat /\ L[y] \in 0..k
                         /\ b[y] <= b[y - 1] + Draws(L[y], y)
  PROVE  b[e] + 1 <= Draws(k + 1, e)
<1> DEFINE S == {y \in Nat : y <= e => b[y] \in Nat /\ b[y] + 1 <= Draws(k + 1, y)}
<1>1. 0 \in S
  <2>1. b[0] \in Nat /\ b[0] + 1 = 1 /\ Draws(k + 1, 0) = 1
    BY DrawsRule
  <2>. QED BY <2>1
<1>2. ASSUME NEW y \in Nat, y + 1 <= e, b[y] \in Nat, b[y] + 1 <= Draws(k + 1, y)
      PROVE  b[y + 1] \in Nat /\ b[y + 1] + 1 <= Draws(k + 1, y + 1)
  <2>1. y + 1 \in 1..e /\ (y + 1) - 1 = y /\ y + 1 \in Nat \ {0}
    BY <1>2
  <2>2. b[y] \in Nat /\ b[y] + 1 <= Draws(k + 1, y)
    BY <1>2
  <2>3. /\ b[y + 1] \in Nat /\ L[y + 1] \in Nat /\ L[y + 1] <= k
        /\ b[y + 1] <= b[y] + Draws(L[y + 1], y + 1)
    BY <2>1
  <2>4. Draws(L[y + 1], y + 1) <= Draws(k, y + 1)
    BY <2>1, <2>3, DrawsGrow
  <2>5. Draws(k + 1, y + 1) = Draws(k, y + 1) + Draws(k + 1, y)
    BY <2>1, DrawsRule
  <2>6. /\ Draws(L[y + 1], y + 1) \in Nat /\ Draws(k, y + 1) \in Nat
        /\ Draws(k + 1, y) \in Nat /\ Draws(k + 1, y + 1) \in Nat
    <3>1. k + 1 \in Nat /\ y + 1 \in Nat
      OBVIOUS
    <3>. QED BY <2>1, <2>3, <3>1, DrawsNat
  <2>. QED BY <2>2, <2>3, <2>4, <2>5, <2>6
<1>3. \A y \in S : y + 1 \in S
  BY <1>2
<1> HIDE DEF S
<1>4. S = Nat
  BY <1>1, <1>3, SetInduction DEF S
<1>5. e \in S
  BY <1>4
<1>. QED BY <1>5 DEF S

-----------------------------------------------------------------------------
(***************************************************************************)
(* What the accesses granted have cost.  An access that leaves e - 1       *)
(* places takes the chance to leave e - 1 again from its session; and the  *)
(* link can have more places left only where a session still holds an      *)
(* older count.  So level y of the budget pays for as many accesses as y   *)
(* things are drawn from the sessions that have lost it.                   *)
(***************************************************************************)

\* s has read a count that leaves y places or more
Holds(s, y) == Accessing(s) /\ sess[s].read + y <= MaxDownloads

\* the sessions that cannot bring y places back, once the link has fewer
Others(y) == {s \in Sessions : ~Holds(s, y)}
Lost(y) == IF count + y <= MaxDownloads THEN 0 ELSE Cardinality(Others(y))

Budget(b) ==
  /\ b \in [0..MaxDownloads -> Nat] /\ b[0] = 0
  /\ \A y \in 1..MaxDownloads : b[y] <= b[y - 1] + Draws(Lost(y), y)
  /\ granted <= b[MaxDownloads]

Paid ==
  /\ \E b : Budget(b)
  /\ \A s \in Sessions : Accessing(s) => sess[s].read < MaxDownloads

LEMMA SessionCount ==
  ASSUME NEW S \in SUBSET Sessions, NEW T \in SUBSET Sessions, S \subseteq T
  PROVE  /\ Cardinality(S) \in Nat /\ Cardinality(S) <= Cardinality(T)
         /\ S # T => Cardinality(S) + 1 <= Cardinality(T)
<1>1. IsFiniteSet(S) /\ IsFiniteSet(T)
  BY SessionsAssumption, FS_Subset
<1>2. Cardinality(S) \in Nat /\ Cardinality(T) \in Nat /\ Cardinality(S) <= Cardinality(T)
  BY <1>1, FS_CardinalityType, FS_Subset
<1>3. ASSUME S # T PROVE Cardinality(S) + 1 <= Cardinality(T)
  <2>1. Cardinality(S) # Cardinality(T)
    BY <1>1, <1>3, FS_Subset
  <2>. QED BY <1>2, <2>1
<1>. QED BY <1>2, <1>3

LEMMA LostNat ==
  ASSUME NEW y
  PROVE  /\ Lost(y) \in 0..Cardinality(Sessions)
         /\ Lost(y)' \in 0..Cardinality(Sessions)
<1>1. Others(y) \in SUBSET Sessions /\ Others(y)' \in SUBSET Sessions
  BY DEF Others
<1>2. /\ Cardinality(Others(y)) \in Nat /\ Cardinality(Others(y)) <= Cardinality(Sessions)
      /\ Cardinality(Others(y)') \in Nat /\ Cardinality(Others(y)') <= Cardinality(Sessions)
      /\ Cardinality(Sessions) \in Nat
  BY <1>1, SessionCount
<1>. QED BY <1>2 DEF Lost

(* Nothing is granted, and no session is back that was lost.               *)
LEMMA PaidKept ==
  ASSUME NEW b, Budget(b), granted' = granted,
         \A y \in 1..MaxDownloads : Lost(y) <= Lost(y)'
  PROVE  Budget(b)'
<1> USE MaxAssumption
<1>1. ASSUME NEW y \in 1..MaxDownloads PROVE b[y] <= b[y - 1] + Draws(Lost(y)', y)
  <2>1. /\ b[y] \in Nat /\ b[y - 1] \in Nat
        /\ b[y] <= b[y - 1] + Draws(Lost(y), y)
    BY DEF Budget
  <2>2. Lost(y) \in Nat /\ Lost(y)' \in Nat /\ Lost(y) <= Lost(y)' /\ y \in Nat \ {0}
    BY LostNat
  <2>3. Draws(Lost(y), y) <= Draws(Lost(y)', y)
    BY <2>2, DrawsGrow
  <2>4. Draws(Lost(y), y) \in Nat /\ Draws(Lost(y)', y) \in Nat
    BY <2>2, DrawsNat
  <2>. QED BY <2>1, <2>3, <2>4
<1>. QED BY <1>1 DEF Budget

(* An access that leaves e - 1 places: what the levels below e have paid   *)
(* for, and it, are paid for by level e; those above pay for one more.     *)
LEMMA PaidAccess ==
  ASSUME IInv, NEW s \in Sessions, Accessing(s), sess[s].read < MaxDownloads,
         NEW b, Budget(b),
         count' = sess[s].read + 1, granted' = granted + 1,
         ~Accessing(s)',
         \A d \in Sessions, y \in Nat : Holds(d, y)' <=> d # s /\ Holds(d, y)
  PROVE  \E c : Budget(c)'
<1> USE MaxAssumption
<1> DEFINE M == MaxDownloads
<1>0. count \in Nat /\ granted \in Nat /\ sess[s].read \in Nat
  BY DEF IInv, TypeOK, Session
<1>1. PICK e \in 1..M : sess[s].read + e = M
  <2>1. M - sess[s].read \in 1..M /\ sess[s].read + (M - sess[s].read) = M
    BY <1>0
  <2>. QED BY <2>1
<1>2. ASSUME NEW y \in Nat PROVE Holds(s, y) <=> y <= e
  BY <1>0, <1>1 DEF Holds
<1>3. ASSUME NEW y \in Nat PROVE count' + y <= M <=> y < e
  BY <1>0, <1>1
<1>4. ASSUME NEW y \in Nat PROVE Others(y)' = Others(y) \cup {s}
  BY <1>4 DEF Others
<1>5. /\ b \in [0..M -> Nat] /\ b[0] = 0 /\ granted <= b[M]
      /\ \A y \in 1..M : b[y] <= b[y - 1] + Draws(Lost(y), y)
  BY DEF Budget
\* above e, nobody is lost
<1>6. ASSUME NEW y \in 1..M, e < y PROVE Lost(y) <= Lost(y)'
  <2>1. ~Holds(s, y) /\ ~(count' + y <= M) /\ Others(y)' = Others(y)
    BY <1>1, <1>2, <1>3, <1>4, <1>6 DEF Others
  <2>2. Lost(y)' = Cardinality(Others(y))
    BY <2>1 DEF Lost
  <2>3. Cardinality(Others(y)) \in Nat
    BY SessionCount DEF Others
  <2>. QED BY <2>2, <2>3 DEF Lost
\* at e, s is
<1>7. /\ Lost(e)' = Cardinality(Others(e) \cup {s})
      /\ Cardinality(Others(e)) \in Nat /\ Cardinality(Others(e)) + 1 <= Cardinality(Others(e) \cup {s})
  <2>1. Others(e) \in SUBSET Sessions /\ Others(e) \cup {s} \in SUBSET Sessions /\ s \notin Others(e)
    BY <1>1, <1>2 DEF Others
  <2>2. ~(count' + e <= M) /\ Others(e)' = Others(e) \cup {s}
    BY <1>1, <1>3, <1>4
  <2>3. Lost(e)' = Cardinality(Others(e) \cup {s})
    BY <2>2 DEF Lost
  <2>. QED BY <2>1, <2>3, SessionCount
\* what e and the levels below had paid for
<1>8. b[e] + 1 <= Draws(Lost(e)', e)
  <2> DEFINE k == IF count + e <= M THEN 0 ELSE Cardinality(Others(e))
             L == [y \in 1..e |-> Lost(y)]
  <2>1. k \in Nat /\ k + 1 <= Lost(e)' /\ Lost(e)' \in Nat
    BY <1>7, LostNat
  <2>2. ASSUME NEW y \in 1..e PROVE Lost(y) \in 0..k
    <3>1. y \in Nat /\ Lost(y) \in Nat
      BY <1>1, LostNat
    <3>2. CASE count + e <= M
      <4>1. count + y <= M
        BY <1>0, <1>1, <3>2
      <4>. QED BY <4>1, <3>2 DEF Lost
    <3>3. CASE ~(count + e <= M)
      <4>1. Others(y) \subseteq Others(e)
        BY <1>0, <1>1 DEF Others, Holds, IInv, TypeOK, Session
      <4>2. Cardinality(Others(y)) \in Nat /\ Cardinality(Others(y)) <= Cardinality(Others(e))
        <5>1. Others(y) \in SUBSET Sessions /\ Others(e) \in SUBSET Sessions
          BY DEF Others
        <5>. QED BY <4>1, <5>1, SessionCount
      <4>. QED BY <1>7, <3>3, <4>2 DEF Lost
    <3>. QED BY <3>2, <3>3
  <2> HIDE DEF k
  <2>3. \A y \in 1..e : b[y] \in Nat /\ L[y] \in 0..k /\ b[y] <= b[y - 1] + Draws(L[y], y)
    BY <1>1, <1>5, <2>2
  <2>4. b[e] + 1 <= Draws(k + 1, e)
    <3>1. e \in Nat /\ b[0] = 0
      BY <1>1, <1>5
    <3> HIDE DEF L
    <3>. QED BY <2>1, <2>3, <3>1, BudgetBound
  <2>5. Draws(k + 1, e) <= Draws(Lost(e)', e)
    <3>1. k + 1 \in Nat /\ e \in Nat \ {0}
      BY <1>1, <2>1
    <3>. QED BY <2>1, <3>1, DrawsGrow
  <2>6. Draws(k + 1, e) \in Nat /\ Draws(Lost(e)', e) \in Nat /\ b[e] \in Nat
    <3>1. k + 1 \in Nat /\ e \in Nat /\ b[e] \in Nat
      BY <1>1, <1>5, <2>1
    <3>2. Draws(k + 1, e) \in Nat
      BY <3>1, DrawsNat
    <3>3. Draws(Lost(e)', e) \in Nat
      BY <2>1, <3>1, DrawsNat
    <3>. QED BY <3>1, <3>2, <3>3
  <2>. QED BY <2>4, <2>5, <2>6
<1> DEFINE c == [y \in 0..M |-> IF y < e THEN 0 ELSE b[y] + 1]
<1>9. c \in [0..M -> Nat] /\ c[0] = 0 /\ granted + 1 <= c[M]
  <2>1. \A y \in 0..M : b[y] + 1 \in Nat
    BY <1>5
  <2>2. c \in [0..M -> Nat]
    BY <2>1
  <2>3. c[0] = 0
    BY <1>1
  <2>4. c[M] = b[M] + 1 /\ b[M] \in Nat
    BY <1>1, <1>5
  <2>5. granted + 1 <= b[M] + 1
    BY <1>0, <1>5, <2>4
  <2>. QED BY <2>2, <2>3, <2>4, <2>5
<1>10. ASSUME NEW y \in 1..M PROVE c[y] <= c[y - 1] + Draws(Lost(y)', y)
  <2>1. y \in Nat /\ y - 1 \in 0..M /\ Lost(y) \in Nat /\ Lost(y)' \in Nat
    BY LostNat
  <2>2. Draws(Lost(y), y) \in Nat /\ Draws(Lost(y)', y) \in Nat
    BY <2>1, DrawsNat
  <2>3. CASE y < e
    <3>1. c[y] = 0 /\ c[y - 1] = 0
      BY <1>1, <2>1, <2>3
    <3>. QED BY <2>2, <3>1
  <2>4. CASE y = e
    <3>1. c[y] = b[e] + 1 /\ c[y - 1] = 0
      BY <1>1, <2>1, <2>4
    <3>. QED BY <1>8, <2>2, <2>4, <3>1
  <2>5. CASE y > e
    <3>1. c[y] = b[y] + 1 /\ c[y - 1] = b[y - 1] + 1 /\ b[y] \in Nat /\ b[y - 1] \in Nat
      <4>1. y \in 0..M /\ y - 1 \in 0..M /\ ~(y < e) /\ ~(y - 1 < e)
        BY <1>1, <2>1, <2>5
      <4>. QED BY <1>5, <4>1
    <3>2. b[y] <= b[y - 1] + Draws(Lost(y), y)
      BY <1>5
    <3>3. Draws(Lost(y), y) <= Draws(Lost(y)', y)
      <4>1. Lost(y) <= Lost(y)'
        BY <1>1, <1>6, <2>5
      <4>2. y \in Nat \ {0}
        OBVIOUS
      <4>. QED BY <2>1, <4>1, <4>2, DrawsGrow
    <3>. QED BY <2>2, <3>1, <3>2, <3>3
  <2>. QED BY <1>1, <2>1, <2>3, <2>4, <2>5
<1> HIDE DEF c
<1>11. Budget(c)'
  BY <1>9, <1>10 DEF Budget
<1>. QED BY <1>11
LEMMA NothingPaid ==
  ASSUME NEW b, b = [y \in 0..MaxDownloads |-> 0]
  PROVE  granted = 0 => Budget(b)
<1> SUFFICES ASSUME granted = 0 PROVE Budget(b)
  OBVIOUS
<1> USE MaxAssumption
<1>1. ASSUME NEW y \in 1..MaxDownloads PROVE b[y] <= b[y - 1] + Draws(Lost(y), y)
  <2>1. b[y] = 0 /\ b[y - 1] = 0
    OBVIOUS
  <2>2. Draws(Lost(y), y) \in Nat
    <3>1. Lost(y) \in Nat /\ y \in Nat
      BY LostNat
    <3>. QED BY <3>1, DrawsNat
  <2>. QED BY <2>1, <2>2
<1>. QED BY <1>1 DEF Budget

LEMMA NothingPaidNext ==
  ASSUME NEW b, b = [y \in 0..MaxDownloads |-> 0], granted' = 0
  PROVE  Budget(b)'
<1> USE MaxAssumption
<1>1. ASSUME NEW y \in 1..MaxDownloads PROVE b[y] <= b[y - 1] + Draws(Lost(y)', y)
  <2>1. b[y] = 0 /\ b[y - 1] = 0
    OBVIOUS
  <2>2. Draws(Lost(y)', y) \in Nat
    <3>1. Lost(y)' \in Nat /\ y \in Nat
      BY LostNat
    <3>. QED BY <3>1, DrawsNat
  <2>. QED BY <2>1, <2>2
<1>. QED BY <1>1 DEF Budget

LEMMA InitPaid == Init => Paid
<1> SUFFICES ASSUME Init PROVE Paid
  OBVIOUS
<1>1. Budget([y \in 0..MaxDownloads |-> 0])
  BY NothingPaid DEF Init
<1>. QED BY <1>1 DEF Init, Paid, Accessing, Active, Idle

(* Fewer sessions hold what they have read.                                *)
LEMMA LostGrows ==
  ASSUME count' = count,
         \A d \in Sessions, y \in Nat : Holds(d, y)' => Holds(d, y) \/ count + y <= MaxDownloads
  PROVE  \A y \in 1..MaxDownloads : Lost(y) <= Lost(y)'
<1> SUFFICES ASSUME NEW y \in 1..MaxDownloads PROVE Lost(y) <= Lost(y)'
  OBVIOUS
<1>1. CASE count + y <= MaxDownloads
  <2>1. Lost(y) = 0 /\ Lost(y)' = 0
    BY <1>1 DEF Lost
  <2>. QED BY <2>1
<1>2. CASE ~(count + y <= MaxDownloads)
  <2>1. Others(y) \subseteq Others(y)'
    BY <1>2 DEF Others
  <2>2. Others(y) \in SUBSET Sessions /\ Others(y)' \in SUBSET Sessions
    BY DEF Others
  <2>3. Cardinality(Others(y)) <= Cardinality(Others(y)')
    BY <2>1, <2>2, SessionCount
  <2>4. Lost(y) = Cardinality(Others(y)) /\ Lost(y)' = Cardinality(Others(y)')
    BY <1>2 DEF Lost
  <2>. QED BY <2>3, <2>4
<1>. QED BY <1>1, <1>2

LEMMA NextPaid == IInv /\ Paid /\ [Next]_vars => Paid'
<1> SUFFICES ASSUME IInv, Paid, [Next]_vars PROVE Paid'
  OBVIOUS
<1> USE MaxAssumption
<1>0. count \in Nat /\ granted \in Nat /\ \A s \in Sessions : sess[s] \in Session /\ sess[s].read \in Nat
  BY DEF IInv, TypeOK, Session
<1> PICK b : Budget(b)
  BY DEF Paid
<1>a. \A s \in Sessions : Accessing(s) => sess[s].read < MaxDownloads
  BY DEF Paid
\* nobody is granted anything
<1>b. ASSUME UNCHANGED <<count, granted>>,
             \A d \in Sessions : Accessing(d)' =>
               \/ Accessing(d) /\ sess'[d].read = sess[d].read
               \/ sess'[d].read = count /\ count < MaxDownloads
      PROVE  Paid'
  <2>1. \A d \in Sessions, y \in Nat : Holds(d, y)' => Holds(d, y) \/ count + y <= MaxDownloads
    BY <1>0, <1>b DEF Holds
  <2>2. Budget(b)'
    BY <1>b, <2>1, LostGrows, PaidKept
  <2>3. \A d \in Sessions : Accessing(d)' => sess'[d].read < MaxDownloads
    BY <1>0, <1>a, <1>b
  <2>. QED BY <2>2, <2>3 DEF Paid
<1>1. ASSUME NEW s \in Sessions, Check(s) PROVE Paid'
  <2>1. PICK kind \in kinds, a \in Users, u \in Users :
          /\ Allowed(kind, a, u)
          /\ sess' = [d \in Sessions |->
                        IF d = s THEN Request(kind, a, u) ELSE [sess[d] EXCEPT !.alone = FALSE]]
    BY <1>1 DEF Check
  <2>2. UNCHANGED <<count, enabled, granted>>
    BY <1>1 DEF Check, link
  <2>3. kind = "get_link" => LinkValid
    BY <2>1 DEF Allowed, MayGrant, MayTransfer, MayPurge, MayTag, MayFavorite, MayRead, MayLink
  <2>4. /\ sess'[s].kind = kind
        /\ kind = "get_link" => sess'[s].read = count
    BY <2>1 DEF Request
  <2>5. \A d \in Sessions \ {s} :
          sess'[d].kind = sess[d].kind /\ sess'[d].read = sess[d].read /\ sess'[d].stage = sess[d].stage
    BY <2>1, <1>0 DEF Session
  <2>6. Accessing(s)' => sess'[s].read = count /\ count < MaxDownloads
    BY <2>3, <2>4 DEF Accessing, LinkValid
  <2>7. \A d \in Sessions \ {s} : Accessing(d)' => Accessing(d)
    BY <2>5 DEF Accessing, Active
  <2>. QED BY <1>b, <2>2, <2>5, <2>6, <2>7
<1>2. ASSUME NEW s \in Sessions, Write(s) \/ Cancel(s) PROVE Paid'
  <2>1. UNCHANGED <<count, granted>>
    BY <1>2 DEF Write, Cancel, link
  <2>2. \A d \in Sessions : Accessing(d)' => Accessing(d) /\ sess'[d].read = sess[d].read
    BY <1>0, <1>2 DEF Write, Cancel, End, Accessing, Active, Idle, Session, IInv, TypeOK
  <2>. QED BY <1>b, <2>1, <2>2
<1>3. ASSUME NEW s \in Sessions, Commit(s) PROVE Paid'
  <2> DEFINE r == sess[s]
  <2>1. /\ r.stage = "commit"
        /\ count' = IF r.kind = "get_link" THEN r.read + 1 ELSE IF r.kind = "create_link" THEN 0 ELSE count
        /\ granted' = IF r.kind = "get_link" THEN granted + 1 ELSE IF r.kind = "create_link" THEN 0 ELSE granted
    BY <1>3 DEF Commit
  <2>2. \A d \in Sessions : Accessing(d)' => d # s /\ Accessing(d) /\ sess'[d].read = sess[d].read
    BY <1>0, <1>3 DEF Commit, Accessing, Active, Idle, Session
  <2>3. \A d \in Sessions \ {s} : Accessing(d) => Accessing(d)' /\ sess'[d].read = sess[d].read
    BY <1>0, <1>3 DEF Commit, Accessing, Active, Session
  <2>4. \A d \in Sessions : Accessing(d)' => sess'[d].read < MaxDownloads
    BY <1>a, <2>2
  <2>5. CASE r.kind = "get_link"
    <3>1. Accessing(s) /\ r.read < MaxDownloads
      BY <1>a, <2>1, <2>5 DEF Accessing, Active
    <3>2. \A d \in Sessions, y \in Nat : Holds(d, y)' <=> d # s /\ Holds(d, y)
      BY <2>2, <2>3 DEF Holds
    <3>3. count' = r.read + 1 /\ granted' = granted + 1 /\ ~Accessing(s)'
      BY <2>1, <2>2, <2>5
    <3>4. \E c : Budget(c)'
      BY <3>1, <3>2, <3>3, PaidAccess
    <3>. QED BY <2>4, <3>4 DEF Paid
  <2>6. CASE r.kind = "create_link"
    <3>1. Budget([y \in 0..MaxDownloads |-> 0])'
      BY <2>1, <2>6, NothingPaidNext
    <3>. QED BY <2>4, <3>1 DEF Paid
  <2>7. CASE r.kind \notin {"get_link", "create_link"}
    BY <1>b, <2>1, <2>2, <2>7
  <2>. QED BY <2>5, <2>6, <2>7
<1>4. CASE TrashOrRestore \/ UNCHANGED vars
  BY <1>4, <1>b DEF TrashOrRestore, vars, link, Accessing, Active
<1>. QED BY <1>1, <1>2, <1>3, <1>4 DEF Next

LEMMA PaidIsBounded == IInv /\ Paid => LinkLimit
<1> SUFFICES ASSUME IInv, Paid PROVE LinkLimit
  OBVIOUS
<1> USE MaxAssumption
<1> DEFINE n == Cardinality(Sessions)
           M == MaxDownloads
<1>1. n \in Nat /\ M \in Nat
  BY SessionsAssumption, FS_CardinalityType
<1>2. PICK b : Budget(b)
  BY DEF Paid
<1> DEFINE L == [y \in 1..M |-> Lost(y)]
<1>3. \A y \in 1..M : b[y] \in Nat /\ L[y] \in 0..n /\ b[y] <= b[y - 1] + Draws(L[y], y)
  BY <1>2, LostNat DEF Budget
<1>4. b[0] = 0 /\ b[M] \in Nat /\ granted <= b[M] /\ granted \in Nat
  BY <1>2 DEF Budget, IInv, TypeOK
<1> HIDE DEF L, n
<1>5. b[M] + 1 <= Draws(n + 1, M)
  BY <1>1, <1>3, <1>4, BudgetBound
<1>6. Draws(n + 1, M) = choose(n + M, n)
  <2>1. PICK c : Ways(c, n, M)
    BY <1>1, WaysExist
  <2>2. choose(n + M, M) = c /\ choose(n + M, n) = c
    <3>1. c \in Nat
      BY <2>1 DEF Ways
    <3>. QED BY <1>1, <2>1, <3>1, ChooseWays
  <2>3. n + 1 # 0 /\ (n + 1) - 1 + M = n + M
    BY <1>1
  <2>4. Draws(n + 1, M) = choose(n + M, M)
    BY <2>3 DEF Draws
  <2>. QED BY <2>2, <2>4
<1>7. Draws(n + 1, M) \in Nat
  <2>1. n + 1 \in Nat
    BY <1>1
  <2>. QED BY <1>1, <2>1, DrawsNat
<1>8. granted < choose(n + M, n)
  BY <1>4, <1>5, <1>6, <1>7
<1>. QED BY <1>8 DEF LinkLimit, n

(* However many requests overlap, a link grants fewer accesses than        *)
(* C(n + max_downloads, n), for any number n of sessions.                  *)
THEOREM LinkOverrunIsBounded == Spec => []LinkLimit
BY InitIInv, NextIInv, InitPaid, NextPaid, PaidIsBounded, PTL DEF Spec
=============================================================================
