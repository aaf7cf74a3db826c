-------------------------- MODULE BlobUploadProofs --------------------------
(***************************************************************************)
(* BlobUpload for bodies and retries of any number.                        *)
(***************************************************************************)
EXTENDS BlobUpload, TLAPS, SequenceTheorems

(***************************************************************************)
(* The first attempt collects exactly what is hashed, and reading has not  *)
(* failed as long as it runs.                                              *)
(***************************************************************************)
FirstAttempt ==
  attempt = 0 =>
    /\ stage \in {"connect", "read", "send", "ok"} => ~torn
    /\ stage = "connect" => hashed = <<>>
    /\ stage \in {"read", "send", "ok"} => buffer = hashed
    /\ stage = "ok" => blob = {buffer}

(***************************************************************************)
(* What has been hashed and what is still unread always make up the body,  *)
(* an attempt that sends has read to the end, and the last one is not      *)
(* followed by a sleep.                                                    *)
(***************************************************************************)
IInv ==
  /\ TypeOK
  /\ FirstAttempt
  /\ ~torn => hashed \o unread = body
  /\ stage \in {"send", "ok"} => unread = <<>>
  /\ stage = "sleep" => attempt < MaxRetries

LEMMA BodiesAreSequences == Bodies \subseteq Seq(Chunks)
BY IsASeq, BoundsAssumption DEF Bodies

LEMMA InitIInv == Init => IInv
<1> SUFFICES ASSUME Init PROVE IInv
  OBVIOUS
<1>1. body \in Seq(Chunks) /\ unread = body /\ hashed = <<>>
  BY BodiesAreSequences DEF Init
<1>2. hashed \o unread = body
  BY <1>1, ConcatEmptySeq
<1>3. configured \in BOOLEAN /\ torn \in BOOLEAN
  BY DEF Init
<1>4. TypeOK
  BY <1>1, <1>3, BoundsAssumption, EmptySeq DEF Init, TypeOK
<1>5. FirstAttempt
  BY DEF Init, FirstAttempt
<1>. QED BY <1>2, <1>4, <1>5 DEF Init, IInv

LEMMA ReadChunkIInv == IInv /\ ReadChunk => IInv'
<1> SUFFICES ASSUME IInv, ReadChunk PROVE IInv'
  OBVIOUS
<1>1. /\ unread \in Seq(Chunks) /\ unread # <<>> /\ hashed \in Seq(Chunks)
      /\ Head(unread) \in Chunks /\ Tail(unread) \in Seq(Chunks)
  BY HeadTailProperties DEF IInv, TypeOK, ReadChunk
<1>2. hashed' \o unread' = hashed \o unread
  <2>1. hashed' = hashed \o <<Head(unread)>> /\ unread' = Tail(unread)
    BY <1>1, AppendIsConcat DEF ReadChunk
  <2>2. unread = <<Head(unread)>> \o Tail(unread)
    BY <1>1
  <2>3. <<Head(unread)>> \in Seq(Chunks)
    BY <1>1
  <2>. QED BY <1>1, <2>1, <2>2, <2>3, ConcatAssociative
<1>3. TypeOK'
  BY <1>1, AppendProperties DEF IInv, TypeOK, ReadChunk
<1>4. FirstAttempt'
  BY DEF IInv, FirstAttempt, ReadChunk
<1>. QED BY <1>2, <1>3, <1>4 DEF IInv, ReadChunk

LEMMA NextIInv == IInv /\ [Next]_vars => IInv'
<1> SUFFICES ASSUME IInv, [Next]_vars PROVE IInv'
  OBVIOUS
<1> USE BoundsAssumption DEF IInv, TypeOK, FirstAttempt
<1>1. CASE Connect
  BY <1>1, EmptySeq DEF Connect, Retry
<1>2. CASE ReadChunk
  BY <1>2, ReadChunkIInv
<1>3. CASE ReadError
  BY <1>3, EmptySeq DEF ReadError, Retry
<1>4. CASE EndOfStream
  BY <1>4 DEF EndOfStream
<1>5. CASE Send
  BY <1>5 DEF Send, Retry
<1>6. CASE Wake
  BY <1>6 DEF Wake
<1>7. CASE UNCHANGED vars
  BY <1>7 DEF vars
<1>. QED BY <1>1, <1>2, <1>3, <1>4, <1>5, <1>6, <1>7 DEF Next

(* Every reachable state is well typed; in particular there are never more *)
(* than MaxRetries retries.                                                *)
THEOREM UploadTyped == Spec => []TypeOK
<1>1. IInv => TypeOK
  BY DEF IInv
<1>. QED BY <1>1, InitIInv, NextIInv, PTL DEF Spec

(* An upload whose first attempt succeeds stores what the client sent.     *)
THEOREM FirstAttemptStores == Spec => []FirstAttemptStoresBody
<1>1. IInv => FirstAttemptStoresBody
  <2> SUFFICES ASSUME IInv, stage = "ok", attempt = 0 PROVE blob = {body}
    BY DEF FirstAttemptStoresBody
  <2>1. unread = <<>> /\ hashed \o unread = body /\ blob = {hashed}
    BY DEF IInv, FirstAttempt
  <2>2. hashed = body
    BY <2>1, ConcatEmptySeq DEF IInv, TypeOK
  <2>. QED BY <2>1, <2>2
<1>. QED BY <1>1, InitIInv, NextIInv, PTL DEF Spec

(* The checksum a successful upload reports is that of the client's body,  *)
(* whatever its length and however many attempts failed before.            *)
THEOREM ChecksumCorrect == Spec => []ChecksumOfBody
<1>1. IInv => ChecksumOfBody
  <2> SUFFICES ASSUME IInv, stage = "ok", ~torn PROVE hashed = body
    BY DEF ChecksumOfBody
  <2>. QED BY ConcatEmptySeq DEF IInv, TypeOK
<1>. QED BY <1>1, InitIInv, NextIInv, PTL DEF Spec
=============================================================================
