----------------------------- MODULE BlobUpload -----------------------------
(***************************************************************************)
(* One upload on its way from the request to the storage account:          *)
(* FileService.upload wraps the request body in a generator, StorageService*)
(* wraps that one to hash what passes, AzureBlobStorageBackend collects    *)
(* the chunks and sends them, and with_retry repeats the last two.         *)
(***************************************************************************)
EXTENDS Naturals, Sequences

CONSTANTS
  Chunks,      \* what a chunk of 4 MiB can hold
  MaxChunks,   \* bound: chunks in a body
  MaxRetries   \* with_retry's max_retries

ASSUME BoundsAssumption == MaxChunks \in Nat /\ MaxRetries \in Nat

VARIABLES
  body,      \* what the client sent
  unread,    \* what the generator over the body has still to yield
  hashed,    \* what the hasher has been fed; total_size is its length
  buffer,    \* the chunks upload_stream has collected in this attempt
  blob,      \* the blob: the set of its content, {} as long as there is none
  attempt,   \* attempts begun before this one
  stage,     \* "connect", "read", "send", "sleep", "ok" or "failed"
  configured,\* the storage account is configured (settings)
  torn       \* history: reading the body has failed

vars == <<body, unread, hashed, buffer, blob, attempt, stage, configured, torn>>

Bodies == UNION {[1..n -> Chunks] : n \in 0..MaxChunks}

TypeOK ==
  /\ body \in Seq(Chunks) /\ unread \in Seq(Chunks)
  /\ hashed \in Seq(Chunks) /\ buffer \in Seq(Chunks)
  /\ blob \subseteq Seq(Chunks)
  /\ attempt \in 0..MaxRetries
  /\ stage \in {"connect", "read", "send", "sleep", "ok", "failed"}
  /\ configured \in BOOLEAN /\ torn \in BOOLEAN

Init ==
  /\ body \in Bodies
  /\ unread = body /\ hashed = <<>> /\ buffer = <<>>
  /\ blob = {}
  /\ attempt = 0 /\ stage = "connect"
  /\ configured \in BOOLEAN /\ torn = FALSE

\* mutation: one retry too many
RetryOnceMore == stage' = IF attempt <= MaxRetries THEN "sleep" ELSE "failed"

\* an exception in the attempt: wait, or give up and raise the last one
Retry == stage' = IF attempt < MaxRetries THEN "sleep" ELSE "failed"

\* the attempt's list of chunks, or ServiceUnavailableError from the container client
Connect ==
  /\ stage = "connect"
  /\ IF configured THEN stage' = "read" ELSE Retry
  /\ buffer' = <<>>
  /\ UNCHANGED <<body, unread, hashed, blob, attempt, configured, torn>>

\* hashing_stream passes the next chunk on
ReadChunk ==
  /\ stage = "read" /\ unread # <<>>
  /\ unread' = Tail(unread)
  /\ hashed' = Append(hashed, Head(unread))
  /\ buffer' = Append(buffer, Head(unread))
  /\ UNCHANGED <<body, blob, attempt, stage, configured, torn>>

\* reading the spooled body raises; a generator that has raised yields nothing more
ReadError ==
  /\ stage = "read" /\ unread # <<>>
  /\ unread' = <<>> /\ torn' = TRUE
  /\ Retry
  /\ UNCHANGED <<body, hashed, buffer, blob, attempt, configured>>

\* mutation: the rest of the body is not waited for
EndOfChunk ==
  /\ stage = "read"
  /\ stage' = "send"
  /\ UNCHANGED <<body, unread, hashed, buffer, blob, attempt, configured, torn>>

EndOfStream ==
  /\ stage = "read" /\ unread = <<>>
  /\ stage' = "send"
  /\ UNCHANGED <<body, unread, hashed, buffer, blob, attempt, configured, torn>>

\* upload_blob(overwrite=True); the answer of an upload that succeeded may be lost
Send ==
  /\ stage = "send"
  /\ \/ stage' = "ok" /\ blob' = {buffer}
     \/ Retry /\ blob' \in {blob, {buffer}}
  /\ UNCHANGED <<body, unread, hashed, buffer, attempt, configured, torn>>

\* mutation: a new hasher over the old generator
WakeNewHasher ==
  /\ stage = "sleep"
  /\ attempt' = attempt + 1 /\ stage' = "connect"
  /\ hashed' = <<>>
  /\ UNCHANGED <<body, unread, buffer, blob, configured, torn>>

\* mutation: the attempts are not counted
WakeUncounted ==
  /\ stage = "sleep"
  /\ stage' = "connect"
  /\ UNCHANGED <<body, unread, hashed, buffer, blob, attempt, configured, torn>>

\* the next attempt calls hashing_stream() again, over the same generator and hasher
Wake ==
  /\ stage = "sleep"
  /\ attempt' = attempt + 1 /\ stage' = "connect"
  /\ UNCHANGED <<body, unread, hashed, buffer, blob, configured, torn>>

Next == Connect \/ ReadChunk \/ ReadError \/ EndOfStream \/ Send \/ Wake

\* every await returns or raises: the client library and the sleep have timeouts
Spec == Init /\ [][Next]_vars /\ WF_vars(Next)

-----------------------------------------------------------------------------
(* The checksum and the size reported are those of the body, however often *)
(* the upload was retried, unless reading the body failed.                 *)
ChecksumOfBody == stage = "ok" /\ ~torn => hashed = body

(* An upload that needs no retry stores the body.                          *)
FirstAttemptStoresBody == stage = "ok" /\ attempt = 0 => blob = {body}

(* Every upload ends: the retries are bounded.                             *)
UploadEnds == <>(stage \in {"ok", "failed"})
=============================================================================
