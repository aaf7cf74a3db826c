# A verification project for the drive clone

TLA+ modules for the parts of this repository that can lose, duplicate or misplace a user's
data, lock a user out or tell him what is not so: the folder tree, the versions of a file, the rows
and blobs a file consists of, the streaming upload, everything that hangs on a file
(permissions, links, tags, favorites), login sessions with the browser's half of them, and
the path of a request through the middleware. TLC checks the modules on small instances; TLAPS
proves the central invariants for every instance. Paths below are relative to `src/backend/app/`
unless they start with `src/`.

Contents: 1 the system, 2 the modules, 3 the runs, 4 the proofs, 5 disagreements between
code and documentation, 6 what is left out, 7 the plan.

## 1. The system

A FastAPI backend over PostgreSQL (SQLAlchemy, asyncio), Redis and Azure Blob Storage, and a
Next.js frontend. Every HTTP request runs in one coroutine with one database session and one
transaction (`dependencies/database.py`, `get_db`): commit when the handler returns,
rollback when it raises, rollback as well when it is cancelled (the session is closed
without a commit). Several coroutines and several processes serve requests at the same time.

Facts of this set-up that all modules rest on:

- **READ COMMITTED.** No isolation level is configured and no query uses `FOR UPDATE`. Each
  statement sees what is committed when it starts. An UPDATE or DELETE locks its rows until
  the commit; one that waits for such a row looks at it again once the other has committed.
- **The session remembers.** A row held by the handler keeps the values it was first loaded
  with, later SELECTs do not refresh it, and a flush writes only the columns whose values
  differ from those. A row nobody holds is forgotten and loaded afresh (the identity map is
  weak).
- **Blobs are not transactional.** Storing, copying and deleting a blob takes effect at once,
  whatever happens to the transaction later. `copy` merely starts a copy.
- **The commit may come after the answer.** `get_db` is a dependency with `yield`; whether
  its second half runs before or after the response is sent depends on the version of FastAPI
  (`src/backend/pyproject.toml:7` asks for 0.115 or later). `Requests` and `AuthTokens` allow both.

| Component | State | Operations | Hard behaviour | What makes it correct |
|---|---|---|---|---|
| Folder hierarchy (`services/folder.py`, `repositories/file.py`) | rows of `folders` | create, rename/update, move, copy, delete, restore, permanent_delete, empty_trash | parent chain walked by five different loops; overlapping requests | no cycle, references intact, trash closed downwards, emptying it spares the rest |
| Permissions (`services/sharing.py`, `dependencies/permission.py`) | rows of `permissions`, owners | share, update, remove, transfer_ownership | inheritance through folders of several owners, two walks with different rules; overlapping upserts | the walks agree; what was withdrawn stays withdrawn |
| File versions (`services/versioning.py`, upload in `services/file.py`) | rows of `file_versions`, the file row | upload of an existing name, restore_version, delete_version | three rows written by separate statements of overlapping transactions | the file serves a current, undeleted version; serially, a history that only grows |
| Files and blobs (`services/file.py`, folder operations of `services/folder.py`) | rows of `files`, blobs | upload, copy, move, rename, delete, restore, permanent_delete, restore_version, and the folder operations that take files along | two stores without a common transaction, failures between any two steps | a live file has its content |
| Streaming upload (`services/storage.py`, `core/retry.py`, `storage/azure_blob.py`) | generator, hasher, chunk list, attempt number | read, send, retry | a retry over a stream already read | size and checksum are those of the body, the upload ends |
| Authentication (`services/auth.py`, `auth/jwt.py`, `repositories/user.py`) | users, refresh tokens, Redis blacklist | register, login, refresh, logout | overlapping refreshes, refresh and logout, Redis down | a used token is refused, logout withdraws |
| Browser session (`src/frontend/services/api.ts`, `contexts/auth-context.tsx`) | tokens in localStorage | request and response interceptor, login, page load, logout | several 401s at once, a page that is left | no used-up token is kept, every call settles |
| Shared links | `download_count`, `is_enabled` | create, update, delete, get_link | lost updates | accesses are bounded |
| Rate limiter (`middleware/rate_limiter.py`) | a Redis counter | INCR, EXPIRE, TTL | a failure between two commands; an exception of the application taken for one of Redis | counters expire, a request is not run twice |
| Discovery (`services/discovery.py`, `repositories/discovery.py`) | tags, favorites, recent files | check-then-insert on unique keys, search | overlapping requests, a purge beside an insert | no orphans, no failures of one's own, search returns only what may be read |
| Request lifecycle (`main.py`, `middleware/timeout.py`, `core/error_handlers.py`) | response, transaction | respond, commit, cancel | commit after the response, 60-second timeout | answers are true, everyone is answered |

How they interact: a folder operation writes folder rows and the rows of the files in them in
one transaction, and deletes blobs beside it; an upload stores a blob, then writes file,
version and recent-file rows; permissions and links refer to folders and files by id without a foreign
key and are consulted by every operation that looks at something of another owner; the browser
refreshes its tokens whenever any answer is a 401; the rate limiter stands in front of register,
login and the access to links.

## 2. The modules

### FolderTree — the operations, one request at a time

State: `live` and `trashed` (rows by `is_deleted`), `parent`, `owner`, `name`, and `role[u][f]`
for the permission rows on folders. One action per method of `FolderService` and
`PermissionService`; an action is the whole handler, with every row it touches, and its guard
is the conjunction of the checks that must pass. A request that is refused changes nothing and
is no step.

- The loops up the parents (`is_ancestor`, `has_access`, `_get_effective_role`) and the
  recursive query (`get_subtree_ids`) are all stated with `Walk(f, S)`: what the walk from `f`
  visits until it meets a member of `S`. It is a closure and not a recursion, so that the module can be
  proved about.
- `HasAccess` stops at a deleted folder, `EffectiveRole` does not look: the difference is kept,
  and `WalksAgree` is about it.
- `Searched(u)` are the folders whose files `SearchRepository` (`repositories/discovery.py`) lists because
  of a permission: it goes down from the folders granted and looks neither at owners nor at `is_deleted` on the way, where
  `has_access` goes up and stops at a deleted folder. `SearchSound` compares the two on folders outside the
  trash; inside it they do differ (section 5).
- Names are what the client typed plus the suffixes `(Restored)` and `(Copy k)`; nothing else
  of a name matters. `MaxSuffix` stands for the 255 characters of the column.
- `exists_by_name` raises when it finds two rows (`Ambiguous`), the unique constraint counts
  trashed rows and does not count rows without a parent (`UniqueRows`, as a condition on the
  state a write would lead to).
- Copying a folder into a folder that the copy visits never ends in the code and is rolled
  back; in the model it is no step.
- Identifiers are reused after a purge, which UUIDs are not; `Purge` therefore also forgets
  the permission rows of purged folders (in the code they stay, and refer to nothing).

### FolderTxn — the same operations as overlapping transactions

`req[s]` is the request of session `s` and the point it has reached; each step is one SELECT, the
write with its locks, or the commit. The tables hold committed rows only. Lock modes are those
PostgreSQL takes: `update` for a DELETE or an UPDATE of a column of the unique index,
`nokeyupdate` for an UPDATE of `is_deleted`, `keyshare` for the foreign-key check on a parent.
`Impossible` collects the errors the database raises (foreign key, unique key, row gone, name
too long), `Refuse` the exceptions of the service, `Cancel` everything that makes a request
disappear. `empty_trash` goes on listing until it finds nothing more. A write goes row by
row (`Acquire`, and `Write` for the last row): `taken` are the locks it has got, `Ahead` the order, which is the code's where it
has one (the row moved or renamed before its parent is checked, children before their parents) and any where
the rows come from a query without ORDER BY. It waits at a row another transaction has locked. When such waits
form a circle (`InCircle`), PostgreSQL aborts one of its members (`Deadlock`), which is rolled back like any other failure. A move writes `parent_id` only and a restore the name only if it was taken, so
the unique key their row is about to get (`NewName`, `NewParent`) comes half from the request
and half from the table. A create gets an identifier that no row has and no unfinished request mentions
(`Unused`), which is what a UUID is. All folders belong to one user; copy (which only inserts, like create) and
rename are not interleaved.

Any tree of the given size may be the initial state, and each session serves one request, which reaches more interleavings per state than
building trees step by step. `Tree == INSTANCE FolderTree` lends the walks, and `Serializable` says
that a request which nothing overlaps is one step of `FolderTree`.

### VersionHistory and VersionTxn — versions of a file

`VersionHistory` is the promise: a sequence of contents that only grows, the file serving its
last entry, any other entry hideable. `VersionTxn` has the version rows, the file row and per
session a transaction of upload, restore_version or delete_version. `set_current` is one UPDATE in two
steps (`Mark`, `MarkLocked`): the snapshot chooses the rows, then it waits for the lock on each
and skips those that no longer match. `FileUpdate` writes the columns that differ from the
row as loaded: at `find_by_name` for an upload, after `set_current` for restore_version, whose
earlier load (`_verify_version_access`) nobody holds on to. `restore_version` does not assign
`version_number`; the model keeps that. Serially, `VersionTxn` refines `VersionHistory`
(`Implements`, with the history read off the version numbers). The file itself is not deleted here; that is `FileStore`'s subject.

### FileStore — rows and blobs

Rows of `files` (live, trashed, place, blob) and `<<file, blob>>` pairs of `file_versions` on one
side; `stored` blobs, `hollow` ones whose copy has failed, and `copying` copies under way on the other. Requests take the order of
the code: upload stores the blob before it looks for the file, `delete` and
`permanent_delete` write the row, unlink the blob, then commit, copies (`copy` of a file, `revert` for restore_version) are started and then recorded. A `place` is a folder and a file name; the folder operations take the files of one
place, restore and purge doing with each what the file operation of that name does. `empty_trash` is the loop it is in the code:
it lists the files in the trash, or those of a folder in the trash, *live ones included* (`LoadTrash`; which folders are in the trash is not kept
here, so it may be any), and then file by file unlinks the blob by the name it has listed (`UnlinkListed`) and deletes the row
(`WriteRows`, waiting for whoever has it locked), until a listing finds nothing more and everything is committed at once. `held` are the rows a request has
written and keeps locked, `left` the files listed and not reached. `Faults` selects what may go wrong: an upload reported as failed that may or may not
have stored the blob, a copy whose source is gone when Azure gets to it, a failing deletion,
a database error at any statement or at the commit, an abandoned request. Which versions `delete_version` has hidden is not kept here,
so `revert` may choose any. `doomed` records the
rows whose deletion, or that of a folder they were in, was ever asked for; it is a history variable and no guard reads it.

### BlobUpload — streaming and retry

One upload: `unread` is what the generator over the request body still has, `hashed` what the
hasher was fed, `buffer` what `upload_stream` collected in this attempt, `blob` what Azure holds.
`Wake` starts another attempt over the same generator and hasher, as `with_retry` does with its
lambda. `Send` may succeed with its answer lost. Data is a sequence of chunks; a checksum
identifies its content.

### AuthTokens and ClientSession — login sessions, both ends

`AuthTokens` is the server: which refresh tokens exist (`refresh_tokens` rows), which are revoked,
and per call a transaction. `Login` inserts a row; `FindToken` checks one (`IsValid`:
not revoked, not expired), `Rotate` revokes it and issues the successor in the same transaction, waiting for the row if an overlapping
transaction has it; `FindLogout` and `Withdraw` revoke without checking. `Respond` and `Commit` come in either order per call. An
access token is checked by signature, expiry and the Redis blacklist, which `Authenticate` leaves to chance:
its clock, its expiry and the availability of Redis (`auth/jwt.py:100-127`) are not
modelled, and no property rests on them.

`ClientSession` EXTENDS it with one page of the frontend: `localStorage` holds the pair, the axios interceptors send it, and
react to a 401 by refreshing with the token stored *then* and repeating the call once. One action per callback:
`OnDenied` (a 401 arrives), `OnGranted` (an answer with tokens; `Store` writes them), `OnRefused` (the refresh is
refused; `Drop` removes both tokens), `OnFailed` (any other error), `OnBye`, `Unload` (the page is left, calls and all). The calls of a page
interleave at every await, the server's transactions overlap, `Timeout` ends a transaction without an answer
from the application.

### Requests — the path of a request

`POST /auth/register` from the outside in, as `main.py` stacks it: ServerErrorMiddleware, rate limiter,
timeout, ExceptionMiddleware, route. A request walks through `Stages`; `Incr`, `Expire`, `CheckLimit` and
`RedisFails` are the rate limiter, `Parse`, `Exists`, `Insert`, `Respond`, `Commit` and `CommitFails` the application,
`Timeout` cuts it off. Three things of the code are easy to miss and modelled as they are:

- the rate limiter's `try` covers the application as well, so an exception that no handler has
  answered (`Raised`) is logged as a bypass and runs the application a second time, with a body that was already read;
- a command of Redis that raises may have been carried out all the same, with its answer lost: an INCR that made the
  key and raised leaves a counter without expiry, as does an EXPIRE that failed (`expiryLost` remembers either);
- the timeout is inside the rate limiter and sends no response of its own; the ASGI server then answers 500.

`owner` holds the committed accounts, `pending` the inserted rows, `commitFirst` which of the two orders is in use.
All requests come from one client address, to one path: counters of other keys do not interact.

### FileAccess — what hangs on one file

Two users' overlapping requests on one file: share, change and withdraw a permission, transfer, purge, metadata, create, delete, assign and
remove tags, favorites, the recent-file row of a download, and create, change, delete and
access of a shared link. `rows` are the committed rows `[table, user]`. Every request has one
shape, the three actions `Check` (the SELECTs; `Allowed` collects the guards of each kind), `Write` (the one INSERT, UPDATE or
DELETE with the locks it takes: `Exclusive`, `Shared`, `Waits`; `Fails` collects the errors of the
database) and `Commit` (`Removed`, `OwnerAfter`: the effects, cascades included). `seen` is what the
SELECT found and whether it has been removed since: an UPDATE of a row that is gone
raises StaleDataError. `granted` is a history variable that counts accesses. `TrashOrRestore` lets the file come and go.

Abstractions: the SELECTs of one request are taken together (each in the code sees a little less or
more; what the request goes by is what the last has found, and other requests run between it and the write);
a link's password, expiry and `is_public` only decide whether an access is
attempted; `max_downloads` does not change; one link, since links do not
interact; `get_link` is the service's method, for which no route exists yet.

## 3. The runs

| Run | Instance | Shows |
|---|---|---|
| FolderTree | 3 folders, 2 users, 1 permission row | references intact, no cycle, nothing live inside the trash, walks agree, search opens no folder outside the trash that they refuse, emptying the trash spares live folders |
| FolderTxn | 3 folders, 2 requests, at most 1 move | constraints hold in every committed state, no cycle; a request nothing overlaps is one step of FolderTree |
| FolderTxnCycle | 2 moves | *violated*: a cycle |
| FolderTxnEnds | 3 folders, 2 requests of any kind, at most 1 move, fairness | every request ends, circles of row locks included |
| VersionTxn | 3 overlapping requests, 3 versions | the file serves a current, undeleted version |
| VersionTxnSerial | 1 session, 5 versions, 2 contents | refines VersionHistory; one current version; numbers distinct |
| FileStore | 2 sessions, 2 files, 2 places, 3 blobs, every fault | a file has its content and that of its versions unless its deletion or that of a folder it was in was asked for; version rows have a file |
| FileStoreRestore | 1 session, 1 file, no fault | *violated*: a file comes back from the trash without its blob |
| BlobUpload | bodies of 0–3 chunks, 3 retries | checksum of the body, first attempt stores it, every upload ends |
| ClientSession | one page, 2 calls at once, 3 token pairs, fairness | the browser keeps no used-up token, a successful logout has withdrawn the session, a used token is refused, every call ends |
| Requests | 3 requests for one address, limit 2, every fault, both orders of commit and answer, fairness | counters lapse unless Redis failed on what made them, answers are true, no route entered twice, everyone is answered |
| FileAccess | 2 users, 2 sessions, limit 2, three groups of kinds | no orphans, nothing withdrawn comes back, nobody fails alone, accesses of a link bounded |

**Bounds.** Three folders are a parent, a child and a third place to move to, and give every
shape of tree that the operations distinguish with a request at both ends; `Acyclic` and
`LiveUnderLive` are proved for any number. Two overlapping requests are enough for every check-then-act race of the code, each of which
is between one reader and one writer; `VersionTxn` takes three because a lock can then change
hands twice. `MaxNumber` and the number of versions end a history after three or five entries.
`MaxGrants` caps permission rows, `MaxMoves` the moves among the requests, `MaxSuffix` the length of a
name, `MaxChunks` that of a body; `MaxRetries` is the code's own 3. Three token pairs are a session, its
successor and one more for the call that overlaps; a pair nobody holds any more is used again (`Free`),
so that histories do not end. Three requests against a limit of two reach the 429, and
have one address overrun while two registrations race. `MCFileAccess` splits the kinds into three scopes: tags and metadata,
favorites and downloads, links, the first two with every operation on permissions and the purge they all depend on; kinds
of different groups meet only through these. Symmetry is used over identifiers, users, sessions, contents
and places, never in the runs that check liveness.
`FolderTxnEnds` instead begins in one of each set of initial states that differ by a renaming only (`Representative` in `MCFolderTxn`: parents
numbered before their children, requests in the order of their operations), which loses none of the behaviours up to
renaming and leaves TLC's liveness checking sound.

`CHECK_DEADLOCK FALSE` stands where a behaviour really ends: each session of `FolderTxn` serves
one request, an upload of `BlobUpload` is over, all of `Requests` are answered, `FileStore` runs out of blob names, which are never reused
while anything refers to them, a page of `ClientSession` has logged out and rests, the file of `FileAccess` is purged.

**Fairness.** `FolderTxn` assumes weak fairness of each session's steps: the event loop resumes
every coroutine whose query has returned, and PostgreSQL grants a lock once it is free and
finds a circle of waits (after `deadlock_timeout`). Cancellation is never assumed to happen. `BlobUpload` assumes that the one coroutine goes on: `sleep`
returns and the Azure client has timeouts. `ClientSession` assumes it per call of the server's steps (with the
timeout of 60 seconds, which is a promise of the middleware), of the page's callbacks and of the commit; nobody
has to click. `Requests` assumes it per request: the application goes on or is timed out, and Redis answers
or fails. The latter is an assumption about the deployment, since `dependencies/redis.py:23` sets no
timeout for commands and the rate limiter is outside the request timeout.

**Limits of what the passing runs say.** `Acyclic` holds with one move among the overlapping
requests and fails with two. `NumbersDistinct` and `OneCurrent` are checked for requests that do not
overlap; section 4 says how far they hold for others. `UntouchedHaveContent` leaves out a copy whose source was deleted before Azure had carried
it out: the code never asks how a copy ended, and no document says that it does. `ReplayRefused` is about
refreshes nothing overlaps, `LogoutEndsSession` about the token the logout has sent.
`AnswersAreTrue` asks for the account of a 201 only where the commit comes first. `CounterLapses` excludes the two
failures that do limit an address for good, of the INCR that makes the key and of its EXPIRE; it is about everything else that overlaps
them. `SearchSound` leaves out folders in the trash and `UntouchedHaveContent` files in a folder whose deletion was asked for, in both cases because the code does not look
at the folder (section 5). `EveryRequestEnds` does not say that a request succeeds: a member of a circle does not. `LinkLimit` is not the promised limit but the overrun that overlapping accesses can reach: n sessions write each
count at most as often as v things are drawn from n, C(n + m, n) − 1 accesses in all (reached for the sizes TLC can explore).

## 4. The proofs

Assumptions: only those declared with the constants. `Nil` is no identifier, user, name or blob; bounds are
natural numbers; `Scopes` are sets of kinds and `Ops` a set of operations with at least one member; `FolderTxn` and `FileAccess` have
finitely many sessions, since the first counts them in `Init` and the bound of the second depends on their number. Sets of folders, users, versions, files, blobs,
requests and contents are arbitrary, infinite ones included.

Some results have a hypothesis, and each time it is what the code would need and does not
enforce. Behaviours with overlapping requests meet each of them; section 5 says what happens without:

| Theorem | Hypothesis |
|---|---|
| `OneMoverAcyclic` | at most one of the requests is a move (`MaxMoves \in {0, 1}`; run `FolderTxn`, and `FolderTxnCycle` without it) |
| `MovesInTurnAcyclic` | no two moves below other folders are between reading their target and their commit (`[]OneMoveAtATime`); moves to the root, and everything else, may overlap |
| `DeletesApartKeepTrashClosed` | while a deletion is between its recursive query and its commit, no create, move or restore is between finding its parent and its commit (`[]DeletesApart`); deletions may overlap each other, and so may the others |
| `OneCurrentVersion` | no two uploads or restores are between the UPDATE of `set_current` and their commit (`[]OneMarking`; the single session of `VersionTxnSerial` makes this and the next two true) |
| `NumbersAreDistinct` | no two uploads or restores are between reading the maximum and their commit (`[]OneNumbering`) |
| `ImplementsHistory` | uploads and restores do not overlap at all (`[]OneWriter`); deletions may overlap with them and with each other |
| `NumbersSharedBySessions`, `CurrentSharedBySessions` | a finite number of sessions, at least one: they bound something by it |
| `LinkGrantsInTurn` | accesses of the link do not overlap each other (`[]OneAccess`); everything else may |
| `LimitHoldsInWindow` | the window lasts and Redis answers the requests counted (`[][InWindow(S)]_vars`) |

`FolderTreeProofs` proves for `FolderTree`:

- `TablesTyped`, `TreeTyped` (`RowsOK`), `TreeAcyclic`, `TrashIsDownClosed`. The inductive invariant `IInv` is the
  conjunction of all four facts; none is inductive alone. For `Move`, a cycle would have to pass
  through the moved folder, and then the target has it among its ancestors (`WalkUp` follows the
  chain). For `Copy`, a set closed under `parent` that contains a copy contains the folder it was
  copied from, or its image under the copying, so a cycle of copies is one of originals. For
  `Restore` and `Purge`, everything below a member of a subtree is in it (`SubtreeChild`), so no
  row is left under a missing or trashed one.
- `EmptyTrashSafe`: `empty_trash` destroys no live folder, since below a trashed folder there are
  only trashed ones (`SubtreeOfTrash`, from `LiveUnderLive`).
- `WalksAlwaysAgree`: from a live folder every ancestor is live (`LiveUnderLive` again), so that
  stopping at deleted folders makes no difference and both walks visit the same chain.
- `SearchIsSound`: what the search reaches downwards from a folder has that folder on its walk
  upwards; and for a folder outside the trash the walk is not cut short, since all its ancestors are live (`LiveUnderLive`).

`FolderTxnProofs` proves for any number of overlapping requests:

- `TxnTyped` and `TablesKeepConstraints`. No SELECT of the code locks what it reads, so what holds the
  constraints is the database alone, and the invariant says how: locks held are compatible
  (`Compatible`, which counts the rows a write under way has taken so far), a request that has written still finds at its commit the rows it wrote about
  (`Ready`: the parent under `keyshare`, its targets under `update` or `nokeyupdate`), and the keys about to be
  entered are free and different (`KeysFree`). A purge keeps the children its `SET NULL` touches
  locked, and nobody can hang a new child below: that needs `keyshare` on a row it holds.
- `OneMoverAcyclic`. A walk of `is_ancestor` reads one row per statement while the tree changes.
  What it has passed is a set that contains the target and not the moved folder, and whose parents are
  in it, missing, or the next row to load (`Apart`). Everything but a move only removes parents or
  adds folders without children, so the set stays what it is until the move commits, and the
  moved folder is then below a set that does not lead back to it. `Rooted` (`Tree!Acyclic` for
  the committed tree) and `Cleared` (for the moves under way) are inductive together. `MovesInTurnAcyclic` says
  the same of any number of moves, as long as those below other folders do not overlap one another
  (`[]OneMoveAtATime`), with all other requests interleaved: a move to the root only takes a parent away.
- `DeletesApartKeepTrashClosed` (`Tree!LiveUnderLive`). The rows a deletion has found contain everything below them (`Sweeps`) until it
  commits, since nobody who could hang a folder there is between his check and his commit; other deletions and purges
  only take rows away from below. A create, move or restore in turn still finds its parent live at its commit, or gone (`Places`,
  `Returns`: every row a restore brings back hangs under a live one or another of the same restore). A purge needs no
  hypothesis: `SET NULL` makes roots of the children it leaves.
- `SequentialRequestsAreAtomic` (`Serializable`): a request during which no other begins is one operation of `FolderTree`,
  or changes nothing. The invariant (`SerialInv`) says for each operation what it knows at each stage (`Read`): the
  walk of a move has passed no ancestor that is the folder (`Apart` again), the recursive
  query has found the subtree, the cascade of `session.delete` adds nothing to it, the second
  `list_trash` finds nothing new. One lemma per SELECT or statement keeps it, one per operation
  (`SerialCreate`, `SerialMove`, ...) turns the commit into the action of `FolderTree`, whose permission checks hold because the one user
  owns every row (`LiveIsEditable`), and whose deletion of rows leaves no row under a missing one
  because what goes is closed downwards (`SerialErase`).

`VersionTxnProofs` proves:

- `VersionsTyped`, `FileServesCurrent` and `CurrentNeverDeleted` for any number of overlapping requests. The strengthening says that a transaction which
  has inserted a row is the only one to have it in hand, and that a deletion past its check
  holds a row that is not current, which nobody can make current any more: uploads and restores
  mark only rows they insert themselves. The code takes no lock to achieve this.
- `NumbersHaveNoGaps` (`NoGaps`) for any number of overlapping requests: the maximum a request has read is still reached
  when it inserts, since rows are never taken away, so the numbers are always 1 to some n.
- `NumbersSharedBySessions` and `CurrentSharedBySessions`: how bad the two races can get. Versions that share a number, or
  are current together, are charged to the session that wrote them. A session
  that has committed one of them reads a higher maximum the next time, or clears the other, so no session is charged twice:
  an injection into the sessions. Both bounds are reached by behaviours with two sessions.
- `OneCurrentVersion` and `NumbersAreDistinct`, unless two requests are in the critical stretch at once. The invariants (`MInv`,
  `NInv`) say what the one request inside it relies on: every current row is among those its UPDATE has marked,
  and the number it is going to use is above all others.
- `ImplementsHistory` (the refinement of `VersionHistory`) for one writer at a time. The invariant
  (`SInv`): the version numbers are exactly 1 to the number of rows, the row
  with the last number alone is current, the file row announces the checksum of its blob, and
  what the writer has read (`UpToDate`: the maximum, the rows to clear, the file row whose
  unchanged columns it will not write) is still what the tables hold. The history is then read off the numbers: the commit of an
  upload or restore is `Append` (`CommitExtends`), that of a deletion hides a position before the last, since the row it
  hides is not current, and every other step changes nothing.

`FileStoreProofs` proves `FilesTyped`, `UntouchedKeepContent`, `VersionsKeepFile` and `BlobsAreUnshared` for any
number of files, blobs and overlapping requests and every choice of `Faults`. Blobs are
unlinked beside the transaction, with nothing to take them back, so the invariant is about who may name a blob:
no blob is named by two files (`OneOwner`), one that a request is creating is named by nobody and
no other request knows it (`OwnBlob`, `Apart`), and the blobs a request is going to unlink belong only to
files whose deletion was asked for, or that of a folder they were in (`Condemned`), the names `empty_trash` has listed and not reached included (`Marked`). Rows written by two requests are different, because
each holds the locks of its own (`held`) until it commits.

`BlobUploadProofs` proves `UploadTyped`, `ChecksumCorrect` and `FirstAttemptStores` for every body, any number of retries: as long as reading
has not failed, what was hashed followed by what is unread is the body, and in the first attempt what is
in the buffer, or stored, is what was hashed.

`ClientSessionProofs` proves `SessionTyped`, `BrowserKeepsUsable`, `LogoutWithdraws` and `RotatesOnce` for any number
of token pairs and of calls in flight, with the server's transactions in between. An issued pair is
known to one call only until its answer arrives (`Unseen`), and whoever revokes the token the browser
holds is a call whose answer will replace or remove it, whatever becomes of the commit (`Told`, `Won`). This is what
fails once an answer is lost, hence `torn`. `LogoutWithdraws` needs the table to be ahead of
the browser (`CommittedFirst`); `RotatesOnce` that nobody has come near the token of a call nothing overlaps (`Undisturbed`).

`FileAccessProofs` proves `AccessTyped`, `NothingOrphaned`, `NobodyFailsAlone` and `WithdrawnStaysAway` for any number of
users and overlapping requests. The strengthening has two halves. The locks of requests past
their write are compatible, so that what an INSERT refers to cannot go before its
commit: this is what keeps orphans away, with the foreign keys that fail an INSERT which comes too late. And what a request has found
is there, or marked as gone, until it commits, which gives the other two: a request nothing overlaps
still finds it, and an UPDATE never inserts. `LinkGrantsInTurn` adds that for accesses one at a time the
promised limit holds, also when the link is disabled, deleted and created again or the file
hands between check and commit: the count read bounds the accesses granted (`Counted`).
`LinkOverrunIsBounded` (`LinkLimit`) is about accesses that do overlap, for any finite number of sessions and any `max_downloads`. The counter
goes back only when a session writes a stale count. So the invariant (`Paid`) keeps books by levels, a level being a number y of places
left: an access that leaves e − 1 places takes from its session the chance to bring back e or more (`Lost`), and
level y pays for as many accesses as the level below, plus the ways to draw y things from the sessions that have lost it
(`Draws`). Levels 1 to e that each draw from k sessions pay, together, for less than e draws from k + 1 (`BudgetBound`, Pascal's rule), which
leaves room for the access just made, and in the end gives less than C(n + m, n).

`RequestsProofs` proves `RequestsTyped`, `CountersLapse`, `AnswersTrue` and `NeverRunTwice` for any
number of requests and addresses and any limit. The strengthening ties each
stage to what the request may have done by then (`Sound`: body, runs, answer), keeps one uncommitted row per
address and none for an address with an account (what the unique key and the wait in `Insert` achieve), and says of
each account which request has created it. `CountersLapse` follows from the counter alone: the
request that takes it from 0 to 1 is about to set the expiry, unless its INCR raised, and only an EXPIRE or its failure ends that.
`LimitHoldsInWindow` is the promise of the rate limiter: of the requests that come to be counted in one window at most `Limit` ever enter
the route, however they overlap each other and whatever was under way before. INCR is atomic, so within the window the numbers
they got are different, and those of the requests past the check are at most `Limit` (`WInv`): an injection again. A request that Redis fails passes unchecked,
which is the code's choice (fail open), and a window that ends starts the count again.

Every safety invariant and action property of the passing runs is stated by a theorem, and so is the refinement of `VersionHistory`.
Only model-checked: liveness (`EveryRequestEnds`, `UploadEnds`, `EveryCallEnds`, `EveryRequestAnswered`), which needs ENABLED and
which the prover does not handle; it is checked under `FairSpec`, every other property under `Spec`,
which `FairSpec` implies.

Induction. The library's induction theorems take an operator as a parameter, which the installed provers cannot
instantiate. Over the natural numbers there is a way round, used for the factorials and binomial
coefficients of `LinkLimit` and for the maximum of the version numbers: the set of counterexamples, were it not empty, would have a least element
(`WFMin` with `NatLessThanWellFounded`). What a *walk* computes is not stated by recursion at all: `Walk` is a closure, and the loops of
`FolderTxn` take one step per row, with an invariant.

## 5. Disagreements between code and documentation

Each of these has a run with a counterexample; `PROJECT.json` quotes the sentence.

1. Two overlapping moves close a cycle (`services/folder.py:96`, `src/TODO.md:53`).
2. A file restored from the trash has no content (`services/file.py:187`, `src/README.md:19`).

Known divergences without a run. The models reach these states too, and some properties of
section 3 are worded around them:

- two overlapping uploads leave two current versions (`repositories/versioning.py:37-38`);
- a retried upload stores an empty or partial blob under the checksum of the body
  (`services/storage.py:46`, `src/ARCHITECTURE_DECISIONS.md:352`);
- root folders of one owner with the same name, because the unique constraint does not compare
  NULL parents (`models/file.py:49`, `src/CHANGELOG.md:54`);
- a folder created or restored while its parent is being deleted stays live inside the trash
  (`services/folder.py:76`, `src/TODO.md:47`);
- two overlapping uploads leave the checksum of one and the blob of the other
  (`services/file.py:133`, `src/ARCHITECTURE_DECISIONS.md:352`);
- a failing INSERT of a version row leaves the blob (`services/file.py:152`, `src/CHANGELOG.md:63`);
- purging a file leaves the blobs of its older versions (`services/file.py:231`,
  `src/ARCHITECTURE_DECISIONS.md:360`);
- an upload is held in memory as a whole (`storage/azure_blob.py:98`, `src/ARCHITECTURE_DECISIONS.md:350`);
- where the answer comes before the commit, a commit that fails leaves a 201 without an account
  (`dependencies/database.py:66`);
- two overlapping refreshes with one token both get a pair (`services/auth.py:81`), and a refresh
  that overlaps the logout of its token leaves a valid pair behind (`services/auth.py:96`);
- an INCR that makes the key and loses its answer, or a failing EXPIRE after it, leaves a counter that never expires and
  limits the address for good, whatever the window (`middleware/rate_limiter.py:43-45`);
- search lists the live files of a trashed folder (uploaded, moved or restored into it; `services/file.py:85-163, 194-199, 218-225`
  never look at the folder) to users `has_access` refuses: `repositories/discovery.py:168` filters the files only, where
  `src/README.md:23` promises permission-aware filtering;
- `empty_trash` unlinks and deletes the live files in a trashed folder as well (`services/folder.py:228`), which nobody has moved to
  the trash; and since it unlinks before it commits, a commit that fails leaves them live and without content
  (`src/README.md:19`; `src/CHANGELOG.md:188` speaks of permanently deleted files);
- permissions and links have no foreign key and outlive their file (`models/sharing.py`);
- `update_metadata` and the assignment of tags need no more than read access
  (`services/discovery.py:115`, `src/CHANGELOG.md:201`);
- overlapping accesses of a link overwrite each other's `download_count`
  (`repositories/sharing.py:143`, `src/TODO.md:64`).

Races the code has and no document excludes, modelled but not claimed: `empty_trash` destroys a
folder that is restored after it was listed; two versions with one number; two live files of one
name in one folder, on which every later upload of that name fails; a former owner's
request that passed its check before a transfer still commits; the loser of two overlapping
registrations is answered with a 500 after the timeout, where the check would have given 409.

## 6. What is left out

Observability (logs, metrics, tracing, audit), the health API, schemas, settings and security
headers keep no state the program reads. `core/cache.py`, `VersionService.create_version` and
`revoke_all_for_user` have no caller. Migrations run once per release; the keys they create
are in `FolderTxn` and `FileAccess`. Infrastructure and scripts run outside the program. The frontend's views render
what the API returns. Reads that change nothing (listings, breadcrumbs, sizes, downloads, suggestions) appear only
as the queries the operations make. Files inside folders are in `FileStore`, not in `FolderTree`; permissions on single files
are in `FileAccess`, without inheritance, which is `FolderTree`'s subject. Pagination is abstracted: `empty_trash` is a loop of listings, each complete.
The files that a folder copy takes along are not in `FileStore`: per file it takes the steps of `copy`, in one transaction, and to see two of them go wrong together needs four files.

## 7. The plan

Done: FolderTree, FolderTxn, VersionHistory, VersionTxn, FileStore, BlobUpload, AuthTokens,
ClientSession, Requests, FileAccess, with the properties of section 3 and the theorems of section 4.
What would come next, the most valuable first:

| Module | Step |
|---|---|
| FolderTree, FileStore | a folder copy together with the files it takes along |
| FolderTxn | copy and rename interleaved with the rest; `Serializable` with two owners |
| VersionTxn, FileStore | version rows and blobs in one module, to say what a failing INSERT leaves behind |
