# HornetzDrive in TLA+

This directory models the core of HornetzDrive, a self-hosted encrypted file
drive written in Go: resumable uploads, the content-addressed store behind the
`files` table, background downloads with their accelerated downloader, ranged
reads of encrypted files, folders and the vault with its keys, the reconciliation of
folder trees, the event broker behind the pages, and the framework's audit log. TLC checks the models on small instances, TLAPS proves the
safety properties of all nine components for every instance. `PROJECT.json` lists components, runs, mutants,
the map from definitions to source lines, findings, hazards and theorems.

## 1. Inventory

| Component | State it keeps | Operations | Hard behaviour |
|---|---|---|---|
| Upload sessions (`internal/upload/session.go`, `controllers/upload_controller.go`) | session table, one mutex per session, temporary file and metadata file per session, `completedSessions` | InitSession (new or resumed), UploadChunk, GetStatus, AbortSession, stale-session reaper, PurgeAll, reload at start | handlers hold a session pointer before its lock; disk and memory change in several steps; crash between them; ignored errors of the disk; a body that is read under the mutex; client retries |
| Content store and `files` rows (`internal/storage/cas.go`, `file_controller.go`, `upload_controller.go`, `manager.go`, `security_controller.go`, `upload/pow.go`) | blob directory, existence cache, rows, PoW challenges | store with deduplication, the existence check of InitSession, proof of ownership, INSERT and its clean-up, move across the vault boundary, trash, restore, permanent delete, EmptyTrash, PanicPurge | no lock spans "blob exists" and "row inserted", nor "count is 0" and "blob removed"; a copy between file systems is visible while partial |
| Accelerated downloader (`internal/download/accelerated.go`, `state.go`) | piece table under a mutex, atomic completion counter, journal bitset, state file | take, hedge, fetch, requeue, complete, journal, save, cancel, return | two workers on one piece, late failures, giving up |
| Ranged reads (`file_controller.go`, `internal/crypto/stream.go`) | position in an encrypted stream of chunks | parse Range, open, seek, read, send | chunk boundaries, three kinds of readers, two keys |
| Download tasks (`manager.go`, `download_controller.go`, streaming in `torrent.go` and `direct.go`) | task table, status, byte count, cancel function, temporary file | start, stream or accelerate, progress callbacks, store, cancel, cancel all, dismiss | status and byte count written by several goroutines; the row's size comes from a callback; several sources share one writer |
| Vault keys (`internal/auth`) | key bytes per session id with expiry | unlock, get, lock, clean-up, purge | key bytes overwritten while a request uses them |
| Folders and vault cache (`file_controller.go`) | folder tree in the database, cached set of vault folders | create, rename, delete, move files, trash and restore, rows for content that is stored already | cache stale between INSERT and invalidation or after a failed query, cascade, a folder deleted between two queries, the vault locked between check and act |
| Zip streaming (`controllers/zip_stream.go`) | none | collect folders, list files, stream entries | folder, files and key change during the download |
| Reconcile (`internal/reconcile`, `reconcile_controller.go`, the page's uploads) | folders, rows, upload sessions | build both Merkle trees, diff, provision folders, upload by the plan | two pages at once, a tree read by several queries, failing queries, name and size taken as identity |
| Realtime broker (`realtime`) | channels per topic | subscribe, publish, unsubscribe, SSE and WebSocket loops | full buffers, sends outside the lock, clients that vanish |
| Audit log (`security/audit`) | queue, workers, sinks, closed flag | Log under three overflow policies or synchronously, worker loop, Close | Log against Close, a full queue, failing sinks, panicking handlers |
| Everything else | | | parsers, network clients, cryptography, rendering, framework, vendored code |

Interactions. Uploads and downloads build a temporary file and hand it to the
store (`MoveToCASWithStatus`), then insert a row; deletion, EmptyTrash and the
purge work on the same rows and blobs from other handlers. Reads open a row's
blob. The purge also empties the session table and cancels downloads. Vault
membership of a folder decides the key of uploads, moves and reads.

What makes each part correct: an upload is recorded once, with exactly the
client's bytes, and the offset told to a client is the one at which to go on; a
row always has its blob, a blob that no row needs goes away, the existence cache
never claims a missing blob; a download that reports success is complete, and it
reports something; a range answer is exactly the bytes asked for; a file's content
is under the key of the folder it is in; what a page shows as synchronised or uploaded is;
a page sees its events in order and never another user's; an audit record is
written once or given up for a stated reason.

## 2. Modules

`MCX.tla` extends `X.tla` with what TLC needs (symmetry sets, a constraint); the
`.cfg` files give the constants.

### ResumableUpload and UploadTable

`UploadTable` is what the owner of a drive is promised: an upload is opened once, with a size; its file is recorded in
one step, whole, and once; no step of an upload changes a row. `ResumableUpload` is the code that does this in chunks; its variables
`created`, `expected`, `rows` and `cause` are the `open`, `size`, `rows` and `cause` of UploadTable, and the property
`ImplementsTable` (`Table == INSTANCE UploadTable WITH ...`) says that it implements it.

One handler per HTTP request. A handler's `pc` walks through the steps of its
Go function that others can interleave with:

- InitSession: `InitCheck` (quota and existing rows), `FindNone`, then `CreateFile`
  (`os.Create`) and `CreateSession` (table entry and metadata), between which a crash may come, or
  `CreateSessionFails`; or `ResumeRead` and `ResumePersist`, which read and write
  the session without its mutex as the code does;
- UploadChunk: `ChunkBegin` (GetSession), `ChunkLock` or `ChunkTurnedAway`
  (Content-Range), `ChunkRefused` (no vault key, quota), `ChunkCopy` (body to
  file), `ChunkFlushFails` (the same, and the ignored `Flush` fails), `ChunkUndo` or `ChunkCommit`, `ChunkPersist`, `MoveToCAS` or
  `MoveToCASFails`, `ChunkDone` (completedSessions, DeleteSession), `InsertRow`
  or `InsertFails`;
- AbortSession: `AbortBegin`, `AbortLock`, `AbortDelete`, `AbortRemove`;
- from outside: `Reap`, `PurgeAll`, `ForgetCompleted`, `Crash` with the reload of
  the metadata files.

Plaintext bytes are the numbers 1, 2, 3, ..., so that lost, repeated or swapped bytes
show; encryption is left out because it maps equal bytes to equal bytes in
order. A file that was unlinked while a handler has it open keeps the handler's
writes to itself (`loc[h].linked`). The history variable `cause` records, per
session, which of five known events has struck it:

- `stale`: a chunk continued through a pointer whose session was gone;
- `blind`: a chunk without Content-Range, for which no offset is checked, was accepted at another place than its own;
- `crash`: a restart found a temporary file whose metadata is missing, torn or of another length;
- `disk`: an error of the disk was ignored. `UploadChunk` drops those of `Flush` (`upload_controller.go:477`, after which
  the offset is ahead of the file) and `Truncate`, and nobody looks at those of `os.Remove` and of writing the metadata (`DiskFaults`);
- `lost`: the INSERT of the row failed after the session had been marked completed and removed, so a retry
  is told that the upload is complete; `CompletedIsRecorded` says that this is the only way.

The passing invariants except such sessions;
the exceptions are per session, so the
invariants still say that a defect in one session does not spread.

### FileStore

Rows (`ref`, `trashed`), blob directory (`blobs`), existence cache (`cache`),
challenges, and handlers that run: uploads and downloads at the point where their
temporary file is complete, moves, InitSession's deduplication check and proof of ownership, permanent
delete, EmptyTrash, purge. `Exists` is three steps (cache, stat, fill), storing is
rename and cache fill, collection is count, remove, invalidate. Where the CAS directory is on another file system the rename is
a copy (`CopyBegin`, `CopyDone`, `CopyFails`), which `Exists` of another upload sees while it is partial. `DropRows` are the rows that go
while nobody looks at their blobs: ON DELETE CASCADE behind DeleteFolder, and DeleteFile after its ignored SELECT.
`Init` has the rows `SeedInitialData` inserts without blobs (`Seeds`). `Faults` says what may fail: statements that write, the count of
references, the rename between devices, and `os.Remove`, whose error no caller looks at. A hash is the
content. `Unused` lets a row id be given again once nobody remembers it, which
nothing can tell from a new id. The history variables `endangered` and `littered`
collect hashes that met one of the listed races or failures, with the rule for each
in the module; the invariants except these hashes and no others. They are therefore about how far a race reaches, not about
its absence: what a race does to the content it meets is the subject of `store_dedup_race` and of section 3.

### AcceleratedDownload and PieceFile

`PieceFile` is what the caller of `DownloadToFile` is promised: pieces arrive in any order, a piece counts as done only when the
file has it and from then on, the journal names only what is done, the answer is "ok" exactly if all pieces are done, and
nobody writes to the file after the answer. `ImplementsFile` (`Target == INSTANCE PieceFile WITH done <- DonePieces`) says
that the pool of workers implements it. The promise says nothing of how new the journal is, since the saver is not waited for.

The piece table with status, owner and attempts, the atomic counter, the journal
bitset and the state file, and workers that take a piece (or hedge a stalled
one), fetch it, mark it and journal it. `AccelInit` allows a journal and a file of an earlier
call, which is what `DownloadToFile` supports; `executeDownload` always starts
with an empty one. The names `AccelInit`, `AccelNext`, `AccelSpec`, `AccelTypeOK` and `pstatus` leave the
short ones to DownloadTasks: `DownloadProofs` extends both modules.

### DownloadTasks

The goroutine `executeDownload` of each task, from its temporary file to the deferred
clean-up, with `pc` for the points where others interleave; the two progress callbacks,
which cancel the context and fail the task in two steps when they find it over the
quota (`OnProgress`, `QuotaFails`); the reporter goroutine of `DownloadToFile`, which
nobody waits for (`Reporter...`); `CancelTask`, `CancelAllTasks`, `DismissTask`. A direct link is probed and
then fetched in pieces (`Accel...`, which rely on what `PieceFile` promises and AcceleratedDownload does in detail) or streamed; a magnet
link tries its web seeds and then its peers, all into one writer. The bytes of the remote file are
1, 2, 3, ... as in ResumableUpload. `used` is what `getUserStorageUsed` sums; other requests of the owner change it (`OtherFiles`).
The history variable `cause` names six events after which the code no longer
guarantees a task's row:

- `quota`: a report over the quota does not stop a transfer at its end. The file is
  stored all the same, and its row has the size of the last report that was within the quota;
- `late`: the reporter's last report changes the bytes or the status of a task whose
  transfer is over;
- `mixed`: a source that broke off after some bytes leaves them in the writer, and the
  next one starts from the first byte (`torrent.go:46`);
- `short`: a peer that breaks off after its first block counts as success (`torrent.go:322`);
- `stray`: a Piece message is appended whatever its index and begin (`torrent.go:364`), and each Unchoke asks for the first
  block again, so the file has a block out of place (`ReceiveStray`);
- `disk`: the ignored `Flush` before the move failed and the end of the file is missing (`manager.go:456`, `MoveToCASCut`).

### RangedRead

One request: the Range header is parsed, the reader chosen (a file, a seekable
reader, a plain stream), the key chosen (with the fallback to raw content), the
chunks skipped, the body sent buffer by buffer. `Init` ranges over all
chunkings, keys, readers and headers within the bounds. A chunking is the sequence of offsets at which the chunks end, so that the
offset of a chunk needs no sum; the code's chunk length is the difference of two of them. A chunk opens under the
key it was sealed with and under no other; that is the only fact used about the
cipher. A number that `ParseInt` refuses is `Bad`, and its range is answered 416. A file that is not encrypted is `raw` if its first four bytes show that,
and `unclear` if they do not (an MP4 begins with a length, too): SeekTo may then walk over it as if it had chunks.

### VaultFolders

Rows (`at`, `trash`), folders (`dirs`, `parent`), the cache (`cacheValid`, `cacheIDs`), the vault
sessions (`store`) and the bytes of the slices they hand out (`bytes`). A file's content is the set of
keys its chunks were encrypted with. Handlers are goroutines, and each SQL statement, each
answer of IsVaultFolder and each use of a key is a step:

- file requests: `InitSession`, `VaultKeyMiddleware`, `UploadChunk`, `InsertFile`;
  for content that is stored already `FindContent` and `CompareDomains` (InitSession's comparison of the two folders, in which a row
  in the trash counts as one at the root) and `VerifyProofOfOwnership`, which inserts the row into any folder the client names;
  `StartDownload`, `OpenStream`; `MoveFile` and `MoveFilesBatch` with `MoveTarget`, `MoveSource`,
  `MoveDest`, `Reencrypt`, `MoveUpdate` or `MoveFails`; `DownloadFolder`, `ListFiles`, `StreamEntry` (zip);
- folder requests: `CreateFolder`, `InsertFolder`, `Invalidate`; `DeleteFolder`, `Collect`,
  `DeleteAsk`, `DeleteCommit` (a transaction with ON DELETE CASCADE); `PanicPurge`;
- deletions, which ask first and act later: `ReadFolder`, `Permit`, then `Mark` (trash, restore) or `DeleteFile`; `EmptyTrash`, then `Sweep`.
  A failing query for the row's folder is ignored and reads as the root (`DBErrors`);
- single statements: rename, and the vault's `Login`, `LockVault`, `Expire`, `CleanupStaleKeys`.

`odd` holds the rows for which a request used the wrong key, and a row gets there for one of six reasons:
the slice it had been given was overwritten before its use (`GetKey` does not copy); IsVaultFolder
answered from a cache that did not know the folder yet, since its INSERT was done and the
invalidation was not; it answered from a cache whose query had failed (`blind`), or the walk up the folders
failed or ended after 50 levels (`TooDeep`, `download_controller.go:33`); the source folder of a move was deleted after the move had read the row;
content already stored was compared with the wrong folder, because its row was in the trash, gone or not read (`upload_controller.go:282`);
or the proof of ownership named another folder than the one compared (`upload_controller.go:155`).
`KeyMatchesFolder` says that there are no others. DeleteFolder collects the subfolders before its transaction, so the cascade
takes the rows of a subfolder created afterwards with it, instead of moving them to the trash.

### RealtimeBroker and EventStream

`EventStream` is what a page is promised: a lossy stream of the events of its topic, each at most once,
those of one publisher in order. `RealtimeBroker` is the broker with its subscriber map, the channels, the
snapshot of a Publish that is under way (`todo`), and the loops of the SSE and the WebSocket handler; its
variables `published`, `topic` and `seen` are those of EventStream, and the property
`ImplementsStream` (`Stream == INSTANCE EventStream`) says that it implements it. `owed` records the events
a connected page has still to see. RedisBroker is not modelled: the server does not construct it. The WebSocket handler
is part of the package but not mounted by the server; it asks no authorizer, so what `Registered` says of other users' topics is about the SSE pages.

### Reconcile

A page brings a tree (a function from paths to nodes); the request provisions the root folder, reads the remote
tree by three queries, walks both trees and returns a plan of SKIP, UPLOAD_NEW and RESUME actions with the folders it created; the page uploads by
the plan and may lose answers or break off. A Merkle hash is modelled by what it decides: `SameHash` says that the folders of the
remote tree can be matched with the directories of the page's, entry by entry, all the way down. A folder is at a path (`IsAt`) if a
chain of folders with the path's names leads to it; children are sorted by the number of siblings with a smaller name; the bytes of
a set of files are counted as a set. None of these is a recursive operator, so that the module can be proved about. `TreesAreTrees` is what the page's
directory walk gives: a finite tree, with directories above every node. The page's leaf hash is
that of name and size, while rows of files up to 100 MB have the hash of their content, so for those the
comparison of directories never succeeds and the walk decides file by file, by name and size (a file whose content changed and
whose size did not stays as it is on the server). After a failing BuildRemoteTree the walk starts without a remote tree,
and subfolders are created at the top instead of below the target; `failed` excepts this in `RightPlace`.
Two pages may create the same folder twice. The page shows "synchronised" only for `plan.root_synced` (`layout.templ:2899`). With anything to upload it
works through its queue, marks each transfer and goes idle again, however they ended (`Done`); `shown` holds the transfers it has marked 'completed'. A transfer
cancelled between two chunks is among them, since the loop is left and its end marks it (`Completed`; `layout.templ:3262`, 3422), and so is one whose move into the store
or INSERT failed, because the page's retry finds the session completed or full (`InsertFails`; `upload_controller.go:503`).
Deletions during a reconciliation, the page's way of working without a
plan (`layout.templ:2946`) and the vault check of the controller are not in this module.

### AuditLogger

Requests pass the middleware and call Log of a SyncLogger or of an AsyncLogger under one of its three overflow policies;
the workers receive, write to the main sink and route failures to the fallback sink; Close may be called at any time and
twice. The check of `closed` and the send are two steps, as are finding the queue full and evicting or falling back.
FileSink.Write may fail before its bytes are in the file or, in the Sync, after that. `lost` records for each record the
reason for which the code gave it up, and `Accounted` says that these are all. Three facts about the code show in the model: a request that is
inside Log when the queue is closed panics (the deferred function then logs again and is refused; `AnswerKept` excepts
exactly these requests); a second Close returns before the queue is drained; PolicyDropOldest evicts a record
although the workers may have made room since. The middleware drops the error of a fail-closed SyncLogger.

### Proof modules

`ResumableUploadProofs`, `FileStoreProofs`, `RangedReadProofs`, `VaultFoldersProofs`, `RealtimeBrokerProofs`, `ReconcileProofs`
and `AuditLoggerProofs` each extend their module and TLAPS; `DownloadProofs` extends the two modules about downloads. See section 5.

## 3. Runs

| Run | Instance | Shows |
|---|---|---|
| `upload_concurrent` | 1 session, 2 handlers, sizes 0 and 2, offsets to 2, failing disk, 1 crash | `ImplementsTable`, `RowsIntact`, `OffsetMatchesFile`, `NoTempLeak`, `CompletedIsRecorded`, `TypeOK` |
| `upload_requests_return` | 2 handlers, quota 1, fair mutex | every request ends unless its client stalls in a body, or it waits for one that does: each early return releases `sess.Mu` |
| `upload_crash_restart` | crash allowed | violated: the comment at `session.go:86` ("half-uploaded files survive server restarts"); a chunk flushed but not persisted is appended twice after the restart |
| `accel_pool` | 2 pieces, 3 workers, 3 attempts, 3 failures, cancellation | `ImplementsFile`, `SuccessIsWhole`, `JournalSound`, `CountExact`, `ReturnsUnlessGivenUp` |
| `store_contents` | 2 handlers, 2 contents, 2 rows, 1 challenge, seeded rows, failing writes, counts and removals, copies between devices, purge, crashes | `RowsHaveBlobs`, `CacheCoherent`, `NoOrphanBlobs` |
| `store_dedup_race` | 2 handlers, no failures | violated: `cas.go:116` ("we can safely delete the temp file"); a deletion collects the blob between the check and the INSERT |
| `tasks_lifecycle` | 1 task, sizes 0 to 2, quota 2, 2 web seeds, 1 peer, 1 byte counted twice | `RowIsRemoteFile`, `StatusTellsRow`, `NoTempLeft`, `CancelEnds` |
| `range_body` | up to 3 chunks of up to 2 bytes, offsets to 6 and unreadable ones, buffer 2 | `BodyIsRange`, `EveryRequestAnswered` |
| `vault_folders` | 1 folder, 2 files, 1 vault session, a goroutine for files and one for folders, failing queries | `NoDangling`, `KeyMatchesFolder`, `CacheSound`, `ZipReadable`, `VaultRowsGuarded` |
| `realtime_stream` | 2 publishers, 3 events, an SSE page, a WebSocket page, 2 topics, channels of 2 slots | `ImplementsStream`, `NoSilentLoss`, `Registered`, `PublishReturns`, `GoneIsUnsubscribed` |
| `reconcile_plan` | 2 versions of a folder, 2 pages, 3 folder ids, failing statements | `PlanCovers`, `SkipsAreStored`, `RightPlace`, `ShownIsStored` |
| `audit_trail` | 2 requests, 2 workers, a queue of 1, 2 callers of Close, 4 loggers, 2 failures | `Accounted`, `DrainedAtClose`, `RecordedOnce`, `AnswerKept`, `CallsReturn` |

Further defects are in the models and excepted by name. A duplicate of the
single chunk of an empty file that waits for `sess.Mu` passes the
duplicate test (`upload_controller.go:376`: the range end 0 is not below the size 0)
and records a second row; in `ImplementsTable` and `OneRowPerUpload` this is the cause `stale`. A chunk that
waited for the mutex while its session was aborted re-creates the temporary file and records too few bytes, where
the repository's `README.md:29` has uploads "verified against expected file sizes" (also `stale`). When storing fails after the last chunk, a
retry of that chunk is answered as already processed, and the upload ends only by an abort or the reaper (`upload_controller.go:503`). The quota
is checked against the rows, not against uploads under way (`upload_controller.go:450`), so sessions can exceed it together.
A piece of an accelerated download whose attempts are used up is never completed, and the pool
waits for ever instead of returning the error on which `manager.go:393` would fall back (`ReturnsUnlessGivenUp` excepts it).
A client that stalls in a chunk's body keeps `sess.Mu` for as long as its connection lives, since the server sets no ReadTimeout
(`src/echo/server.go:113` bounds the headers only); every other request of the session waits (`RequestsReturn` says so).
A download cancelled after its last byte is recorded and completed all the same, though `manager.go:547` says that CancelTask "cancels an ongoing
download"; `CancelEnds` is about the end only. A range that starts on a chunk boundary of a file on disk
is answered from the beginning of the file: SeekTo's loop ends without a seek (`stream.go:262`), where its comment says that
it "skips forward to the requested plaintext byte offset" (`stream.go:184`). `BodyIsRange` claims nothing for these ranges (`SeekStays`); it
fails on them when that exception is taken away. A raw file whose first bytes read as a chunk length may be answered with an
empty body (`Misread`). The saver of the download journal is not waited for (`state.go:184`), and both writers of the
temporary name may meet; Save is one step of the model. MoveFile checks for a name collision and updates later (`file_controller.go:2326`), and names are not modelled. An empty
file in the vault has no chunk to preload, so reading it ends in a
decryption error (`file_controller.go:627`); `BodyIsRange` excepts `EmptyInVault`.
DeleteFile and EmptyTrash look at the vault and delete later (`file_controller.go:1503`, 1593), so a vault that is locked in between, or a row moved
into it, does not stop them; `VaultRowsGuarded` says what they had found. A page marks a cancelled upload 'completed', and one whose
file could not be stored (section 2, Reconcile); `ShownIsStored` excepts both.
PolicyBlock "preserves every record" according to `logger.go:80`, but Log gives a record up when the request's context ends
(`logger.go:190`) and panics when the queue is closed under it. `Accounted` lists both as the losses this policy has.
In the store, `endangered` also covers a download whose INSERT fails: it removes the
blob without `CAS.Invalidate` (`manager.go:487`), and the next upload of this content finds it in the
cache and drops its only copy; a copy to another file system that fails after another upload took the partial
blob for the whole one (`cas.go:133`); the rows of `SeedInitialData`, which have no blob from the start (`file_controller.go:161`); and an upload in flight during a panic purge, whose
row then refers to a shredded blob (`security_controller.go:146` says the database should not). The
six causes of DownloadTasks are above.

The type invariants `TypeOK` of the modules are for the proofs: `TypeCorrect` (`AccelTypeCorrect` for the accelerated downloader) is a theorem
for all of them. Only ResumableUpload's is in a run, because restoring torn metadata would break it.
The twelve runs are one for each question; the disagreements above that have no run of their own are excepted by a named
condition in the property they would break, and quoted here. `OneRowPerUpload` and `NeverUncompleted`
follow from the two refinements and are theorems; they are not in a run of their own.

Every property of a passing run has a mutant: a definition with a plausible
slip (no truncation after a failed transfer, a counter that counts a piece twice, a
reference count that ignores the trash, a cache entry that stays, ...) under which TLC
finds the property violated.

### Bounds

Two handlers are enough for the races of the upload code, since each is between
one chunk and one other event; the size 2 makes a file of one chunk, of two
chunks and of overlapping or repeated chunks, and the size 0 is the edge the
code treats apart. Sessions share nothing but the quota and the rows, so one is
modelled in the large run. The disk strikes a session once (`DiskFails`), after which nothing is claimed of it. `upload_crash_restart`
needs one handler only, so the older snapshot that a resuming InitSession may persist is not met there but in `upload_concurrent`. In the store a second content lets one operation
disturb another's; two rows allow shared and unshared blobs. Crashes are
unbounded in the store and bounded by one in the upload runs. `store_contents` does not continue
states in which every hash has met a race or failure and one of them may lose its blob (`Undecided`): the history never
shrinks, and where all are endangered nothing but `TypeOK` could fail. It takes 1.4 million states. `store_dedup_race` has no failures and no seeded rows, so that the
race itself is what violates the comment. Three workers on two pieces let a
piece be hedged twice; the theorems cover every number. Download tasks meet only through
the owner's used bytes, which `OtherFiles` changes at any time, so one task is checked
and the theorems cover any set. Chunks of up to two bytes and a
buffer of two give all cases of a buffer shorter than, equal to and longer than
the rest of a chunk.

In the vault one goroutine works on files and one on folders and deletions, which is what the races between a
file's key and its folder, or between a check and a deletion, need. Two rows let content of one file be offered for another; a state in which all row ids
are used up is not continued (`FilesLeft`). `MaxWalk` is the code's 50, which one folder never reaches: that limit is met in the
theorems, which hold for every value. A larger instance (two of each) is what deletions of nested folders would
take and is beyond a short run. A channel of two slots holds two events of one publisher in order and is full with a third one under way, and two pages of two kinds on two topics
give every combination of who shares what. The two trees of `reconcile_plan` differ in a file that grows past the size
that is hashed and a directory that gains a file; three ids let two pages create a folder
twice and a subfolder besides. In `audit_trail` a queue of one slot is full while the other request logs; two failures
let the sink and the fallback sink fail for one record.

Deadlock is checked except where the modelled activity ends: the pool of the accelerated downloader, download
tasks, pages of the broker that have gone, pages that have reconciled, and requests of the audit log.

### Fairness

- Uploads: weak fairness of each handler's steps, since a goroutine that can run
  does, except of reading a body, which waits for the client and has no timeout (`AwaitsClient`); strong fairness of taking `sess.Mu`, which is what Go's `sync.Mutex` gives
  (a waiter that starves for 1 ms gets the lock handed over). New requests, crashes, reaping and purges are not fair.
- Downloads: weak fairness of each worker and of the return after `wg.Wait`. A
  fetch ends because the HTTP client has a timeout. Failures and cancellation are
  not fair.
- Download tasks: weak fairness of the goroutine's steps that wait for the processor, the disk
  or the database. Nothing is assumed of the network, the reporter or the requests.
- Ranged reads: weak fairness of the one sequential handler.
- Broker: weak fairness of a Publish under way (its sends never wait), of the ping of a page's loop (a ticker) and
  of the deferred unsubscribe. Nothing is assumed of the pages' reading.
- Audit log: weak fairness of a request inside Log, of the workers and of the end of Close. Sinks answer: files and stderr do, and
  the HTTP client of a webhook has a timeout. Requests, ends of contexts and calls of Close are not fair.

## 4. What the properties mean for the code

- `ImplementsTable`: who looks only at the files table sees each upload as one INSERT of a whole file, once per session; that it came in
  chunks, was retried, aborted, restored after a crash or raced with a purge cannot be seen, unless one of the five causes struck this very upload.
- `RowsIntact`: whatever retries, broken transfers, aborts, reaping, purges and crashes
  happen, a row is the client's bytes in order, of the announced size.
- `OffsetMatchesFile`: between requests the offset the server reports is the
  length of the temporary file.
- `NoTempLeak`: a temporary file without a session only remains where a crash struck between it and its metadata, where a
  stale pointer re-created it, or where the disk refused.
- `RequestsReturn`: whatever is refused, fails or is aborted, nobody but a stalled client can keep the others of its session waiting.
- `RowsHaveBlobs`, `CacheCoherent`, `NoOrphanBlobs`: rows, cache and directory agree
  for each content outside the listed races.
- `CountExact` is why `IsCompleted` may read an atomic counter without the mutex.
- `ImplementsFile`: the failure of an overtaken worker never undoes a piece, success is told exactly if the file is whole, and
  `executeDownload` may encrypt the file after the answer because no worker is left to write to it.
- `RowIsRemoteFile`: a download's row has the bytes of the remote file and their number.
- `StatusTellsRow`: users read in the task what happened, though three parties write it.
- `BodyIsRange`: the body is exactly the selected bytes, or the status says why not, outside the named cases.
- `KeyMatchesFolder`, `ZipReadable`: what is stored can be read back with the key the server will choose.
- `CacheSound`: a cache of vault folders is stale only while an invalidation is due.
- `VaultRowsGuarded`: whoever removes a row of the vault had found the vault open, or the row outside it, or was misled by a named cause.
- `NoSilentLoss`: a page misses an event only if its channel was full.
- `SkipsAreStored`, `ShownIsStored`: what the plan skips, and what the page shows as synchronised or uploaded, is on the server, but for cancelled
  transfers and failed statements.
- `Accounted`, `RecordedOnce`, `DrainedAtClose`: the audit trail has each record once, also through a shutdown, and gives up only what its policy
  or a closed queue makes it give up.

## 5. Proofs

The proofs use only the named assumption on the constants of their module
(`UploadConstants`, `StoreConstants`, ...), which say that markers such as `NoHash` are not members of the sets they
mark the absence of, that sizes and bounds are natural numbers, and that a channel or queue has a slot. The sets of sessions, handlers,
files, folders, pages and workers, the sizes, the quota, the number of pieces and attempts are arbitrary.
`Workers # {}` in `AuditConstants` is what `NewAsyncLogger` ensures; with no worker nothing would drain the queue. `TreesAreTrees` of
Reconcile (section 2) is the only assumption about the shape of data.

Each module proves one inductive invariant: it holds initially, every action preserves it, and it implies the
properties. TLC checked the inductive invariants on the instances of the runs before they were proved.

`DownloadProofs`, the accelerated downloader. The invariant is

    AccelInv == PieceShape /\ AttemptsLeft /\ ClaimsFilled /\ CountExact /\ OkIsFull

`PieceShape` is the type invariant without the bound on the counter, which follows from `CountExact`;
`AttemptsLeft` says that a pending piece has attempts left, without
which handing it out again could exceed the bound; `ClaimsFilled` says that every
completed, journalled or about-to-be-marked piece is in the file, the link between the worker's local state and the
shared one; `OkIsFull` records that a result "ok" was given with all pieces
completed, which together with `CountExact` and the cardinality of subsets gives `SuccessIsWhole`.
For the refinement of `PieceFile`, `JournalInv` adds that a piece is journalled
only after it was marked, so that `bits` and `saved` are within `DonePieces`, and that all workers have gone once the answer is given. A fetch then fills a piece, `WorkerMark` finishes one, `Return`
answers, and every other step stutters; that the answer is "ok" exactly if all pieces are done is `FullCounter`, from the exact counter.
Theorems: `AccelTypeCorrect`, `CounterCorrect`, `SuccessCorrect`, `JournalCorrect`,
`AttemptsCorrect` (invariants), `CompletedStays` (an action property) and `FileCorrect` (the refinement).

`ResumableUploadProofs`. The invariant is

    Inv == Shape /\ LockOK /\ BaseOK /\ SoleOK /\ FreshOK

and `CompletedIsRecorded`, then `DataInv` and `RowInv`, are preserved with its help. `LockOK` says that a handler between Lock and Unlock is the holder of its
session's mutex and the other way round, which makes the
file of a session its holder's alone; `BaseOK` says that the length at which a
handler began to append is within its file, so that the truncation after a broken
transfer is well defined; `SoleOK` and `FreshOK` that nobody else points to a session that is being created, and that nothing was
written before under its id. `DataInv` says of a session that no cause has struck that its temporary file is a beginning of the client's
file, and, while the table knows the session, as long as the offset says except between the append and the new offset; and it says what a
handler in the middle of a request knows of the session it points to (for instance that it is complete and out of the table when its row is inserted). `RowInv` says
that a session with a row is over: out of the table, its file gone, no handler holding its mutex, which rules out a second row. Both are needed because `RowsIntact` and `OneRowPerUpload` speak only of the row, which
is written at the very end. Theorems: `TypeCorrect`, `ChunksExclusive` (no two
handlers are in the critical section of one session, also through restarts),
`CompletionCorrect`, `RowsCorrect`, `OneRowCorrect`, `OffsetCorrect`, `TempCorrect`, and `TableCorrect`, the refinement of
`UploadTable`. There `CreateSession` opens, `InsertRow` records, the steps that add a cause strike, and all others stutter.
`CauseGrows` says that causes stay with a session; `LeakStep` carries
`NoTempLeak` over the steps that create and remove files.
That the recorded row is whole and the first of its session is taken from `RowInv` in the state after the step, where both rows would be present.

`DownloadProofs`, the tasks. There are three invariants, each preserved with the help of the ones before:

    Inv == TypeInv /\ StatusInv /\ BytesInv

`TypeInv` adds to `TypeOK` that a task in the table or with a reporter was started, so that no
request gives a status to a task that does not exist. `StatusInv` says where the
temporary file is gone already (so that the clean-up may skip it) and that the row exists exactly from "mark"
on; `StatusTellsRow` alone says nothing before the goroutine returns. `BytesInv` says that
the writer holds a beginning of the remote file while it streams, and that byte count
and writer agree with the whole file from the last report to the INSERT, as long as no
cause struck. Theorems: `TypeCorrect`, `TempCorrect`, `StatusCorrect`, `RowsCorrect`.

`FileStoreProofs`. The invariant is

    StoreInv == TypeOK /\ OpInv /\ OverlapInv /\ FoundInv /\ CountInv
                /\ RowsHaveBlobs /\ CachedInv /\ ShreddedInv /\ OwedInv

The code has no lock around check and use, so the argument is about windows. `OverlapInv` says that two operations on
one content, one of which may remove the blob, have already put the content among the `endangered` ones; with it `FoundInv` (a blob found
or made is still there at the INSERT) and `CountInv` (a count of zero still holds at the removal) are stable under the steps of others.
`CachedInv` and `OwedInv` name the step that will repair what is temporarily wrong: the `Invalidate` due
after a removal, the row or the removal due for a new blob. A copy under way counts as a blob, and where it fails after somebody relied on it the
hash becomes endangered in that step. One lemma, `FitStep`, reduces the preservation by a step of
any handler to local conditions on its old and new place (`Fits`); each action is then shown to meet these.
Theorems: `TypeCorrect`, `RowsCorrect`, `CacheCorrect`, `OrphanCorrect`.

`RangedReadProofs`. The invariant is

    ReadInv == FileOK /\ TypeOK /\ AnswerOK /\ KeyOK /\ StageOK

`AnswerOK` says that the start and length taken from the header are those of the range that was asked for (`SoughtLaw` relates
parseRangeHeader to the selected bytes). `KeyOK` says that the legacy key is tried only where the active one failed.
`StageOK` says where the handler's cursor is at each stage: the scan stands at the beginning of a chunk not
behind the offset, the rest of a decrypted chunk in `buf` runs from the cursor to the end of that chunk, and what was sent is the run of bytes from
the first one to the cursor. The first one is 0 where SeekTo leaves a file at its beginning (`Base`), so that the invariant
covers the case `BodyIsRange` excepts. Theorems: `TypeCorrect`, `BodyCorrect`, for any number and lengths of chunks, any header and any buffer.

`VaultFoldersProofs`. The invariant is

    VaultInv == TypeOK /\ TreeInv /\ CacheInv /\ KeyMatchesFolder /\ LocInv

`TreeInv` says that the folders form a forest (every nonempty set of folders has a member whose parent is outside) and that a folder
is on its parent's side of the vault's boundary. From the first, without induction, `VaultIDsRight` derives that the code's walk from
the vault's root finds exactly the folders inside the vault, and hence that the cache is exact; folders are never moved, which
is why a vault folder stays one. `LocInv` says what each handler knows between two steps: an upload, the keys its chunks are under;
a move, the key of what it read and of what it wrote; a deletion or ZIP download, that the folders collected so far are one side's and
closed towards its root. The values read before a step are thus related to the state in which they are used.
Theorems: `TypeCorrect`, `DanglingCorrect`, `CacheCorrect`, `KeyCorrect`, `ZipCorrect`, and the action property `GuardedCorrect`,
for which `ActLoc`, a part of `LocInv`, relates what a deletion had found to the row it removes.

`RealtimeBrokerProofs`. The invariant is

    BrokerInv == MapInv /\ StreamInv /\ OwedInv

`MapInv` relates the map to the handlers that run. `StreamInv` follows an event from the hands of a
publisher through the channel to the page: whatever is on its way was published to the page's topic and is newer than everything of the same
publisher ahead of it. This is what makes every step of the broker a step of `EventStream` or a stutter (`StreamCorrect`, under the refinement
mapping `published`, `topic`, `seen`): a page is shown an event of its topic that it has not seen, in order, only because
of what the channel held. `OwedInv` adds that channels are within their capacity and that a page that has gone is owed nothing.
Theorems: `TypeCorrect`, `RegisteredCorrect`, `LossCorrect`, `StreamCorrect`.

`AuditLoggerProofs`. The invariant is

    AuditInv == TypeOK /\ PlaceInv /\ WorkerInv /\ AnswerInv

`PlaceInv` says that a record is in one place at a time (its request, the queue, a worker's hand, a sink), so that moving it
neither loses nor doubles it; the exception is a Write that failed late. `WorkerInv` says that a worker leaves only when the queue
is closed and empty, which with `wg.Wait` before the sinks are closed gives `DrainedAtClose`. `AnswerInv` says that only a request inside Log
when the queue was closed can panic there. For `Accounted`, `AllExplained` ties each lost record to the policy, the
closed queue or the fault that cost it, action by action (`LogExplained`, `WorkExplained`). Theorems: `TypeCorrect`, `AccountedCorrect`, `DrainCorrect`, `OnceCorrect`, `AnswerCorrect`.

`ReconcileProofs`. The invariant `Inv` says that the tables are well formed (`Tables`: every folder and row is in a folder that exists) and of each page what holds at its point of
the request (`Fits`), as a conjunction of

- `FoundOK`: what the queries read is still in the tables, since nothing is deleted meanwhile;
- `TodoOK`, `PlaceOK`: the walk is about to visit nodes whose directory has a folder, and this is the folder at the directory's path. After a
  failed statement it may be another, but then nothing of what was read is in it (`Barren`), so nothing can be skipped wrongly;
- `CoverOK`, `CountOK`: every file is settled by exactly one action or lies below exactly one node still to be visited, and the summary is that of the settled files;
- `PlanOK`, `ShownOK`: what is skipped or shown as uploaded is on the server, and what is to be uploaded names the right folder.

The lemmas behind it are about the operators. `SameHashStored` derives from the matching of two trees that every file below is
stored at its path; no induction is needed, because the matched folders of the directories on the path are the chain `IsAt` asks for. `SortedChildren` says that
the sorted children are the children, each once, from the number of smaller siblings; `Additive` that the bytes of disjoint sets of files add up.
`ClientMoves` and `FitsStays` reduce a step to the page that takes it: the tables only grow, and every part of the invariant of the other
pages survives that. Theorems: `TypeCorrect`, `CoversCorrect`, `SkipsCorrect`, `PlaceCorrect`, `ShownCorrect`, for any trees, any number of
pages and ids, and whichever statements fail.

Only model-checked: liveness (`RequestsReturn`, `ReturnsUnlessGivenUp`, `CancelEnds`,
`EveryRequestAnswered`, `PublishReturns`, `GoneIsUnsubscribed`, `CallsReturn`), which needs fairness and
ENABLED. Every safety property of a passing run is a theorem.

## 6. Plan

1. Done: ResumableUpload, AcceleratedDownload, FileStore, RangedRead, DownloadTasks, with the first theorems.
2. Done: VaultFolders (keys, folders, moves, zip), EventStream and RealtimeBroker (refinement, liveness), Reconcile, AuditLogger.
3. Done: proofs of the safety properties of all nine, with the refinements of EventStream, UploadTable and PieceFile.
4. Left: a composition of ResumableUpload and DownloadTasks with FileStore at `MoveToCAS`, in place of the points at which each
   now takes over from the other. A separate abstract specification of the store is not planned: step by step it would repeat
   what `RowsHaveBlobs` and `NoOrphanBlobs` say of states.

## 7. Not modelled

Of the sources of downloads the model has the stream, the order of sources and how each
ends; wire messages, trackers, resolvers and probers are network I/O and string
parsing, of which the rest sees success, failure or cancellation. Cryptography is a fact about which key opens which chunk. The database
is a set of rows with atomic statements that may fail.
Rendering, configuration, logging, the web framework with its remaining security packages (tokens, sessions, rate limits) and its upload package, the command line tool,
vendored Echo, generated templates, test helpers and examples hold no state
of the drive.

Most of the repository's lines are of this kind: two vendored copies of Echo, the Go code generated from templates, the
packages of a general web framework of which the drive uses a part, and test helpers. The models cover the parts
that keep the drive's state and share it between goroutines.
