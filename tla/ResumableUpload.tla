-------------------------- MODULE ResumableUpload --------------------------
(***************************************************************************)
(* Resumable chunked uploads: the session table of                         *)
(* internal/upload/session.go and the handlers of                          *)
(* internal/controllers/upload_controller.go that work on it.              *)
(*                                                                         *)
(* Every HTTP request is a handler goroutine h.  A handler obtains the     *)
(* *Session pointer from the table first and takes sess.Mu afterwards, so  *)
(* between the two the session may be aborted, reaped, purged or completed *)
(* by someone else; the pointer stays usable.  Disk state (temporary       *)
(* files, metadata files, the content-addressed store, the files table)    *)
(* survives a crash, the rest does not.                                    *)
(*                                                                         *)
(* The bytes of the uploaded file are numbered 1, 2, 3 ...: the body of a  *)
(* chunk request that starts at offset f with n bytes is f+1 .. f+n, and a *)
(* correct temporary file is a prefix of 1, 2, 3 ...  Encryption is left   *)
(* out: each byte of plaintext stands for its ciphertext, and the hash of  *)
(* a content is the content.                                               *)
(***************************************************************************)
EXTENDS Integers, Sequences, FiniteSets, FiniteSetsExt

CONSTANTS
    Sessions,      \* the session ids GenerateID can return
    Handlers,      \* goroutines serving /upload requests
    Free,          \* value of a mutex nobody holds
    NoSession,     \* the session pointer of an idle handler
    Sizes,         \* the file sizes clients announce
    MaxOffset,     \* largest offset a chunk request starts at
    MaxChunk,      \* longest body of a chunk request
    Quota,         \* QuotaBytes; 0 means unlimited
    Vault,         \* TRUE: the folder is in the vault, whose key may be missing
    Unranged,      \* TRUE: clients may omit Content-Range
    DiskFaults,    \* TRUE: writes and removals on the disk may fail
    MaxCrashes     \* bound on process crashes

NoMeta   == -2     \* no metadata file on disk
TornMeta == -1     \* a metadata file that json.Unmarshal rejects

ASSUME UploadConstants ==
    /\ Free \notin Handlers
    /\ NoSession \notin Sessions
    /\ Sizes \subseteq Nat
    /\ MaxOffset \in Nat
    /\ MaxChunk \in Nat
    /\ Quota \in Nat
    /\ Vault \in BOOLEAN
    /\ Unranged \in BOOLEAN
    /\ DiskFaults \in BOOLEAN
    /\ MaxCrashes \in Nat

VARIABLES
    created,    \* ids handed out by CreateSession
    expected,   \* Session.ExpectedSize
    uploaded,   \* Session.UploadedSize
    table,      \* SessionManager.sessions: the ids it maps
    mu,         \* Session.Mu: its holder or Free
    onDisk,     \* ids whose temporary file exists
    temp,       \* content of the temporary files
    meta,       \* UploadedSize in the metadata files
    blobs,      \* contents in the CAS directory
    rows,       \* rows of the files table
    done,       \* UploadController.completedSessions
    pc,         \* where each handler stands
    cur,        \* the session pointer it holds
    req,        \* its request
    loc,        \* its local variables
    crashes,    \* crashes so far
    cause       \* history: why a session's file may be wrong, see below

memVars  == <<created, expected, uploaded, table, mu, done>>
diskVars == <<onDisk, temp, meta>>
dbVars   == <<blobs, rows>>
hVars    == <<pc, cur, req, loc>>
vars     == <<memVars, diskVars, dbVars, hVars, crashes, cause>>

(***************************************************************************)
(* cause[s] is a history variable.  It collects the events after which the *)
(* code no longer guarantees the file of session s:                        *)
(*   "stale"  a chunk was accepted through a pointer to a session that had *)
(*            left the table;                                              *)
(*   "blind"  a chunk without Content-Range was accepted that does not     *)
(*            start where the server's file ends;                          *)
(*   "crash"  a restart found its temporary file with metadata that is     *)
(*            missing or torn or gives another length;                     *)
(*   "disk"   a failure of the disk was ignored: bytes that were not       *)
(*            flushed, a truncation that did not happen, a temporary file  *)
(*            that could not be removed;                                   *)
(*   "lost"   the INSERT of its row failed.                                *)
(***************************************************************************)
Causes == {"stale", "blind", "crash", "disk", "lost"}

PCs == {"idle", "find", "new", "create", "resume", "lock", "copy", "commit",
        "persist", "move", "drop", "insert", "abortlock", "abortdel", "abortrm"}

\* The states in which a chunk handler holds sess.Mu.
Holding == {"copy", "commit", "persist", "move", "drop", "insert"}

\* The states in which a chunk handler has the temporary file open: f is
\* opened at line 395 and closed at line 492, before the move to CAS.
FileOpen == {"copy", "commit", "persist"}

NoReq == [first |-> 0, len |-> 0, ranged |-> FALSE]
NoLoc == [wrote |-> 0, ok |-> FALSE, base |-> 0, linked |-> FALSE, snap |-> 0,
          bytes |-> <<>>, existed |-> FALSE]

\* The first n bytes of the file, and the k bytes after offset f.
Plain(n)  == [i \in 1..n |-> i]
Run(f, k) == [i \in 1..k |-> f + i]

\* GetUserStorageUsed: the sum of the sizes of the owner's rows.
UserStorageUsed == MapThenSumSet(LAMBDA r : r.size, rows)

OverQuota(n) == Quota > 0 /\ UserStorageUsed + n > Quota

-----------------------------------------------------------------------------
Init ==
    /\ created = {} /\ table = {} /\ onDisk = {} /\ done = {}
    /\ blobs = {} /\ rows = {}
    /\ expected = [s \in Sessions |-> 0]
    /\ uploaded = [s \in Sessions |-> 0]
    /\ mu   = [s \in Sessions |-> Free]
    /\ temp = [s \in Sessions |-> <<>>]
    /\ meta = [s \in Sessions |-> NoMeta]
    /\ pc   = [h \in Handlers |-> "idle"]
    /\ cur  = [h \in Handlers |-> NoSession]
    /\ req  = [h \in Handlers |-> NoReq]
    /\ loc  = [h \in Handlers |-> NoLoc]
    /\ crashes = 0
    /\ cause = [s \in Sessions |-> {}]

Goto(h, p) == pc' = [pc EXCEPT ![h] = p]

\* The handler returns; the deferred sess.Mu.Unlock is the caller's affair.
Return(h) ==
    /\ Goto(h, "idle")
    /\ cur' = [cur EXCEPT ![h] = NoSession]
    /\ req' = [req EXCEPT ![h] = NoReq]
    /\ loc' = [loc EXCEPT ![h] = NoLoc]

\* Mutant: the deferred Unlock is missing.
BugNoUnlock(s) == UNCHANGED mu

Unlock(s) == mu' = [mu EXCEPT ![s] = Free]

(***************************************************************************)
(* CreateSession holds sm.mu from os.Create to PersistSession; whoever     *)
(* reads or changes the table waits for it.                                *)
(***************************************************************************)
TableFree == \A h \in Handlers : pc[h] # "create"

Strike(S, c) == cause' = [s \in Sessions |-> IF s \in S THEN cause[s] \cup {c} ELSE cause[s]]

\* Bound: the disk strikes a session once; nothing is claimed of it afterwards.
DiskFails(s) == DiskFaults /\ "disk" \notin cause[s]

\* The error of os.Remove is ignored: some of the files S may stay.
Unremoved(S) == SUBSET {s \in S : DiskFails(s)}

\* The same of os.WriteFile in PersistSession: nothing, or a part, is written.
Persisted(s, n) == {n} \cup (IF DiskFails(s) THEN {meta[s], TornMeta} ELSE {})

\* Mutant: os.Remove of the temporary file is missing.
BugKeepTemps(S, l) == loc' = l /\ UNCHANGED <<onDisk, temp, cause>>

(***************************************************************************)
(* Removing the path of a temporary file another handler has open leaves   *)
(* that handler with an unlinked file: what it writes is never seen again. *)
(***************************************************************************)
UnlinkTemps(S, l) ==
    \E kept \in Unremoved(S \cap onDisk) :
        /\ onDisk' = onDisk \ (S \ kept)
        /\ temp' = [s \in Sessions |-> IF s \in S \ kept THEN <<>> ELSE temp[s]]
        /\ loc' = [h \in Handlers |->
                      IF pc[h] \in FileOpen /\ cur[h] \in S \ kept
                      THEN [l[h] EXCEPT !.linked = FALSE] ELSE l[h]]
        /\ Strike(kept, "disk")

RemoveMeta(S) ==
    \E kept \in Unremoved(S) :
        meta' = [s \in Sessions |-> IF s \in S \ kept THEN NoMeta ELSE meta[s]]

-----------------------------------------------------------------------------
(* POST /upload/init *)

(***************************************************************************)
(* The checks against the database: quota, and a finished file of the same *)
(* name and size.  A request they answer changes nothing and is no step.   *)
(***************************************************************************)
InitCheck(h, size) ==
    /\ pc[h] = "idle"
    /\ ~ (size > 0 /\ OverQuota(size))
    /\ ~ (size > 0 /\ \E r \in rows : r.size = size)
    /\ Goto(h, "find")
    /\ req' = [req EXCEPT ![h].len = size]
    /\ UNCHANGED <<memVars, diskVars, dbVars, cur, loc, crashes, cause>>

\* FindActiveSession returns any unfinished session of this size whose file exists.
ActiveSessions(size) ==
    {s \in table : expected[s] = size /\ uploaded[s] < expected[s] /\ s \in onDisk}

\* It returns none, or one that has no byte yet and is not resumed.
FindNone(h) ==
    /\ pc[h] = "find" /\ TableFree
    /\ \/ ActiveSessions(req[h].len) = {}
       \/ \E s \in ActiveSessions(req[h].len) : uploaded[s] = 0
    /\ Goto(h, "new")
    /\ UNCHANGED <<memVars, diskVars, dbVars, cur, req, loc, crashes, cause>>

(***************************************************************************)
(* CreateSession: os.Create of the temporary file comes first; the table   *)
(* entry and the metadata file follow.                                     *)
(***************************************************************************)
CreateFile(h) ==
    /\ pc[h] = "new" /\ TableFree
    /\ \E s \in Sessions \ created :
          /\ created' = created \cup {s}
          /\ expected' = [expected EXCEPT ![s] = req[h].len]
          /\ uploaded' = [uploaded EXCEPT ![s] = 0]
          /\ onDisk' = onDisk \cup {s}
          /\ temp' = [temp EXCEPT ![s] = <<>>]
          /\ cur' = [cur EXCEPT ![h] = s]
    /\ Goto(h, "create")
    /\ UNCHANGED <<table, mu, done, meta, dbVars, req, loc, crashes, cause>>

CreateSession(h) ==
    /\ pc[h] = "create"
    /\ table' = table \cup {cur[h]}
    /\ \E m \in Persisted(cur[h], 0) : meta' = [meta EXCEPT ![cur[h]] = m]
    /\ Return(h)
    /\ UNCHANGED <<created, expected, uploaded, mu, done, onDisk, temp, dbVars,
                   crashes, cause>>

\* os.Create fails: 500.
CreateSessionFails(h) ==
    /\ pc[h] = "new" /\ TableFree
    /\ Return(h)
    /\ UNCHANGED <<memVars, diskVars, dbVars, crashes, cause>>

(***************************************************************************)
(* A half-uploaded session is resumed.  PersistSession copies the fields   *)
(* and then writes the file, all of it without sess.Mu.                    *)
(***************************************************************************)
ResumeRead(h) ==
    /\ pc[h] = "find" /\ TableFree
    /\ \E s \in ActiveSessions(req[h].len) :
          /\ uploaded[s] > 0
          /\ cur' = [cur EXCEPT ![h] = s]
          /\ loc' = [loc EXCEPT ![h].snap = uploaded[s]]
    /\ Goto(h, "resume")
    /\ UNCHANGED <<memVars, diskVars, dbVars, req, crashes, cause>>

ResumePersist(h) ==
    /\ pc[h] = "resume"
    /\ \E m \in Persisted(cur[h], loc[h].snap) : meta' = [meta EXCEPT ![cur[h]] = m]
    /\ Return(h)
    /\ UNCHANGED <<memVars, onDisk, temp, dbVars, crashes, cause>>

-----------------------------------------------------------------------------
(* PUT /upload/:session_id *)

(***************************************************************************)
(* GetSession.  The header of a ranged request is what the application's   *)
(* own client sends: bytes first-(first+len-1), and bytes 0-0 for the only *)
(* chunk of an empty file.                                                 *)
(***************************************************************************)
ChunkBegin(h, s, first, len, ranged) ==
    /\ pc[h] = "idle" /\ TableFree
    /\ s \in table
    /\ ranged \/ Unranged
    /\ ranged /\ len = 0 => first = 0
    /\ Goto(h, "lock")
    /\ cur' = [cur EXCEPT ![h] = s]
    /\ req' = [req EXCEPT ![h] = [first |-> first, len |-> len, ranged |-> ranged]]
    /\ UNCHANGED <<memVars, diskVars, dbVars, loc, crashes, cause>>

RangeEnd(r) == IF r.len = 0 THEN 0 ELSE r.first + r.len - 1

AlreadyProcessed(r, up) == r.ranged /\ RangeEnd(r) < up

\* Mutant: the offset of a ranged chunk is not compared with the server's.
BugAnyOffset(r, up) == FALSE

OffsetMismatch(r, up) == r.ranged /\ r.first # up

\* sess.Mu is taken and the Content-Range check answers the request.
ChunkTurnedAway(h) ==
    /\ pc[h] = "lock"
    /\ mu[cur[h]] = Free
    /\ \/ AlreadyProcessed(req[h], uploaded[cur[h]])
       \/ OffsetMismatch(req[h], uploaded[cur[h]])
    /\ Return(h)
    /\ UNCHANGED <<memVars, diskVars, dbVars, crashes, cause>>

NewCauses(r, s) ==
    (IF s \in table THEN {} ELSE {"stale"})
      \cup (IF r.ranged \/ r.first = uploaded[s] THEN {} ELSE {"blind"})

\* sess.Mu is taken and the file is opened with O_APPEND and O_CREATE.
ChunkLock(h) ==
    LET s == cur[h] IN
    /\ pc[h] = "lock"
    /\ mu[s] = Free
    /\ ~ AlreadyProcessed(req[h], uploaded[s])
    /\ ~ OffsetMismatch(req[h], uploaded[s])
    /\ mu' = [mu EXCEPT ![s] = h]
    /\ onDisk' = onDisk \cup {s}
    /\ loc' = [loc EXCEPT ![h].linked = TRUE]
    /\ cause' = [cause EXCEPT ![s] = @ \cup NewCauses(req[h], s)]
    /\ Goto(h, "copy")
    /\ UNCHANGED <<created, expected, uploaded, table, done, temp, meta, dbVars,
                   cur, req, crashes>>

\* The early returns before any byte is read.
MustRefuse(s, len) ==
    \/ expected[s] = 0 /\ len > 0
    \/ uploaded[s] > expected[s]
    \/ OverQuota(uploaded[s] + len)

ChunkRefused(h) ==
    /\ pc[h] = "copy"
    /\ Vault \/ MustRefuse(cur[h], req[h].len)
    /\ Unlock(cur[h])
    /\ Return(h)
    /\ UNCHANGED <<created, expected, uploaded, table, done, diskVars, dbVars,
                   crashes, cause>>

(***************************************************************************)
(* io.CopyBuffer through the encrypting writer, limited to one byte more   *)
(* than the session still lacks.  It fails after any number of bytes when  *)
(* the connection breaks.                                                  *)
(***************************************************************************)
Transfer(h) ==
    LET limit == expected[cur[h]] - uploaded[cur[h]] + 1
    IN  IF req[h].len < limit THEN req[h].len ELSE limit

\* k bytes reach the file, n are counted.
WriteBody(h, k, n, ok) ==
    /\ loc' = [loc EXCEPT ![h].wrote = n, ![h].ok = ok, ![h].base = Len(temp[cur[h]])]
    /\ temp' = IF loc[h].linked
               THEN [temp EXCEPT ![cur[h]] = @ \o Run(req[h].first, k)]
               ELSE temp

ChunkCopy(h) ==
    /\ pc[h] = "copy"
    /\ ~ MustRefuse(cur[h], req[h].len)
    /\ \E ok \in BOOLEAN, k \in 0..Transfer(h) :
          (ok => k = Transfer(h)) /\ WriteBody(h, k, k, ok)
    /\ Goto(h, "commit")
    /\ UNCHANGED <<memVars, onDisk, meta, dbVars, cur, req, crashes, cause>>

\* The body is read, but the ignored bufWriter.Flush fails: the end is not written.
ChunkFlushFails(h) ==
    /\ pc[h] = "copy"
    /\ ~ MustRefuse(cur[h], req[h].len)
    /\ DiskFails(cur[h]) /\ loc[h].linked
    /\ \E k \in 0..Transfer(h) - 1 : WriteBody(h, k, Transfer(h), TRUE)
    /\ Strike({cur[h]}, "disk")
    /\ Goto(h, "commit")
    /\ UNCHANGED <<memVars, onDisk, meta, dbVars, cur, req, crashes>>

Fits(h) == uploaded[cur[h]] + loc[h].wrote <= expected[cur[h]]

\* Mutant: the partial chunk stays in the file.
BugNoTruncate(h) == temp[cur[h]]

Truncated(h) == SubSeq(temp[cur[h]], 1, loc[h].base)

\* Transfer failed, or more bytes than declared: truncate to the initial size.
ChunkUndo(h) ==
    LET s == cur[h] IN
    /\ pc[h] = "commit"
    /\ ~ (loc[h].ok /\ Fits(h))
    /\ \/ /\ temp' = IF loc[h].linked THEN [temp EXCEPT ![s] = Truncated(h)] ELSE temp
          /\ UNCHANGED cause
       \/ /\ DiskFails(s)                \* the ignored f.Truncate fails
          /\ UNCHANGED temp
          /\ Strike({s}, "disk")
    /\ Unlock(s)
    /\ Return(h)
    /\ UNCHANGED <<created, expected, uploaded, table, done, onDisk, meta,
                   dbVars, crashes>>

ChunkCommit(h) ==
    LET s == cur[h] IN
    /\ pc[h] = "commit"
    /\ loc[h].ok /\ Fits(h)
    /\ uploaded' = [uploaded EXCEPT ![s] = @ + loc[h].wrote]
    /\ Goto(h, "persist")
    /\ UNCHANGED <<created, expected, table, mu, done, diskVars, dbVars,
                   cur, req, loc, crashes, cause>>

\* PersistSession; the request of an incomplete file ends here.
ChunkPersist(h) ==
    LET s == cur[h] IN
    /\ pc[h] = "persist"
    /\ \E m \in Persisted(s, uploaded[s]) : meta' = [meta EXCEPT ![s] = m]
    /\ IF uploaded[s] >= expected[s]
       THEN Goto(h, "move") /\ UNCHANGED <<mu, cur, req, loc>>
       ELSE Unlock(s) /\ Return(h)
    /\ UNCHANGED <<created, expected, uploaded, table, done, onDisk, temp,
                   dbVars, crashes, cause>>

\* MoveToCASWithStatus: hash, then deduplicate or rename.
MoveToCAS(h) ==
    LET s == cur[h] IN
    /\ pc[h] = "move"
    /\ s \in onDisk
    /\ loc' = [loc EXCEPT ![h].bytes = temp[s], ![h].existed = temp[s] \in blobs]
    /\ blobs' = blobs \cup {temp[s]}
    /\ onDisk' = onDisk \ {s}
    /\ temp' = [temp EXCEPT ![s] = <<>>]
    /\ Goto(h, "drop")
    /\ UNCHANGED <<memVars, meta, rows, cur, req, crashes, cause>>

\* Mutant: the session is marked completed before the move is known to work.
BugMarkFirst(h) ==
    /\ pc[h] = "move"
    /\ done' = done \cup {cur[h]}
    /\ Unlock(cur[h])
    /\ Return(h)
    /\ UNCHANGED <<created, expected, uploaded, table, diskVars, dbVars, crashes, cause>>

\* Its error return: the file is gone, or the disk refuses.
MoveToCASFails(h) ==
    /\ pc[h] = "move"
    /\ Unlock(cur[h])
    /\ Return(h)
    /\ UNCHANGED <<created, expected, uploaded, table, done, diskVars, dbVars,
                   crashes, cause>>

\* Mutant: DeleteSession leaves the id in the table.
BugKeepSession(s, l) == loc' = l /\ UNCHANGED <<onDisk, temp, meta, table, cause>>

\* DeleteSession: files are removed only if the id is still in the table.
DeleteSession(s, l) ==
    /\ TableFree
    /\ IF s \in table
       THEN UnlinkTemps({s}, l) /\ RemoveMeta({s}) /\ table' = table \ {s}
       ELSE loc' = l /\ UNCHANGED <<onDisk, temp, meta, table, cause>>

ChunkDone(h) ==
    /\ pc[h] = "drop"
    /\ done' = done \cup {cur[h]}
    /\ DeleteSession(cur[h], loc)
    /\ Goto(h, "insert")
    /\ UNCHANGED <<created, expected, uploaded, mu, dbVars, cur, req, crashes>>

InsertRow(h) ==
    LET s == cur[h] IN
    /\ pc[h] = "insert"
    /\ rows' = rows \cup {[id |-> Cardinality(rows), sess |-> s,
                           size |-> uploaded[s], bytes |-> loc[h].bytes]}
    /\ Unlock(s)
    /\ Return(h)
    /\ UNCHANGED <<created, expected, uploaded, table, done, diskVars, blobs,
                   crashes, cause>>

\* The INSERT fails; a blob this upload brought in is removed again.
InsertFails(h) ==
    /\ pc[h] = "insert"
    /\ blobs' = IF loc[h].existed THEN blobs ELSE blobs \ {loc[h].bytes}
    /\ cause' = [cause EXCEPT ![cur[h]] = @ \cup {"lost"}]
    /\ Unlock(cur[h])
    /\ Return(h)
    /\ UNCHANGED <<created, expected, uploaded, table, done, diskVars, rows, crashes>>

-----------------------------------------------------------------------------
(* DELETE /upload/:session_id *)

AbortBegin(h, s) ==
    /\ pc[h] = "idle" /\ TableFree
    /\ s \in table
    /\ Goto(h, "abortlock")
    /\ cur' = [cur EXCEPT ![h] = s]
    /\ UNCHANGED <<memVars, diskVars, dbVars, req, loc, crashes, cause>>

\* sess.Mu is taken only to read TempFilePath, and released.
AbortLock(h) ==
    /\ pc[h] = "abortlock"
    /\ mu[cur[h]] = Free
    /\ Goto(h, "abortdel")
    /\ UNCHANGED <<memVars, diskVars, dbVars, cur, req, loc, crashes, cause>>

AbortDelete(h) ==
    /\ pc[h] = "abortdel"
    /\ DeleteSession(cur[h], loc)
    /\ Goto(h, "abortrm")
    /\ UNCHANGED <<created, expected, uploaded, mu, done, dbVars, cur, req, crashes>>

\* completedSessions.Delete and the second os.Remove(tempPath).
AbortRemove(h) ==
    /\ pc[h] = "abortrm"
    /\ done' = done \ {cur[h]}
    /\ UnlinkTemps({cur[h]}, [loc EXCEPT ![h] = NoLoc])
    /\ Goto(h, "idle")
    /\ cur' = [cur EXCEPT ![h] = NoSession]
    /\ req' = [req EXCEPT ![h] = NoReq]
    /\ UNCHANGED <<created, expected, uploaded, table, mu, meta, dbVars, crashes>>

-----------------------------------------------------------------------------
(* Background jobs, purge, crash *)

\* CleanupStaleSessions: any session may have been inactive for 24 hours.
Reap(s) ==
    /\ s \in table
    /\ DeleteSession(s, loc)
    /\ UNCHANGED <<created, expected, uploaded, mu, done, dbVars, pc, cur, req, crashes>>

\* PurgeAllSessions: the table, every temporary and metadata file, the markers.
PurgeAll ==
    /\ TableFree
    /\ table # {} \/ onDisk # {} \/ done # {}
    /\ table' = {}
    /\ done' = {}
    /\ UnlinkTemps(Sessions, loc)
    /\ RemoveMeta(Sessions)
    /\ UNCHANGED <<created, expected, uploaded, mu, dbVars, pc, cur, req, crashes>>

\* GetStatus and PruneCompletedSessions forget a completed session.
ForgetCompleted(s) ==
    /\ s \in done
    /\ done' = done \ {s}
    /\ UNCHANGED <<created, expected, uploaded, table, mu, diskVars, dbVars,
                   hVars, crashes, cause>>

\* Mutant: the error of json.Unmarshal is ignored.
BugRestoreTorn(s, m) == s \in onDisk /\ m # NoMeta

\* NewSessionManager restores a session if its metadata parses and its file exists.
Restorable(s, m) == s \in onDisk /\ m >= 0

(***************************************************************************)
(* The process dies and NewSessionManager restores the sessions whose      *)
(* metadata parses and whose temporary file exists.  os.WriteFile          *)
(* truncates before it writes, so a metadata file being written may be     *)
(* left torn; a torn file is skipped and both files stay, as does a        *)
(* temporary file without metadata.  Metadata whose temporary file is      *)
(* missing is removed.                                                     *)
(***************************************************************************)
Persisting(s) == \E h \in Handlers : pc[h] \in {"create", "persist", "resume"} /\ cur[h] = s

Crash(torn) ==
    LET onRestart == [s \in Sessions |-> IF s \in torn THEN TornMeta ELSE meta[s]]
        restored  == {s \in Sessions : Restorable(s, onRestart[s])}
    IN
    /\ crashes < MaxCrashes
    /\ \A s \in torn : Persisting(s)
    /\ crashes' = crashes + 1
    /\ table' = restored
    /\ uploaded' = [s \in Sessions |-> IF s \in restored THEN onRestart[s] ELSE uploaded[s]]
    /\ meta' = [s \in Sessions |-> IF s \notin onDisk /\ onRestart[s] >= 0
                                   THEN NoMeta ELSE onRestart[s]]
    /\ mu'  = [s \in Sessions |-> Free]
    /\ done' = {}
    /\ pc'  = [h \in Handlers |-> "idle"]
    /\ cur' = [h \in Handlers |-> NoSession]
    /\ req' = [h \in Handlers |-> NoReq]
    /\ loc' = [h \in Handlers |-> NoLoc]
    /\ Strike({s \in onDisk : onRestart[s] # Len(temp[s])}, "crash")
    /\ UNCHANGED <<created, expected, onDisk, temp, dbVars>>

-----------------------------------------------------------------------------
HandlerStep(h) ==
    \/ FindNone(h) \/ CreateFile(h) \/ CreateSession(h) \/ CreateSessionFails(h)
    \/ ResumeRead(h) \/ ResumePersist(h)
    \/ ChunkTurnedAway(h) \/ ChunkLock(h) \/ ChunkRefused(h)
    \/ ChunkCopy(h) \/ ChunkFlushFails(h) \/ ChunkUndo(h) \/ ChunkCommit(h) \/ ChunkPersist(h)
    \/ MoveToCAS(h) \/ MoveToCASFails(h) \/ ChunkDone(h)
    \/ InsertRow(h) \/ InsertFails(h)
    \/ AbortLock(h) \/ AbortDelete(h) \/ AbortRemove(h)

Request(h) ==
    \/ \E size \in Sizes : InitCheck(h, size)
    \/ \E s \in Sessions, first \in 0..MaxOffset, len \in 0..MaxChunk,
          ranged \in BOOLEAN : ChunkBegin(h, s, first, len, ranged)
    \/ \E s \in Sessions : AbortBegin(h, s)

Environment ==
    \/ \E s \in Sessions : Reap(s) \/ ForgetCompleted(s)
    \/ PurgeAll
    \/ \E torn \in SUBSET Sessions : Crash(torn)

Next == (\E h \in Handlers : Request(h) \/ HandlerStep(h)) \/ Environment

Spec == Init /\ [][Next]_vars

(***************************************************************************)
(* Every handler keeps running, except that one reading the body waits for *)
(* its client: the server sets no ReadTimeout.  sync.Mutex hands the lock  *)
(* to a waiter that has been passed over for a millisecond, so a handler   *)
(* waiting for sess.Mu gets it if it is free again and again.              *)
(***************************************************************************)
AwaitsClient(h) == pc[h] = "copy" /\ ~ MustRefuse(cur[h], req[h].len)

Fairness ==
    \A h \in Handlers :
        /\ WF_vars(HandlerStep(h) /\ ~ AwaitsClient(h))
        /\ SF_vars(ChunkLock(h) \/ ChunkTurnedAway(h) \/ AbortLock(h))

FairSpec == Spec /\ Fairness

-----------------------------------------------------------------------------
Row     == [id : Nat, sess : Sessions, size : Nat, bytes : Seq(Nat)]
ChunkRequest == [first : Nat, len : Nat, ranged : BOOLEAN]
Locals  == [wrote : Nat, ok : BOOLEAN, base : Nat, linked : BOOLEAN, snap : Nat,
            bytes : Seq(Nat), existed : BOOLEAN]

\* Every variable has the shape its Go counterpart has.
TypeOK ==
    /\ created \subseteq Sessions
    /\ table \subseteq created
    /\ onDisk \subseteq created
    /\ done \subseteq created
    /\ expected \in [Sessions -> Nat]
    /\ uploaded \in [Sessions -> Nat]
    /\ mu \in [Sessions -> Handlers \cup {Free}]
    /\ temp \in [Sessions -> Seq(Nat)]
    /\ meta \in [Sessions -> Nat \cup {NoMeta, TornMeta}]
    /\ blobs \subseteq Seq(Nat)
    /\ rows \subseteq Row
    /\ pc \in [Handlers -> PCs]
    /\ cur \in [Handlers -> created \cup {NoSession}]
    /\ req \in [Handlers -> ChunkRequest]
    /\ loc \in [Handlers -> Locals]
    /\ crashes \in 0..MaxCrashes
    /\ cause \in [Sessions -> SUBSET Causes]

(***************************************************************************)
(* UploadChunk records a file only with exactly the bytes the client sent, *)
(* in order and each once, whatever retries, failed transfers, aborts,     *)
(* reaping, purges and crashes happened, unless one of the causes above    *)
(* struck the session (lines 362-541 of upload_controller.go).             *)
(***************************************************************************)
RowsIntact ==
    \A r \in rows : cause[r.sess] = {} => r.bytes = Plain(r.size) /\ r.size = expected[r.sess]

(***************************************************************************)
(* One upload session yields at most one row of the files table: a retried *)
(* last chunk never records the file twice, unless it was accepted through *)
(* a stale pointer or after a restart that lost track of the file.         *)
(***************************************************************************)
OneRowPerUpload ==
    \A r1, r2 \in rows : r1.sess = r2.sess /\ cause[r1.sess] = {} => r1 = r2

(***************************************************************************)
(* UploadController implements UploadTable: seen from the files table an   *)
(* upload is one step.  The row appears at once, whole and only once, from *)
(* a session that was opened with its size, and is never changed; a cause  *)
(* strikes open sessions only and stays with the session it struck.        *)
(***************************************************************************)
Table == INSTANCE UploadTable WITH open <- created, size <- expected

ImplementsTable == Table!Spec

(***************************************************************************)
(* Whenever no request is working on a session, the offset that GetStatus, *)
(* InitSession and the 409 answer tell the client is the length of the     *)
(* temporary file, so that the client continues at the right byte.         *)
(***************************************************************************)
OffsetMatchesFile ==
    \A s \in table :
        mu[s] = Free /\ cause[s] = {} => s \in onDisk /\ Len(temp[s]) = uploaded[s]

(***************************************************************************)
(* A temporary file without a session in the table, which nothing but      *)
(* PurgeAll would ever remove, exists only while CreateSession is running, *)
(* where a crash struck between the file and its metadata, where a stale   *)
(* pointer re-created it or where the disk refused to remove it            *)
(* (DeleteSession, CleanupStaleSessions, NewSessionManager).               *)
(***************************************************************************)
NoTempLeak ==
    \A s \in onDisk \ table :
        cause[s] # {} \/ \E h \in Handlers : pc[h] = "create" /\ cur[h] = s

(***************************************************************************)
(* What NewSessionManager's comment promises: half-uploaded files survive  *)
(* server restarts, so a session that only crashes have struck still ends  *)
(* in the client's bytes.                                                  *)
(***************************************************************************)
UploadsSurviveRestart ==
    \A r \in rows : cause[r.sess] \subseteq {"crash"} => r.bytes = Plain(r.size)

(***************************************************************************)
(* A retry is told "upload already completed" by completedSessions, which  *)
(* is filled before the row is inserted.  What it is told is true, or will *)
(* be: the row is there or its INSERT is under way, unless that INSERT     *)
(* failed - then the client is told so for a file that does not exist.     *)
(***************************************************************************)
CompletedIsRecorded ==
    \A s \in done :
        \/ \E r \in rows : r.sess = s
        \/ \E h \in Handlers : pc[h] = "insert" /\ cur[h] = s
        \/ "lost" \in cause[s]

\* The body of some chunk of session s is being read, under sess.Mu.
Reading(s) == \E g \in Handlers : cur[g] = s /\ AwaitsClient(g)

(***************************************************************************)
(* Every request returns, since every path through UploadChunk and         *)
(* AbortSession releases sess.Mu - except the requests to a session whose  *)
(* client stalls in the middle of a body for ever: nothing ends that read  *)
(* (upload_controller.go:471), and everyone else waits for sess.Mu.        *)
(***************************************************************************)
RequestsReturn ==
    \A h \in Handlers :
        \/ [](pc[h] # "idle" => <>(pc[h] = "idle"))
        \/ \E s \in Sessions : <>[](cur[h] = s /\ Reading(s))
=============================================================================
