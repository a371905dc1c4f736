----------------------------- MODULE FileStore -----------------------------
(***************************************************************************)
(* Rows of the files table and the blobs they refer to.                    *)
(*                                                                         *)
(* internal/storage/cas.go keeps encrypted contents under their hash, with *)
(* an in-memory cache of the hashes known to exist.  Encryption is         *)
(* convergent, so equal contents share a blob.  Uploads, downloads, moves  *)
(* into or out of the vault and proofs of ownership add references;        *)
(* permanent deletion, emptying the trash, the clean-up after a failed     *)
(* INSERT and the panic purge take blobs away.  The two sides share        *)
(* nothing but the database and the directory: no lock spans the check for *)
(* a blob and the row that relies on it, or the reference count and the    *)
(* removal that relies on it.                                              *)
(*                                                                         *)
(* Each handler is a goroutine; a step is one database statement, one file *)
(* system call or one access to the cache.                                 *)
(***************************************************************************)
EXTENDS Naturals, FiniteSets

CONSTANTS
    Handlers,     \* goroutines
    Hashes,       \* cas_hash values
    NoHash,       \* no row, no challenge
    Files,        \* ids of the rows that may be inserted
    NoFile,       \* a handler that works on no existing row
    Nonces,       \* challenge nonces that may be issued
    MayPurge,     \* TRUE: the panic purge may be triggered
    Faults,       \* what may fail, see below
    Seeds,        \* hashes of the rows inserted into an empty database
    MayCrash      \* TRUE: the process may die, again and again

ASSUME StoreConstants ==
    /\ NoHash \notin Hashes
    /\ NoFile \notin Files
    /\ MayPurge \in BOOLEAN
    /\ Faults \subseteq {"write", "count", "device", "remove"}
    /\ Seeds \subseteq Hashes
    /\ MayCrash \in BOOLEAN

(***************************************************************************)
(* Faults: "write" and "count" are failing INSERTs, UPDATEs and DELETEs,   *)
(* and failing counts of references; "device" means that the temporary and *)
(* the CAS directory are on different file systems, so that a blob is      *)
(* copied and not renamed; "remove" is a failing os.Remove.                *)
(***************************************************************************)

VARIABLES
    ref,        \* files.cas_hash, NoHash where there is no row
    trashed,    \* rows with is_deleted
    blobs,      \* hashes in the CAS directory
    cache,      \* CASEngine.existCache
    challenge,  \* powStore: nonce to hash
    pc,         \* where each handler stands
    op,         \* its operation and local variables
    endangered, \* history: hashes that may lose their blob, see below
    littered    \* history: hashes that may keep an unused blob, see below

dbVars    == <<ref, trashed>>
casVars   == <<blobs, cache>>
history   == <<endangered, littered>>
vars      == <<dbVars, casVars, challenge, pc, op, history>>

(***************************************************************************)
(* Two history variables collect the hashes for which the code no longer   *)
(* keeps blob and rows together.  A hash becomes endangered when           *)
(*   - an operation that removes rows or blobs overlaps another operation  *)
(*     on it;                                                              *)
(*   - an upload whose INSERT failed removes its blob while another        *)
(*     handler works on the hash or a row refers to it;                    *)
(*   - a download whose INSERT failed removes its blob but leaves the      *)
(*     cache entry;                                                        *)
(*   - the copy of its blob to another file system fails after another     *)
(*     handler or the cache has taken the partial blob for the whole one,  *)
(*     or cannot be taken back, or the process dies during the copy;       *)
(*   - the query that counts references fails;                             *)
(*   - the process dies in the middle of a panic purge, the purge leaves   *)
(*     an overwritten blob behind, or its DELETE fails;                    *)
(*   - it is the hash of a row SeedInitialData inserts without any blob.   *)
(* It becomes littered when a move takes a reference away, a move fails, a *)
(* deletion finds that a move has changed the hash it read before, a row   *)
(* goes without anybody looking at its blob, os.Remove fails, or the       *)
(* process dies while a handler works on it.                               *)
(***************************************************************************)
PCs == {"idle", "exists", "stat", "fill", "issue", "open", "rename", "copy", "cache",
        "record", "delrow", "gc", "remove", "invalidate",
        "shred", "clear", "wipe"}

Stores == {"upload", "download", "move"}
Kinds  == Stores \cup {"none", "init", "pow", "delete", "purge"}

NoOp == [kind |-> "none", hash |-> NoHash, file |-> NoFile, existed |-> FALSE,
         nonce |-> NoHash, todo |-> {}]

Rows == {f \in Files : ref[f] # NoHash}

Referenced(k) == \E f \in Files : ref[f] = k

\* SeedInitialData: the first start finds no users and inserts some rows.
Init ==
    /\ ref \in [Files -> Seeds \cup {NoHash}]
    /\ trashed = {} /\ blobs = {} /\ cache = {}
    /\ challenge = [n \in Nonces |-> NoHash]
    /\ pc = [h \in Handlers |-> "idle"]
    /\ op = [h \in Handlers |-> NoOp]
    /\ endangered = {ref[f] : f \in Rows} /\ littered = {}

-----------------------------------------------------------------------------
Goto(h, p) == pc' = [pc EXCEPT ![h] = p]

Return(h) == Goto(h, "idle") /\ op' = [op EXCEPT ![h] = NoOp]

\* Handler h may remove a blob: it deletes, purges, or cleans up after its INSERT.
Collecting(h) == op[h].kind \in {"delete", "purge"} \/ pc[h] \in {"remove", "invalidate"}

\* The hashes handler h is working on.
Busy(h) ==
    IF op[h].kind = "purge" THEN Hashes
    ELSE (op[h].todo \cup {op[h].hash}) \ {NoHash}

BusyOthers(h) == UNION {Busy(g) : g \in Handlers \ {h}}

\* Handler h begins operation o, which works on the hashes K.
Begin(h, p, o, K) ==
    /\ pc[h] = "idle"
    /\ Goto(h, p)
    /\ op' = [op EXCEPT ![h] = o]
    /\ endangered' = endangered \cup
          (K \cap UNION {Busy(g) : g \in {g \in Handlers \ {h} :
                                       Collecting(g) \/ o.kind \in {"delete", "purge"}}})
    /\ UNCHANGED littered

-----------------------------------------------------------------------------
(* Adding references *)

\* An upload or a download hands its finished temporary file to MoveToCAS.
StoreBegin(h, kind, k) ==
    /\ Begin(h, "exists", [NoOp EXCEPT !.kind = kind, !.hash = k], {k})
    /\ UNCHANGED <<dbVars, casVars, challenge>>

(***************************************************************************)
(* MoveFile and MoveFilesBatch.  Within one domain the hash read first is  *)
(* written back; across the vault boundary the blob is encrypted anew, so  *)
(* that it gets another hash.                                              *)
(***************************************************************************)
MoveWithin(h, f) ==
    /\ f \in Rows \ trashed
    /\ Begin(h, "record", [NoOp EXCEPT !.kind = "move", !.hash = ref[f], !.file = f],
             {ref[f]})
    /\ UNCHANGED <<dbVars, casVars, challenge>>

MoveAcross(h, f, k) ==
    /\ f \in Rows \ trashed
    /\ k # ref[f] /\ ref[f] \in blobs
    /\ Begin(h, "exists", [NoOp EXCEPT !.kind = "move", !.hash = k, !.file = f], {k})
    /\ UNCHANGED <<dbVars, casVars, challenge>>

\* InitSession with a cas_hash looks for the blob to offer a challenge.
InitBegin(h, k) ==
    /\ Begin(h, "exists", [NoOp EXCEPT !.kind = "init", !.hash = k], {k})
    /\ UNCHANGED <<dbVars, casVars, challenge>>

\* VerifyProofOfOwnership: GetPoWChallenge finds the nonce.
VerifyBegin(h, n) ==
    /\ challenge[n] # NoHash
    /\ Begin(h, "exists", [NoOp EXCEPT !.kind = "pow", !.hash = challenge[n], !.nonce = n],
             {challenge[n]})
    /\ UNCHANGED <<dbVars, casVars, challenge>>

\* What the caller of Exists does when it answers TRUE.
Found(h) ==
    CASE op[h].kind = "init" -> Goto(h, "issue") /\ UNCHANGED op
      [] op[h].kind = "pow"  -> Goto(h, "open") /\ UNCHANGED op
      [] OTHER -> Goto(h, "record") /\ op' = [op EXCEPT ![h].existed = TRUE]

\* CASEngine.Exists: the cache, then os.Stat, then the cache is filled.
ExistsCached(h) ==
    /\ pc[h] = "exists"
    /\ IF op[h].hash \in cache THEN Found(h) ELSE Goto(h, "stat") /\ UNCHANGED op
    /\ UNCHANGED <<dbVars, casVars, challenge, history>>

ExistsStat(h) ==
    /\ pc[h] = "stat"
    /\ IF op[h].hash \in blobs THEN Goto(h, "fill") /\ UNCHANGED op
       ELSE IF op[h].kind \in Stores THEN Goto(h, "rename") /\ UNCHANGED op
       ELSE Return(h)
    /\ UNCHANGED <<dbVars, casVars, challenge, history>>

ExistsFill(h) ==
    /\ pc[h] = "fill"
    /\ cache' = cache \cup {op[h].hash}
    /\ Found(h)
    /\ UNCHANGED <<dbVars, blobs, challenge, history>>

\* MoveToCASWithStatus: os.Rename, then existCache.Store.
Rename(h) ==
    /\ pc[h] = "rename"
    /\ blobs' = blobs \cup {op[h].hash}
    /\ Goto(h, "cache")
    /\ UNCHANGED <<dbVars, cache, challenge, op, history>>

\* MkdirAll, or os.Rename and then os.Open or os.Create, fails.
RenameFails(h) ==
    /\ pc[h] = "rename"
    /\ Return(h)
    /\ UNCHANGED <<dbVars, casVars, challenge, history>>

(***************************************************************************)
(* Across file systems os.Rename fails and the blob is created under its   *)
(* final name, where Exists sees it, before the contents are copied.       *)
(***************************************************************************)
CopyBegin(h) ==
    /\ pc[h] = "rename"
    /\ "device" \in Faults
    /\ blobs' = blobs \cup {op[h].hash}
    /\ Goto(h, "copy")
    /\ UNCHANGED <<dbVars, cache, challenge, op, history>>

CopyDone(h) ==
    /\ pc[h] = "copy"
    /\ Goto(h, "cache")
    /\ UNCHANGED <<dbVars, casVars, challenge, op, history>>

\* os.Remove takes blob k away, or fails and its error is dropped.
Removes(k) == blobs' = blobs \ {k} \/ ("remove" \in Faults /\ UNCHANGED blobs)

\* io.Copy fails: the partial blob is removed, the cache is left as it is.
CopyFails(h) ==
    LET k == op[h].hash IN
    /\ pc[h] = "copy"
    /\ Removes(k)
    /\ endangered' = endangered \cup
          (IF k \in BusyOthers(h) \cup cache \cup blobs' \/ Referenced(k) THEN {k} ELSE {})
    /\ Return(h)
    /\ UNCHANGED <<dbVars, cache, challenge, littered>>

CacheStore(h) ==
    /\ pc[h] = "cache"
    /\ cache' = cache \cup {op[h].hash}
    /\ Goto(h, "record")
    /\ UNCHANGED <<dbVars, blobs, challenge, op, history>>

\* GeneratePoWChallenge
IssueChallenge(h, n) ==
    /\ pc[h] = "issue"
    /\ challenge[n] = NoHash
    /\ challenge' = [challenge EXCEPT ![n] = op[h].hash]
    /\ Return(h)
    /\ UNCHANGED <<dbVars, casVars, history>>

\* GeneratePoWChallenge fails, or the encryption domains differ.
IssueFails(h) ==
    /\ pc[h] = "issue"
    /\ Return(h)
    /\ UNCHANGED <<dbVars, casVars, challenge, history>>

\* The blob is opened and the proof compared; then the challenge is deleted.
VerifyOpen(h) ==
    /\ pc[h] = "open"
    /\ op[h].hash \in blobs
    /\ challenge' = [challenge EXCEPT ![op[h].nonce] = NoHash]
    /\ Goto(h, "record")
    /\ UNCHANGED <<dbVars, casVars, op, history>>

\* os.Open fails or the proof is wrong; the challenge stays.
VerifyFails(h) ==
    /\ pc[h] = "open"
    /\ Return(h)
    /\ UNCHANGED <<dbVars, casVars, challenge, history>>

ChallengeExpires(n) ==
    /\ challenge[n] # NoHash
    /\ challenge' = [challenge EXCEPT ![n] = NoHash]
    /\ UNCHANGED <<dbVars, casVars, pc, op, history>>

(***************************************************************************)
(* Ids of rows carry random bits and are never given twice.  An id without *)
(* a row that no handler remembers is as good as a new one.                *)
(***************************************************************************)
Unused(f) == f \notin Rows /\ \A h \in Handlers : op[h].file # f

Insert(h, f) ==
    /\ pc[h] = "record"
    /\ op[h].kind # "move"
    /\ Unused(f)
    /\ ref' = [ref EXCEPT ![f] = op[h].hash]
    /\ Return(h)
    /\ UNCHANGED <<trashed, casVars, challenge, history>>

\* The clean-up after a failed INSERT takes away a blob the upload brought.
Undoes(o) == o.kind = "upload" /\ ~ o.existed

InsertFails(h) ==
    LET o == op[h] IN
    /\ pc[h] = "record"
    /\ o.kind \in {"upload", "pow"}
    /\ "write" \in Faults
    /\ IF Undoes(o)
       THEN /\ Goto(h, "remove")
            /\ op' = [op EXCEPT ![h].todo = {o.hash}]
            /\ endangered' = IF o.hash \in BusyOthers(h) \/ Referenced(o.hash)
                             THEN endangered \cup {o.hash} ELSE endangered
       ELSE Return(h) /\ UNCHANGED endangered
    /\ UNCHANGED <<dbVars, casVars, challenge, littered>>

\* The download manager removes the blob and leaves the cache as it is.
DownloadInsertFails(h) ==
    LET o == op[h] IN
    /\ pc[h] = "record"
    /\ o.kind = "download"
    /\ "write" \in Faults
    /\ IF o.existed THEN UNCHANGED <<blobs, endangered>>
       ELSE Removes(o.hash) /\ endangered' = endangered \cup {o.hash}
    /\ Return(h)
    /\ UNCHANGED <<dbVars, cache, challenge, littered>>

\* UPDATE files SET folder_id, cas_hash WHERE id: no effect if the row is gone.
MoveUpdate(h) ==
    LET o == op[h] IN
    /\ pc[h] = "record"
    /\ o.kind = "move"
    /\ ref' = IF o.file \in Rows THEN [ref EXCEPT ![o.file] = o.hash] ELSE ref
    /\ littered' = littered \cup
          (IF o.file \in Rows THEN {ref[o.file]} \ {o.hash} ELSE {o.hash})
    /\ Return(h)
    /\ UNCHANGED <<trashed, casVars, challenge, endangered>>

\* The UPDATE fails; a blob made for it stays.
MoveFails(h) ==
    /\ pc[h] = "record"
    /\ op[h].kind = "move"
    /\ "write" \in Faults
    /\ littered' = littered \cup {op[h].hash}
    /\ Return(h)
    /\ UNCHANGED <<dbVars, casVars, challenge, endangered>>

-----------------------------------------------------------------------------
(* Taking references away *)

\* DeleteFile without permanent, and DeleteFolder: rows go to the trash.
Trash(F) ==
    /\ F # {} /\ F \subseteq Rows \ trashed
    /\ trashed' = trashed \cup F
    /\ UNCHANGED <<ref, casVars, challenge, pc, op, history>>

RestoreFile(f) ==
    /\ f \in trashed
    /\ trashed' = trashed \ {f}
    /\ UNCHANGED <<ref, casVars, challenge, pc, op, history>>

(***************************************************************************)
(* Rows go and nobody looks at their blobs: DeleteFolder deletes a folder  *)
(* into which rows or folders came after it had listed the subfolders and  *)
(* moved the rows to the trash, and ON DELETE CASCADE removes them; or     *)
(* DeleteFile could not read cas_hash, ignored that and deleted the row.   *)
(***************************************************************************)
DropRows(F) ==
    /\ F # {} /\ F \subseteq Rows
    /\ ref' = [f \in Files |-> IF f \in F THEN NoHash ELSE ref[f]]
    /\ trashed' = trashed \ F
    /\ littered' = littered \cup {ref[f] : f \in F}
    /\ UNCHANGED <<casVars, challenge, pc, op, endangered>>

\* DeleteFile with permanent: SELECT cas_hash, then DELETE.
DeleteBegin(h, f) ==
    /\ f \in Rows
    /\ Begin(h, "delrow", [NoOp EXCEPT !.kind = "delete", !.hash = ref[f], !.file = f],
             {ref[f]})
    /\ UNCHANGED <<dbVars, casVars, challenge>>

DeleteRow(h) ==
    LET o == op[h] IN
    /\ pc[h] = "delrow"
    /\ IF o.file \in Rows
       THEN /\ ref' = [ref EXCEPT ![o.file] = NoHash]
            /\ trashed' = trashed \ {o.file}
            /\ op' = [op EXCEPT ![h].todo = {o.hash}]
            /\ Goto(h, "gc")
            /\ littered' = littered \cup ({ref[o.file]} \ {o.hash})
       ELSE Return(h) /\ UNCHANGED <<ref, trashed, littered>>
    /\ UNCHANGED <<casVars, challenge, endangered>>

\* DELETE fails, and nothing else happens.
DeleteFails(h) ==
    /\ pc[h] = "delrow"
    /\ "write" \in Faults
    /\ Return(h)
    /\ UNCHANGED <<dbVars, casVars, challenge, history>>

(***************************************************************************)
(* EmptyTrash: one transaction reads the hashes and deletes the rows T,    *)
(* which are all trashed rows, or those outside a locked vault.            *)
(***************************************************************************)
EmptyTrash(h, T) ==
    LET hashes == {ref[f] : f \in T} IN
    /\ T # {} /\ T \subseteq trashed
    /\ Begin(h, "gc", [NoOp EXCEPT !.kind = "delete", !.todo = hashes], hashes)
    /\ ref' = [f \in Files |-> IF f \in T THEN NoHash ELSE ref[f]]
    /\ trashed' = trashed \ T
    /\ UNCHANGED <<casVars, challenge>>

\* Mutant: only the rows that are not in the trash are counted.
BugCountLive(k) == \A f \in Files \ trashed : ref[f] # k

\* SELECT COUNT(*) FROM files WHERE cas_hash = k: trashed rows count.
CountIsZero(k) == ~ Referenced(k)

\* The loop over the hashes whose rows were deleted ends when none is left.
GcDone(h, left) ==
    IF left = {} THEN Return(h)
    ELSE Goto(h, "gc") /\ op' = [op EXCEPT ![h].todo = left, ![h].hash = NoHash]

GcCount(h, k) ==
    /\ pc[h] = "gc"
    /\ k \in op[h].todo
    /\ IF CountIsZero(k)
       THEN Goto(h, "remove") /\ op' = [op EXCEPT ![h].hash = k]
       ELSE GcDone(h, op[h].todo \ {k})
    /\ UNCHANGED <<dbVars, casVars, challenge, history>>

\* The query fails; its error is dropped and the count stays 0.
GcCountFails(h, k) ==
    /\ pc[h] = "gc"
    /\ k \in op[h].todo
    /\ Goto(h, "remove")
    /\ op' = [op EXCEPT ![h].hash = k]
    /\ "count" \in Faults
    /\ endangered' = endangered \cup {k}
    /\ UNCHANGED <<dbVars, casVars, challenge, littered>>

\* Mutant: the blob stays.
BugKeepBlob(k) == UNCHANGED <<blobs, littered>>

\* Where os.Remove fails the blob stays, unused.
RemoveBlob(k) ==
    /\ Removes(k)
    /\ littered' = littered \cup ({k} \cap blobs')

\* os.Remove, then Invalidate.
GcRemove(h) ==
    /\ pc[h] = "remove"
    /\ RemoveBlob(op[h].hash)
    /\ Goto(h, "invalidate")
    /\ UNCHANGED <<dbVars, cache, challenge, op, endangered>>

\* Mutant: the cache entry stays.
BugKeepCached(k) == UNCHANGED cache

Invalidate(k) == cache' = cache \ {k}

GcInvalidate(h) ==
    /\ pc[h] = "invalidate"
    /\ Invalidate(op[h].hash)
    /\ GcDone(h, op[h].todo \ {op[h].hash})
    /\ UNCHANGED <<dbVars, blobs, challenge, history>>

-----------------------------------------------------------------------------
(* Panic purge, crash *)

PurgeBegin(h) ==
    /\ MayPurge
    /\ Begin(h, "shred", [NoOp EXCEPT !.kind = "purge"], Hashes)
    /\ UNCHANGED <<dbVars, casVars, challenge>>

\* Every blob is overwritten, cut to length 0 and removed; one whose removal fails stays.
PurgeShred(h) ==
    /\ pc[h] = "shred"
    /\ blobs' \in IF "remove" \in Faults THEN SUBSET blobs ELSE {{}}
    /\ endangered' = endangered \cup blobs'
    /\ Goto(h, "clear")
    /\ UNCHANGED <<dbVars, cache, challenge, op, littered>>

PurgeClearCache(h) ==
    /\ pc[h] = "clear"
    /\ cache' = {}
    /\ Goto(h, "wipe")
    /\ UNCHANGED <<dbVars, blobs, challenge, op, history>>

PurgeRows(h) ==
    /\ pc[h] = "wipe"
    /\ ref' = [f \in Files |-> NoHash]
    /\ trashed' = {}
    /\ Return(h)
    /\ UNCHANGED <<casVars, challenge, history>>

\* DELETE FROM files fails, its error is dropped, and the rows stay.
PurgeRowsFails(h) ==
    /\ pc[h] = "wipe"
    /\ "write" \in Faults
    /\ endangered' = Hashes
    /\ Return(h)
    /\ UNCHANGED <<dbVars, casVars, challenge, littered>>

Purging == \E h \in Handlers : op[h].kind = "purge"

\* The process dies and is started again: the cache and the challenges are gone.
Crash ==
    /\ MayCrash
    /\ cache' = {}
    /\ challenge' = [n \in Nonces |-> NoHash]
    /\ pc' = [h \in Handlers |-> "idle"]
    /\ op' = [h \in Handlers |-> NoOp]
    /\ littered' = littered \cup UNION {Busy(h) : h \in Handlers}
    /\ endangered' = IF Purging THEN Hashes
                     ELSE endangered \cup {op[h].hash : h \in {g \in Handlers : pc[g] = "copy"}}
    /\ UNCHANGED <<dbVars, blobs>>

-----------------------------------------------------------------------------
Request(h) ==
    \/ \E k \in Hashes : InitBegin(h, k) \/ (\E kind \in {"upload", "download"} : StoreBegin(h, kind, k))
    \/ \E f \in Files : MoveWithin(h, f) \/ DeleteBegin(h, f) \/ (\E k \in Hashes : MoveAcross(h, f, k))
    \/ \E n \in Nonces : VerifyBegin(h, n)
    \/ \E T \in SUBSET Files : EmptyTrash(h, T)
    \/ PurgeBegin(h)

HandlerStep(h) ==
    \/ ExistsCached(h) \/ ExistsStat(h) \/ ExistsFill(h)
    \/ Rename(h) \/ RenameFails(h) \/ CopyBegin(h) \/ CopyDone(h) \/ CopyFails(h) \/ CacheStore(h)
    \/ (\E n \in Nonces : IssueChallenge(h, n)) \/ IssueFails(h)
    \/ VerifyOpen(h) \/ VerifyFails(h)
    \/ (\E f \in Files : Insert(h, f)) \/ InsertFails(h) \/ DownloadInsertFails(h)
    \/ MoveUpdate(h) \/ MoveFails(h)
    \/ DeleteRow(h) \/ DeleteFails(h)
    \/ (\E k \in Hashes : GcCount(h, k) \/ GcCountFails(h, k))
    \/ GcRemove(h) \/ GcInvalidate(h)
    \/ PurgeShred(h) \/ PurgeClearCache(h) \/ PurgeRows(h) \/ PurgeRowsFails(h)

Environment ==
    \/ \E F \in SUBSET Files : Trash(F) \/ DropRows(F)
    \/ \E f \in Files : RestoreFile(f)
    \/ \E n \in Nonces : ChallengeExpires(n)
    \/ Crash

Next == (\E h \in Handlers : Request(h) \/ HandlerStep(h)) \/ Environment

Spec == Init /\ [][Next]_vars

-----------------------------------------------------------------------------
Operation == [kind : Kinds, hash : Hashes \cup {NoHash}, file : Files \cup {NoFile},
              existed : BOOLEAN, nonce : Nonces \cup {NoHash}, todo : SUBSET Hashes]

\* Every variable has the shape its Go counterpart has.
TypeOK ==
    /\ ref \in [Files -> Hashes \cup {NoHash}]
    /\ trashed \subseteq Rows
    /\ blobs \subseteq Hashes
    /\ cache \subseteq Hashes
    /\ challenge \in [Nonces -> Hashes \cup {NoHash}]
    /\ pc \in [Handlers -> PCs]
    /\ op \in [Handlers -> Operation]
    /\ \A h \in Handlers :
          (pc[h] = "idle" <=> op[h] = NoOp) /\ (pc[h] = "gc" => op[h].todo # {})
    /\ endangered \subseteq Hashes
    /\ littered \subseteq Hashes

(***************************************************************************)
(* Every row of the files table, trashed or not, has its blob: neither the *)
(* deletion of another row with the same hash, nor emptying the trash, nor *)
(* the clean-up after a failed upload takes it away, however operations on *)
(* other contents interleave, unless one of the listed races or failures   *)
(* met this very content.  A blob counts as there while it is being        *)
(* copied.                                                                 *)
(***************************************************************************)
RowsHaveBlobs ==
    \A f \in Rows : ref[f] \in blobs \cup endangered \/ Purging

\* No handler is working on k.
Quiet(k) == \A h \in Handlers : k \notin Busy(h)

(***************************************************************************)
(* Once nobody works on a hash, the existence cache does not claim a blob  *)
(* that is gone: Exists then never sends an upload to a missing blob.      *)
(***************************************************************************)
CacheCoherent ==
    \A k \in Hashes : Quiet(k) /\ k \in cache => k \in blobs \cup endangered

(***************************************************************************)
(* Once nobody works on a hash, its blob has a row: permanent deletion and *)
(* emptying the trash free the disk space of the last reference, unless a  *)
(* crash, a move across the vault boundary, a cascade, a failing os.Remove *)
(* or a race came in between.                                              *)
(***************************************************************************)
NoOrphanBlobs ==
    \A k \in Hashes :
        Quiet(k) /\ k \in blobs => Referenced(k) \/ k \in endangered \cup littered

(***************************************************************************)
(* What the comment in MoveToCASWithStatus says of a deduplicated upload:  *)
(* the blob exists, so the temporary file may safely be deleted.  Then     *)
(* every row has a blob.  Checked without crashes, purges and failing      *)
(* statements.                                                             *)
(***************************************************************************)
DedupIsSafe == \A f \in Rows : ref[f] \in blobs
=============================================================================
