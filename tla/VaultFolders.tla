---------------------------- MODULE VaultFolders ----------------------------
(***************************************************************************)
(* Folders, the vault and its key.  A file lives in a folder or at the     *)
(* root; folders under the vault folder "f2" hold content encrypted with   *)
(* the vault key, all others content encrypted with the standard storage   *)
(* key.  Which of the two a request uses is decided by IsVaultFolder, from *)
(* a cache of the vault's folder ids (internal/controllers/                *)
(* file_controller.go), and the vault key itself is a byte slice that      *)
(* internal/auth/session.go keeps per session, hands out without copying   *)
(* and overwrites with random bytes when the session ends.                 *)
(*                                                                         *)
(* Handlers are the goroutines of uploads, downloads to the server, moves, *)
(* folder requests, ZIP downloads and panic purges; every SQL statement,   *)
(* every answer of IsVaultFolder and every use of the key is a step.  A    *)
(* file's content is the set of keys its chunks were encrypted with.       *)
(***************************************************************************)
EXTENDS Naturals, FiniteSets

CONSTANTS
    Folders,     \* ids CreateFolder can generate
    Files,       \* ids of rows of the files table
    Sessions,    \* vault session ids Login can generate
    Workers,     \* goroutines serving requests that carry file content
    Admins,      \* goroutines serving requests about folders and the trash, and panic purges
    Root,        \* folder_id NULL
    VaultRoot,   \* the folder "f2"
    NoSession,   \* a request without a vault cookie, a key not held
    NoFile,
    DBErrors,    \* TRUE: a query may fail, e.g. on a locked table
    MaxWalk      \* most queries DownloadController.isVaultFolder makes

System == {Root, VaultRoot}
Places == Folders \cup System
Cookies == Sessions \cup {NoSession}
Handlers == Workers \cup Admins

ASSUME VaultConstants ==
    /\ Root # VaultRoot
    /\ Folders \cap System = {}
    /\ NoSession \notin Sessions
    /\ NoFile \notin Files
    /\ DBErrors \in BOOLEAN
    /\ MaxWalk \in Nat

Keys == {"std", "vk", "junk"}

VARIABLES
    dirs,       \* ids in the folders table, besides the system folders
    made,       \* ids ever inserted: they are random and never come back
    parent,     \* parent_id
    live,       \* ids in the files table
    born,       \* file ids ever inserted
    at,         \* folder_id
    keys,       \* the keys the row's content is encrypted with
    trash,      \* rows with is_deleted
    cacheValid, \* FileController.vaultCacheValid
    cacheIDs,   \* FileController.vaultIDsMap
    store,      \* SessionStore.vaultKeys: "absent", "live" or "expired"
    bytes,      \* the content of the slice a session was given
    pc,         \* where each handler stands
    loc,        \* its local variables
    inVault,    \* history: the folder was created under the vault
    blind,      \* history: the cache was filled by a load that failed
    odd         \* history: rows for which a request used the wrong key

dbVars    == <<dirs, made, parent, live, born, at, keys, trash>>
cacheVars == <<cacheValid, cacheIDs, blind>>
keyVars   == <<store, bytes>>
hVars     == <<pc, loc>>
vars      == <<dbVars, cacheVars, keyVars, hVars, inVault, odd>>

(***************************************************************************)
(* A request may use the wrong key, and a row is then odd, because         *)
(*   - the slice it had been given was overwritten before its use;         *)
(*   - IsVaultFolder answered from a cache that did not know the folder    *)
(*     yet: its INSERT was done, the invalidation was not;                 *)
(*   - it answered from a cache whose query had failed (blind), or the     *)
(*     walk up the folders had failed or ended at its limit;               *)
(*   - the source folder of a move was deleted after the move had read the *)
(*     row;                                                                *)
(*   - content already stored was offered for a new row, and the folder of *)
(*     the old one was taken for the root, because that row was in the     *)
(*     trash or gone, or its query failed;                                 *)
(*   - the proof that the client owns that content named another folder    *)
(*     than the one InitSession had compared.                              *)
(* KeyMatchesFolder says that there are no others.                         *)
(***************************************************************************)
NoLoc == [sess |-> NoSession, dir |-> Root, file |-> NoFile, src |-> Root,
          keys |-> {}, ref |-> NoSession, vault |-> FALSE, todo |-> {},
          coll |-> {}, queue |-> {}, snap |-> {}, odd |-> FALSE]

Init ==
    /\ dirs = {} /\ made = {} /\ live = {} /\ born = {} /\ trash = {}
    /\ parent = [d \in Folders |-> Root]
    /\ inVault = [d \in Folders |-> FALSE]
    /\ at = [f \in Files |-> Root]
    /\ keys = [f \in Files |-> {}]
    /\ odd = {}
    /\ cacheValid = FALSE /\ cacheIDs = {} /\ blind = FALSE
    /\ store = [s \in Sessions |-> "absent"]
    /\ bytes = [s \in Sessions |-> "junk"]
    /\ pc = [h \in Handlers |-> "idle"]
    /\ loc = [h \in Handlers |-> NoLoc]

-----------------------------------------------------------------------------
(* Folders and the cache of vault folders *)

Exists(d) == d \in dirs \cup System

\* Mutant: the connection does not enforce foreign keys.
BugForeignKey(d) == TRUE

\* An INSERT or UPDATE that names folder d succeeds.
ForeignKey(d) == Exists(d)

Children(d) == {c \in dirs : parent[c] = d}

\* The folders S and everything below them.
Below(S) ==
    {d \in dirs \cup S :
        \A T \in SUBSET (dirs \cup S) :
            S \subseteq T /\ (\A c \in dirs : parent[c] \in T => c \in T) => d \in T}

\* Whether d was created inside the vault; folders are never moved.
Domain(d) == d = VaultRoot \/ (d \in Folders /\ inVault[d])

KeyOf(d) == IF Domain(d) THEN "vk" ELSE "std"

\* The breadth-first walk of loadVaultCacheLocked.
VaultIDs == Below({VaultRoot})

\* loadVaultCacheLocked: a failed query leaves a cache of f2 alone, marked valid.
LoadCache ==
    /\ cacheValid' = TRUE
    /\ \/ cacheIDs' = VaultIDs /\ blind' = FALSE
       \/ DBErrors /\ cacheIDs' = {VaultRoot} /\ blind' = TRUE

\* IsVaultFolder(d) answers ans.
IsVaultFolder(d, ans) ==
    \/ d \in System /\ ans = (d = VaultRoot) /\ UNCHANGED cacheVars
    \/ d \in Folders /\ cacheValid /\ ans = (d \in cacheIDs) /\ UNCHANGED cacheVars
    \/ d \in Folders /\ ~ cacheValid /\ LoadCache /\ ans = (d \in cacheIDs')

\* Mutant: CreateFolder, DeleteFolder and RenameFolder keep the cache.
BugKeepCache == UNCHANGED cacheVars

InvalidateVaultCache == cacheValid' = FALSE /\ cacheIDs' = {} /\ blind' = FALSE

\* The answer is wrong for one of the reasons above; any other is not excused.
Wrong(d, ans) ==
    /\ ans # Domain(d)
    /\ blind' \/ d \notin dirs \/ \E h \in Handlers : pc[h] = "invalidate"

\* f2 is further up than the walk of DownloadController.isVaultFolder goes.
TooDeep(d) == Cardinality({a \in dirs : d \in Below({a})}) > MaxWalk

\* GetFiles, GetFolders, or a request that is refused, fills the cache.
FillCache ==
    /\ ~ cacheValid
    /\ LoadCache
    /\ UNCHANGED <<dbVars, keyVars, hVars, inVault, odd>>

-----------------------------------------------------------------------------
(* Vault sessions *)

Unlocked(s) == s \in Sessions /\ store[s] = "live"

\* What VerifyAndUnlockVault decrypts with the master password.
UnlockedKey == "vk"

\* VerifyAndUnlockVault: a new id and a new slice.
Login(s) ==
    /\ store[s] = "absent" /\ bytes[s] = "junk"
    /\ \A h \in Handlers : loc[h].sess # s /\ loc[h].ref # s
    /\ store' = [store EXCEPT ![s] = "live"]
    /\ bytes' = [bytes EXCEPT ![s] = UnlockedKey]
    /\ UNCHANGED <<dbVars, cacheVars, hVars, inVault, odd>>

Expire(s) ==
    /\ store[s] = "live"
    /\ store' = [store EXCEPT ![s] = "expired"]
    /\ UNCHANGED <<dbVars, cacheVars, bytes, hVars, inVault, odd>>

\* DeleteKey, CleanupStaleKeys, Purge: overwrite the slices, drop the entries.
Wipe(S) ==
    /\ store' = [s \in Sessions |-> IF s \in S THEN "absent" ELSE store[s]]
    /\ bytes' = [s \in Sessions |-> IF s \in S THEN "junk" ELSE bytes[s]]

LockVault(s) ==
    /\ store[s] # "absent"
    /\ Wipe({s})
    /\ UNCHANGED <<dbVars, cacheVars, hVars, inVault, odd>>

CleanupStaleKeys ==
    /\ \E s \in Sessions : store[s] = "expired"
    /\ Wipe({s \in Sessions : store[s] = "expired"})
    /\ UNCHANGED <<dbVars, cacheVars, hVars, inVault, odd>>

-----------------------------------------------------------------------------
(* Local steps of a handler *)

\* The handler goes to p with the local variables l.
Become(h, p, l) ==
    /\ pc' = [pc EXCEPT ![h] = p]
    /\ loc' = [loc EXCEPT ![h] = l]

Return(h) == Become(h, "idle", NoLoc)

\* A request that ends without effect: refused, failed, or given up by the client.
GiveUp(h) ==
    /\ pc[h] \in {"chunk", "encrypt", "claim", "compare", "prove", "insert", "fetch", "target", "source",
                  "dest", "reencrypt", "update", "mkdir", "collect", "rmdir",
                  "gather", "stream", "permit", "act", "sweep"}
    /\ Return(h)
    /\ UNCHANGED <<dbVars, cacheVars, keyVars, inVault, odd>>

\* What NewEncryptStream or NewDecryptStream finds in the slice handed out for r.
Slice(r) == IF r \in Sessions THEN bytes[r] ELSE "junk"

Wiped(k) == k = "junk"

-----------------------------------------------------------------------------
(* Uploads (POST /upload/init, PUT /upload/:session_id) *)

\* The chunks follow, unless the client names a hash that is stored already.
InitSession(h, d, s) ==
    /\ pc[h] = "idle"
    /\ Exists(d)
    /\ \E ans \in BOOLEAN :
          /\ IsVaultFolder(d, ans)
          /\ ans => Unlocked(s)
    /\ \E p \in {"chunk", "claim"} : Become(h, p, [NoLoc EXCEPT !.dir = d, !.sess = s])
    /\ UNCHANGED <<dbVars, keyVars, inVault, odd>>

\* Content a client may name: that of a row, or a blob whose row is gone.
Content ==
    {[at |-> at[f], keys |-> keys[f], odd |-> f \in odd, found |-> f \notin trash] : f \in live}
        \cup {[at |-> d, keys |-> {KeyOf(d)}, odd |-> FALSE, found |-> FALSE] : d \in System}

\* The folder of the row that has it; a row that is not found counts as "".
FindContent(h) ==
    LET l == loc[h] IN
    /\ pc[h] = "claim"
    /\ \E c \in Content, a \in Places, ans \in BOOLEAN :
          /\ \/ c.found /\ a = c.at
             \/ (~ c.found \/ DBErrors) /\ a = Root
          /\ IsVaultFolder(l.dir, ans)
          /\ Become(h, "compare",
                    [l EXCEPT !.src = a, !.keys = c.keys, !.vault = ans,
                              !.odd = c.odd \/ Domain(a) # Domain(c.at) \/ Wrong(l.dir, ans)])
    /\ UNCHANGED <<dbVars, keyVars, inVault, odd>>

\* The two sides differ: the content has to be sent after all.
CompareDomains(h) ==
    LET l == loc[h] IN
    /\ pc[h] = "compare"
    /\ \E ans \in BOOLEAN :
          /\ IsVaultFolder(l.src, ans)
          /\ IF ans = l.vault
             THEN Become(h, "prove", [NoLoc EXCEPT !.dir = l.dir, !.keys = l.keys,
                                                   !.odd = l.odd \/ Wrong(l.src, ans)])
             ELSE Become(h, "chunk", [NoLoc EXCEPT !.dir = l.dir, !.sess = l.sess])
    /\ UNCHANGED <<dbVars, keyVars, inVault, odd>>

\* VaultKeyMiddleware puts the slice into the request's context.
VaultKeyMiddleware(h) ==
    /\ pc[h] = "chunk"
    /\ Become(h, "encrypt",
              [loc[h] EXCEPT !.ref = IF Unlocked(loc[h].sess) THEN loc[h].sess ELSE NoSession])
    /\ UNCHANGED <<dbVars, cacheVars, keyVars, inVault, odd>>

\* The slice of the context, or the one the session has now.
HeldKey(l) == IF l.ref = NoSession /\ Unlocked(l.sess) THEN l.sess ELSE l.ref

\* The key of one chunk.
ChunkKey(l, ans) == IF ans THEN Slice(HeldKey(l)) ELSE "std"

(***************************************************************************)
(* UploadChunk, holding the upload's own lock; the file may be complete or *)
(* the next chunk may follow.                                              *)
(***************************************************************************)
UploadChunk(h) ==
    LET l == loc[h] IN
    /\ pc[h] = "encrypt"
    /\ \E ans \in BOOLEAN, more \in BOOLEAN :
          /\ IsVaultFolder(l.dir, ans)
          /\ ans => HeldKey(l) # NoSession
          /\ Become(h, IF more THEN "chunk" ELSE "insert",
                    [l EXCEPT !.keys = @ \cup {ChunkKey(l, ans)}, !.ref = NoSession,
                              !.sess = IF more THEN @ ELSE NoSession,
                              !.odd = @ \/ Wrong(l.dir, ans) \/ Wiped(ChunkKey(l, ans))])
    /\ UNCHANGED <<dbVars, keyVars, inVault, odd>>

\* A row for content under the keys ks; the foreign key holds.
Insert(d, ks, isOdd) ==
    /\ ForeignKey(d)
    /\ \E f \in Files \ born :
          /\ live' = live \cup {f}
          /\ born' = born \cup {f}
          /\ at' = [at EXCEPT ![f] = d]
          /\ keys' = [keys EXCEPT ![f] = ks]
          /\ odd' = IF isOdd THEN odd \cup {f} ELSE odd

\* The INSERT of the last chunk or of executeDownload.
InsertFile(h) ==
    /\ pc[h] = "insert"
    /\ Insert(loc[h].dir, loc[h].keys, loc[h].odd)
    /\ Return(h)
    /\ UNCHANGED <<dirs, made, parent, trash, cacheVars, keyVars, inVault>>

\* The client names the folder once more, and nothing is asked about it.
VerifyProofOfOwnership(h, d) ==
    /\ pc[h] = "prove"
    /\ Insert(d, loc[h].keys, loc[h].odd \/ Domain(d) # Domain(loc[h].dir))
    /\ Return(h)
    /\ UNCHANGED <<dirs, made, parent, trash, cacheVars, keyVars, inVault>>

-----------------------------------------------------------------------------
(* Downloads to the server (POST /downloads) *)

\* DownloadController.isVaultFolder walks up the folders, a query each; an
\* error ends the walk outside the vault, and so does its limit.
StartDownload(h, d, s) ==
    /\ pc[h] = "idle"
    /\ Exists(d)
    /\ \E ans \in BOOLEAN :
          /\ \/ ans = Domain(d) /\ ~ TooDeep(d)
             \/ d \in Folders /\ ~ ans /\ (DBErrors \/ TooDeep(d))
          /\ ans => Unlocked(s)
          /\ Become(h, "fetch",
                    [NoLoc EXCEPT !.dir = d, !.vault = ans,
                                  !.ref = IF ans THEN s ELSE NoSession,
                                  !.odd = ans # Domain(d)])
    /\ UNCHANGED <<dbVars, cacheVars, keyVars, inVault, odd>>

\* executeDownload sets up its encrypting stream in its own goroutine.
OpenStream(h) ==
    LET k == IF loc[h].vault THEN Slice(loc[h].ref) ELSE "std" IN
    /\ pc[h] = "fetch"
    /\ Become(h, "insert", [loc[h] EXCEPT !.keys = {k}, !.ref = NoSession, !.vault = FALSE,
                                          !.odd = @ \/ Wiped(k)])
    /\ UNCHANGED <<dbVars, cacheVars, keyVars, inVault, odd>>

-----------------------------------------------------------------------------
(* Moves (PATCH /files/:id/move, POST /files/move-batch) *)

\* The row as MoveFile reads it.
ReadRow(l, f) == [l EXCEPT !.file = f, !.src = at[f], !.keys = keys[f], !.odd = f \in odd]

MoveFile(h, f, t, s) ==
    /\ pc[h] = "idle"
    /\ f \in live \ trash
    /\ at[f] # t
    /\ Become(h, "target", ReadRow([NoLoc EXCEPT !.dir = t, !.sess = s], f))
    /\ UNCHANGED <<dbVars, cacheVars, keyVars, inVault, odd>>

MoveTarget(h) ==
    /\ pc[h] = "target"
    /\ Exists(loc[h].dir)
    /\ Become(h, "source", loc[h])
    /\ UNCHANGED <<dbVars, cacheVars, keyVars, inVault, odd>>

MoveFilesBatch(h, S, t, s) ==
    /\ pc[h] = "idle"
    /\ S # {}
    /\ Exists(t)
    /\ Become(h, "batch", [NoLoc EXCEPT !.dir = t, !.sess = s, !.todo = S])
    /\ UNCHANGED <<dbVars, cacheVars, keyVars, inVault, odd>>

BatchNext(h) ==
    LET l == loc[h] IN
    /\ pc[h] = "batch"
    /\ \/ l.todo = {} /\ Return(h)
       \/ \E f \in l.todo :
             IF f \in live \ trash /\ at[f] # l.dir
             THEN Become(h, "source", ReadRow([l EXCEPT !.todo = @ \ {f}], f))
             ELSE Become(h, "batch", [l EXCEPT !.todo = @ \ {f}])
    /\ UNCHANGED <<dbVars, cacheVars, keyVars, inVault, odd>>

\* MoveFile returns, MoveFilesBatch goes on with the next file.
NextMove(h) ==
    IF loc[h].todo = {} THEN Return(h)
    ELSE Become(h, "batch", [NoLoc EXCEPT !.dir = loc[h].dir, !.sess = loc[h].sess,
                                          !.todo = loc[h].todo])

\* isSrcVault; the folder may be gone by now, and then it is no vault folder.
MoveSource(h) ==
    LET l == loc[h] IN
    /\ pc[h] = "source"
    /\ \E ans \in BOOLEAN :
          /\ IsVaultFolder(l.src, ans)
          /\ Become(h, "dest", [l EXCEPT !.vault = ans, !.src = Root,
                                          !.odd = @ \/ Wrong(l.src, ans)])
    /\ UNCHANGED <<dbVars, keyVars, inVault, odd>>

\* Mutant: content is re-encrypted only on its way into the vault.
BugCrosses(isSrc, isDst) == isDst /\ ~ isSrc

Crosses(isSrc, isDst) == isSrc # isDst

\* isDstVault, and the key if the content has to change its domain.
MoveDest(h) ==
    LET l == loc[h] IN
    /\ pc[h] = "dest"
    /\ \E ans \in BOOLEAN :
          /\ IsVaultFolder(l.dir, ans)
          /\ IF Crosses(l.vault, ans)
             THEN /\ Unlocked(l.sess)
                  /\ Become(h, "reencrypt",
                            [l EXCEPT !.ref = l.sess, !.odd = @ \/ Wrong(l.dir, ans)])
             ELSE Become(h, "update", [l EXCEPT !.vault = FALSE,
                                                !.odd = @ \/ Wrong(l.dir, ans)])
    /\ UNCHANGED <<dbVars, keyVars, inVault, odd>>

\* Decrypt with the one key and encrypt with the other; a wrong key fails.
Reencrypt(h) ==
    LET l   == loc[h]
        src == IF l.vault THEN Slice(l.ref) ELSE "std"
        dst == IF l.vault THEN "std" ELSE Slice(l.ref)
    IN
    /\ pc[h] = "reencrypt"
    /\ IF l.keys = {src} /\ src # "junk"
       THEN Become(h, "update", [l EXCEPT !.keys = {dst}, !.ref = NoSession,
                                          !.vault = FALSE, !.odd = @ \/ Wiped(dst)])
       ELSE NextMove(h)
    /\ UNCHANGED <<dbVars, cacheVars, keyVars, inVault, odd>>

\* A name conflict, an unreadable blob or a failing statement ends this move only.
MoveFails(h) ==
    /\ pc[h] \in {"source", "reencrypt", "update"}
    /\ NextMove(h)
    /\ UNCHANGED <<dbVars, cacheVars, keyVars, inVault, odd>>

\* UPDATE files SET folder_id = ?, cas_hash = ?; the foreign key holds.
MoveUpdate(h) ==
    LET l == loc[h]
        hit == ForeignKey(l.dir) /\ l.file \in live
    IN
    /\ pc[h] = "update"
    /\ at' = IF hit THEN [at EXCEPT ![l.file] = l.dir] ELSE at
    /\ keys' = IF hit THEN [keys EXCEPT ![l.file] = l.keys] ELSE keys
    /\ odd' = IF ~ hit THEN odd
              ELSE IF l.odd THEN odd \cup {l.file} ELSE odd \ {l.file}
    /\ NextMove(h)
    /\ UNCHANGED <<dirs, made, parent, live, born, trash, cacheVars, keyVars,
                   inVault>>

-----------------------------------------------------------------------------
(* Folders (POST, PATCH and DELETE /folders) *)

CreateFolder(h, p, s) ==
    /\ pc[h] = "idle"
    /\ Exists(p)
    /\ \E ans \in BOOLEAN :
          /\ IsVaultFolder(p, ans)
          /\ ans => Unlocked(s)
    /\ Become(h, "mkdir", [NoLoc EXCEPT !.dir = p])
    /\ UNCHANGED <<dbVars, keyVars, inVault, odd>>

InsertFolder(h) ==
    LET p == loc[h].dir IN
    /\ pc[h] = "mkdir"
    /\ ForeignKey(p)
    /\ \E d \in Folders \ made :
          /\ dirs' = dirs \cup {d}
          /\ made' = made \cup {d}
          /\ parent' = [parent EXCEPT ![d] = p]
          /\ inVault' = [inVault EXCEPT ![d] = Domain(p)]
    /\ Become(h, "invalidate", NoLoc)
    /\ UNCHANGED <<live, born, at, keys, trash, cacheVars, keyVars, odd>>

Invalidate(h) ==
    /\ pc[h] = "invalidate"
    /\ InvalidateVaultCache
    /\ Return(h)
    /\ UNCHANGED <<dbVars, keyVars, inVault, odd>>

\* RenameFolder: names are left out, the invalidation stays.
RenameFolder(d) ==
    /\ d \in dirs
    /\ Domain(d) => \E s \in Sessions : Unlocked(s)
    /\ InvalidateVaultCache
    /\ UNCHANGED <<dbVars, keyVars, hVars, inVault, odd>>

\* The session is kept if it was needed, or would have been.
DeleteFolder(h, d, s) ==
    /\ pc[h] = "idle"
    /\ d \in dirs
    /\ \E ans \in BOOLEAN :
          /\ IsVaultFolder(d, ans)
          /\ ans => Unlocked(s)
          /\ Become(h, "collect", [NoLoc EXCEPT !.dir = d, !.coll = {d}, !.queue = {d},
                                                !.sess = IF ans \/ Wrong(d, ans) THEN s
                                                         ELSE NoSession])
    /\ UNCHANGED <<dbVars, keyVars, inVault, odd>>

\* One query of the breadth-first collection of DeleteFolder or DownloadFolder.
Collect(h) ==
    LET l == loc[h] IN
    /\ pc[h] \in {"collect", "gather"}
    /\ \E d \in l.queue : \E found \in {Children(d), {}} :
          /\ found = Children(d) \/ DBErrors
          /\ Become(h, pc[h], [l EXCEPT !.coll = @ \cup found,
                                        !.queue = (@ \ {d}) \cup found])
    /\ UNCHANGED <<dbVars, cacheVars, keyVars, inVault, odd>>

\* isVault is asked a second time, after the transaction has begun.
DeleteAsk(h) ==
    LET l == loc[h] IN
    /\ pc[h] = "collect"
    /\ l.queue = {}
    /\ \E ans \in BOOLEAN :
          /\ IsVaultFolder(l.dir, ans)
          /\ Become(h, "rmdir", [l EXCEPT !.vault = ans, !.odd = l.dir \in dirs /\ Wrong(l.dir, ans)])
    /\ UNCHANGED <<dbVars, keyVars, inVault, odd>>

TrashPlace(isVault) == IF isVault THEN VaultRoot ELSE Root

\* Statements whose errors are ignored take effect on S, or on a part of it.
Effect(S) == IF DBErrors THEN SUBSET S ELSE {S}

(***************************************************************************)
(* The transaction: the files of the collected folders go to the trash,    *)
(* the folders are deleted, and ON DELETE CASCADE takes what is below them *)
(* and was not collected, files included.                                  *)
(***************************************************************************)
DeleteCommit(h) ==
    LET l == loc[h] IN
    /\ pc[h] = "rmdir"
    /\ \E updated \in Effect(l.coll) : \E deleted \in Effect(l.coll \cap dirs) :
          LET removed == Below(deleted)
              moved   == {f \in live : at[f] \in updated}
              lost    == {f \in live \ moved : at[f] \in removed}
          IN
          /\ dirs' = dirs \ removed
          /\ live' = live \ lost
          /\ trash' = (trash \cup moved) \ lost
          /\ at' = [f \in Files |-> CASE f \in moved -> TrashPlace(l.vault)
                                   [] f \in lost -> Root
                                   [] OTHER -> at[f]]
          /\ keys' = [f \in Files |-> IF f \in lost THEN {} ELSE keys[f]]
          /\ odd' = (IF l.odd THEN odd \cup moved ELSE odd) \ lost
    /\ Become(h, "invalidate", NoLoc)
    /\ UNCHANGED <<made, parent, born, cacheVars, keyVars, inVault>>

-----------------------------------------------------------------------------
(* Downloading a folder as a ZIP (GET /folders/:id/download) *)

DownloadFolder(h, d, s) ==
    /\ pc[h] = "idle"
    /\ d \in dirs \cup {VaultRoot}
    /\ \E ans \in BOOLEAN :
          /\ IsVaultFolder(d, ans)
          /\ ans => Unlocked(s)
          /\ Become(h, "gather",
                    [NoLoc EXCEPT !.dir = d, !.vault = ans, !.coll = {d}, !.queue = {d},
                                  !.ref = IF ans THEN s ELSE NoSession,
                                  !.odd = Wrong(d, ans)])
    /\ UNCHANGED <<dbVars, keyVars, inVault, odd>>

\* The files of one collected folder, with the content their rows name now.
ListFiles(h) ==
    LET l == loc[h] IN
    /\ pc[h] = "gather" /\ l.queue = {}
    /\ \/ l.coll = {} /\ Become(h, "stream", [l EXCEPT !.dir = Root])
       \/ \E d \in l.coll : \E found \in {{g \in live \ trash : at[g] = d}, {}} :
             /\ found = {g \in live \ trash : at[g] = d} \/ DBErrors
             /\ Become(h, "gather",
                       [l EXCEPT !.coll = @ \ {d},
                                 !.snap = @ \cup {[file |-> f, keys |-> keys[f], odd |-> f \in odd] :
                                                  f \in found}])
    /\ UNCHANGED <<dbVars, cacheVars, keyVars, inVault, odd>>

\* Mutant: the archive is always decrypted with the standard key.
BugZipKey(l) == "std"

ZipKey(l) == IF l.vault THEN Slice(l.ref) ELSE "std"

\* streamFileToZipEntry, whatever it writes under the file's name.
StreamEntry(h) ==
    LET l == loc[h] IN
    /\ pc[h] = "stream"
    /\ \/ l.snap = {} /\ Return(h)
       \/ \E e \in l.snap : Become(h, "stream", [l EXCEPT !.snap = @ \ {e}])
    /\ UNCHANGED <<dbVars, cacheVars, keyVars, inVault, odd>>

-----------------------------------------------------------------------------
(* Trash, permanent deletion, panic purge *)

(***************************************************************************)
(* DeleteFile and RestoreFile begin alike: they read the row's folder, ask *)
(* IsVaultFolder about it, and then act.  The error of the query is        *)
(* ignored, and no folder is not in the vault.                             *)
(***************************************************************************)
ReadFolder(h, f) ==
    /\ pc[h] = "idle"
    /\ f \in live
    /\ \E a \in {at[f], Root} :
          /\ a = at[f] \/ DBErrors
          /\ Become(h, "permit", [NoLoc EXCEPT !.file = f, !.src = a, !.odd = a # at[f]])
    /\ UNCHANGED <<dbVars, cacheVars, keyVars, inVault, odd>>

Permit(h) ==
    LET l == loc[h] IN
    /\ pc[h] = "permit"
    /\ \E ans \in BOOLEAN :
          /\ IsVaultFolder(l.src, ans)
          /\ ans => \E s \in Sessions : Unlocked(s)
          /\ Become(h, "act", [l EXCEPT !.vault = ans, !.odd = @ \/ Wrong(l.src, ans)])
    /\ UNCHANGED <<dbVars, keyVars, inVault, odd>>

\* DeleteFile without permanent=true, or RestoreFile; the row may be gone.
Mark(h) ==
    LET f == loc[h].file IN
    /\ pc[h] = "act"
    /\ trash' \in {trash \cup ({f} \cap live), trash \ {f}}
    /\ Return(h)
    /\ UNCHANGED <<dirs, made, parent, live, born, at, keys, cacheVars, keyVars, inVault, odd>>

\* The columns of rows that are no longer there mean nothing.
Forget(S) ==
    /\ live' = live \ S
    /\ keys' = [f \in Files |-> IF f \in S THEN {} ELSE keys[f]]

Erase(S) ==
    /\ Forget(S)
    /\ trash' = trash \ S
    /\ at' = [f \in Files |-> IF f \in S THEN Root ELSE at[f]]
    /\ odd' = odd \ S

\* DeleteFile with permanent=true
DeleteFile(h) ==
    /\ pc[h] = "act"
    /\ Erase({loc[h].file} \cap live)
    /\ Return(h)
    /\ UNCHANGED <<dirs, made, parent, born, cacheVars, keyVars, inVault>>

(***************************************************************************)
(* EmptyTrash first looks whether the vault is open; if it is not, the     *)
(* folders the cache has are left out of the transaction that follows.     *)
(* Kept with it are the folders there are, and whether the cache may miss  *)
(* one of them.                                                            *)
(***************************************************************************)
EmptyTrash(h) ==
    /\ pc[h] = "idle"
    /\ \/ /\ \E s \in Sessions : Unlocked(s)
          /\ UNCHANGED cacheVars
          /\ Become(h, "sweep", [NoLoc EXCEPT !.vault = TRUE])
       \/ /\ IF cacheValid THEN UNCHANGED cacheVars ELSE LoadCache
          /\ Become(h, "sweep",
                    [NoLoc EXCEPT !.coll = cacheIDs', !.queue = dirs \cup System,
                                  !.odd = blind' \/ \E g \in Handlers : pc[g] = "invalidate"])
    /\ UNCHANGED <<dbVars, keyVars, inVault, odd>>

\* Mutant: a locked vault spares what is in f2 itself only.
BugEmptied(l) == {f \in trash : l.vault \/ at[f] # VaultRoot}

Emptied(l) == {f \in trash : l.vault \/ at[f] \notin l.coll}

Sweep(h) ==
    /\ pc[h] = "sweep"
    /\ Erase(Emptied(loc[h]))
    /\ Return(h)
    /\ UNCHANGED <<dirs, made, parent, born, cacheVars, keyVars, inVault>>

\* PanicPurge: keys first, then the files table, then the folders.
PanicPurge(h) ==
    /\ pc[h] = "idle"
    /\ Wipe(Sessions)
    /\ Become(h, "purgefiles", NoLoc)
    /\ UNCHANGED <<dbVars, cacheVars, inVault, odd>>

PurgeFiles(h) ==
    /\ pc[h] = "purgefiles"
    /\ \E S \in {live, {}} : (S = live \/ DBErrors) /\ Erase(S)
    /\ Become(h, "purgefolders", NoLoc)
    /\ UNCHANGED <<dirs, made, parent, born, cacheVars, keyVars, inVault>>

PurgeFolders(h) ==
    /\ pc[h] = "purgefolders"
    /\ \E S \in {dirs, {}} :
          /\ S = dirs \/ DBErrors
          /\ dirs' = dirs \ S
          /\ Erase({f \in live : at[f] \in S})
    /\ Become(h, "invalidate", NoLoc)
    /\ UNCHANGED <<made, parent, born, cacheVars, keyVars, inVault>>

-----------------------------------------------------------------------------
FileRequest(h) ==
    \E d \in Places, s \in Sessions :
        \/ InitSession(h, d, s) \/ StartDownload(h, d, s) \/ DownloadFolder(h, d, s)
        \/ \E f \in Files : MoveFile(h, f, d, s)
        \/ \E S \in SUBSET Files : MoveFilesBatch(h, S, d, s)

FolderRequest(h) ==
    \/ PanicPurge(h) \/ EmptyTrash(h)
    \/ \E f \in Files : ReadFolder(h, f)
    \/ \E d \in Places, s \in Sessions : CreateFolder(h, d, s) \/ DeleteFolder(h, d, s)

HandlerStep(h) ==
    \/ GiveUp(h)
    \/ VaultKeyMiddleware(h) \/ UploadChunk(h) \/ InsertFile(h) \/ OpenStream(h)
    \/ FindContent(h) \/ CompareDomains(h) \/ \E d \in Places : VerifyProofOfOwnership(h, d)
    \/ MoveTarget(h) \/ BatchNext(h) \/ MoveSource(h) \/ MoveDest(h) \/ Reencrypt(h)
    \/ MoveFails(h) \/ MoveUpdate(h)
    \/ InsertFolder(h) \/ Invalidate(h) \/ Collect(h) \/ DeleteAsk(h) \/ DeleteCommit(h)
    \/ ListFiles(h) \/ StreamEntry(h)
    \/ Permit(h) \/ Mark(h) \/ DeleteFile(h) \/ Sweep(h)
    \/ PurgeFiles(h) \/ PurgeFolders(h)

Environment ==
    \/ FillCache \/ CleanupStaleKeys
    \/ \E s \in Sessions : Login(s) \/ Expire(s) \/ LockVault(s)
    \/ \E d \in Folders : RenameFolder(d)

Next ==
    \/ \E h \in Workers : FileRequest(h)
    \/ \E h \in Admins : FolderRequest(h)
    \/ \E h \in Handlers : HandlerStep(h)
    \/ Environment

Spec == Init /\ [][Next]_vars

-----------------------------------------------------------------------------
PCs == {"idle", "chunk", "encrypt", "claim", "compare", "prove", "insert", "fetch", "target", "batch", "source",
        "dest", "reencrypt", "update", "mkdir", "invalidate", "collect", "rmdir",
        "gather", "stream", "permit", "act", "sweep", "purgefiles", "purgefolders"}

Entry  == [file : Files, keys : SUBSET Keys, odd : BOOLEAN]
Locals == [sess : Cookies, dir : Places, file : Files \cup {NoFile}, src : Places,
           keys : SUBSET Keys, ref : Cookies, vault : BOOLEAN, todo : SUBSET Files,
           coll : SUBSET Places, queue : SUBSET Places, snap : SUBSET Entry,
           odd : BOOLEAN]

\* Every variable has the shape its Go or SQL counterpart has.
TypeOK ==
    /\ dirs \subseteq made /\ made \subseteq Folders
    /\ parent \in [Folders -> Places]
    /\ live \subseteq born /\ born \subseteq Files
    /\ trash \subseteq live
    /\ at \in [Files -> Places]
    /\ keys \in [Files -> SUBSET Keys]
    /\ cacheValid \in BOOLEAN /\ blind \in BOOLEAN
    /\ cacheIDs \subseteq Places
    /\ store \in [Sessions -> {"absent", "live", "expired"}]
    /\ bytes \in [Sessions -> {"vk", "junk"}]
    /\ pc \in [Handlers -> PCs]
    /\ loc \in [Handlers -> Locals]
    /\ inVault \in [Folders -> BOOLEAN]
    /\ odd \subseteq live

(***************************************************************************)
(* The rows and their folders: every row is in a folder that exists and    *)
(* every folder's parent exists, whatever deletions race with inserts and  *)
(* moves (the foreign keys, and DeleteFolder's transaction).               *)
(***************************************************************************)
NoDangling ==
    /\ \A f \in live : Exists(at[f])
    /\ \A d \in dirs : Exists(parent[d])

(***************************************************************************)
(* Every file can be read with the key DownloadFile will choose for it:    *)
(* all of its chunks are under the vault key if and only if its folder is  *)
(* in the vault, through uploads, content stored twice, downloads, moves   *)
(* in both directions and deleted folders, unless a named cause struck.    *)
(***************************************************************************)
KeyMatchesFolder ==
    \A f \in live \ odd : keys[f] = {KeyOf(at[f])}

(***************************************************************************)
(* When no folder change awaits its invalidation, a filled cache knows     *)
(* exactly the vault's folders, so IsVaultFolder is right about every      *)
(* existing folder, unless the query that filled it failed.                *)
(***************************************************************************)
CacheSound ==
    cacheValid /\ ~ blind /\ (\A h \in Handlers : pc[h] # "invalidate")
        => \A d \in dirs : d \in cacheIDs <=> inVault[d]

(***************************************************************************)
(* Every entry a ZIP download still has to stream can be decrypted with    *)
(* the key it chose at its start, unless that key has been wiped since or  *)
(* the row was odd already.  Moves of the file and deletions of its folder *)
(* during the download do no harm: what was listed stays readable.         *)
(***************************************************************************)
ZipReadable ==
    \A h \in Handlers : pc[h] = "stream" /\ ~ loc[h].odd /\ ZipKey(loc[h]) # "junk" =>
        \A e \in loc[h].snap : e.odd \/ e.keys = {ZipKey(loc[h])}

\* What handler h may remove row f of the vault for, if it does so now.
LetThrough(h, f) ==
    LET l == loc[h] IN
    \/ pc[h] = "rmdir" /\ Domain(l.dir) /\ l.sess # NoSession
    \/ pc[h] \in {"purgefiles", "purgefolders"}
    \/ pc[h] = "act" /\ l.file = f /\ (l.vault \/ ~ Domain(l.src) \/ l.odd)
    \/ pc[h] = "sweep" /\ (l.vault \/ at[f] \notin l.queue \/ l.odd)

(***************************************************************************)
(* A row of the vault is removed only by a panic purge, or by a            *)
(* DeleteFolder, DeleteFile or EmptyTrash that had found the vault open,   *)
(* or the row outside it, or that one of the named causes misled, and      *)
(* then with the row it was let in for.  What holds at the check need not  *)
(* hold at the act: that the vault is locked by then, or the row was moved *)
(* into it, stops none of them.                                            *)
(***************************************************************************)
VaultRowsGuarded ==
    [][\A f \in live \ live' : Domain(at[f]) =>
          \E h \in Handlers : pc'[h] # pc[h] /\ LetThrough(h, f)]_vars
=============================================================================
