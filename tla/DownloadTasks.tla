--------------------------- MODULE DownloadTasks ---------------------------
(***************************************************************************)
(* Background downloads: the task table of internal/download/manager.go,   *)
(* the goroutine executeDownload of each task, the progress reporter of    *)
(* the accelerated downloader, and the requests that cancel and dismiss    *)
(* tasks.                                                                  *)
(*                                                                         *)
(* A task's fields are protected by its mutex, so each locked section is   *)
(* one step; nothing protects the order in which the goroutine, the        *)
(* reporter and the requests write the status.  The bytes of the remote    *)
(* file are 1, 2, 3 ...; the temporary file is what the goroutine wrote to *)
(* it, over all sources it tried.  How the accelerated downloader gets its *)
(* pieces is AcceleratedDownload; what becomes of the blob is FileStore.   *)
(* All tasks belong to one owner.                                          *)
(***************************************************************************)
EXTENDS Integers, Sequences

CONSTANTS
    Tasks,       \* the task ids
    Sizes,       \* sizes of remote files
    Kinds,       \* DownloadType: "direct", "magnet"
    Quota,       \* QuotaBytes; 0 means unlimited
    WebSeeds,    \* web seeds of a magnet link
    Peers,       \* peers its trackers name
    MaxUsed,     \* bytes that uploads and deletions of files leave in use, at most
    Excess       \* bytes that retried pieces, or a peer's last block, bring too many

ASSUME TaskConstants ==
    /\ Sizes \subseteq Nat
    /\ Kinds \subseteq {"direct", "magnet"}
    /\ Quota \in Nat
    /\ WebSeeds \in Nat /\ Peers \in Nat /\ WebSeeds + Peers > 0
    /\ MaxUsed \in Nat
    /\ Excess \in Nat

VARIABLES
    known,    \* DownloadManager.tasks
    remote,   \* kind of the link and size of the file behind it
    status,   \* DownloadTask.Status, "none" before the task exists
    bytes,    \* DownloadTask.DownloadedBytes
    ctx,      \* tasks whose context is cancelled
    pc,       \* where executeDownload stands
    loc,      \* its local variables
    rep,      \* the progress reporter of DownloadToFile
    temp,     \* tasks whose temporary file exists
    rows,     \* rows of the files table that downloads made
    used,     \* SUM(size) of the owner's live files
    cause     \* history: why a row may be wrong, see below

taskVars == <<status, bytes, ctx>>
diskVars == <<temp, rows, used>>
vars     == <<known, remote, taskVars, pc, loc, rep, diskVars, cause>>

(***************************************************************************)
(* cause[t] is a history variable with the events after which the code no  *)
(* longer guarantees the row of task t:                                    *)
(*   "quota"  a progress report found the task over the quota, which does  *)
(*            not stop a transfer that is at its end;                      *)
(*   "late"   the reporter wrote to the task after DownloadToFile was over;*)
(*   "mixed"  a source of a magnet link broke off after some bytes;        *)
(*   "short"  a peer broke off after some bytes, which counts as success;  *)
(*   "stray"  a peer sent a block that does not come next;                 *)
(*   "disk"   the last buffer could not be written, which nobody notices.  *)
(***************************************************************************)
Causes == {"quota", "late", "mixed", "short", "stray", "disk"}

PCs == {"none", "setup", "probe", "accel", "encrypt", "stream", "quotastream",
        "quotafinish", "quotaencrypt", "move", "insert", "mark", "exit", "gone"}

Statuses == {"none", "downloading", "completed", "failed", "cancelled"}
Final    == {"completed", "failed", "cancelled"}

NoLoc == [base |-> 0, got |-> 0, src |-> 1, dest |-> <<>>]
NoRep == [at |-> "off", tick |-> 0]

\* The first n bytes of the remote file.
Plain(n) == [i \in 1..n |-> i]

HasRow(t) == \E r \in rows : r.task = t

Init ==
    /\ known = {}
    /\ remote = [t \in Tasks |-> [kind |-> "direct", size |-> 0]]
    /\ status = [t \in Tasks |-> "none"]
    /\ bytes = [t \in Tasks |-> 0]
    /\ ctx = {}
    /\ pc = [t \in Tasks |-> "none"]
    /\ loc = [t \in Tasks |-> NoLoc]
    /\ rep = [t \in Tasks |-> NoRep]
    /\ temp = {} /\ rows = {} /\ used = 0
    /\ cause = [t \in Tasks |-> {}]

Goto(t, p) == pc' = [pc EXCEPT ![t] = p]

SetStatus(t, s) == status' = [status EXCEPT ![t] = s]

Blame(t, c) == cause' = [cause EXCEPT ![t] = @ \cup {c}]

\* failTask or cancelTask, then return.
Ends(t, s) == SetStatus(t, s) /\ Goto(t, "exit") /\ UNCHANGED <<bytes, ctx>>

-----------------------------------------------------------------------------
(* Requests *)

StartDownload(t, k, n) ==
    /\ pc[t] = "none"
    /\ known' = known \cup {t}
    /\ remote' = [remote EXCEPT ![t] = [kind |-> k, size |-> n]]
    /\ SetStatus(t, "downloading")
    /\ Goto(t, "setup")
    /\ UNCHANGED <<bytes, ctx, loc, rep, diskVars, cause>>

(***************************************************************************)
(* CancelDownload looks at a snapshot and calls CancelTask for a task it   *)
(* saw downloading, whatever happened to the task since.                   *)
(***************************************************************************)
CancelTask(t) ==
    /\ t \in known
    /\ status[t] # "completed"
    /\ ctx' = ctx \cup {t}
    /\ SetStatus(t, "cancelled")
    /\ UNCHANGED <<known, remote, bytes, pc, loc, rep, diskVars, cause>>

\* CancelAllTasks, called by PanicPurge, when it comes to task t.
CancelAllTasks(t) ==
    /\ t \in known
    /\ status[t] \notin Final
    /\ ctx' = ctx \cup {t}
    /\ SetStatus(t, "cancelled")
    /\ UNCHANGED <<known, remote, bytes, pc, loc, rep, diskVars, cause>>

\* DismissTask and PruneOldTasks.
DismissTask(t) ==
    /\ t \in known
    /\ status[t] \in Final
    /\ known' = known \ {t}
    /\ UNCHANGED <<remote, taskVars, pc, loc, rep, diskVars, cause>>

\* Uploads, deletions and restores of the owner's files.
OtherFiles ==
    /\ used' \in (0..MaxUsed) \ {used}
    /\ UNCHANGED <<known, remote, taskVars, pc, loc, rep, temp, rows, cause>>

-----------------------------------------------------------------------------
(* Progress callbacks *)

OverQuota(t, n) == Quota > 0 /\ loc[t].base + n > Quota

(***************************************************************************)
(* onProgress(n) as the goroutine calls it on its way to p.  Over the      *)
(* quota it cancels the context; failTask is a step of its own (at q), and *)
(* then the goroutine goes on to p all the same.                           *)
(***************************************************************************)
OnProgress(t, n, p, q) ==
    IF OverQuota(t, n)
    THEN /\ ctx' = ctx \cup {t} /\ Blame(t, "quota") /\ Goto(t, q)
         /\ UNCHANGED <<status, bytes>>
    ELSE /\ bytes' = [bytes EXCEPT ![t] = n] /\ Goto(t, p)
         /\ UNCHANGED <<status, ctx, cause>>

QuotaFails(t) ==
    /\ \/ pc[t] = "quotastream" /\ Goto(t, "stream")
       \/ pc[t] = "quotafinish" /\ Goto(t, "move")
       \/ pc[t] = "quotaencrypt" /\ Goto(t, "encrypt")
    /\ SetStatus(t, "failed")
    /\ UNCHANGED <<known, remote, bytes, ctx, loc, rep, diskVars, cause>>

-----------------------------------------------------------------------------
(* executeDownload *)

\* The temporary file, the key, and the first look at the quota.
Setup(t) ==
    /\ pc[t] = "setup"
    /\ temp' = temp \cup {t}
    /\ loc' = [loc EXCEPT ![t].base = used]
    /\ IF Quota > 0 /\ used >= Quota
       THEN Ends(t, "failed")
       ELSE Goto(t, IF remote[t].kind = "direct" THEN "probe" ELSE "stream")
            /\ UNCHANGED taskVars
    /\ UNCHANGED <<known, remote, rep, rows, used, cause>>

\* No temporary file, a locked vault, or no encryption stream.
SetupFails(t) ==
    /\ pc[t] = "setup"
    /\ temp' \in {temp, temp \cup {t}}
    /\ Ends(t, "failed")
    /\ UNCHANGED <<known, remote, loc, rep, rows, used, cause>>

\* ProbeLink: the file can be had in pieces, and the reporter starts ...
AccelBegin(t) ==
    /\ pc[t] = "probe"
    /\ Goto(t, "accel")
    /\ rep' = [rep EXCEPT ![t].at = "wait"]
    /\ UNCHANGED <<known, remote, taskVars, loc, diskVars, cause>>

\* ... or it is streamed, also when the preparation of the pieces fails.
StreamBegin(t) ==
    /\ pc[t] = "probe"
    /\ Goto(t, "stream")
    /\ UNCHANGED <<known, remote, taskVars, loc, rep, diskVars, cause>>

\* bytesCounter: pieces fetched again are counted again.
AccelReceive(t) ==
    /\ pc[t] = "accel" /\ t \notin ctx
    /\ loc[t].got < remote[t].size + Excess
    /\ loc' = [loc EXCEPT ![t].got = @ + 1]
    /\ UNCHANGED <<known, remote, taskVars, pc, rep, diskVars, cause>>

\* All pieces are there; the last report says so.
AccelDone(t) ==
    /\ pc[t] = "accel"
    /\ loc[t].got >= remote[t].size
    /\ OnProgress(t, remote[t].size, "encrypt", "quotaencrypt")
    /\ UNCHANGED <<known, remote, loc, rep, diskVars>>

AccelCancelled(t) ==
    /\ pc[t] = "accel" /\ t \in ctx
    /\ Ends(t, "cancelled")
    /\ UNCHANGED <<known, remote, loc, rep, diskVars, cause>>

\* Phase 2: the part file is copied into the encryption stream.
Encrypt(t) ==
    /\ pc[t] = "encrypt"
    /\ loc' = [loc EXCEPT ![t].dest = Plain(remote[t].size)]
    /\ Goto(t, "move")
    /\ UNCHANGED <<known, remote, taskVars, rep, diskVars, cause>>

EncryptFails(t) ==
    /\ pc[t] = "encrypt"
    /\ Ends(t, "failed")
    /\ UNCHANGED <<known, remote, loc, rep, diskVars, cause>>

\* DownloadTorrent tries the web seeds first and then the peers.
Sources == WebSeeds + Peers

FromPeer(t) == remote[t].kind = "magnet" /\ loc[t].src > WebSeeds

(***************************************************************************)
(* A read of streamWithProgress or a block of a peer: the context is       *)
(* looked at first.  A report follows a read when enough time has passed,  *)
(* and always a block.  An end of file that comes with the last bytes      *)
(* leads to the same states as one that comes after them.                  *)
(***************************************************************************)
Receive(t, report) ==
    LET n == loc[t].got + 1 IN
    /\ pc[t] = "stream" /\ t \notin ctx
    /\ n <= remote[t].size
    /\ FromPeer(t) => report
    /\ loc' = [loc EXCEPT ![t].got = n, ![t].dest = Append(@, n)]
    /\ IF report THEN OnProgress(t, n, "stream", "quotastream")
       ELSE UNCHANGED <<taskVars, pc, cause>>
    /\ UNCHANGED <<known, remote, rep, diskVars>>

(***************************************************************************)
(* A Piece message is appended whatever its index and begin say: a peer    *)
(* may send byte b of the file, or none of its bytes (b = 0), where byte   *)
(* got + 1 is due.  After a second Unchoke, which asks for the first block *)
(* again, an honest peer does so.                                          *)
(***************************************************************************)
ReceiveStray(t, b) ==
    LET n == loc[t].got + 1 IN
    /\ pc[t] = "stream" /\ t \notin ctx
    /\ FromPeer(t)
    /\ n <= remote[t].size + Excess
    /\ b # n
    /\ loc' = [loc EXCEPT ![t].got = n, ![t].dest = Append(@, b)]
    /\ cause' = [cause EXCEPT ![t] = @ \cup {"stray"} \cup
                                     (IF OverQuota(t, n) THEN {"quota"} ELSE {})]
    /\ IF OverQuota(t, n)
       THEN ctx' = ctx \cup {t} /\ Goto(t, "quotastream") /\ UNCHANGED bytes
       ELSE bytes' = [bytes EXCEPT ![t] = n] /\ UNCHANGED <<ctx, pc>>
    /\ UNCHANGED <<known, remote, status, rep, diskVars>>

\* Mutant: nothing is reported at the end of the stream.
BugNoLastReport(t) == Goto(t, "move") /\ UNCHANGED <<taskVars, cause>>

\* The report after the end of the stream.
LastReport(t) == OnProgress(t, loc[t].got, "move", "quotafinish")

StreamEnd(t) ==
    /\ pc[t] = "stream" /\ t \notin ctx
    /\ loc[t].got = remote[t].size
    /\ ~ FromPeer(t)
    /\ LastReport(t)
    /\ UNCHANGED <<known, remote, loc, rep, diskVars>>

(***************************************************************************)
(* downloadFromPeer: when the blocks make up the length, but also when the *)
(* connection breaks or times out after the first block, the transfer      *)
(* succeeded, without a look at the context.                               *)
(***************************************************************************)
PeerEnd(t) ==
    /\ pc[t] = "stream" /\ FromPeer(t)
    /\ loc[t].got > 0
    /\ Goto(t, "move")
    /\ IF loc[t].got < remote[t].size THEN Blame(t, "short") ELSE UNCHANGED cause
    /\ UNCHANGED <<known, remote, taskVars, loc, rep, diskVars>>

\* Mutant: the stream does not look at its context.
BugDeaf(t) == FALSE

Interrupted(t) == t \in ctx

StreamCancelled(t) ==
    /\ pc[t] = "stream" /\ Interrupted(t)
    /\ Ends(t, "cancelled")
    /\ UNCHANGED <<known, remote, loc, rep, diskVars, cause>>

MoreSources(t) == remote[t].kind = "magnet" /\ loc[t].src < Sources

\* The source fails.  A magnet link goes on to the next one, with the same writer.
NextSource(t) ==
    /\ pc[t] = "stream" /\ t \notin ctx
    /\ MoreSources(t)
    /\ loc' = [loc EXCEPT ![t].src = @ + 1, ![t].got = 0]
    /\ IF loc[t].got > 0 THEN Blame(t, "mixed") ELSE UNCHANGED cause
    /\ UNCHANGED <<known, remote, taskVars, pc, rep, diskVars>>

StreamFails(t) ==
    /\ pc[t] = "stream" /\ t \notin ctx
    /\ ~ MoreSources(t)
    /\ Ends(t, "failed")
    /\ UNCHANGED <<known, remote, loc, rep, diskVars, cause>>

\* MoveToCASWithStatus: the temporary file is renamed, or dropped for a blob that exists.
MoveToCAS(t) ==
    /\ pc[t] = "move"
    /\ temp' = temp \ {t}
    /\ Goto(t, "insert")
    /\ UNCHANGED <<known, remote, taskVars, loc, rep, rows, used, cause>>

\* The same after the last Flush failed and only m bytes are in the file.
MoveToCASCut(t, m) ==
    /\ pc[t] = "move"
    /\ m < Len(loc[t].dest)
    /\ loc' = [loc EXCEPT ![t].dest = SubSeq(@, 1, m)]
    /\ temp' = temp \ {t}
    /\ Goto(t, "insert")
    /\ Blame(t, "disk")
    /\ UNCHANGED <<known, remote, taskVars, rep, rows, used>>

MoveToCASFails(t) ==
    /\ pc[t] = "move"
    /\ Ends(t, "failed")
    /\ UNCHANGED <<known, remote, loc, rep, diskVars, cause>>

\* INSERT INTO files, with the size the last progress report left in the task.
InsertRow(t) ==
    /\ pc[t] = "insert"
    /\ rows' = rows \cup {[task |-> t, size |-> bytes[t], bytes |-> loc[t].dest]}
    /\ used' = used + bytes[t]
    /\ Goto(t, "mark")
    /\ UNCHANGED <<known, remote, taskVars, loc, rep, temp, cause>>

InsertFails(t) ==
    /\ pc[t] = "insert"
    /\ Ends(t, "failed")
    /\ UNCHANGED <<known, remote, loc, rep, diskVars, cause>>

\* Mutant: a task that was cancelled or failed meanwhile is left so.
BugKeepFinal(t) ==
    IF status[t] = "downloading" THEN SetStatus(t, "completed") ELSE UNCHANGED status

Complete(t) == SetStatus(t, "completed")

TaskCompleted(t) ==
    /\ pc[t] = "mark"
    /\ Complete(t)
    /\ Goto(t, "exit")
    /\ UNCHANGED <<known, remote, bytes, ctx, loc, rep, diskVars, cause>>

\* Mutant: only a failed task cleans up.
BugCleanFailed(t) == status[t] = "failed"

CleansUp(t) == status[t] # "completed"

\* The deferred clean-up.
Exit(t) ==
    /\ pc[t] = "exit"
    /\ temp' = IF CleansUp(t) THEN temp \ {t} ELSE temp
    /\ Goto(t, "gone")
    /\ UNCHANGED <<known, remote, taskVars, loc, rep, rows, used, cause>>

-----------------------------------------------------------------------------
(* The reporter goroutine of DownloadToFile, which nobody waits for *)

ReporterLoad(t) ==
    /\ rep[t].at = "wait"
    /\ rep' = [rep EXCEPT ![t] = [at |-> "loaded", tick |-> loc[t].got]]
    /\ UNCHANGED <<known, remote, taskVars, pc, loc, diskVars, cause>>

\* What the reporter does to the task is late once DownloadToFile is over.
BlameLate(t) == IF pc[t] = "accel" THEN {} ELSE {"late"}

ReporterReport(t) ==
    /\ rep[t].at = "loaded"
    /\ IF OverQuota(t, rep[t].tick)
       THEN /\ ctx' = ctx \cup {t}
            /\ rep' = [rep EXCEPT ![t].at = "over"]
            /\ cause' = [cause EXCEPT ![t] = @ \cup {"quota"} \cup BlameLate(t)]
            /\ UNCHANGED bytes
       ELSE /\ bytes' = [bytes EXCEPT ![t] = rep[t].tick]
            /\ rep' = [rep EXCEPT ![t].at = "wait"]
            /\ cause' = [cause EXCEPT ![t] = @ \cup BlameLate(t)]
            /\ UNCHANGED ctx
    /\ UNCHANGED <<known, remote, status, pc, loc, diskVars>>

ReporterFails(t) ==
    /\ rep[t].at = "over"
    /\ SetStatus(t, "failed")
    /\ rep' = [rep EXCEPT ![t].at = "wait"]
    /\ cause' = [cause EXCEPT ![t] = @ \cup BlameLate(t)]
    /\ UNCHANGED <<known, remote, bytes, ctx, pc, loc, diskVars>>

ReporterStop(t) ==
    /\ rep[t].at = "wait"
    /\ pc[t] # "accel" \/ t \in ctx
    /\ rep' = [rep EXCEPT ![t] = NoRep]
    /\ UNCHANGED <<known, remote, taskVars, pc, loc, diskVars, cause>>

-----------------------------------------------------------------------------
Request(t) ==
    \/ \E k \in Kinds, n \in Sizes : StartDownload(t, k, n)
    \/ CancelTask(t) \/ CancelAllTasks(t) \/ DismissTask(t)

\* Steps that wait for nothing but the processor and the disk.
OwnStep(t) ==
    \/ Setup(t) \/ SetupFails(t) \/ AccelBegin(t) \/ StreamBegin(t)
    \/ AccelCancelled(t) \/ StreamCancelled(t) \/ QuotaFails(t)
    \/ Encrypt(t) \/ EncryptFails(t) \/ MoveToCAS(t) \/ MoveToCASFails(t)
    \/ (\E m \in 0..Len(loc[t].dest) : MoveToCASCut(t, m))
    \/ InsertRow(t) \/ InsertFails(t) \/ TaskCompleted(t) \/ Exit(t)

\* Steps that wait for the network.
NetworkStep(t) ==
    \/ AccelReceive(t) \/ AccelDone(t)
    \/ (\E report \in BOOLEAN : Receive(t, report)) \/ StreamEnd(t) \/ PeerEnd(t)
    \/ (\E b \in 0..remote[t].size : ReceiveStray(t, b))
    \/ NextSource(t) \/ StreamFails(t)

ReporterStep(t) ==
    ReporterLoad(t) \/ ReporterReport(t) \/ ReporterFails(t) \/ ReporterStop(t)

Next ==
    \/ \E t \in Tasks : Request(t) \/ OwnStep(t) \/ NetworkStep(t) \/ ReporterStep(t)
    \/ OtherFiles

Spec == Init /\ [][Next]_vars

(***************************************************************************)
(* A goroutine that need not wait for the network goes on.  Nothing is     *)
(* assumed of the network.                                                 *)
(***************************************************************************)
FairSpec == Spec /\ \A t \in Tasks : WF_vars(OwnStep(t))

-----------------------------------------------------------------------------
Locals    == [base : Nat, got : Nat, src : 1..Sources, dest : Seq(Nat)]
Reporters == [at : {"off", "wait", "loaded", "over"}, tick : Nat]

\* Every variable has the shape its Go counterpart has.
TypeOK ==
    /\ known \subseteq Tasks
    /\ remote \in [Tasks -> [kind : {"direct", "magnet"}, size : Nat]]
    /\ status \in [Tasks -> Statuses]
    /\ bytes \in [Tasks -> Nat]
    /\ ctx \subseteq Tasks
    /\ pc \in [Tasks -> PCs]
    /\ loc \in [Tasks -> Locals]
    /\ rep \in [Tasks -> Reporters]
    /\ temp \subseteq Tasks
    /\ rows \subseteq [task : Tasks, size : Nat, bytes : Seq(Nat)]
    /\ used \in Nat
    /\ cause \in [Tasks -> SUBSET Causes]
    /\ \A t \in Tasks : pc[t] = "none" <=> status[t] = "none"

(***************************************************************************)
(* A row made by a download has the bytes of the remote file and their     *)
(* number as its size, though the size comes from a progress callback      *)
(* (manager.go:484) and whatever cancellations, broken transfers and other *)
(* tasks happen, unless one of the causes above struck the task.           *)
(***************************************************************************)
RowIsRemoteFile ==
    \A r \in rows :
        cause[r.task] = {} => r.bytes = Plain(remote[r.task].size) /\ r.size = Len(r.bytes)

(***************************************************************************)
(* When executeDownload has returned, the task says completed exactly if   *)
(* its file is in the table, and otherwise failed or cancelled: users see  *)
(* what happened, though requests, callbacks and the goroutine overwrite   *)
(* each other's status, unless the reporter came late.                     *)
(***************************************************************************)
StatusTellsRow ==
    \A t \in Tasks :
        pc[t] = "gone" /\ "late" \notin cause[t] =>
            status[t] \in Final /\ (status[t] = "completed" <=> HasRow(t))

(***************************************************************************)
(* The deferred clean-up of executeDownload leaves no temporary file,      *)
(* whoever changed the status last.                                        *)
(***************************************************************************)
NoTempLeft == \A t \in temp : pc[t] # "gone"

(***************************************************************************)
(* A cancelled download ends, whatever the network does.                   *)
(***************************************************************************)
CancelEnds == \A t \in Tasks : t \in ctx ~> pc[t] = "gone"
=============================================================================
