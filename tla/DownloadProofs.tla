--------------------------- MODULE DownloadProofs ---------------------------
(***************************************************************************)
(* Proofs about the two machines of a download from the Internet: the      *)
(* tasks (DownloadTasks), for any set of tasks and sizes, any quota and    *)
(* any number of sources, and the multi-connection downloader they use     *)
(* (AcceleratedDownload), for any number of pieces, workers, retries and   *)
(* failures.  Of the tasks there are three invariants, each proved to be   *)
(* preserved with the help of the ones before it: the types, what the      *)
(* status says, and what the bytes are.                                    *)
(***************************************************************************)
EXTENDS DownloadTasks, AcceleratedDownload, FiniteSetTheorems, TLAPS

\* Only a task that was started is in the table or has a reporter.
TypeInv ==
    /\ TypeOK
    /\ \A t \in Tasks : t \in known \/ rep[t].at # "off" => pc[t] # "none"

\* The types the argument about the status needs.
Shape ==
    /\ status \in [Tasks -> Statuses]
    /\ pc \in [Tasks -> PCs]
    /\ cause \in [Tasks -> SUBSET Causes]
    /\ temp \subseteq Tasks

\* The temporary file is gone where the clean-up will not look for it.
TempOK(t) ==
    /\ pc[t] \in {"insert", "mark", "gone"} => t \notin temp
    /\ status[t] = "completed" => pc[t] \in {"exit", "gone"} /\ t \notin temp

\* The row appears on the way to "mark", and the goroutine leaves with a status that fits.
RowOK(t) ==
    /\ HasRow(t) => pc[t] \in {"mark", "exit", "gone"}
    /\ pc[t] = "mark" => HasRow(t)
    /\ pc[t] \in {"exit", "gone"} /\ "late" \notin cause[t] =>
          status[t] \in Final /\ (status[t] = "completed" <=> HasRow(t))

StatusInv == \A t \in Tasks : TempOK(t) /\ RowOK(t)

(***************************************************************************)
(* What has been written, and the size the last report left, while nothing *)
(* went wrong: a beginning of the remote file, and all of it afterwards.   *)
(***************************************************************************)
BytesOK(t) ==
    /\ pc[t] \notin {"quotastream", "quotafinish", "quotaencrypt"}
    /\ pc[t] \in {"none", "setup", "probe"} => loc[t].got = 0 /\ loc[t].dest = <<>>
    /\ pc[t] = "stream" =>
          /\ loc[t].got <= remote[t].size
          /\ loc[t].dest = Plain(loc[t].got)
          /\ FromPeer(t) /\ loc[t].got > 0 => bytes[t] = loc[t].got
    /\ pc[t] = "encrypt" => bytes[t] = remote[t].size
    /\ pc[t] \in {"move", "insert"} =>
          bytes[t] = remote[t].size /\ loc[t].dest = Plain(remote[t].size)

BytesInv == RowIsRemoteFile /\ \A t \in Tasks : cause[t] = {} => BytesOK(t)

-----------------------------------------------------------------------------
(* Types *)

LEMMA TypeInit == Init => TypeInv
  BY TaskConstants DEF Init, TypeInv, TypeOK, Locals, Reporters, NoLoc, NoRep,
               Statuses, PCs, Causes, Sources

\* What an action may write into the locals of a goroutine ...
LEMMA LocType ==
  ASSUME loc \in [Tasks -> Locals], NEW t \in Tasks, NEW n \in Nat,
         NEW d \in Seq(Nat)
  PROVE  /\ [loc EXCEPT ![t].base = n] \in [Tasks -> Locals]
         /\ [loc EXCEPT ![t].got = n] \in [Tasks -> Locals]
         /\ [loc EXCEPT ![t].dest = d] \in [Tasks -> Locals]
         /\ [loc EXCEPT ![t].got = n, ![t].dest = d] \in [Tasks -> Locals]
<1>1. [loc EXCEPT ![t].base = n] \in [Tasks -> Locals]
  BY DEF Locals
<1>2. [loc EXCEPT ![t].got = n] \in [Tasks -> Locals]
  BY DEF Locals
<1>3. [loc EXCEPT ![t].dest = d] \in [Tasks -> Locals]
  BY DEF Locals
<1>4. [loc EXCEPT ![t].got = n, ![t].dest = d] \in [Tasks -> Locals]
  BY DEF Locals
<1> QED
  BY <1>1, <1>2, <1>3, <1>4

LEMMA SrcType ==
  ASSUME loc \in [Tasks -> Locals], NEW t \in Tasks, NEW i \in 1..Sources
  PROVE  [loc EXCEPT ![t].src = i, ![t].got = 0] \in [Tasks -> Locals]
  BY DEF Locals

LEMMA LocFields ==
  ASSUME loc \in [Tasks -> Locals], NEW t \in Tasks
  PROVE  loc[t].got \in Nat /\ loc[t].dest \in Seq(Nat) /\ loc[t].src \in 1..Sources
  BY DEF Locals

\* ... of a reporter ...
LEMMA RepType ==
  ASSUME rep \in [Tasks -> Reporters], NEW t \in Tasks, NEW n \in Nat,
         NEW a \in {"off", "wait", "loaded", "over"}
  PROVE  /\ [rep EXCEPT ![t].at = a] \in [Tasks -> Reporters]
         /\ [rep EXCEPT ![t] = [at |-> a, tick |-> n]] \in [Tasks -> Reporters]
<1>1. [rep EXCEPT ![t].at = a] \in [Tasks -> Reporters]
  BY DEF Reporters
<1>2. [rep EXCEPT ![t] = [at |-> a, tick |-> n]] \in [Tasks -> Reporters]
  BY DEF Reporters
<1> QED
  BY <1>1, <1>2

\* ... and into the history.
LEMMA CauseType ==
  ASSUME cause \in [Tasks -> SUBSET Causes], NEW t \in Tasks, NEW C \in SUBSET Causes
  PROVE  [cause EXCEPT ![t] = @ \cup C] \in [Tasks -> SUBSET Causes]
  OBVIOUS

LEMMA BlameType ==
  ASSUME cause \in [Tasks -> SUBSET Causes], NEW t \in Tasks, NEW c \in Causes, Blame(t, c)
  PROVE  cause' \in [Tasks -> SUBSET Causes]
  BY CauseType DEF Blame

LEMMA PlainType ==
  ASSUME NEW n \in Nat
  PROVE  Plain(n) \in Seq(Nat) /\ Len(Plain(n)) = n
  BY DEF Plain

\* A report the goroutine makes.
LEMMA ProgressType ==
  ASSUME TypeOK, NEW t \in Tasks, NEW n \in Nat, NEW p \in PCs \ {"none"},
         NEW q \in PCs \ {"none"}, OnProgress(t, n, p, q), pc[t] # "none"
  PROVE  /\ bytes' \in [Tasks -> Nat] /\ ctx' \subseteq Tasks
         /\ pc' \in [Tasks -> PCs] /\ cause' \in [Tasks -> SUBSET Causes]
         /\ status' = status
         /\ \A u \in Tasks : pc'[u] = "none" <=> pc[u] = "none"
<1>1. CASE OverQuota(t, n)
  <2>1. cause' \in [Tasks -> SUBSET Causes]
    BY <1>1, BlameType DEF OnProgress, TypeOK, Causes
  <2> QED
    BY <1>1, <2>1 DEF OnProgress, TypeOK, Goto
<1>2. CASE ~ OverQuota(t, n)
  BY <1>2 DEF OnProgress, TypeOK, Goto
<1> QED
  BY <1>1, <1>2

LEMMA TypeRequest ==
  ASSUME TypeInv, NEW t \in Tasks, Request(t)
  PROVE  TypeInv'
<1> USE DEF TypeInv, TypeOK, Statuses, PCs, taskVars, diskVars, Goto, SetStatus
<1>1. ASSUME NEW k \in Kinds, NEW n \in Sizes, StartDownload(t, k, n)
     PROVE  TypeInv'
  BY <1>1, TaskConstants DEF StartDownload
<1>2. CASE CancelTask(t)
  BY <1>2, TaskConstants DEF CancelTask
<1>3. CASE CancelAllTasks(t)
  BY <1>3, TaskConstants DEF CancelAllTasks
<1>4. CASE DismissTask(t)
  BY <1>4, TaskConstants DEF DismissTask
<1> QED
  BY <1>1, <1>2, <1>3, <1>4 DEF Request

LEMMA TypeOwnStep ==
  ASSUME TypeInv, NEW t \in Tasks, OwnStep(t)
  PROVE  TypeInv'
<1> USE DEF TypeInv, TypeOK, Statuses, PCs, taskVars, diskVars, Goto, SetStatus
<1>1. CASE Setup(t)
  <2>1. loc' \in [Tasks -> Locals]
    <3>1. <<>> \in Seq(Nat)
      OBVIOUS
    <3> QED
      BY <1>1, <3>1, LocType DEF Setup
  <2>2. CASE Quota > 0 /\ used >= Quota
    BY <1>1, <2>1, <2>2, ZenonT(40) DEF Setup, Ends
  <2>3. CASE ~ (Quota > 0 /\ used >= Quota)
    BY <1>1, <2>1, <2>3 DEF Setup
  <2> QED
    BY <2>2, <2>3
<1>2. CASE SetupFails(t)
  BY <1>2, TaskConstants DEF SetupFails, Ends
<1>3. CASE AccelBegin(t)
  <2>1. rep' \in [Tasks -> Reporters]
    BY <1>3, RepType DEF AccelBegin
  <2> QED
    BY <1>3, <2>1 DEF AccelBegin
<1>4. CASE StreamBegin(t)
  BY <1>4, TaskConstants DEF StreamBegin
<1>5. CASE AccelCancelled(t)
  BY <1>5, TaskConstants DEF AccelCancelled, Ends
<1>6. CASE StreamCancelled(t)
  BY <1>6, TaskConstants DEF StreamCancelled, Ends
<1>7. CASE QuotaFails(t)
  BY <1>7, TaskConstants, ZenonT(40) DEF QuotaFails
<1>8. CASE Encrypt(t)
  <2>1. loc' \in [Tasks -> Locals]
    <3>1. remote[t].size \in Nat
      OBVIOUS
    <3> QED
      BY <1>8, <3>1, LocType, LocFields, PlainType DEF Encrypt
  <2> QED
    BY <1>8, <2>1 DEF Encrypt
<1>9. CASE EncryptFails(t)
  BY <1>9, TaskConstants DEF EncryptFails, Ends
<1>10. CASE MoveToCAS(t)
  BY <1>10, TaskConstants DEF MoveToCAS
<1>11. CASE MoveToCASFails(t)
  BY <1>11, TaskConstants DEF MoveToCASFails, Ends
<1>12. CASE InsertRow(t)
  <2>1. [task |-> t, size |-> bytes[t], bytes |-> loc[t].dest]
           \in [task : Tasks, size : Nat, bytes : Seq(Nat)]
    BY LocFields
  <2>2. used' \in Nat
    BY <1>12 DEF InsertRow
  <2> QED
    BY <1>12, <2>1, <2>2 DEF InsertRow
<1>13. CASE InsertFails(t)
  BY <1>13, TaskConstants DEF InsertFails, Ends
<1>14. CASE TaskCompleted(t)
  BY <1>14, TaskConstants DEF TaskCompleted, Complete
<1>15. CASE Exit(t)
  BY <1>15, TaskConstants DEF Exit, CleansUp
<1>16. ASSUME NEW m \in 0..Len(loc[t].dest), MoveToCASCut(t, m)
      PROVE  TypeInv'
  <2>1. loc[t].dest \in Seq(Nat) /\ m \in Nat /\ m <= Len(loc[t].dest)
    BY LocFields
  <2>2. SubSeq(loc[t].dest, 1, m) \in Seq(Nat)
    BY <2>1
  <2>3. loc' = [loc EXCEPT ![t].dest = SubSeq(loc[t].dest, 1, m)]
    BY <1>16 DEF MoveToCASCut, Locals
  <2>4. loc' \in [Tasks -> Locals]
    BY <2>2, <2>3, LocType, LocFields
  <2>5. cause' \in [Tasks -> SUBSET Causes]
    BY <1>16, BlameType DEF MoveToCASCut, Causes
  <2> QED
    BY <1>16, <2>4, <2>5 DEF MoveToCASCut
<1> QED
  BY <1>1, <1>2, <1>3, <1>4, <1>5, <1>6, <1>7, <1>8, <1>9, <1>10, <1>11, <1>12, <1>13, <1>14,
     <1>15, <1>16 DEF OwnStep

LEMMA TypeNetworkStep ==
  ASSUME TypeInv, NEW t \in Tasks, NetworkStep(t)
  PROVE  TypeInv'
<1> USE DEF TypeInv, TypeOK, Statuses, PCs, taskVars, diskVars, Goto, SetStatus
<1>1. CASE AccelReceive(t)
  <2>1. loc' \in [Tasks -> Locals]
    <3>1. loc[t].got + 1 \in Nat /\ loc' = [loc EXCEPT ![t].got = loc[t].got + 1]
      BY <1>1, LocFields DEF AccelReceive, Locals
    <3> QED
      BY <3>1, LocType, LocFields
  <2> QED
    BY <1>1, <2>1 DEF AccelReceive
<1>2. CASE AccelDone(t)
  <2>1. remote[t].size \in Nat
    OBVIOUS
  <2>2. OnProgress(t, remote[t].size, "encrypt", "quotaencrypt") /\ pc[t] # "none"
    BY <1>2 DEF AccelDone
  <2> QED
    BY <1>2, <2>1, <2>2, ProgressType DEF AccelDone
<1>3. ASSUME NEW report \in BOOLEAN, Receive(t, report)
     PROVE  TypeInv'
  <2> DEFINE n == loc[t].got + 1
  <2>1. n \in Nat /\ Append(loc[t].dest, n) \in Seq(Nat)
    BY LocFields
  <2>2. loc' = [loc EXCEPT ![t].got = n, ![t].dest = Append(loc[t].dest, n)]
    BY <1>3 DEF Receive, Locals
  <2>3. loc' \in [Tasks -> Locals]
    BY <2>1, <2>2, LocType, LocFields
  <2>4. pc[t] = "stream"
    BY <1>3 DEF Receive
  <2>5. CASE report
    <3>1. OnProgress(t, n, "stream", "quotastream")
      BY <1>3, <2>5 DEF Receive
    <3> QED
      BY <1>3, <2>1, <2>3, <2>4, <3>1, ProgressType, ZenonT(40) DEF Receive
  <2>6. CASE ~ report
    BY <1>3, <2>3, <2>6 DEF Receive
  <2> QED
    BY <2>5, <2>6
<1>4. CASE StreamEnd(t)
  <2>1. loc[t].got \in Nat
    BY LocFields
  <2>2. OnProgress(t, loc[t].got, "move", "quotafinish") /\ pc[t] # "none"
    BY <1>4 DEF StreamEnd, LastReport
  <2> QED
    BY <1>4, <2>1, <2>2, ProgressType, SMTT(30) DEF StreamEnd
<1>5. CASE PeerEnd(t)
  <2>1. cause' \in [Tasks -> SUBSET Causes]
    BY <1>5, BlameType DEF PeerEnd, Causes
  <2> QED
    BY <1>5, <2>1 DEF PeerEnd
<1>6. CASE NextSource(t)
  <2>1. cause' \in [Tasks -> SUBSET Causes]
    BY <1>6, BlameType DEF NextSource, Causes
  <2>2. loc[t].src + 1 \in 1..Sources
    BY <1>6, LocFields, TaskConstants DEF NextSource, MoreSources, Sources
  <2>3. loc' = [loc EXCEPT ![t].src = loc[t].src + 1, ![t].got = 0]
    BY <1>6 DEF NextSource, Locals
  <2>4. loc' \in [Tasks -> Locals]
    BY <2>2, <2>3, SrcType
  <2> QED
    BY <1>6, <2>1, <2>4 DEF NextSource
<1>7. CASE StreamFails(t)
  BY <1>7, TaskConstants DEF StreamFails, Ends
<1>8. ASSUME NEW b \in 0..remote[t].size, ReceiveStray(t, b)
      PROVE  TypeInv'
  <2> DEFINE n == loc[t].got + 1
  <2>1. n \in Nat /\ b \in Nat /\ Append(loc[t].dest, b) \in Seq(Nat)
    BY LocFields
  <2>2. loc' = [loc EXCEPT ![t].got = n, ![t].dest = Append(loc[t].dest, b)]
    BY <1>8 DEF ReceiveStray, Locals
  <2>3. loc' \in [Tasks -> Locals]
    BY <2>1, <2>2, LocType, LocFields
  <2>4. cause' \in [Tasks -> SUBSET Causes]
    <3>1. {"stray"} \cup (IF OverQuota(t, n) THEN {"quota"} ELSE {}) \in SUBSET Causes
      BY DEF Causes
    <3>2. cause' = [cause EXCEPT ![t] = @ \cup ({"stray"} \cup (IF OverQuota(t, n) THEN {"quota"} ELSE {}))]
      BY <1>8 DEF ReceiveStray
    <3> QED
      BY <3>1, <3>2, CauseType
  <2>5. /\ pc[t] = "stream" /\ UNCHANGED <<known, remote, status, rep, temp, rows, used>>
        /\ IF OverQuota(t, n)
           THEN ctx' = ctx \cup {t} /\ pc' = [pc EXCEPT ![t] = "quotastream"] /\ UNCHANGED bytes
           ELSE bytes' = [bytes EXCEPT ![t] = n] /\ UNCHANGED <<ctx, pc>>
    BY <1>8 DEF ReceiveStray
  <2> HIDE DEF n
  <2>6. CASE OverQuota(t, n)
    <3>1. ctx' = ctx \cup {t} /\ pc' = [pc EXCEPT ![t] = "quotastream"] /\ UNCHANGED bytes
      BY <2>5, <2>6, Zenon
    <3>2. /\ ctx' \subseteq Tasks /\ pc' \in [Tasks -> PCs] /\ bytes' \in [Tasks -> Nat]
          /\ \A u \in Tasks : pc'[u] = "none" <=> pc[u] = "none"
      BY <2>5, <3>1
    <3> QED
      BY <2>3, <2>4, <2>5, <3>2, ZenonT(40)
  <2>7. CASE ~ OverQuota(t, n)
    <3>1. bytes' \in [Tasks -> Nat] /\ UNCHANGED <<ctx, pc>>
      <4>1. bytes' = [bytes EXCEPT ![t] = n] /\ UNCHANGED <<ctx, pc>>
        BY <2>5, <2>7, Zenon
      <4> QED
        BY <2>1, <4>1
    <3> QED
      BY <2>3, <2>4, <2>5, <3>1, ZenonT(40)
  <2> QED
    BY <2>6, <2>7
<1> QED
  BY <1>1, <1>2, <1>3, <1>4, <1>5, <1>6, <1>7, <1>8 DEF NetworkStep

LEMMA TypeReporter ==
  ASSUME TypeInv, NEW t \in Tasks, ReporterStep(t)
  PROVE  TypeInv'
<1> USE DEF TypeInv, TypeOK, Statuses, PCs, taskVars, diskVars, Goto, SetStatus
<1>1. CASE ReporterLoad(t)
  <2>1. rep' \in [Tasks -> Reporters]
    BY <1>1, RepType, LocFields DEF ReporterLoad
  <2> QED
    BY <1>1, <2>1 DEF ReporterLoad
<1>2. CASE ReporterReport(t)
  <2>1. cause' \in [Tasks -> SUBSET Causes]
    <3>1. {"quota"} \cup BlameLate(t) \in SUBSET Causes /\ BlameLate(t) \in SUBSET Causes
      BY DEF BlameLate, Causes
    <3>2. \E C \in {{"quota"} \cup BlameLate(t), BlameLate(t)} :
              cause' = [cause EXCEPT ![t] = cause[t] \cup C]
      BY <1>2 DEF ReporterReport
    <3> QED
      BY <3>1, <3>2, CauseType
  <2>2. rep' \in [Tasks -> Reporters] /\ rep[t].tick \in Nat
    <3>1. rep[t].tick \in Nat
      BY DEF Reporters
    <3>2. PICK a \in {"off", "wait", "loaded", "over"} : rep' = [rep EXCEPT ![t].at = a]
      BY <1>2 DEF ReporterReport
    <3> QED
      BY <3>1, <3>2, RepType
  <2>3. bytes' \in [Tasks -> Nat] /\ ctx' \subseteq Tasks
    BY <1>2, <2>2 DEF ReporterReport
  <2>4. pc[t] # "none" /\ \A u \in Tasks : u # t => rep'[u] = rep[u]
    BY <1>2 DEF ReporterReport
  <2> QED
    BY <1>2, <2>1, <2>2, <2>3, <2>4 DEF ReporterReport
<1>3. CASE ReporterFails(t)
  <2>1. cause' \in [Tasks -> SUBSET Causes]
    <3>1. BlameLate(t) \in SUBSET Causes
      BY DEF BlameLate, Causes
    <3> QED
      BY <1>3, <3>1, CauseType DEF ReporterFails
  <2>2. rep' \in [Tasks -> Reporters]
    BY <1>3, RepType DEF ReporterFails
  <2>3. pc[t] # "none" /\ \A u \in Tasks : u # t => rep'[u] = rep[u]
    BY <1>3 DEF ReporterFails
  <2> QED
    BY <1>3, <2>1, <2>2, <2>3 DEF ReporterFails
<1>4. CASE ReporterStop(t)
  <2>1. rep' \in [Tasks -> Reporters]
    BY <1>4, RepType DEF ReporterStop, NoRep
  <2> QED
    BY <1>4, <2>1 DEF ReporterStop
<1> QED
  BY <1>1, <1>2, <1>3, <1>4 DEF ReporterStep

LEMMA TypeStep ==
  ASSUME TypeInv, [Next]_vars
  PROVE  TypeInv'
<1>1. CASE \E t \in Tasks : Request(t) \/ OwnStep(t) \/ NetworkStep(t) \/ ReporterStep(t)
  BY <1>1, TypeRequest, TypeOwnStep, TypeNetworkStep, TypeReporter
<1>2. CASE OtherFiles
  BY <1>2 DEF OtherFiles, TypeInv, TypeOK, Statuses, PCs, taskVars, diskVars
<1>3. CASE UNCHANGED vars
  BY <1>3 DEF vars, TypeInv, TypeOK, Statuses, PCs, taskVars, diskVars
<1> QED
  BY <1>1, <1>2, <1>3 DEF Next

-----------------------------------------------------------------------------
(* Status *)

LEMMA StatusInit == Init => StatusInv
  BY DEF Init, StatusInv, TempOK, RowOK, HasRow

LEMMA StatusRequest ==
  ASSUME Shape, StatusInv, NEW t \in Tasks, Request(t)
  PROVE  StatusInv'
<1> USE DEF Shape, StatusInv, TempOK, RowOK, Statuses, PCs, Final, taskVars, diskVars,
            Goto, SetStatus
<1>1. ASSUME NEW k \in Kinds, NEW n \in Sizes, StartDownload(t, k, n)
     PROVE  StatusInv'
  BY <1>1 DEF StartDownload, HasRow
<1>2. CASE CancelTask(t)
  BY <1>2 DEF CancelTask, HasRow
<1>3. CASE CancelAllTasks(t)
  BY <1>3 DEF CancelAllTasks, HasRow
<1>4. CASE DismissTask(t)
  BY <1>4 DEF DismissTask, HasRow
<1> QED
  BY <1>1, <1>2, <1>3, <1>4 DEF Request

LEMMA StatusOwnStep ==
  ASSUME Shape, StatusInv, NEW t \in Tasks, OwnStep(t)
  PROVE  StatusInv'
<1> USE DEF Shape, StatusInv, TempOK, RowOK, Statuses, PCs, Final, taskVars, diskVars,
            Goto, SetStatus
<1>1. CASE Setup(t)
  BY <1>1 DEF Setup, HasRow, Ends
<1>2. CASE SetupFails(t)
  BY <1>2 DEF SetupFails, HasRow, Ends
<1>3. CASE AccelBegin(t)
  BY <1>3 DEF AccelBegin, HasRow
<1>4. CASE StreamBegin(t)
  BY <1>4 DEF StreamBegin, HasRow
<1>5. CASE AccelCancelled(t)
  BY <1>5 DEF AccelCancelled, HasRow, Ends
<1>6. CASE StreamCancelled(t)
  BY <1>6 DEF StreamCancelled, HasRow, Ends
<1>7. CASE QuotaFails(t)
  BY <1>7 DEF QuotaFails, HasRow
<1>8. CASE Encrypt(t)
  BY <1>8 DEF Encrypt, HasRow
<1>9. CASE EncryptFails(t)
  BY <1>9 DEF EncryptFails, HasRow, Ends
<1>10. CASE MoveToCAS(t)
  BY <1>10 DEF MoveToCAS, HasRow
<1>11. CASE MoveToCASFails(t)
  BY <1>11 DEF MoveToCASFails, HasRow, Ends
<1>12. CASE InsertRow(t)
  <2> DEFINE row == [task |-> t, size |-> bytes[t], bytes |-> loc[t].dest]
  <2>1. HasRow(t)'
    <3>1. row \in rows' /\ row.task = t
      BY <1>12 DEF InsertRow
    <3> QED
      BY <3>1 DEF HasRow
  <2>2. \A u \in Tasks : u # t => (HasRow(u)' <=> HasRow(u))
    BY <1>12 DEF InsertRow, HasRow
  <2>3. pc' = [pc EXCEPT ![t] = "mark"] /\ UNCHANGED <<status, temp, cause>>
    BY <1>12 DEF InsertRow
  <2>4. pc[t] = "insert"
    BY <1>12 DEF InsertRow
  <2> QED
    BY <2>1, <2>2, <2>3, <2>4
<1>13. CASE InsertFails(t)
  BY <1>13 DEF InsertFails, HasRow, Ends
<1>14. CASE TaskCompleted(t)
  BY <1>14 DEF TaskCompleted, HasRow, Complete
<1>15. CASE Exit(t)
  BY <1>15 DEF Exit, HasRow, CleansUp
<1>16. ASSUME NEW m \in 0..Len(loc[t].dest), MoveToCASCut(t, m)
      PROVE  StatusInv'
  BY <1>16 DEF MoveToCASCut, HasRow, Blame, Causes
<1> QED
  BY <1>1, <1>2, <1>3, <1>4, <1>5, <1>6, <1>7, <1>8, <1>9, <1>10, <1>11, <1>12, <1>13, <1>14,
     <1>15, <1>16 DEF OwnStep

LEMMA StatusNetworkStep ==
  ASSUME Shape, StatusInv, NEW t \in Tasks, NetworkStep(t)
  PROVE  StatusInv'
<1> USE DEF Shape, StatusInv, TempOK, RowOK, Statuses, PCs, Final, taskVars, diskVars,
            Goto, SetStatus
<1>1. CASE AccelReceive(t)
  BY <1>1 DEF AccelReceive, HasRow
<1>2. CASE AccelDone(t)
  BY <1>2 DEF AccelDone, HasRow, OnProgress, Blame, Causes
<1>3. ASSUME NEW report \in BOOLEAN, Receive(t, report)
     PROVE  StatusInv'
  BY <1>3 DEF Receive, HasRow, OnProgress, Blame, Causes
<1>4. CASE StreamEnd(t)
  BY <1>4 DEF StreamEnd, HasRow, LastReport, OnProgress, Blame, Causes
<1>5. CASE PeerEnd(t)
  BY <1>5 DEF PeerEnd, HasRow, Blame, Causes
<1>6. CASE NextSource(t)
  BY <1>6 DEF NextSource, HasRow, Blame, Causes
<1>7. CASE StreamFails(t)
  BY <1>7 DEF StreamFails, HasRow, Ends
<1>8. ASSUME NEW b \in 0..remote[t].size, ReceiveStray(t, b)
      PROVE  StatusInv'
  BY <1>8 DEF ReceiveStray, HasRow, Blame, Causes
<1> QED
  BY <1>1, <1>2, <1>3, <1>4, <1>5, <1>6, <1>7, <1>8 DEF NetworkStep

LEMMA StatusReporter ==
  ASSUME Shape, StatusInv, NEW t \in Tasks, ReporterStep(t)
  PROVE  StatusInv'
<1> USE DEF Shape, StatusInv, TempOK, RowOK, Statuses, PCs, Final, taskVars, diskVars,
            Goto, SetStatus
<1>1. CASE ReporterLoad(t)
  BY <1>1 DEF ReporterLoad, HasRow
<1>2. CASE ReporterReport(t)
  BY <1>2 DEF ReporterReport, HasRow, BlameLate, Causes
<1>3. CASE ReporterFails(t)
  BY <1>3 DEF ReporterFails, HasRow, BlameLate, Causes
<1>4. CASE ReporterStop(t)
  BY <1>4 DEF ReporterStop, HasRow
<1> QED
  BY <1>1, <1>2, <1>3, <1>4 DEF ReporterStep

LEMMA StatusStep ==
  ASSUME Shape, StatusInv, [Next]_vars
  PROVE  StatusInv'
<1>1. CASE \E t \in Tasks : Request(t) \/ OwnStep(t) \/ NetworkStep(t) \/ ReporterStep(t)
  BY <1>1, StatusRequest, StatusOwnStep, StatusNetworkStep, StatusReporter
<1>2. CASE OtherFiles
  BY <1>2 DEF OtherFiles, HasRow, Shape, StatusInv, TempOK, RowOK, Statuses, PCs,
            Final, taskVars, diskVars
<1>3. CASE UNCHANGED vars
  BY <1>3 DEF vars, HasRow, Shape, StatusInv, TempOK, RowOK, Statuses, PCs, Final,
            taskVars, diskVars
<1> QED
  BY <1>1, <1>2, <1>3 DEF Next

-----------------------------------------------------------------------------
(* Bytes *)

LEMMA PlainZero == Plain(0) = <<>>
  BY DEF Plain

LEMMA PlainAppend ==
  ASSUME NEW n \in Nat
  PROVE  Append(Plain(n), n + 1) = Plain(n + 1)
  BY DEF Plain

LEMMA Blamed ==
  ASSUME cause \in [Tasks -> SUBSET Causes], NEW t \in Tasks, NEW c, Blame(t, c)
  PROVE  cause'[t] # {}
<1>1. cause'[t] = cause[t] \cup {c}
  BY DEF Blame
<1> QED
  BY <1>1

\* A report that blames nothing has written the bytes.
LEMMA Reported ==
  ASSUME TypeOK, NEW t \in Tasks, NEW n, NEW p, NEW q, OnProgress(t, n, p, q), cause'[t] = {}
  PROVE  cause' = cause /\ bytes'[t] = n /\ pc'[t] = p
<1>1. ~ OverQuota(t, n)
  BY Blamed DEF OnProgress, TypeOK
<1> QED
  BY <1>1 DEF OnProgress, TypeOK, Goto

\* Only task t changes, and if nothing went wrong with it, its bytes are right again.
LEMMA BytesLocal ==
  ASSUME TypeInv, BytesInv, NEW t \in Tasks, rows' = rows,
         remote'[t] = remote[t] \/ ~ HasRow(t),
         \A u \in Tasks : u # t =>
            /\ pc'[u] = pc[u] /\ loc'[u] = loc[u] /\ bytes'[u] = bytes[u]
            /\ remote'[u] = remote[u] /\ cause'[u] = cause[u],
         cause[t] \subseteq cause'[t],
         cause'[t] = {} => BytesOK(t)'
  PROVE  BytesInv'
<1>1. \A u \in Tasks : cause'[u] = {} => BytesOK(u)'
  BY DEF BytesInv, BytesOK, FromPeer
<1>2. RowIsRemoteFile'
  <2> SUFFICES ASSUME NEW r \in rows, cause'[r.task] = {}
               PROVE  r.bytes = Plain(remote'[r.task].size) /\ r.size = Len(r.bytes)
    BY DEF RowIsRemoteFile
  <2>1. r.task \in Tasks /\ HasRow(r.task)
    BY DEF TypeInv, TypeOK, HasRow
  <2>2. cause[r.task] = {} /\ remote'[r.task] = remote[r.task]
    BY <2>1
  <2> QED
    BY <2>2 DEF BytesInv, RowIsRemoteFile
<1> QED
  BY <1>1, <1>2 DEF BytesInv

LEMMA BytesInit == Init => BytesInv
  BY DEF Init, BytesInv, RowIsRemoteFile, BytesOK, NoLoc

LEMMA BytesRequest ==
  ASSUME TypeInv, StatusInv, BytesInv, NEW t \in Tasks, Request(t)
  PROVE  BytesInv'
<1> USE DEF BytesInv, RowIsRemoteFile, BytesOK, FromPeer, TypeInv, TypeOK, taskVars,
            diskVars, Goto, SetStatus
<1>1. ASSUME NEW k \in Kinds, NEW n \in Sizes, StartDownload(t, k, n)
     PROVE  BytesInv'
  <2> HIDE DEF BytesInv
  <2>1. ~ HasRow(t)
    BY <1>1 DEF StartDownload, StatusInv, RowOK
  <2>2. /\ rows' = rows /\ cause[t] \subseteq cause'[t]
        /\ \A u \in Tasks : u # t =>
              /\ pc'[u] = pc[u] /\ loc'[u] = loc[u] /\ bytes'[u] = bytes[u]
              /\ remote'[u] = remote[u] /\ cause'[u] = cause[u]
    BY <1>1 DEF StartDownload
  <2>3. cause'[t] = {} => BytesOK(t)'
    BY <1>1 DEF StartDownload, BytesInv
  <2> QED
    BY <2>1, <2>2, <2>3, BytesLocal
<1>2. CASE CancelTask(t)
  BY <1>2 DEF CancelTask
<1>3. CASE CancelAllTasks(t)
  BY <1>3 DEF CancelAllTasks
<1>4. CASE DismissTask(t)
  BY <1>4 DEF DismissTask
<1> QED
  BY <1>1, <1>2, <1>3, <1>4 DEF Request

LEMMA BytesOwnStep ==
  ASSUME TypeInv, StatusInv, BytesInv, NEW t \in Tasks, OwnStep(t)
  PROVE  BytesInv'
<1> USE DEF BytesInv, RowIsRemoteFile, BytesOK, FromPeer, TypeInv, TypeOK, taskVars,
            diskVars, Goto, SetStatus
<1>1. CASE Setup(t)
  <2> HIDE DEF BytesInv
  <2>1. /\ rows' = rows /\ remote'[t] = remote[t] /\ cause[t] \subseteq cause'[t]
        /\ \A u \in Tasks : u # t =>
              /\ pc'[u] = pc[u] /\ loc'[u] = loc[u] /\ bytes'[u] = bytes[u]
              /\ remote'[u] = remote[u] /\ cause'[u] = cause[u]
    BY <1>1 DEF Setup, Ends
  <2>2. cause'[t] = {} => BytesOK(t)'
    <3>1. loc'[t].got = loc[t].got /\ loc'[t].dest = loc[t].dest
      BY <1>1 DEF Setup, Locals
    <3>2. pc'[t] \in {"exit", "probe", "stream"} /\ pc[t] = "setup" /\ UNCHANGED <<cause, remote>>
      BY <1>1 DEF Setup, Ends
    <3> QED
      BY <3>1, <3>2, PlainZero DEF BytesInv
  <2> QED
    BY <2>1, <2>2, BytesLocal
<1>2. CASE SetupFails(t)
  BY <1>2 DEF SetupFails, Ends
<1>3. CASE AccelBegin(t)
  BY <1>3 DEF AccelBegin
<1>4. CASE StreamBegin(t)
  <2> HIDE DEF BytesInv
  <2>1. /\ rows' = rows /\ remote'[t] = remote[t] /\ cause[t] \subseteq cause'[t]
        /\ \A u \in Tasks : u # t =>
              /\ pc'[u] = pc[u] /\ loc'[u] = loc[u] /\ bytes'[u] = bytes[u]
              /\ remote'[u] = remote[u] /\ cause'[u] = cause[u]
    BY <1>4 DEF StreamBegin
  <2>2. cause'[t] = {} => BytesOK(t)'
    <3>1. pc[t] = "probe" /\ pc'[t] = "stream" /\ UNCHANGED <<cause, loc, remote>>
      BY <1>4 DEF StreamBegin
    <3>2. cause[t] = {} => loc[t].got = 0 /\ loc[t].dest = Plain(0)
      BY <3>1, PlainZero DEF BytesInv
    <3> QED
      BY <3>1, <3>2
  <2> QED
    BY <2>1, <2>2, BytesLocal
<1>5. CASE AccelCancelled(t)
  BY <1>5 DEF AccelCancelled, Ends
<1>6. CASE StreamCancelled(t)
  BY <1>6 DEF StreamCancelled, Ends
<1>7. CASE QuotaFails(t)
  <2> HIDE DEF BytesInv
  <2>1. /\ rows' = rows /\ remote'[t] = remote[t] /\ cause[t] \subseteq cause'[t]
        /\ \A u \in Tasks : u # t =>
              /\ pc'[u] = pc[u] /\ loc'[u] = loc[u] /\ bytes'[u] = bytes[u]
              /\ remote'[u] = remote[u] /\ cause'[u] = cause[u]
    BY <1>7 DEF QuotaFails
  <2>2. cause'[t] = {} => BytesOK(t)'
    <3>1. pc[t] \in {"quotastream", "quotafinish", "quotaencrypt"} /\ UNCHANGED cause
      BY <1>7 DEF QuotaFails
    <3> QED
      BY <3>1 DEF BytesInv
  <2> QED
    BY <2>1, <2>2, BytesLocal
<1>8. CASE Encrypt(t)
  BY <1>8 DEF Encrypt
<1>9. CASE EncryptFails(t)
  BY <1>9 DEF EncryptFails, Ends
<1>10. CASE MoveToCAS(t)
  BY <1>10 DEF MoveToCAS
<1>11. CASE MoveToCASFails(t)
  BY <1>11 DEF MoveToCASFails, Ends
<1>12. CASE InsertRow(t)
  <2>1. RowIsRemoteFile'
    <3> SUFFICES ASSUME NEW r \in rows', cause[r.task] = {}
                 PROVE  r.bytes = Plain(remote[r.task].size) /\ r.size = Len(r.bytes)
      BY <1>12 DEF InsertRow
    <3>1. CASE r \in rows
      BY <3>1
    <3>2. CASE r = [task |-> t, size |-> bytes[t], bytes |-> loc[t].dest]
      BY <1>12, <3>2, PlainType, ZenonT(40) DEF InsertRow
    <3> QED
      BY <1>12, <3>1, <3>2 DEF InsertRow
  <2>2. \A u \in Tasks : cause'[u] = {} => BytesOK(u)'
    BY <1>12 DEF InsertRow
  <2> QED
    BY <2>1, <2>2
<1>13. CASE InsertFails(t)
  BY <1>13 DEF InsertFails, Ends
<1>14. CASE TaskCompleted(t)
  BY <1>14 DEF TaskCompleted, Complete
<1>15. CASE Exit(t)
  BY <1>15 DEF Exit, CleansUp
<1>16. ASSUME NEW m \in 0..Len(loc[t].dest), MoveToCASCut(t, m)
      PROVE  BytesInv'
  <2> HIDE DEF BytesInv
  <2>1. /\ rows' = rows /\ remote'[t] = remote[t] /\ cause[t] \subseteq cause'[t]
        /\ \A u \in Tasks : u # t =>
              /\ pc'[u] = pc[u] /\ loc'[u] = loc[u] /\ bytes'[u] = bytes[u]
              /\ remote'[u] = remote[u] /\ cause'[u] = cause[u]
    BY <1>16 DEF MoveToCASCut, Blame
  <2>2. cause'[t] # {}
    BY <1>16, Blamed DEF MoveToCASCut
  <2> QED
    BY <2>1, <2>2, BytesLocal
<1> QED
  BY <1>1, <1>2, <1>3, <1>4, <1>5, <1>6, <1>7, <1>8, <1>9, <1>10, <1>11, <1>12, <1>13, <1>14,
     <1>15, <1>16 DEF OwnStep

LEMMA BytesNetworkStep ==
  ASSUME TypeInv, StatusInv, BytesInv, NEW t \in Tasks, NetworkStep(t)
  PROVE  BytesInv'
<1> USE DEF BytesInv, RowIsRemoteFile, BytesOK, FromPeer, TypeInv, TypeOK, taskVars,
            diskVars, Goto, SetStatus
<1>1. CASE AccelReceive(t)
  BY <1>1 DEF AccelReceive
<1>2. CASE AccelDone(t)
  <2> HIDE DEF BytesInv
  <2>1. /\ rows' = rows /\ remote'[t] = remote[t] /\ cause[t] \subseteq cause'[t]
        /\ \A u \in Tasks : u # t =>
              /\ pc'[u] = pc[u] /\ loc'[u] = loc[u] /\ bytes'[u] = bytes[u]
              /\ remote'[u] = remote[u] /\ cause'[u] = cause[u]
    BY <1>2 DEF AccelDone, OnProgress, Blame
  <2>2. ASSUME cause'[t] = {}
        PROVE  BytesOK(t)'
    <3>1. OnProgress(t, remote[t].size, "encrypt", "quotaencrypt") /\ UNCHANGED remote
      BY <1>2 DEF AccelDone
    <3>2. bytes'[t] = remote'[t].size /\ pc'[t] = "encrypt"
      BY <2>2, <3>1, Reported, ZenonT(40)
    <3> QED
      BY <3>2
  <2> QED
    BY <2>1, <2>2, BytesLocal
<1>3. ASSUME NEW report \in BOOLEAN, Receive(t, report)
     PROVE  BytesInv'
  <2> HIDE DEF BytesInv
  <2>1. /\ rows' = rows /\ remote'[t] = remote[t] /\ cause[t] \subseteq cause'[t]
        /\ \A u \in Tasks : u # t =>
              /\ pc'[u] = pc[u] /\ loc'[u] = loc[u] /\ bytes'[u] = bytes[u]
              /\ remote'[u] = remote[u] /\ cause'[u] = cause[u]
    BY <1>3 DEF Receive, OnProgress, Blame
  <2>2. cause'[t] = {} => BytesOK(t)'
    <3> DEFINE n == loc[t].got + 1
    <3>1. loc'[t].got = n /\ loc'[t].dest = Append(loc[t].dest, n) /\ loc'[t].src = loc[t].src
      BY <1>3 DEF Receive, Locals
    <3>2. pc[t] = "stream" /\ UNCHANGED remote /\ n <= remote[t].size
      BY <1>3 DEF Receive
    <3>3. ASSUME cause'[t] = {}
          PROVE  cause[t] = {} /\ pc'[t] = "stream" /\ (FromPeer(t) => bytes'[t] = n)
      <4>1. CASE report
        <5>1. OnProgress(t, n, "stream", "quotastream")
          BY <1>3, <4>1 DEF Receive
        <5> QED
          BY <3>3, <5>1, Reported, ZenonT(40)
      <4>2. CASE ~ report
        BY <1>3, <3>3, <4>2 DEF Receive
      <4> QED
        BY <4>1, <4>2
    <3>4. cause[t] = {} => loc'[t].dest = Plain(n)
      BY <3>1, <3>2, LocFields, PlainAppend DEF BytesInv
    <3> QED
      BY <3>1, <3>2, <3>3, <3>4
  <2> QED
    BY <2>1, <2>2, BytesLocal
<1>4. CASE StreamEnd(t)
  <2> HIDE DEF BytesInv
  <2>1. /\ rows' = rows /\ remote'[t] = remote[t] /\ cause[t] \subseteq cause'[t]
        /\ \A u \in Tasks : u # t =>
              /\ pc'[u] = pc[u] /\ loc'[u] = loc[u] /\ bytes'[u] = bytes[u]
              /\ remote'[u] = remote[u] /\ cause'[u] = cause[u]
    BY <1>4 DEF StreamEnd, LastReport, OnProgress, Blame
  <2>2. ASSUME cause'[t] = {}
        PROVE  BytesOK(t)'
    <3>1. /\ OnProgress(t, loc[t].got, "move", "quotafinish") /\ UNCHANGED <<remote, loc>>
          /\ pc[t] = "stream" /\ loc[t].got = remote[t].size
      BY <1>4 DEF StreamEnd, LastReport
    <3>2. cause[t] = {} /\ bytes'[t] = loc[t].got /\ pc'[t] = "move"
      BY <2>2, <3>1, Reported
    <3>3. loc[t].dest = Plain(loc[t].got)
      BY <3>1, <3>2 DEF BytesInv
    <3> QED
      BY <3>1, <3>2, <3>3
  <2> QED
    BY <2>1, <2>2, BytesLocal
<1>5. CASE PeerEnd(t)
  <2> HIDE DEF BytesInv
  <2>1. /\ rows' = rows /\ remote'[t] = remote[t] /\ cause[t] \subseteq cause'[t]
        /\ \A u \in Tasks : u # t =>
              /\ pc'[u] = pc[u] /\ loc'[u] = loc[u] /\ bytes'[u] = bytes[u]
              /\ remote'[u] = remote[u] /\ cause'[u] = cause[u]
    BY <1>5 DEF PeerEnd, Blame
  <2>2. ASSUME cause'[t] = {}
        PROVE  BytesOK(t)'
    <3>1. /\ pc[t] = "stream" /\ FromPeer(t) /\ loc[t].got > 0
          /\ pc'[t] = "move" /\ UNCHANGED <<remote, loc, bytes>>
      BY <1>5 DEF PeerEnd
    <3>2. ~ (loc[t].got < remote[t].size) /\ cause[t] = {}
      BY <1>5, <2>2, Blamed DEF PeerEnd
    <3>3. /\ loc[t].got <= remote[t].size /\ loc[t].dest = Plain(loc[t].got)
          /\ bytes[t] = loc[t].got
      BY <3>1, <3>2 DEF BytesInv
    <3>4. loc[t].got = remote[t].size
      BY <3>2, <3>3, LocFields
    <3> QED
      BY <3>1, <3>3, <3>4
  <2> QED
    BY <2>1, <2>2, BytesLocal
<1>6. CASE NextSource(t)
  <2> HIDE DEF BytesInv
  <2>1. /\ rows' = rows /\ remote'[t] = remote[t] /\ cause[t] \subseteq cause'[t]
        /\ \A u \in Tasks : u # t =>
              /\ pc'[u] = pc[u] /\ loc'[u] = loc[u] /\ bytes'[u] = bytes[u]
              /\ remote'[u] = remote[u] /\ cause'[u] = cause[u]
    BY <1>6 DEF NextSource, Blame
  <2>2. cause'[t] = {} => BytesOK(t)'
    <3>1. loc'[t].got = 0 /\ loc'[t].dest = loc[t].dest
      BY <1>6 DEF NextSource, Locals
    <3>2. pc'[t] = "stream" /\ pc[t] = "stream" /\ UNCHANGED remote
      BY <1>6 DEF NextSource
    <3>3. cause'[t] = {} => cause[t] = {} /\ loc[t].got = 0
      <4>1. CASE loc[t].got > 0
        BY <1>6, <4>1, Blamed DEF NextSource
      <4>2. CASE ~ (loc[t].got > 0)
        BY <1>6, <4>2, LocFields DEF NextSource
      <4> QED
        BY <4>1, <4>2
    <3> QED
      BY <3>1, <3>2, <3>3, SMTT(30) DEF BytesInv
  <2> QED
    BY <2>1, <2>2, BytesLocal
<1>7. CASE StreamFails(t)
  BY <1>7 DEF StreamFails, Ends
<1>8. ASSUME NEW b \in 0..remote[t].size, ReceiveStray(t, b)
      PROVE  BytesInv'
  <2> HIDE DEF BytesInv
  <2>1. /\ rows' = rows /\ remote'[t] = remote[t] /\ cause[t] \subseteq cause'[t]
        /\ \A u \in Tasks : u # t =>
              /\ pc'[u] = pc[u] /\ loc'[u] = loc[u] /\ bytes'[u] = bytes[u]
              /\ remote'[u] = remote[u] /\ cause'[u] = cause[u]
    BY <1>8 DEF ReceiveStray, Blame
  <2>2. "stray" \in cause'[t]
    BY <1>8 DEF ReceiveStray, Blame
  <2> QED
    BY <2>1, <2>2, BytesLocal
<1> QED
  BY <1>1, <1>2, <1>3, <1>4, <1>5, <1>6, <1>7, <1>8 DEF NetworkStep

LEMMA BytesReporter ==
  ASSUME TypeInv, StatusInv, BytesInv, NEW t \in Tasks, ReporterStep(t)
  PROVE  BytesInv'
<1> USE DEF BytesInv, RowIsRemoteFile, BytesOK, FromPeer, TypeInv, TypeOK, taskVars,
            diskVars, Goto, SetStatus
<1>1. CASE ReporterLoad(t)
  BY <1>1 DEF ReporterLoad
<1>2. CASE ReporterReport(t)
  <2> HIDE DEF BytesInv
  <2>1. /\ rows' = rows /\ remote'[t] = remote[t] /\ cause[t] \subseteq cause'[t]
        /\ \A u \in Tasks : u # t =>
              /\ pc'[u] = pc[u] /\ loc'[u] = loc[u] /\ bytes'[u] = bytes[u]
              /\ remote'[u] = remote[u] /\ cause'[u] = cause[u]
    BY <1>2 DEF ReporterReport
  <2>2. cause'[t] = {} => BytesOK(t)'
    <3>1. cause'[t] = {} => pc[t] = "accel" /\ pc'[t] = "accel"
      <4>1. BlameLate(t) \subseteq cause'[t] /\ UNCHANGED pc
        BY <1>2 DEF ReporterReport
      <4> QED
        BY <4>1 DEF BlameLate
    <3> QED
      BY <3>1
  <2> QED
    BY <2>1, <2>2, BytesLocal
<1>3. CASE ReporterFails(t)
  BY <1>3 DEF ReporterFails, BlameLate, Causes
<1>4. CASE ReporterStop(t)
  BY <1>4 DEF ReporterStop
<1> QED
  BY <1>1, <1>2, <1>3, <1>4 DEF ReporterStep

LEMMA BytesStep ==
  ASSUME TypeInv, StatusInv, BytesInv, [Next]_vars
  PROVE  BytesInv'
<1>1. CASE \E t \in Tasks : Request(t) \/ OwnStep(t) \/ NetworkStep(t) \/ ReporterStep(t)
  BY <1>1, BytesRequest, BytesOwnStep, BytesNetworkStep, BytesReporter
<1>2. CASE OtherFiles
  BY <1>2 DEF OtherFiles, BytesInv, RowIsRemoteFile, BytesOK, FromPeer, TypeInv,
            TypeOK, taskVars, diskVars
<1>3. CASE UNCHANGED vars
  BY <1>3 DEF vars, BytesInv, RowIsRemoteFile, BytesOK, FromPeer, TypeInv, TypeOK,
            taskVars, diskVars
<1> QED
  BY <1>1, <1>2, <1>3 DEF Next

-----------------------------------------------------------------------------
(* The theorems *)

Inv == TypeInv /\ StatusInv /\ BytesInv

LEMMA InvAlways == Spec => []Inv
<1>1. Init => Inv
  BY TypeInit, StatusInit, BytesInit DEF Inv
<1>2. TypeInv => Shape
  BY DEF TypeInv, TypeOK, Shape
<1>3. Inv /\ [Next]_vars => Inv'
  BY <1>2, TypeStep, StatusStep, BytesStep DEF Inv
<1> QED
  BY <1>1, <1>3, PTL DEF Spec

(***************************************************************************)
(* Every reachable state is well formed: statuses, sources and byte counts *)
(* stay in their ranges for any number of tasks.                           *)
(***************************************************************************)
THEOREM TypeCorrect == Spec => []TypeOK
<1>1. Inv => TypeOK
  BY DEF Inv, TypeInv
<1> QED
  BY <1>1, InvAlways, PTL

(***************************************************************************)
(* The deferred clean-up of executeDownload leaves no temporary file,      *)
(* whatever the requests and the reporter did to the status it looks at.   *)
(***************************************************************************)
THEOREM TempCorrect == Spec => []NoTempLeft
<1>1. Inv => NoTempLeft
  BY DEF Inv, TypeInv, TypeOK, StatusInv, TempOK, NoTempLeft
<1> QED
  BY <1>1, InvAlways, PTL

(***************************************************************************)
(* After executeDownload has returned, the status is final and says        *)
(* completed exactly if the row is in the table, however cancellations,    *)
(* quota failures and dismissals interleave with the goroutine.            *)
(***************************************************************************)
THEOREM StatusCorrect == Spec => []StatusTellsRow
<1>1. Inv => StatusTellsRow
  BY DEF Inv, StatusInv, RowOK, StatusTellsRow
<1> QED
  BY <1>1, InvAlways, PTL

(***************************************************************************)
(* The row of a download is the remote file, with its size, unless one of  *)
(* the listed causes struck the task: for any file size, number of sources *)
(* and quota.                                                              *)
(***************************************************************************)
THEOREM RowsCorrect == Spec => []RowIsRemoteFile
<1>1. Inv => RowIsRemoteFile
  BY DEF Inv, BytesInv
<1> QED
  BY <1>1, InvAlways, PTL

-----------------------------------------------------------------------------
(* The accelerated downloader *)

\* AccelTypeOK without the bound on completed, which follows from CountExact.
PieceShape ==
    /\ pstatus \in [Pieces -> {"pending", "inflight", "completed", "failed"}]
    /\ owner \in [Pieces -> Workers \cup {NoWorker}]
    /\ attempts \in [Pieces -> Nat]
    /\ filled \subseteq Pieces /\ bits \subseteq Pieces /\ saved \subseteq Pieces
    /\ wpc \in [Workers -> {"loop", "fetch", "mark", "journal", "gone"}]
    /\ piece \in [Workers -> Pieces]
    /\ cancelled \in BOOLEAN
    /\ result \in {"running", "ok", "cancelled", "incomplete"}
    /\ failures \in 0..MaxFailures

\* A piece that may be handed out again has attempts left.
AttemptsLeft ==
    \A p \in Pieces :
        attempts[p] <= MaxRetries /\ (pstatus[p] = "pending" => attempts[p] < MaxRetries)

\* Whoever claims a piece, the file has it.
ClaimsFilled ==
    /\ DonePieces \subseteq filled
    /\ bits \subseteq filled
    /\ saved \subseteq filled
    /\ \A w \in Workers : wpc[w] \in {"mark", "journal"} => piece[w] \in filled

\* Success was reported on a full counter.
OkIsFull == result = "ok" => completed >= N

AccelInv == PieceShape /\ AttemptsLeft /\ ClaimsFilled /\ CountExact /\ OkIsFull

-----------------------------------------------------------------------------
LEMMA PiecesFinite ==
  IsFiniteSet(Pieces) /\ Cardinality(Pieces) = N
<1>1. 0 \in Int /\ N - 1 \in Int
  BY AccelConstants
<1>2. IsFiniteSet(0 .. N - 1)
  BY <1>1, FS_Interval
<1>3. Cardinality(0 .. N - 1) = IF 0 > N - 1 THEN 0 ELSE (N - 1) - 0 + 1
  BY <1>1, FS_Interval
<1> QED
  BY <1>2, <1>3, AccelConstants DEF Pieces

LEMMA SubsetFinite ==
  ASSUME NEW S \in SUBSET Pieces
  PROVE  IsFiniteSet(S) /\ Cardinality(S) \in 0..N /\ (Cardinality(S) = N => S = Pieces)
<1>1. IsFiniteSet(S) /\ Cardinality(S) <= Cardinality(Pieces)
  BY PiecesFinite, FS_Subset
<1>2. Cardinality(S) \in Nat
  BY <1>1, FS_CardinalityType
<1>3. Cardinality(S) = Cardinality(Pieces) => S = Pieces
  BY PiecesFinite, FS_Subset
<1> QED
  BY <1>1, <1>2, <1>3, PiecesFinite, AccelConstants

\* A handed-out piece is one of the table, unfinished and with attempts left.
LEMMA CandidateType ==
  ASSUME PieceShape, AttemptsLeft, NEW w \in Workers, NEW p \in Candidates(w)
  PROVE  p \in Pieces /\ pstatus[p] # "completed" /\ attempts[p] < MaxRetries
  BY DEF Candidates, Pending, Stalled, AttemptsLeft, PieceShape

LEMMA AccelInvInit == AccelInit => AccelInv
<1> SUFFICES ASSUME AccelInit PROVE AccelInv
  OBVIOUS
<1>1. PICK old \in SUBSET Pieces :
        /\ pstatus = [p \in Pieces |-> IF p \in old THEN "completed" ELSE "pending"]
        /\ owner = [p \in Pieces |-> NoWorker]
        /\ attempts = [p \in Pieces |-> 0]
        /\ completed = Cardinality(old)
        /\ filled = old /\ bits = old /\ saved = old
        /\ wpc = [w \in Workers |-> "loop"]
        /\ piece = [w \in Workers |-> 0]
        /\ cancelled = FALSE /\ result = "running" /\ failures = 0
  BY DEF AccelInit
<1>2. 0 \in Pieces
  BY AccelConstants DEF Pieces
<1>3. PieceShape
  <2>1. pstatus \in [Pieces -> {"pending", "inflight", "completed", "failed"}]
    BY <1>1
  <2>2. wpc \in [Workers -> {"loop", "fetch", "mark", "journal", "gone"}]
    BY <1>1
  <2>3. owner \in [Pieces -> Workers \cup {NoWorker}] /\ attempts \in [Pieces -> Nat]
    BY <1>1
  <2>4. piece \in [Workers -> Pieces] /\ failures \in 0..MaxFailures
    BY <1>1, <1>2, AccelConstants
  <2> QED
    BY <1>1, <2>1, <2>2, <2>3, <2>4 DEF PieceShape
<1>4. AttemptsLeft
  BY <1>1, AccelConstants DEF AttemptsLeft
<1>5. DonePieces = old
  BY <1>1 DEF DonePieces
<1>6. ClaimsFilled /\ CountExact /\ OkIsFull
  BY <1>1, <1>5 DEF ClaimsFilled, CountExact, OkIsFull
<1> QED
  BY <1>3, <1>4, <1>6 DEF AccelInv

\* Completing a piece that was not completed adds one to the number of them.
LEMMA CountStep ==
  ASSUME PieceShape, CountExact, NEW p \in Pieces, MarkCompleted(p)
  PROVE  /\ CountExact' /\ completed <= completed'
         /\ pstatus' \in [Pieces -> {"pending", "inflight", "completed", "failed"}]
         /\ DonePieces' = DonePieces \cup {p}
<1>0. DonePieces \in SUBSET Pieces
  BY DEF DonePieces
<1>a. IsFiniteSet(DonePieces) /\ completed \in Nat
  BY <1>0, SubsetFinite DEF CountExact
<1>1. CASE pstatus[p] = "completed"
  BY <1>1, <1>a DEF MarkCompleted, CountExact, DonePieces, PieceShape
<1>2. CASE pstatus[p] # "completed"
  <2>1. pstatus' = [pstatus EXCEPT ![p] = "completed"] /\ completed' = completed + 1
    BY <1>2 DEF MarkCompleted
  <2>2. DonePieces' = DonePieces \cup {p} /\ p \notin DonePieces
    BY <1>2, <2>1 DEF DonePieces, PieceShape
  <2>3. Cardinality(DonePieces \cup {p}) = Cardinality(DonePieces) + 1
    BY <1>a, <2>2, FS_AddElement
  <2> QED
    BY <1>a, <2>1, <2>2, <2>3 DEF CountExact, PieceShape
<1> QED
  BY <1>1, <1>2

-----------------------------------------------------------------------------
LEMMA WorkerInv ==
  ASSUME AccelInv, NEW w \in Workers, WorkerStep(w)
  PROVE  AccelInv'
<1> USE DEF AccelInv
<1>a. piece[w] \in Pieces
  BY DEF PieceShape
<1>1. CASE WorkerTake(w)
  <2>1. PICK p \in Candidates(w) :
           /\ pstatus' = [pstatus EXCEPT ![p] = "inflight"]
           /\ owner' = [owner EXCEPT ![p] = w]
           /\ attempts' = [attempts EXCEPT ![p] = @ + 1]
           /\ piece' = [piece EXCEPT ![w] = p]
    BY <1>1 DEF WorkerTake
  <2>2. p \in Pieces /\ pstatus[p] # "completed" /\ attempts[p] < MaxRetries
    BY <2>1, CandidateType
  <2>3. PieceShape'
    BY <1>1, <2>1, <2>2 DEF WorkerTake, PieceShape, stateVars
  <2>4. AttemptsLeft'
    BY <2>1, <2>2, AccelConstants DEF AttemptsLeft, PieceShape
  <2>5. DonePieces' = DonePieces
    BY <2>1, <2>2 DEF DonePieces, PieceShape
  <2>6. ClaimsFilled'
    BY <1>1, <2>1, <2>5 DEF WorkerTake, ClaimsFilled, PieceShape, stateVars
  <2> QED
    BY <1>1, <2>3, <2>4, <2>5, <2>6 DEF WorkerTake, CountExact, OkIsFull
<1>2. CASE WorkerExit(w) \/ FetchCancelled(w)
  <2>1. DonePieces' = DonePieces
    BY <1>2 DEF WorkerExit, FetchCancelled, DonePieces, coordVars
  <2> QED
    BY <1>2, <2>1 DEF WorkerExit, FetchCancelled, PieceShape, AttemptsLeft, ClaimsFilled,
       CountExact, OkIsFull, coordVars, stateVars
<1>3. CASE FetchOK(w)
  <2>1. DonePieces' = DonePieces
    BY <1>3 DEF FetchOK, DonePieces, coordVars
  <2> QED
    BY <1>3, <1>a, <2>1 DEF FetchOK, PieceShape, AttemptsLeft, ClaimsFilled,
       CountExact, OkIsFull, coordVars, stateVars
<1>4. CASE FetchFails(w)
  <2>1. DonePieces' = DonePieces
    BY <1>4, <1>a DEF FetchFails, RequeuePiece, DonePieces, PieceShape
  <2>2. pstatus' \in [Pieces -> {"pending", "inflight", "completed", "failed"}]
    BY <1>4, <1>a DEF FetchFails, RequeuePiece, PieceShape
  <2>3. failures' \in 0..MaxFailures
    BY <1>4, AccelConstants DEF FetchFails, PieceShape
  <2>4. filled \subseteq filled' /\ filled' \subseteq Pieces
    BY <1>4, <1>a DEF FetchFails, PieceShape
  <2>5. PieceShape'
    BY <1>4, <2>2, <2>3, <2>4 DEF FetchFails, PieceShape, stateVars
  <2>6. AttemptsLeft'
    BY <1>4, <1>a, AccelConstants DEF FetchFails, RequeuePiece, AttemptsLeft, PieceShape
  <2>7. ClaimsFilled'
    BY <1>4, <2>1, <2>4 DEF FetchFails, ClaimsFilled, PieceShape, stateVars
  <2> QED
    BY <1>4, <2>1, <2>5, <2>6, <2>7 DEF FetchFails, CountExact, OkIsFull
<1>5. CASE WorkerMark(w)
  <2>1. /\ CountExact' /\ completed <= completed'
        /\ pstatus' \in [Pieces -> {"pending", "inflight", "completed", "failed"}]
        /\ DonePieces' = DonePieces \cup {piece[w]}
    BY <1>5, <1>a, CountStep DEF WorkerMark
  <2>2. PieceShape'
    BY <1>5, <2>1 DEF WorkerMark, PieceShape, stateVars
  <2>3. AttemptsLeft'
    BY <1>5, <1>a DEF WorkerMark, MarkCompleted, AttemptsLeft, PieceShape
  <2>4. piece[w] \in filled
    BY <1>5 DEF WorkerMark, ClaimsFilled
  <2>5. ClaimsFilled'
    BY <1>5, <2>1, <2>4 DEF WorkerMark, ClaimsFilled, PieceShape, stateVars
  <2>6. completed \in Nat /\ completed' \in Nat
    <3>1. DonePieces \in SUBSET Pieces /\ DonePieces' \in SUBSET Pieces
      BY DEF DonePieces
    <3> QED
      BY <2>1, <3>1, SubsetFinite DEF CountExact
  <2>7. OkIsFull'
    BY <1>5, <2>1, <2>6, AccelConstants DEF WorkerMark, OkIsFull
  <2> QED
    BY <2>1, <2>2, <2>3, <2>5, <2>7
<1>6. CASE WorkerJournal(w)
  <2>1. DonePieces' = DonePieces
    BY <1>6 DEF WorkerJournal, DonePieces, coordVars
  <2>2. piece[w] \in filled
    BY <1>6 DEF WorkerJournal, ClaimsFilled
  <2> QED
    BY <1>6, <1>a, <2>1, <2>2 DEF WorkerJournal, PieceShape, AttemptsLeft, ClaimsFilled,
       CountExact, OkIsFull, coordVars
<1> QED
  BY <1>1, <1>2, <1>3, <1>4, <1>5, <1>6 DEF WorkerStep

LEMMA AccelInvStep == AccelInv /\ [AccelNext]_accelVars => AccelInv'
<1> SUFFICES ASSUME AccelInv, [AccelNext]_accelVars PROVE AccelInv'
  OBVIOUS
<1> USE DEF AccelInv
<1>1. CASE Return
  <2>1. DonePieces' = DonePieces
    BY <1>1 DEF Return, DonePieces, coordVars
  <2>2. Outcome \in {"ok", "cancelled", "incomplete"} /\ (Outcome = "ok" => completed >= N)
    BY DEF Outcome, IsCompleted
  <2> QED
    BY <1>1, <2>1, <2>2 DEF Return, PieceShape, AttemptsLeft, ClaimsFilled, CountExact, OkIsFull,
       coordVars
<1>2. CASE SaveState \/ Cancel \/ UNCHANGED accelVars
  <2>1. DonePieces' = DonePieces
    BY <1>2 DEF SaveState, Cancel, accelVars, DonePieces, coordVars
  <2> QED
    BY <1>2, <2>1 DEF SaveState, Cancel, accelVars, PieceShape, AttemptsLeft, ClaimsFilled, CountExact,
       OkIsFull, coordVars, stateVars
<1> QED
  BY <1>1, <1>2, WorkerInv DEF AccelNext

LEMMA AccelInvAlways == AccelSpec => []AccelInv
  BY AccelInvInit, AccelInvStep, PTL DEF AccelSpec

-----------------------------------------------------------------------------
(***************************************************************************)
(* The counter IsCompleted reads without the mutex is exact and within the *)
(* number of pieces, and every other variable keeps its shape.             *)
(***************************************************************************)
THEOREM AccelTypeCorrect == AccelSpec => []AccelTypeOK
<1>1. AccelInv => AccelTypeOK
  <2>1. DonePieces \in SUBSET Pieces
    BY DEF DonePieces
  <2> QED
    BY <2>1, SubsetFinite DEF AccelInv, PieceShape, CountExact, AccelTypeOK
<1> QED
  BY <1>1, AccelInvAlways, PTL

(***************************************************************************)
(* MarkCompleted keeps the counter equal to the number of completed        *)
(* pieces, however many workers deliver a hedged piece.                    *)
(***************************************************************************)
THEOREM CounterCorrect == AccelSpec => []CountExact
<1>1. AccelInv => CountExact
  BY DEF AccelInv
<1> QED
  BY <1>1, AccelInvAlways, PTL

(***************************************************************************)
(* DownloadToFile reports success only for a file that has all its pieces. *)
(***************************************************************************)
THEOREM SuccessCorrect == AccelSpec => []SuccessIsWhole
<1>1. AccelInv => SuccessIsWhole
  <2> SUFFICES ASSUME AccelInv, result = "ok" PROVE filled = Pieces
    BY DEF SuccessIsWhole
  <2>1. DonePieces \in SUBSET Pieces
    BY DEF DonePieces
  <2>2. Cardinality(DonePieces) = N
    BY <2>1, SubsetFinite, AccelConstants DEF AccelInv, CountExact, OkIsFull
  <2>3. DonePieces = Pieces
    BY <2>1, <2>2, SubsetFinite
  <2> QED
    BY <2>3 DEF AccelInv, ClaimsFilled, PieceShape
<1> QED
  BY <1>1, AccelInvAlways, PTL

(***************************************************************************)
(* The journal on disk claims no piece the file lacks, at any moment a     *)
(* crash may strike.                                                       *)
(***************************************************************************)
THEOREM JournalCorrect == AccelSpec => []JournalSound
<1>1. AccelInv => JournalSound
  BY DEF AccelInv, ClaimsFilled, JournalSound
<1> QED
  BY <1>1, AccelInvAlways, PTL

(***************************************************************************)
(* Hedging and requeuing together never exceed MaxRetriesPerBlock.         *)
(***************************************************************************)
THEOREM AttemptsCorrect == AccelSpec => []AttemptsBounded
<1>1. AccelInv => AttemptsBounded
  BY DEF AccelInv, AttemptsLeft, AttemptsBounded
<1> QED
  BY <1>1, AccelInvAlways, PTL

(***************************************************************************)
(* No step takes a completed piece back, the late failure of an overtaken  *)
(* worker included.                                                        *)
(***************************************************************************)
THEOREM CompletedStays == AccelSpec => NeverUncompleted
<1> DEFINE Stays == \A p \in Pieces : pstatus[p] = "completed" => pstatus'[p] = "completed"
<1>1. AccelInv /\ [AccelNext]_accelVars => [Stays]_accelVars
  <2> SUFFICES ASSUME AccelInv, AccelNext PROVE Stays
    OBVIOUS
  <2>1. ASSUME NEW w \in Workers, WorkerTake(w) PROVE Stays
    <3>1. PICK p \in Candidates(w) : pstatus' = [pstatus EXCEPT ![p] = "inflight"]
      BY <2>1 DEF WorkerTake
    <3>2. pstatus[p] # "completed"
      BY <3>1, CandidateType DEF AccelInv
    <3> QED
      BY <3>1, <3>2 DEF AccelInv, PieceShape
  <2>2. ASSUME NEW w \in Workers, FetchFails(w) PROVE Stays
    BY <2>2 DEF FetchFails, RequeuePiece, AccelInv, PieceShape
  <2>3. ASSUME NEW w \in Workers, WorkerMark(w) PROVE Stays
    BY <2>3 DEF WorkerMark, MarkCompleted, AccelInv, PieceShape
  <2>4. ASSUME NEW w \in Workers,
               WorkerExit(w) \/ FetchOK(w) \/ FetchCancelled(w) \/ WorkerJournal(w)
        PROVE  Stays
    BY <2>4 DEF WorkerExit, FetchOK, FetchCancelled, WorkerJournal, coordVars
  <2>5. CASE Return \/ SaveState \/ Cancel
    BY <2>5 DEF Return, SaveState, Cancel, coordVars
  <2> QED
    BY <2>1, <2>2, <2>3, <2>4, <2>5 DEF AccelNext, WorkerStep
<1> QED
  BY <1>1, AccelInvAlways, PTL DEF AccelSpec, NeverUncompleted

-----------------------------------------------------------------------------
(* DownloadToFile implements PieceFile *)

\* What the journal names is done, and nobody is at work after the answer.
JournalInv ==
    /\ bits \subseteq DonePieces /\ saved \subseteq DonePieces
    /\ \A w \in Workers : wpc[w] = "journal" => piece[w] \in DonePieces
    /\ result # "running" => AllGone

\* Of the workers' steps only WorkerMark changes what is done, and only by its piece.
LEMMA DoneStep ==
  ASSUME AccelInv, NEW w \in Workers, WorkerStep(w)
  PROVE  /\ WorkerMark(w) => DonePieces' = DonePieces \cup {piece[w]}
         /\ ~ WorkerMark(w) => DonePieces' = DonePieces
<1> USE DEF AccelInv
<1>a. piece[w] \in Pieces
  BY DEF PieceShape
<1>1. CASE WorkerTake(w)
  <2>1. PICK p \in Candidates(w) : pstatus' = [pstatus EXCEPT ![p] = "inflight"]
    BY <1>1 DEF WorkerTake
  <2>2. p \in Pieces /\ pstatus[p] # "completed"
    BY <2>1, CandidateType
  <2>3. DonePieces' = DonePieces
    BY <2>1, <2>2 DEF DonePieces, PieceShape
  <2> QED
    BY <1>1, <2>3 DEF WorkerTake, WorkerMark
<1>2. CASE FetchFails(w)
  <2>1. DonePieces' = DonePieces
    BY <1>2, <1>a DEF FetchFails, RequeuePiece, DonePieces, PieceShape
  <2> QED
    BY <1>2, <2>1 DEF FetchFails, WorkerMark
<1>3. CASE WorkerMark(w)
  BY <1>3, <1>a, CountStep DEF WorkerMark
<1>4. CASE WorkerExit(w) \/ FetchOK(w) \/ FetchCancelled(w) \/ WorkerJournal(w)
  <2>1. DonePieces' = DonePieces /\ wpc[w] # "mark"
    BY <1>4 DEF WorkerExit, FetchOK, FetchCancelled, WorkerJournal, DonePieces, coordVars
  <2> QED
    BY <2>1 DEF WorkerMark
<1> QED
  BY <1>1, <1>2, <1>3, <1>4 DEF WorkerStep

LEMMA JournalInit == AccelInit => JournalInv
<1> SUFFICES ASSUME AccelInit PROVE JournalInv
  OBVIOUS
<1>1. PICK old \in SUBSET Pieces :
        /\ pstatus = [p \in Pieces |-> IF p \in old THEN "completed" ELSE "pending"]
        /\ bits = old /\ saved = old /\ wpc = [w \in Workers |-> "loop"] /\ result = "running"
  BY DEF AccelInit
<1>2. DonePieces = old
  BY <1>1 DEF DonePieces
<1> QED
  BY <1>1, <1>2 DEF JournalInv

\* A worker that takes a step has not gone, so the answer is not given yet.
LEMMA StillRunning ==
  ASSUME JournalInv, NEW w \in Workers, WorkerStep(w)
  PROVE  result = "running" /\ result' = "running"
<1>1. wpc[w] # "gone" /\ result' = result
  BY DEF WorkerStep, WorkerTake, WorkerExit, FetchOK, FetchFails, FetchCancelled, WorkerMark,
     WorkerJournal
<1> QED
  BY <1>1 DEF JournalInv, AllGone

LEMMA JournalStep == AccelInv /\ JournalInv /\ [AccelNext]_accelVars => JournalInv'
<1> SUFFICES ASSUME AccelInv, JournalInv, [AccelNext]_accelVars PROVE JournalInv'
  OBVIOUS
<1>1. ASSUME NEW w \in Workers, WorkerStep(w) PROVE JournalInv'
  <2>1. result' = "running" /\ DonePieces \subseteq DonePieces'
    BY <1>1, StillRunning, DoneStep
  <2>2. \A v \in Workers : v # w => wpc'[v] = wpc[v] /\ piece'[v] = piece[v]
    BY <1>1 DEF WorkerStep, WorkerTake, WorkerExit, FetchOK, FetchFails, FetchCancelled,
       WorkerMark, WorkerJournal, AccelInv, PieceShape
  <2>3. wpc'[w] = "journal" => piece'[w] \in DonePieces'
    <3>1. CASE WorkerMark(w)
      BY <1>1, <3>1, DoneStep DEF WorkerMark
    <3>2. CASE ~ WorkerMark(w)
      BY <1>1, <3>2 DEF WorkerStep, WorkerTake, WorkerExit, FetchOK, FetchFails, FetchCancelled,
         WorkerJournal, AccelInv, PieceShape
    <3> QED
      BY <3>1, <3>2
  <2>4. bits' \subseteq DonePieces'
    <3>1. CASE WorkerJournal(w)
      BY <2>1, <3>1 DEF WorkerJournal, JournalInv
    <3>2. CASE ~ WorkerJournal(w)
      <4>1. bits' = bits
        BY <1>1, <3>2 DEF WorkerStep, WorkerTake, WorkerExit, FetchOK, FetchFails,
           FetchCancelled, WorkerMark, stateVars
      <4> QED
        BY <2>1, <4>1 DEF JournalInv
    <3> QED
      BY <3>1, <3>2
  <2>5. saved' = saved
    BY <1>1 DEF WorkerStep, WorkerTake, WorkerExit, FetchOK, FetchFails, FetchCancelled,
       WorkerMark, WorkerJournal, stateVars
  <2> QED
    BY <2>1, <2>2, <2>3, <2>4, <2>5 DEF JournalInv
<1>2. CASE Return \/ SaveState \/ Cancel \/ UNCHANGED accelVars
  <2>1. /\ DonePieces' = DonePieces /\ bits' = bits /\ wpc' = wpc /\ piece' = piece
        /\ result' = result \/ AllGone
        /\ saved' \in {saved, bits}
    BY <1>2 DEF Return, SaveState, Cancel, accelVars, DonePieces, coordVars, stateVars
  <2> QED
    BY <2>1 DEF JournalInv, AllGone
<1> QED
  BY <1>1, <1>2 DEF AccelNext

LEMMA JournalAlways == AccelSpec => []JournalInv
  BY JournalInit, JournalStep, AccelInvAlways, PTL DEF AccelSpec

\* The counter is full exactly if every piece is done.
LEMMA FullCounter ==
  ASSUME AccelInv
  PROVE  IsCompleted <=> DonePieces = Pieces
<1>1. DonePieces \in SUBSET Pieces
  BY DEF DonePieces
<1>2. completed = Cardinality(DonePieces) /\ completed \in 0..N
  BY <1>1, SubsetFinite DEF AccelInv, CountExact
<1>3. completed = N => DonePieces = Pieces
  BY <1>1, <1>2, SubsetFinite
<1>4. DonePieces = Pieces => completed = N
  BY <1>2, PiecesFinite
<1> QED
  BY <1>2, <1>3, <1>4, AccelConstants DEF IsCompleted

\* A fetch fills a piece, a mark finishes one; the other steps of a worker are not seen.
LEMMA WorkerRefines ==
  ASSUME AccelInv, JournalInv, NEW w \in Workers, WorkerStep(w)
  PROVE  [Target!Next]_(Target!fvars)
<1>a. piece[w] \in Pieces
  BY DEF AccelInv, PieceShape
<1>b. result = "running" /\ result' = "running"
  BY StillRunning
<1>1. CASE WorkerMark(w)
  <2>1. piece[w] \in filled
    BY <1>1 DEF WorkerMark, AccelInv, ClaimsFilled
  <2>2. Target!Finish(piece[w])
    BY <1>1, <1>b, <2>1, DoneStep DEF WorkerMark, Target!Finish, stateVars
  <2> QED
    BY <1>a, <2>2 DEF Target!Next
<1>2. CASE ~ WorkerMark(w)
  <2>1. DonePieces' = DonePieces
    BY <1>2, DoneStep
  <2>2. saved' = saved /\ filled' \in {filled, filled \cup {piece[w]}}
    BY <1>2 DEF WorkerStep, WorkerTake, WorkerExit, FetchOK, FetchFails, FetchCancelled,
       WorkerJournal, stateVars
  <2>3. CASE filled' = filled
    BY <1>b, <2>1, <2>2, <2>3 DEF Target!fvars
  <2>4. CASE filled' = filled \cup {piece[w]}
    <3>1. Target!Fill(piece[w])
      BY <1>b, <2>1, <2>2, <2>4 DEF Target!Fill
    <3> QED
      BY <1>a, <3>1 DEF Target!Next
  <2> QED
    BY <2>2, <2>3, <2>4
<1> QED
  BY <1>1, <1>2

LEMMA FileStep ==
  AccelInv /\ JournalInv /\ [AccelNext]_accelVars => [Target!Next]_(Target!fvars)
<1> SUFFICES ASSUME AccelInv, JournalInv, [AccelNext]_accelVars
             PROVE  [Target!Next]_(Target!fvars)
  OBVIOUS
<1>1. CASE Return
  <2>1. DonePieces' = DonePieces /\ filled' = filled /\ saved' \in {saved, bits}
    BY <1>1 DEF Return, DonePieces, coordVars
  <2>2. /\ Outcome \in {"ok", "cancelled", "incomplete"}
        /\ Outcome = "ok" <=> DonePieces = Pieces
    BY FullCounter DEF Outcome
  <2>3. Target!Answer
    BY <1>1, <2>1, <2>2 DEF Return, JournalInv, Target!Answer
  <2> QED
    BY <2>3 DEF Target!Next
<1>2. CASE SaveState
  <2>1. DonePieces' = DonePieces
    BY <1>2 DEF SaveState, DonePieces, coordVars
  <2>2. Target!Save
    BY <1>2, <2>1 DEF SaveState, JournalInv, Target!Save
  <2> QED
    BY <2>2 DEF Target!Next
<1>3. CASE Cancel \/ UNCHANGED accelVars
  BY <1>3 DEF Cancel, accelVars, DonePieces, coordVars, stateVars, Target!fvars
<1> QED
  BY <1>1, <1>2, <1>3, WorkerRefines DEF AccelNext

(***************************************************************************)
(* DownloadToFile implements PieceFile, for any number of pieces, workers  *)
(* and attempts: hedged fetches, late failures and cancellation never take *)
(* a piece back, the answer is "ok" exactly if the file is whole, and the  *)
(* file is not touched once the answer is given.                           *)
(***************************************************************************)
THEOREM FileCorrect == AccelSpec => ImplementsFile
<1>1. AccelInit => Target!Init
  <2> SUFFICES ASSUME AccelInit PROVE Target!Init
    OBVIOUS
  <2>1. PICK old \in SUBSET Pieces :
          /\ pstatus = [p \in Pieces |-> IF p \in old THEN "completed" ELSE "pending"]
          /\ filled = old /\ saved = old /\ result = "running"
    BY DEF AccelInit
  <2>2. DonePieces = old
    BY <2>1 DEF DonePieces
  <2> QED
    BY <2>1, <2>2 DEF Target!Init
<1>2. AccelInv /\ JournalInv /\ [AccelNext]_accelVars => [Target!Next]_(Target!fvars)
  BY FileStep
<1> QED
  BY <1>1, <1>2, AccelInvAlways, JournalAlways, PTL DEF AccelSpec, ImplementsFile, Target!Spec
=============================================================================
