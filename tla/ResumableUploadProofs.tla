----------------------- MODULE ResumableUploadProofs -----------------------
(***************************************************************************)
(* Proofs about ResumableUpload, for any number of sessions, handlers,     *)
(* sizes and crashes.                                                      *)
(***************************************************************************)
EXTENDS ResumableUpload, SequenceTheorems, FiniteSetTheorems, TLAPS

\* A handler holds a session pointer exactly in the states that use one.
CurOK == \A h \in Handlers : cur[h] = NoSession <=> pc[h] \in {"idle", "find", "new"}

\* sess.Mu and the program counters agree about who holds the lock.
LockOK ==
    /\ \A h \in Handlers : pc[h] \in Holding => mu[cur[h]] = h
    /\ \A s \in Sessions : mu[s] # Free => pc[mu[s]] \in Holding /\ cur[mu[s]] = s

\* The size to truncate to is at most the size of the file still linked.
BaseOK ==
    \A h \in Handlers :
        pc[h] = "commit" /\ loc[h].linked => loc[h].base <= Len(temp[cur[h]])

(***************************************************************************)
(* What holds of a session at any time.  No offset exceeds the declared    *)
(* size.  While no cause has struck it, its file holds a prefix of the     *)
(* client's bytes and is as long as the offset says except between a write *)
(* and its commit.                                                         *)
(***************************************************************************)
SessionOK(s) ==
    /\ uploaded[s] <= expected[s] /\ meta[s] <= expected[s]
    /\ cause[s] = {} =>
          /\ temp[s] = Plain(Len(temp[s]))
          /\ s \in table /\ (mu[s] = Free \/ pc[mu[s]] \in {"copy", "persist", "move"}) =>
                s \in onDisk /\ Len(temp[s]) = uploaded[s]

\* What the holder of sess.Mu knows of an undisturbed session at each step.
HolderOK(h, s) ==
    /\ pc[h] \in FileOpen => (loc[h].linked <=> s \in onDisk) /\ (loc[h].linked <=> s \in table)
    /\ pc[h] \in {"copy", "commit"} => req[h].first = uploaded[s]
    /\ pc[h] = "commit" /\ loc[h].linked =>
          loc[h].base = uploaded[s] /\ Len(temp[s]) = uploaded[s] + loc[h].wrote
    /\ pc[h] = "move" /\ s \in onDisk => s \in table
    /\ pc[h] \in {"drop", "insert"} => s \notin onDisk /\ loc[h].bytes = Plain(uploaded[s])

\* What a handler knows of the session it points to, whatever struck it.
PointerOK(h, s) ==
    /\ pc[h] = "create" => s \in onDisk /\ s \notin table /\ temp[s] = <<>> /\ uploaded[s] = 0
    /\ pc[h] = "resume" => loc[h].snap <= expected[s]
    /\ pc[h] \in {"abortrm", "insert"} => s \notin table
    /\ pc[h] \in {"move", "drop", "insert"} => uploaded[s] = expected[s]
    /\ cause[s] = {} => HolderOK(h, s)

\* Nothing more can happen to session s without a cause.
Over(s) ==
    cause[s] = {} =>
        /\ s \notin table /\ s \notin onDisk
        /\ \A h \in Handlers : cur[h] = s => pc[h] \notin Holding

\* A session that has its row is over.
RowOK(r) == r.sess \in created /\ Over(r.sess)

DataInv ==
    /\ \A s \in Sessions : SessionOK(s)
    /\ \A h \in Handlers : pc[h] \notin {"idle", "find", "new"} => PointerOK(h, cur[h])

RowInv == RowsIntact /\ OneRowPerUpload /\ \A r \in rows : RowOK(r)

-----------------------------------------------------------------------------
(* Type correctness.  CurOK is needed with it: a step may only follow the  *)
(* session pointer of a handler that has one.                              *)

HandlerShape ==
    /\ pc \in [Handlers -> PCs]
    /\ cur \in [Handlers -> created \cup {NoSession}]
    /\ req \in [Handlers -> ChunkRequest]
    /\ loc \in [Handlers -> Locals]
    /\ CurOK

SessionShape ==
    /\ created \subseteq Sessions
    /\ table \subseteq created
    /\ onDisk \subseteq created
    /\ done \subseteq created
    /\ expected \in [Sessions -> Nat]
    /\ uploaded \in [Sessions -> Nat]
    /\ mu \in [Sessions -> Handlers \cup {Free}]
    /\ cause \in [Sessions -> SUBSET Causes]

DiskShape ==
    /\ temp \in [Sessions -> Seq(Nat)]
    /\ meta \in [Sessions -> Nat \cup {NoMeta, TornMeta}]
    /\ blobs \subseteq Seq(Nat)
    /\ rows \subseteq Row /\ IsFiniteSet(rows)
    /\ crashes \in 0..MaxCrashes

Shape == HandlerShape /\ SessionShape /\ DiskShape

LEMMA ShapeIsType == Shape => TypeOK
  BY DEF Shape, HandlerShape, SessionShape, DiskShape, TypeOK

LEMMA ShapeInit == Init => Shape
  BY UploadConstants, FS_EmptySet DEF Init, Shape, HandlerShape, SessionShape, DiskShape, CurOK,
     NoMeta, TornMeta, PCs, NoReq, NoLoc, ChunkRequest, Locals, Row, Causes

\* A run of k bytes is a sequence of length k.
LEMMA RunType ==
  ASSUME NEW f \in Nat, NEW k \in Nat
  PROVE  Run(f, k) \in Seq(Nat) /\ Len(Run(f, k)) = k
<1>1. Run(f, k) \in [1..k -> Nat]
  BY DEF Run
<1>2. [1..k -> Nat] \in {[1..n -> Nat] : n \in Nat}
  OBVIOUS
<1>3. Run(f, k) \in Seq(Nat)
  BY <1>1, <1>2, SeqDef
<1>4. DOMAIN Run(f, k) = 1..k
  BY DEF Run
<1> QED
  BY <1>3, <1>4, LenProperties

LEMMA NoLocType == NoLoc \in Locals /\ NoReq \in ChunkRequest
  BY DEF NoLoc, NoReq, Locals, ChunkRequest

\* A handler that returns leaves the handlers in shape.
LEMMA ReturnShape ==
  ASSUME HandlerShape, NEW h \in Handlers, Return(h), created \subseteq created'
  PROVE  HandlerShape'
  BY NoLocType DEF HandlerShape, Return, Goto, CurOK, PCs

\* So does one that goes on with the same session pointer, request and locals.
LEMMA GotoShape ==
  ASSUME HandlerShape, NEW h \in Handlers, NEW p \in PCs \ {"idle", "find", "new"}, Goto(h, p),
         pc[h] \notin {"idle", "find", "new"},
         UNCHANGED <<created, cur, req>>, loc' \in [Handlers -> Locals]
  PROVE  HandlerShape'
  BY DEF HandlerShape, Goto, CurOK, PCs

\* The session pointer of a handler in the middle of a request.
LEMMA CurType ==
  ASSUME HandlerShape, SessionShape, NEW h \in Handlers, pc[h] \notin {"idle", "find", "new"}
  PROVE  cur[h] \in created /\ cur[h] \in Sessions
  BY DEF HandlerShape, SessionShape, CurOK

LEMMA StrikeShape ==
  ASSUME SessionShape, NEW S, NEW c \in Causes, Strike(S, c)
  PROVE  cause' \in [Sessions -> SUBSET Causes]
<1>1. \A t \in Sessions : cause[t] \in SUBSET Causes /\ cause[t] \cup {c} \in SUBSET Causes
  BY DEF SessionShape
<1> QED
  BY <1>1 DEF Strike

LEMMA PersistedType ==
  ASSUME DiskShape, NEW t \in Sessions, NEW n \in Nat
  PROVE  Persisted(t, n) \subseteq Nat \cup {NoMeta, TornMeta}
<1>1. meta[t] \in Nat \cup {NoMeta, TornMeta}
  BY DEF DiskShape
<1> QED
  BY <1>1 DEF Persisted

LEMMA RemoveMetaShape ==
  ASSUME DiskShape, NEW S, RemoveMeta(S)
  PROVE  meta' \in [Sessions -> Nat \cup {NoMeta, TornMeta}]
  BY DEF DiskShape, RemoveMeta

LEMMA UnlinkShape ==
  ASSUME HandlerShape, SessionShape, DiskShape, NEW S, NEW l \in [Handlers -> Locals],
         UnlinkTemps(S, l)
  PROVE  /\ onDisk' \subseteq onDisk
         /\ temp' \in [Sessions -> Seq(Nat)]
         /\ loc' \in [Handlers -> Locals]
         /\ cause' \in [Sessions -> SUBSET Causes]
<1>1. \A h \in Handlers : [l[h] EXCEPT !.linked = FALSE] \in Locals
  BY DEF Locals
<1>2. << >> \in Seq(Nat)
  OBVIOUS
<1>3. PICK kept : /\ onDisk' = onDisk \ (S \ kept)
                  /\ temp' = [s \in Sessions |-> IF s \in S \ kept THEN <<>> ELSE temp[s]]
                  /\ loc' = [h \in Handlers |->
                               IF pc[h] \in FileOpen /\ cur[h] \in S \ kept
                               THEN [l[h] EXCEPT !.linked = FALSE] ELSE l[h]]
                  /\ Strike(kept, "disk")
  BY DEF UnlinkTemps
<1>4. cause' \in [Sessions -> SUBSET Causes]
  BY <1>3, StrikeShape DEF Causes
<1> QED
  BY <1>1, <1>2, <1>3, <1>4 DEF DiskShape

LEMMA DeleteShape ==
  ASSUME HandlerShape, SessionShape, DiskShape, NEW s, NEW l \in [Handlers -> Locals],
         DeleteSession(s, l)
  PROVE  /\ onDisk' \subseteq onDisk /\ table' \subseteq table
         /\ temp' \in [Sessions -> Seq(Nat)]
         /\ meta' \in [Sessions -> Nat \cup {NoMeta, TornMeta}]
         /\ loc' \in [Handlers -> Locals]
         /\ cause' \in [Sessions -> SUBSET Causes]
<1>1. CASE s \in table
  BY <1>1, UnlinkShape, RemoveMetaShape DEF DeleteSession
<1>2. CASE s \notin table
  BY <1>2 DEF DeleteSession, DiskShape, SessionShape
<1> QED
  BY <1>1, <1>2

(* One lemma per operation. *)

LEMMA ShapeCreate ==
  ASSUME Shape, NEW h \in Handlers,
         \/ FindNone(h) \/ CreateFile(h) \/ CreateSession(h) \/ CreateSessionFails(h)
         \/ ResumeRead(h) \/ ResumePersist(h)
  PROVE  Shape'
<1> USE DEF Shape
<1>0. CASE FindNone(h)
  BY <1>0 DEF FindNone, HandlerShape, SessionShape, DiskShape, CurOK, Goto, PCs,
     memVars, diskVars, dbVars
<1>5. CASE CreateFile(h)
  <2>1. req[h].len \in Nat /\ << >> \in Seq(Nat)
    BY DEF HandlerShape, ChunkRequest
  <2>2. PICK s \in Sessions \ created :
           /\ created' = created \cup {s}
           /\ expected' = [expected EXCEPT ![s] = req[h].len]
           /\ uploaded' = [uploaded EXCEPT ![s] = 0]
           /\ onDisk' = onDisk \cup {s}
           /\ temp' = [temp EXCEPT ![s] = <<>>]
           /\ cur' = [cur EXCEPT ![h] = s]
    BY <1>5 DEF CreateFile
  <2>3. HandlerShape'
    BY <1>5, <2>2, UploadConstants DEF CreateFile, HandlerShape, CurOK, Goto, PCs
  <2>4. SessionShape'
    BY <1>5, <2>1, <2>2 DEF CreateFile, SessionShape
  <2>5. DiskShape'
    BY <1>5, <2>1, <2>2 DEF CreateFile, DiskShape, dbVars
  <2> QED
    BY <2>3, <2>4, <2>5
<1>1. CASE CreateSession(h)
  <2>1. cur[h] \in created /\ cur[h] \in Sessions
    BY <1>1, CurType DEF CreateSession
  <2>2. HandlerShape'
    BY <1>1, ReturnShape DEF CreateSession
  <2>3. Persisted(cur[h], 0) \subseteq Nat \cup {NoMeta, TornMeta}
    BY <2>1, PersistedType
  <2>4. SessionShape' /\ DiskShape'
    BY <1>1, <2>1, <2>3 DEF CreateSession, SessionShape, DiskShape, dbVars
  <2> QED
    BY <2>2, <2>4
<1>2. CASE CreateSessionFails(h)
  <2>1. HandlerShape'
    BY <1>2, ReturnShape DEF CreateSessionFails, memVars
  <2> QED
    BY <1>2, <2>1 DEF CreateSessionFails, SessionShape, DiskShape, memVars, diskVars, dbVars
<1>3. CASE ResumeRead(h)
  <2>1. PICK s \in ActiveSessions(req[h].len) :
           /\ cur' = [cur EXCEPT ![h] = s]
           /\ loc' = [loc EXCEPT ![h].snap = uploaded[s]]
    BY <1>3 DEF ResumeRead
  <2>2. s \in created /\ s \in Sessions /\ uploaded[s] \in Nat /\ s # NoSession
    BY <2>1, UploadConstants DEF ActiveSessions, SessionShape
  <2>3. loc' \in [Handlers -> Locals]
    BY <2>1, <2>2 DEF HandlerShape, Locals
  <2>4. HandlerShape'
    BY <1>3, <2>1, <2>2, <2>3 DEF ResumeRead, HandlerShape, CurOK, Goto, PCs, memVars
  <2> QED
    BY <1>3, <2>4 DEF ResumeRead, SessionShape, DiskShape, memVars, diskVars, dbVars
<1>4. CASE ResumePersist(h)
  <2>1. HandlerShape'
    BY <1>4, ReturnShape DEF ResumePersist, memVars
  <2>2. loc[h].snap \in Nat /\ cur[h] \in Sessions
    BY <1>4, CurType DEF HandlerShape, Locals, ResumePersist
  <2>3. Persisted(cur[h], loc[h].snap) \subseteq Nat \cup {NoMeta, TornMeta}
    BY <2>2, PersistedType
  <2> QED
    BY <1>4, <2>1, <2>3 DEF ResumePersist, SessionShape, DiskShape, memVars, dbVars
<1> QED
  BY <1>0, <1>1, <1>2, <1>3, <1>4, <1>5

LEMMA ShapeChunkStart ==
  ASSUME Shape, NEW h \in Handlers,
         ChunkTurnedAway(h) \/ ChunkLock(h) \/ ChunkRefused(h)
  PROVE  Shape'
<1> USE DEF Shape
<1>1. CASE ChunkTurnedAway(h)
  <2>1. HandlerShape'
    BY <1>1, ReturnShape DEF ChunkTurnedAway, memVars
  <2> QED
    BY <1>1, <2>1 DEF ChunkTurnedAway, SessionShape, DiskShape, memVars, diskVars, dbVars
<1>2. CASE ChunkLock(h)
  <2>1. pc[h] \notin {"idle", "find", "new"}
    BY <1>2 DEF ChunkLock
  <2>2. cur[h] \in created /\ cur[h] \in Sessions
    BY <2>1, CurType
  <2>3. loc' \in [Handlers -> Locals]
    BY <1>2 DEF ChunkLock, HandlerShape, Locals
  <2>4. HandlerShape'
    BY <1>2, <2>1, <2>3, GotoShape DEF ChunkLock, PCs
  <2>5. NewCauses(req[h], cur[h]) \subseteq Causes
    BY DEF NewCauses, Causes
  <2>6. SessionShape'
    BY <1>2, <2>2, <2>5 DEF ChunkLock, SessionShape
  <2> QED
    BY <1>2, <2>4, <2>6 DEF ChunkLock, DiskShape, dbVars
<1>3. CASE ChunkRefused(h)
  <2>1. HandlerShape'
    BY <1>3, ReturnShape DEF ChunkRefused
  <2>2. SessionShape'
    BY <1>3 DEF ChunkRefused, SessionShape, Unlock, diskVars
  <2> QED
    BY <1>3, <2>1, <2>2 DEF ChunkRefused, DiskShape, diskVars, dbVars
<1> QED
  BY <1>1, <1>2, <1>3

\* Both outcomes of the body write k of the n bytes they count.
LEMMA BodyWritten ==
  ASSUME Shape, NEW h \in Handlers, ChunkCopy(h) \/ ChunkFlushFails(h)
  PROVE  /\ \E k \in Nat, n \in Nat, ok \in BOOLEAN : WriteBody(h, k, n, ok)
         /\ pc[h] = "copy" /\ Goto(h, "commit")
         /\ UNCHANGED <<memVars, onDisk, meta, dbVars, cur, req, crashes>>
<1>1. cur[h] \in Sessions /\ req[h].len \in Nat
  BY CurType DEF Shape, HandlerShape, ChunkRequest, ChunkCopy, ChunkFlushFails
<1>2. uploaded[cur[h]] \in Nat /\ expected[cur[h]] \in Nat
  BY <1>1 DEF Shape, SessionShape
<1>3. Transfer(h) \in Int
  BY <1>1, <1>2 DEF Transfer
<1>4. CASE ChunkCopy(h)
  <2>1. PICK ok \in BOOLEAN, k \in 0..Transfer(h) : WriteBody(h, k, k, ok)
    BY <1>4 DEF ChunkCopy
  <2> QED
    BY <1>3, <1>4, <2>1 DEF ChunkCopy
<1>5. CASE ChunkFlushFails(h)
  <2>1. PICK k \in 0..Transfer(h) - 1 : WriteBody(h, k, Transfer(h), TRUE)
    BY <1>5 DEF ChunkFlushFails
  <2>2. k \in Nat /\ Transfer(h) \in Nat
    BY <1>3, <2>1
  <2> QED
    BY <1>5, <2>1, <2>2 DEF ChunkFlushFails
<1> QED
  BY <1>4, <1>5

LEMMA ShapeChunkBody ==
  ASSUME Shape, BaseOK, NEW h \in Handlers,
         \/ ChunkCopy(h) \/ ChunkFlushFails(h)
         \/ ChunkUndo(h) \/ ChunkCommit(h) \/ ChunkPersist(h)
  PROVE  Shape'
<1> USE DEF Shape
<1> DEFINE s == cur[h]
<1>a. pc[h] \notin {"idle", "find", "new"}
  BY DEF ChunkCopy, ChunkFlushFails, ChunkUndo, ChunkCommit, ChunkPersist
<1>b. s \in created /\ s \in Sessions
  BY <1>a, CurType
<1>c. uploaded[s] \in Nat /\ expected[s] \in Nat /\ temp[s] \in Seq(Nat)
  BY <1>b DEF SessionShape, DiskShape
<1>d. loc[h] \in Locals /\ req[h].len \in Nat /\ req[h].first \in Nat
  BY DEF HandlerShape, ChunkRequest
<1>e. loc[h].wrote \in Nat /\ loc[h].base \in Nat
  BY <1>d DEF Locals
<1>1. CASE ChunkCopy(h) \/ ChunkFlushFails(h)
  <2>1. PICK k \in Nat, n \in Nat, ok \in BOOLEAN : WriteBody(h, k, n, ok)
    BY <1>1, BodyWritten
  <2>3. Len(temp[s]) \in Nat
    BY <1>c
  <2>4. loc' \in [Handlers -> Locals]
    <3> DEFINE l == [[[loc[h] EXCEPT !.wrote = n] EXCEPT !.ok = ok] EXCEPT !.base = Len(temp[s])]
    <3>1. l \in Locals
      BY <1>d, <2>1, <2>3 DEF Locals
    <3>2. loc' = [loc EXCEPT ![h] = l]
      BY <2>1 DEF WriteBody, HandlerShape
    <3> QED
      BY <3>1, <3>2 DEF HandlerShape
  <2>5. Run(req[h].first, k) \in Seq(Nat)
    BY <1>d, <2>1, RunType
  <2>6. temp' \in [Sessions -> Seq(Nat)]
    <3>1. temp[s] \o Run(req[h].first, k) \in Seq(Nat)
      BY <1>c, <2>5
    <3> QED
      BY <1>b, <2>1, <3>1 DEF WriteBody, DiskShape
  <2>7. HandlerShape'
    <3>1. Goto(h, "commit") /\ UNCHANGED <<created, cur, req>>
      BY <1>1, BodyWritten DEF memVars
    <3> QED
      BY <3>1, <1>a, <2>4, GotoShape DEF PCs
  <2>8. cause' \in [Sessions -> SUBSET Causes]
    BY <1>1, StrikeShape DEF ChunkCopy, ChunkFlushFails, SessionShape, Causes
  <2>9. UNCHANGED <<memVars, onDisk, meta, dbVars, crashes>>
    BY <1>1, BodyWritten
  <2> QED
    BY <2>6, <2>7, <2>8, <2>9 DEF SessionShape, DiskShape, memVars, dbVars
<1>2. CASE ChunkUndo(h)
  <2>1. HandlerShape'
    BY <1>2, ReturnShape DEF ChunkUndo
  <2>2. SessionShape'
    <3>1. cause' \in [Sessions -> SUBSET Causes]
      BY <1>2, StrikeShape DEF ChunkUndo, SessionShape, Causes
    <3> QED
      BY <1>2, <3>1 DEF ChunkUndo, SessionShape, Unlock
  <2>3. ASSUME loc[h].linked PROVE Truncated(h) \in Seq(Nat)
    <3>1. loc[h].base <= Len(temp[cur[h]])
      BY <1>2, <2>3 DEF ChunkUndo, BaseOK
    <3> QED
      BY <3>1, <1>c, <1>e, SMTT(30) DEF Truncated
  <2>4. temp' \in [Sessions -> Seq(Nat)]
    BY <1>2, <2>3 DEF ChunkUndo, DiskShape
  <2> QED
    BY <1>2, <2>1, <2>2, <2>4 DEF ChunkUndo, DiskShape, dbVars
<1>3. CASE ChunkCommit(h)
  <2>1. HandlerShape'
    BY <1>3, <1>a, GotoShape DEF ChunkCommit, PCs, HandlerShape
  <2>2. SessionShape'
    BY <1>3, <1>b, <1>c, <1>e DEF ChunkCommit, SessionShape, diskVars
  <2> QED
    BY <1>3, <2>1, <2>2 DEF ChunkCommit, DiskShape, diskVars, dbVars
<1>4. CASE ChunkPersist(h)
  <2>1. HandlerShape'
    <3>1. CASE uploaded[s] >= expected[s]
      BY <1>4, <3>1, <1>a, GotoShape DEF ChunkPersist, PCs, HandlerShape
    <3>2. CASE ~ (uploaded[s] >= expected[s])
      BY <1>4, <3>2, ReturnShape DEF ChunkPersist
    <3> QED
      BY <3>1, <3>2
  <2>2. SessionShape'
    BY <1>4 DEF ChunkPersist, SessionShape, Unlock
  <2>3. Persisted(s, uploaded[s]) \subseteq Nat \cup {NoMeta, TornMeta}
    BY <1>b, <1>c, PersistedType
  <2> QED
    BY <1>4, <2>1, <2>2, <2>3 DEF ChunkPersist, DiskShape, dbVars
<1> QED
  BY <1>1, <1>2, <1>3, <1>4

LEMMA ShapeChunkEnd ==
  ASSUME Shape, NEW h \in Handlers,
         \/ MoveToCAS(h) \/ MoveToCASFails(h) \/ ChunkDone(h)
         \/ InsertRow(h) \/ InsertFails(h)
  PROVE  Shape'
<1> USE DEF Shape
<1> DEFINE s == cur[h]
<1>a. pc[h] \notin {"idle", "find", "new"}
  BY DEF MoveToCAS, MoveToCASFails, ChunkDone, InsertRow, InsertFails
<1>b. s \in created /\ s \in Sessions
  BY <1>a, CurType
<1>c. uploaded[s] \in Nat /\ temp[s] \in Seq(Nat) /\ << >> \in Seq(Nat)
  BY <1>b DEF SessionShape, DiskShape
<1>d. loc[h].bytes \in Seq(Nat) /\ loc \in [Handlers -> Locals]
  BY DEF HandlerShape, Locals
<1>1. CASE MoveToCAS(h)
  <2>1. loc' \in [Handlers -> Locals]
    <3>1. (temp[s] \in blobs) \in BOOLEAN
      OBVIOUS
    <3> QED
      BY <1>1, <1>c, <3>1, ZenonT(40) DEF MoveToCAS, HandlerShape, Locals
  <2>2. HandlerShape'
    BY <1>1, <1>a, <2>1, GotoShape DEF MoveToCAS, PCs, memVars
  <2> QED
    BY <1>1, <1>c, <2>2 DEF MoveToCAS, SessionShape, DiskShape, memVars
<1>2. CASE MoveToCASFails(h)
  <2>1. HandlerShape'
    BY <1>2, ReturnShape DEF MoveToCASFails
  <2>2. SessionShape'
    BY <1>2 DEF MoveToCASFails, SessionShape, Unlock, diskVars
  <2> QED
    BY <1>2, <2>1, <2>2 DEF MoveToCASFails, DiskShape, diskVars, dbVars
<1>3. CASE ChunkDone(h)
  <2>1. DeleteSession(s, loc)
    BY <1>3 DEF ChunkDone
  <2>2. HandlerShape'
    BY <1>3, <1>a, <1>d, <2>1, DeleteShape, GotoShape DEF ChunkDone, PCs
  <2>3. SessionShape'
    BY <1>3, <1>b, <1>d, <2>1, DeleteShape DEF ChunkDone, SessionShape
  <2>4. DiskShape'
    BY <1>3, <1>d, <2>1, DeleteShape DEF ChunkDone, DiskShape, dbVars
  <2> QED
    BY <2>2, <2>3, <2>4
<1>4. CASE InsertRow(h)
  <2>1. HandlerShape'
    BY <1>4, ReturnShape DEF InsertRow
  <2>2. SessionShape'
    BY <1>4 DEF InsertRow, SessionShape, Unlock, diskVars
  <2>3. Cardinality(rows) \in Nat /\ IsFiniteSet(rows)
    BY FS_CardinalityType DEF DiskShape
  <2> DEFINE row == [id |-> Cardinality(rows), sess |-> s, size |-> uploaded[s],
                     bytes |-> loc[h].bytes]
  <2>5. row \in Row
    BY <1>b, <1>c, <1>d, <2>3 DEF Row
  <2>6. rows' = rows \cup {row}
    BY <1>4 DEF InsertRow
  <2>7. DiskShape'
    <3> HIDE DEF row
    <3>1. IsFiniteSet(rows')
      BY <2>3, <2>6, FS_AddElement
    <3> QED
      BY <1>4, <2>5, <2>6, <3>1 DEF InsertRow, DiskShape, diskVars
  <2> QED
    BY <2>1, <2>2, <2>7
<1>5. CASE InsertFails(h)
  <2>1. HandlerShape'
    BY <1>5, ReturnShape DEF InsertFails
  <2>2. SessionShape'
    <3>1. \A t \in Sessions : cause[t] \cup {"lost"} \in SUBSET Causes
      BY DEF SessionShape, Causes
    <3> QED
      BY <1>5, <1>b, <3>1 DEF InsertFails, SessionShape, Unlock, diskVars
  <2> QED
    BY <1>5, <2>1, <2>2 DEF InsertFails, DiskShape, diskVars
<1> QED
  BY <1>1, <1>2, <1>3, <1>4, <1>5

LEMMA ShapeAbort ==
  ASSUME Shape, NEW h \in Handlers, AbortLock(h) \/ AbortDelete(h) \/ AbortRemove(h)
  PROVE  Shape'
<1> USE DEF Shape
<1>a. pc[h] \notin {"idle", "find", "new"}
  BY DEF AbortLock, AbortDelete, AbortRemove
<1>b. loc \in [Handlers -> Locals]
  BY DEF HandlerShape
<1>1. CASE AbortLock(h)
  <2>1. HandlerShape'
    BY <1>1, <1>a, <1>b, GotoShape DEF AbortLock, PCs, memVars
  <2> QED
    BY <1>1, <2>1 DEF AbortLock, SessionShape, DiskShape, memVars, diskVars, dbVars
<1>2. CASE AbortDelete(h)
  <2>1. DeleteSession(cur[h], loc)
    BY <1>2 DEF AbortDelete
  <2>2. HandlerShape'
    BY <1>2, <1>a, <1>b, <2>1, DeleteShape, GotoShape DEF AbortDelete, PCs
  <2>3. SessionShape'
    BY <1>2, <1>b, <2>1, DeleteShape DEF AbortDelete, SessionShape
  <2>4. DiskShape'
    BY <1>2, <1>b, <2>1, DeleteShape DEF AbortDelete, DiskShape, dbVars
  <2> QED
    BY <2>2, <2>3, <2>4
<1>3. CASE AbortRemove(h)
  <2> DEFINE l == [loc EXCEPT ![h] = NoLoc]
  <2>1. l \in [Handlers -> Locals]
    BY <1>b, NoLocType
  <2>2. UnlinkTemps({cur[h]}, l)
    BY <1>3 DEF AbortRemove
  <2>3. /\ onDisk' \subseteq onDisk
        /\ temp' \in [Sessions -> Seq(Nat)]
        /\ loc' \in [Handlers -> Locals]
        /\ cause' \in [Sessions -> SUBSET Causes]
    <3> HIDE DEF l
    <3> QED
      BY <2>1, <2>2, UnlinkShape
  <2>4. HandlerShape'
    BY <1>3, <2>3, NoLocType DEF AbortRemove, HandlerShape, CurOK, Goto, PCs
  <2>5. SessionShape'
    BY <1>3, <2>3 DEF AbortRemove, SessionShape
  <2> QED
    BY <1>3, <2>3, <2>4, <2>5 DEF AbortRemove, DiskShape, dbVars
<1> QED
  BY <1>1, <1>2, <1>3

LEMMA ShapeRequest ==
  ASSUME Shape, NEW h \in Handlers, Request(h)
  PROVE  Shape'
<1> USE DEF Shape
<1>1. ASSUME NEW size \in Sizes, InitCheck(h, size)
      PROVE  Shape'
  <2>1. req' \in [Handlers -> ChunkRequest]
    BY <1>1, UploadConstants DEF InitCheck, HandlerShape, ChunkRequest
  <2>2. HandlerShape'
    BY <1>1, <2>1 DEF InitCheck, HandlerShape, CurOK, Goto, PCs, memVars
  <2> QED
    BY <1>1, <2>2 DEF InitCheck, SessionShape, DiskShape, memVars, diskVars, dbVars
<1>2. ASSUME NEW s \in Sessions, NEW first \in 0..MaxOffset, NEW len \in 0..MaxChunk,
             NEW ranged \in BOOLEAN, ChunkBegin(h, s, first, len, ranged)
      PROVE  Shape'
  <2>1. [first |-> first, len |-> len, ranged |-> ranged] \in ChunkRequest
    BY UploadConstants DEF ChunkRequest
  <2>2. s \in created /\ s # NoSession
    BY <1>2, UploadConstants DEF ChunkBegin, SessionShape
  <2>3. HandlerShape'
    BY <1>2, <2>1, <2>2 DEF ChunkBegin, HandlerShape, CurOK, Goto, PCs, memVars
  <2> QED
    BY <1>2, <2>3 DEF ChunkBegin, SessionShape, DiskShape, memVars, diskVars, dbVars
<1>3. ASSUME NEW s \in Sessions, AbortBegin(h, s)
      PROVE  Shape'
  <2>1. s \in created /\ s # NoSession
    BY <1>3, UploadConstants DEF AbortBegin, SessionShape
  <2>2. HandlerShape'
    BY <1>3, <2>1 DEF AbortBegin, HandlerShape, CurOK, Goto, PCs, memVars
  <2> QED
    BY <1>3, <2>2 DEF AbortBegin, SessionShape, DiskShape, memVars, diskVars, dbVars
<1> QED
  BY <1>1, <1>2, <1>3 DEF Request

LEMMA ShapeEnvironment ==
  ASSUME Shape, Environment
  PROVE  Shape'
<1> USE DEF Shape
<1>a. loc \in [Handlers -> Locals]
  BY DEF HandlerShape
<1>1. ASSUME NEW s \in Sessions, Reap(s)
      PROVE  Shape'
  <2>1. DeleteSession(s, loc)
    BY <1>1 DEF Reap
  <2>2. HandlerShape'
    BY <1>1, <1>a, <2>1, DeleteShape DEF Reap, HandlerShape, CurOK
  <2>3. SessionShape'
    BY <1>1, <1>a, <2>1, DeleteShape DEF Reap, SessionShape
  <2>4. DiskShape'
    BY <1>1, <1>a, <2>1, DeleteShape DEF Reap, DiskShape, dbVars
  <2> QED
    BY <2>2, <2>3, <2>4
<1>2. ASSUME NEW s \in Sessions, ForgetCompleted(s)
      PROVE  Shape'
  BY <1>2 DEF ForgetCompleted, HandlerShape, CurOK, SessionShape, DiskShape, diskVars, dbVars, hVars
<1>3. CASE PurgeAll
  <2>1. /\ onDisk' \subseteq onDisk
        /\ temp' \in [Sessions -> Seq(Nat)]
        /\ loc' \in [Handlers -> Locals]
        /\ cause' \in [Sessions -> SUBSET Causes]
    BY <1>3, <1>a, UnlinkShape DEF PurgeAll
  <2>2. HandlerShape'
    BY <1>3, <2>1 DEF PurgeAll, HandlerShape, CurOK
  <2>3. SessionShape'
    BY <1>3, <2>1 DEF PurgeAll, SessionShape
  <2>4. DiskShape'
    BY <1>3, <2>1, RemoveMetaShape DEF PurgeAll, DiskShape, dbVars
  <2> QED
    BY <2>2, <2>3, <2>4
<1>4. ASSUME NEW torn \in SUBSET Sessions, Crash(torn)
      PROVE  Shape'
  <2> DEFINE onRestart == [s \in Sessions |-> IF s \in torn THEN TornMeta ELSE meta[s]]
             restored  == {s \in Sessions : Restorable(s, onRestart[s])}
  <2>1. \A s \in Sessions : onRestart[s] \in Nat \cup {NoMeta, TornMeta}
    BY DEF DiskShape
  <2>2. restored \subseteq onDisk /\ \A s \in restored : onRestart[s] \in Nat
    BY <2>1 DEF Restorable, NoMeta, TornMeta
  <2>3. /\ table' = restored
        /\ uploaded' = [s \in Sessions |-> IF s \in restored THEN onRestart[s] ELSE uploaded[s]]
        /\ meta' = [s \in Sessions |-> IF s \notin onDisk /\ onRestart[s] >= 0
                                       THEN NoMeta ELSE onRestart[s]]
    BY <1>4 DEF Crash
  <2>4. HandlerShape'
    BY <1>4, NoLocType DEF Crash, HandlerShape, CurOK, PCs
  <2>5. SessionShape'
    <3> HIDE DEF onRestart, restored
    <3>1. uploaded' \in [Sessions -> Nat]
      BY <2>2, <2>3 DEF SessionShape
    <3>2. cause' \in [Sessions -> SUBSET Causes]
      BY <1>4, StrikeShape DEF Crash, Causes
    <3>3. mu' \in [Sessions -> Handlers \cup {Free}]
      BY <1>4 DEF Crash
    <3>4. table' \subseteq created' /\ done' \subseteq created'
      BY <1>4, <2>2, <2>3 DEF Crash, SessionShape
    <3> QED
      BY <1>4, <3>1, <3>2, <3>3, <3>4 DEF Crash, SessionShape
  <2>6. crashes' \in 0..MaxCrashes
    BY <1>4, UploadConstants DEF Crash, DiskShape
  <2>7. DiskShape'
    <3> HIDE DEF onRestart, restored
    <3> QED
      BY <1>4, <2>1, <2>3, <2>6 DEF Crash, DiskShape, dbVars
  <2> QED
    BY <2>4, <2>5, <2>7
<1> QED
  BY <1>1, <1>2, <1>3, <1>4 DEF Environment

-----------------------------------------------------------------------------
(* Mutual exclusion on sess.Mu.                                            *)

\* A handler that holds no lock moves on without taking one.
LEMMA LockOutside ==
  ASSUME Shape, LockOK, NEW h \in Handlers, NEW p \in PCs \ Holding, NEW c,
         pc[h] \notin Holding, Goto(h, p), cur' = [cur EXCEPT ![h] = c], mu' = mu
  PROVE  LockOK'
  BY UploadConstants DEF Shape, HandlerShape, SessionShape, LockOK, Goto

\* A handler that holds the lock moves on and keeps it.
LEMMA LockInside ==
  ASSUME Shape, LockOK, NEW h \in Handlers, NEW p \in Holding,
         pc[h] \in Holding, Goto(h, p), cur' = cur, mu' = mu
  PROVE  LockOK'
  BY UploadConstants DEF Shape, HandlerShape, SessionShape, LockOK, Goto

\* A handler that holds the lock releases it and returns.
LEMMA LockReleased ==
  ASSUME Shape, LockOK, NEW h \in Handlers,
         pc[h] \in Holding, Unlock(cur[h]), Return(h)
  PROVE  LockOK'
<1>1. cur[h] \in Sessions /\ mu[cur[h]] = h
  BY CurType DEF Shape, LockOK, Holding
<1>2. mu' = [mu EXCEPT ![cur[h]] = Free]
  BY DEF Unlock
<1>3. pc' = [pc EXCEPT ![h] = "idle"] /\ cur' = [cur EXCEPT ![h] = NoSession]
  BY DEF Return, Goto
<1>4. \A g \in Handlers : g # h /\ pc[g] \in Holding => cur[g] # cur[h]
  BY <1>1 DEF LockOK
<1>5. \A g \in Handlers : pc[g] \in Holding => cur[g] \in Sessions
  BY CurType DEF Shape, Holding
<1> QED
  BY <1>1, <1>2, <1>3, <1>4, <1>5, UploadConstants
     DEF Shape, HandlerShape, SessionShape, LockOK, Holding

LEMMA LockTaken ==
  ASSUME Shape, LockOK, NEW h \in Handlers, ChunkLock(h)
  PROVE  LockOK'
<1>1. cur[h] \in Sessions /\ pc[h] \notin Holding
  BY CurType DEF ChunkLock, Shape, Holding
<1>2. /\ mu[cur[h]] = Free /\ cur' = cur
      /\ mu' = [mu EXCEPT ![cur[h]] = h]
      /\ pc' = [pc EXCEPT ![h] = "copy"]
  BY DEF ChunkLock, Goto
<1>3. \A g \in Handlers : pc[g] \in Holding => cur[g] \in Sessions /\ cur[g] # cur[h]
  BY <1>2, CurType, UploadConstants DEF Shape, LockOK, Holding
<1> QED
  BY <1>1, <1>2, <1>3, UploadConstants DEF Shape, HandlerShape, SessionShape, LockOK, Holding

LEMMA LockStep ==
  ASSUME Shape, LockOK, [Next]_vars
  PROVE  LockOK'
<1>1. ASSUME NEW h \in Handlers, Request(h)
      PROVE  LockOK'
  <2> USE DEF PCs, Holding
  <2>1. ASSUME NEW size \in Sizes, InitCheck(h, size)
        PROVE  LockOK'
    <3>1. cur' = [cur EXCEPT ![h] = cur[h]]
      BY <2>1 DEF InitCheck, Shape, HandlerShape
    <3>2. pc[h] = "idle" /\ Goto(h, "find") /\ mu' = mu
      BY <2>1 DEF InitCheck, memVars
    <3> QED
      BY <3>1, <3>2, LockOutside
  <2>2. ASSUME NEW s \in Sessions, NEW first \in 0..MaxOffset, NEW len \in 0..MaxChunk,
               NEW ranged \in BOOLEAN, ChunkBegin(h, s, first, len, ranged)
        PROVE  LockOK'
    <3>1. /\ pc[h] = "idle" /\ Goto(h, "lock") /\ mu' = mu
          /\ cur' = [cur EXCEPT ![h] = s]
      BY <2>2 DEF ChunkBegin, memVars
    <3> QED
      BY <3>1, LockOutside
  <2>3. ASSUME NEW s \in Sessions, AbortBegin(h, s)
        PROVE  LockOK'
    <3>1. /\ pc[h] = "idle" /\ Goto(h, "abortlock") /\ mu' = mu
          /\ cur' = [cur EXCEPT ![h] = s]
      BY <2>3 DEF AbortBegin, memVars
    <3> QED
      BY <3>1, LockOutside
  <2> QED
    BY <1>1, <2>1, <2>2, <2>3 DEF Request
<1>2. ASSUME NEW h \in Handlers, HandlerStep(h)
      PROVE  LockOK'
  <2> USE DEF PCs, Holding
  <2>0. CASE FindNone(h)
    <3>1. cur' = [cur EXCEPT ![h] = cur[h]]
      BY <2>0 DEF FindNone, Shape, HandlerShape
    <3>2. pc[h] = "find" /\ Goto(h, "new") /\ mu' = mu
      BY <2>0 DEF FindNone, memVars
    <3> QED
      BY <3>1, <3>2, LockOutside
  <2>8. CASE CreateFile(h)
    <3>1. PICK c : cur' = [cur EXCEPT ![h] = c]
      BY <2>8 DEF CreateFile
    <3>2. pc[h] = "new" /\ Goto(h, "create") /\ mu' = mu
      BY <2>8 DEF CreateFile
    <3> QED
      BY <3>1, <3>2, LockOutside
  <2>1. CASE \/ CreateSession(h) \/ CreateSessionFails(h) \/ ResumePersist(h)
             \/ ChunkTurnedAway(h) \/ AbortRemove(h)
    <3>1. /\ pc[h] \in {"new", "create", "resume", "lock", "abortrm"} /\ Goto(h, "idle")
          /\ cur' = [cur EXCEPT ![h] = NoSession] /\ mu' = mu
      BY <2>1 DEF CreateSession, CreateSessionFails, ResumePersist, ChunkTurnedAway,
                  AbortRemove, Return, memVars
    <3> QED
      BY <3>1, LockOutside
  <2>2. CASE ResumeRead(h)
    <3>1. PICK c : cur' = [cur EXCEPT ![h] = c]
      BY <2>2 DEF ResumeRead
    <3>2. pc[h] = "find" /\ Goto(h, "resume") /\ mu' = mu
      BY <2>2 DEF ResumeRead, memVars
    <3> QED
      BY <3>1, <3>2, LockOutside
  <2>3. CASE AbortLock(h) \/ AbortDelete(h)
    <3>1. cur' = [cur EXCEPT ![h] = cur[h]]
      BY <2>3 DEF AbortLock, AbortDelete, Shape, HandlerShape
    <3>2. PICK p \in {"abortdel", "abortrm"} : Goto(h, p)
      BY <2>3 DEF AbortLock, AbortDelete
    <3>3. pc[h] \in {"abortlock", "abortdel"} /\ mu' = mu
      BY <2>3 DEF AbortLock, AbortDelete, memVars
    <3> QED
      BY <3>1, <3>2, <3>3, LockOutside
  <2>4. CASE ChunkLock(h)
    BY <2>4, LockTaken
  <2>5. CASE \/ ChunkRefused(h) \/ ChunkUndo(h) \/ MoveToCASFails(h)
             \/ InsertRow(h) \/ InsertFails(h)
    <3>1. pc[h] \in Holding /\ Unlock(cur[h]) /\ Return(h)
      BY <2>5 DEF ChunkRefused, ChunkUndo, MoveToCASFails, InsertRow, InsertFails
    <3> QED
      BY <3>1, LockReleased
  <2>6. CASE \/ ChunkCopy(h) \/ ChunkFlushFails(h) \/ ChunkCommit(h)
             \/ MoveToCAS(h) \/ ChunkDone(h)
    <3>1. PICK p \in {"commit", "persist", "drop", "insert"} : Goto(h, p)
      BY <2>6 DEF ChunkCopy, ChunkFlushFails, ChunkCommit, MoveToCAS, ChunkDone
    <3>2. pc[h] \in Holding /\ cur' = cur /\ mu' = mu
      BY <2>6 DEF ChunkCopy, ChunkFlushFails, ChunkCommit, MoveToCAS, ChunkDone, memVars
    <3> QED
      BY <3>1, <3>2, LockInside
  <2>7. CASE ChunkPersist(h)
    <3>1. CASE uploaded[cur[h]] >= expected[cur[h]]
      BY <2>7, <3>1, LockInside DEF ChunkPersist
    <3>2. CASE ~ (uploaded[cur[h]] >= expected[cur[h]])
      BY <2>7, <3>2, LockReleased DEF ChunkPersist
    <3> QED
      BY <3>1, <3>2
  <2> QED
    BY <1>2, <2>0, <2>8, <2>1, <2>2, <2>3, <2>4, <2>5, <2>6, <2>7 DEF HandlerStep
<1>3. ASSUME Environment
      PROVE  LockOK'
  <2>1. CASE PurgeAll \/ \E s \in Sessions : Reap(s) \/ ForgetCompleted(s)
    <3>1. UNCHANGED <<pc, cur, mu>>
      BY <2>1 DEF PurgeAll, Reap, ForgetCompleted, hVars
    <3> QED
      BY <3>1 DEF LockOK
  <2>2. CASE \E torn \in SUBSET Sessions : Crash(torn)
    <3>1. /\ pc' = [h \in Handlers |-> "idle"]
          /\ mu' = [s \in Sessions |-> Free]
      BY <2>2 DEF Crash
    <3> QED
      BY <3>1 DEF LockOK, Holding
  <2> QED
    BY <1>3, <2>1, <2>2 DEF Environment
<1>4. ASSUME UNCHANGED vars
      PROVE  LockOK'
  BY <1>4 DEF vars, memVars, hVars, LockOK
<1> QED
  BY <1>1, <1>2, <1>3, <1>4 DEF Next

-----------------------------------------------------------------------------
(* The size a chunk is truncated back to.  Needs mutual exclusion: nobody  *)
(* else shortens the file between the write and the truncation.            *)

\* Two handlers inside their critical sections work on different sessions.
LEMMA HoldersDiffer ==
  ASSUME LockOK, NEW g \in Handlers, NEW h \in Handlers, g # h,
         pc[g] \in Holding, pc[h] \in Holding
  PROVE  cur[g] # cur[h]
  BY DEF LockOK

\* A step that leaves the committing handlers and their files alone.
LEMMA BaseKeep ==
  ASSUME BaseOK,
         \A g \in Handlers : pc'[g] = "commit" /\ loc'[g].linked =>
            /\ pc[g] = "commit" /\ loc[g].linked /\ cur'[g] = cur[g]
            /\ loc'[g].base = loc[g].base /\ temp'[cur[g]] = temp[cur[g]]
  PROVE  BaseOK'
  BY DEF BaseOK

\* Unlinking a file takes its handler out of the claim.
LEMMA BaseUnlink ==
  ASSUME Shape, BaseOK, NEW S, NEW l \in [Handlers -> Locals], UnlinkTemps(S, l),
         \A g \in Handlers : pc'[g] = "commit" =>
            pc[g] = "commit" /\ cur'[g] = cur[g] /\ l[g] = loc[g]
  PROVE  BaseOK'
<1> SUFFICES ASSUME NEW g \in Handlers, pc'[g] = "commit", loc'[g].linked
             PROVE  /\ pc[g] = "commit" /\ loc[g].linked /\ cur'[g] = cur[g]
                    /\ loc'[g].base = loc[g].base /\ temp'[cur[g]] = temp[cur[g]]
  BY BaseKeep
<1>1. cur[g] \in Sessions
  BY CurType DEF Shape
<1>a. PICK kept : /\ temp' = [s \in Sessions |-> IF s \in S \ kept THEN <<>> ELSE temp[s]]
                  /\ loc' = [h \in Handlers |->
                               IF pc[h] \in FileOpen /\ cur[h] \in S \ kept
                               THEN [l[h] EXCEPT !.linked = FALSE] ELSE l[h]]
  BY DEF UnlinkTemps
<1>2. cur[g] \notin S \ kept
  BY <1>a DEF FileOpen, Locals
<1>3. loc'[g] = loc[g]
  BY <1>2, <1>a
<1>4. temp'[cur[g]] = temp[cur[g]]
  BY <1>1, <1>2, <1>a
<1> QED
  BY <1>3, <1>4

LEMMA BaseDelete ==
  ASSUME Shape, BaseOK, NEW s, DeleteSession(s, loc),
         \A g \in Handlers : pc'[g] = "commit" => pc[g] = "commit" /\ cur'[g] = cur[g]
  PROVE  BaseOK'
<1>1. loc \in [Handlers -> Locals]
  BY DEF Shape, HandlerShape
<1>2. CASE s \in table
  <2>1. UnlinkTemps({s}, loc)
    BY <1>2 DEF DeleteSession
  <2> QED
    BY <1>1, <2>1, BaseUnlink
<1>3. CASE s \notin table
  BY <1>3, BaseKeep DEF DeleteSession
<1> QED
  BY <1>2, <1>3

\* Appending a run makes a file longer by the run.
LEMMA AppendRun ==
  ASSUME NEW t \in Seq(Nat), NEW f \in Nat, NEW k \in Nat
  PROVE  /\ t \o Run(f, k) \in Seq(Nat)
         /\ Len(t \o Run(f, k)) = Len(t) + k
         /\ Len(t) \in Nat
<1>1. Run(f, k) \in Seq(Nat) /\ Len(Run(f, k)) = k
  BY RunType
<1> DEFINE r == Run(f, k)
<1>2. r \in Seq(Nat) /\ Len(r) = k
  BY <1>1
<1> HIDE DEF r
<1>3. t \o r \in Seq(Nat) /\ Len(t \o r) = Len(t) + k
  BY <1>2
<1> QED
  BY <1>3 DEF r

\* The copy sets the size to truncate to before it appends.
LEMMA BaseCopy ==
  ASSUME Shape, LockOK, BaseOK, NEW h \in Handlers, ChunkCopy(h) \/ ChunkFlushFails(h)
  PROVE  BaseOK'
<1> DEFINE s == cur[h]
<1>a. pc[h] = "copy" /\ pc' = [pc EXCEPT ![h] = "commit"] /\ cur' = cur
  BY BodyWritten DEF Goto
<1>b. s \in Sessions
  BY <1>a, CurType DEF Shape
<1>c. uploaded[s] \in Nat /\ expected[s] \in Nat /\ temp[s] \in Seq(Nat)
  BY <1>b DEF Shape, SessionShape, DiskShape
<1>d. req[h].len \in Nat /\ req[h].first \in Nat
  BY DEF Shape, HandlerShape, ChunkRequest
<1>1. PICK k \in Nat, n \in Nat, ok \in BOOLEAN :
         /\ loc' = [loc EXCEPT ![h].wrote = n, ![h].ok = ok, ![h].base = Len(temp[s])]
         /\ temp' = IF loc[h].linked
                    THEN [temp EXCEPT ![s] = @ \o Run(req[h].first, k)] ELSE temp
  BY BodyWritten DEF WriteBody
<1>2. Len(temp[s] \o Run(req[h].first, k)) >= Len(temp[s])
  <2>1. /\ Len(temp[s] \o Run(req[h].first, k)) = Len(temp[s]) + k
        /\ Len(temp[s]) \in Nat
    BY <1>c, <1>d, AppendRun
  <2> QED
    BY <2>1
<1> SUFFICES ASSUME NEW g \in Handlers, pc'[g] = "commit", loc'[g].linked
             PROVE  loc'[g].base <= Len(temp'[cur'[g]])
  BY DEF BaseOK
<1>3. CASE g = h
  <2>1. loc'[h].base = Len(temp[s])
    <3> HIDE DEF s
    <3>1. loc'[h] = [[[loc[h] EXCEPT !.wrote = n] EXCEPT !.ok = ok] EXCEPT !.base = Len(temp[s])]
      BY <1>1 DEF Shape, HandlerShape
    <3>2. loc[h] \in Locals
      BY DEF Shape, HandlerShape
    <3> QED
      BY <3>1, <3>2 DEF Locals
  <2>2. Len(temp'[s]) >= Len(temp[s])
    <3> HIDE DEF s
    <3>1. CASE loc[h].linked
      <4> DEFINE t == temp[s] \o Run(req[h].first, k)
      <4>1. temp' = [temp EXCEPT ![s] = t] /\ Len(t) >= Len(temp[s])
        BY <1>1, <1>2, <3>1
      <4> HIDE DEF t
      <4> QED
        BY <4>1, <1>b DEF Shape, DiskShape
    <3>2. CASE ~ loc[h].linked
      BY <3>2, <1>1, <1>c
    <3> QED
      BY <3>1, <3>2
  <2> QED
    BY <1>3, <1>a, <1>c, <2>1, <2>2
<1>4. CASE g # h
  <2>1. pc[g] = "commit" /\ loc'[g] = loc[g]
    BY <1>4, <1>a, <1>1 DEF Shape, HandlerShape
  <2>2. cur[g] # s
    BY <1>4, <1>a, <2>1, HoldersDiffer DEF Holding
  <2>3. temp'[cur[g]] = temp[cur[g]]
    BY <1>1, <2>2
  <2> QED
    BY <1>a, <2>1, <2>3 DEF BaseOK
<1> QED
  BY <1>3, <1>4

LEMMA BaseStep ==
  ASSUME Shape, LockOK, BaseOK, [Next]_vars
  PROVE  BaseOK'
<1>1. ASSUME NEW h \in Handlers, Request(h)
      PROVE  BaseOK'
  <2>1. temp' = temp /\ loc' = loc
    BY <1>1 DEF Request, InitCheck, ChunkBegin, AbortBegin, diskVars
  <2>2. \A g \in Handlers : pc'[g] = "commit" => pc[g] = "commit" /\ cur'[g] = cur[g]
    BY <1>1 DEF Request, InitCheck, ChunkBegin, AbortBegin, Goto, Shape, HandlerShape
  <2> QED
    BY <2>1, <2>2, BaseKeep
<1>2. ASSUME NEW h \in Handlers, HandlerStep(h)
      PROVE  BaseOK'
  <2>1. CASE CreateFile(h)
    <3>1. PICK s \in Sessions \ created : temp' = [temp EXCEPT ![s] = <<>>]
      BY <2>1 DEF CreateFile
    <3>2. \A g \in Handlers : pc'[g] = "commit" =>
             pc[g] = "commit" /\ cur'[g] = cur[g] /\ loc'[g] = loc[g]
      BY <2>1 DEF CreateFile, Goto, Shape, HandlerShape
    <3>3. \A g \in Handlers : pc[g] = "commit" => cur[g] \in created
      BY CurType DEF Shape
    <3> QED
      BY <3>1, <3>2, <3>3, BaseKeep
  <2>2. CASE \/ FindNone(h) \/ CreateSession(h) \/ CreateSessionFails(h)
             \/ ResumeRead(h) \/ ResumePersist(h) \/ ChunkTurnedAway(h) \/ ChunkLock(h) \/ ChunkRefused(h) \/ ChunkCommit(h)
             \/ ChunkPersist(h) \/ MoveToCASFails(h) \/ InsertRow(h) \/ InsertFails(h)
             \/ AbortLock(h)
    <3>1. temp' = temp
      BY <2>2 DEF FindNone, CreateSession, CreateSessionFails, ResumeRead, ResumePersist, ChunkTurnedAway, ChunkLock,
         ChunkRefused, ChunkCommit, ChunkPersist, MoveToCASFails, InsertRow, InsertFails,
         AbortLock, diskVars
    <3>2. \A g \in Handlers : pc'[g] = "commit" =>
             pc[g] = "commit" /\ cur'[g] = cur[g] /\ loc'[g] = loc[g]
      BY <2>2 DEF FindNone, CreateSession, CreateSessionFails, ResumeRead, ResumePersist, ChunkTurnedAway, ChunkLock,
         ChunkRefused, ChunkCommit, ChunkPersist, MoveToCASFails, InsertRow, InsertFails,
         AbortLock, Return, Goto, Shape, HandlerShape
    <3> QED
      BY <3>1, <3>2, BaseKeep
  <2>3. CASE ChunkCopy(h) \/ ChunkFlushFails(h)
    BY <2>3, BaseCopy
  <2>4. CASE ChunkUndo(h) \/ MoveToCAS(h)
    <3>1. pc[h] \in Holding /\ pc'[h] # "commit"
      BY <2>4 DEF ChunkUndo, MoveToCAS, Holding, Return, Goto, Shape, HandlerShape
    <3>2. \A g \in Handlers \ {h} : pc'[g] = pc[g] /\ cur'[g] = cur[g] /\ loc'[g] = loc[g]
      BY <2>4 DEF ChunkUndo, MoveToCAS, Return, Goto, Shape, HandlerShape
    <3>3. \A c \in Sessions \ {cur[h]} : temp'[c] = temp[c]
      BY <2>4 DEF ChunkUndo, MoveToCAS, Shape, DiskShape
    <3>4. \A g \in Handlers \ {h} : pc[g] = "commit" => cur[g] \in Sessions \ {cur[h]}
      BY <3>1, HoldersDiffer, CurType DEF Holding, Shape
    <3> QED
      BY <3>1, <3>2, <3>3, <3>4, BaseKeep
  <2>5. CASE ChunkDone(h) \/ AbortDelete(h)
    <3>1. DeleteSession(cur[h], loc)
      BY <2>5 DEF ChunkDone, AbortDelete
    <3>2. \A g \in Handlers : pc'[g] = "commit" => pc[g] = "commit" /\ cur'[g] = cur[g]
      BY <2>5 DEF ChunkDone, AbortDelete, Goto, Shape, HandlerShape
    <3> QED
      BY <3>1, <3>2, BaseDelete
  <2>6. CASE AbortRemove(h)
    <3> DEFINE l == [loc EXCEPT ![h] = NoLoc]
    <3>1. UnlinkTemps({cur[h]}, l)
      BY <2>6 DEF AbortRemove
    <3>2. l \in [Handlers -> Locals]
      BY NoLocType DEF Shape, HandlerShape
    <3>3. \A g \in Handlers : pc'[g] = "commit" =>
             pc[g] = "commit" /\ cur'[g] = cur[g] /\ l[g] = loc[g]
      BY <2>6 DEF AbortRemove, Goto, Shape, HandlerShape
    <3> HIDE DEF l
    <3> QED
      BY <3>1, <3>2, <3>3, BaseUnlink
  <2> QED
    BY <1>2, <2>1, <2>2, <2>3, <2>4, <2>5, <2>6 DEF HandlerStep
<1>3. ASSUME Environment
      PROVE  BaseOK'
  <2>1. ASSUME NEW s \in Sessions, Reap(s)
        PROVE  BaseOK'
    BY <2>1, BaseDelete DEF Reap
  <2>2. ASSUME NEW s \in Sessions, ForgetCompleted(s)
        PROVE  BaseOK'
    BY <2>2, BaseKeep DEF ForgetCompleted, diskVars, hVars
  <2>3. CASE PurgeAll
    BY <2>3, BaseUnlink DEF PurgeAll, Shape, HandlerShape
  <2>4. CASE \E torn \in SUBSET Sessions : Crash(torn)
    BY <2>4 DEF Crash, BaseOK
  <2> QED
    BY <1>3, <2>1, <2>2, <2>3, <2>4 DEF Environment
<1>4. ASSUME UNCHANGED vars
      PROVE  BaseOK'
  BY <1>4, BaseKeep DEF vars, diskVars, hVars
<1> QED
  BY <1>1, <1>2, <1>3, <1>4 DEF Next

-----------------------------------------------------------------------------
(* The session a handler is creating.  Nobody else points to it, and       *)
(* nothing was ever written about an id that was not handed out.           *)

SoleOK ==
    \A h \in Handlers : pc[h] = "create" => \A g \in Handlers \ {h} : cur[g] # cur[h]

FreshOK == \A s \in Sessions \ created : meta[s] = NoMeta

\* A step that makes nobody a creator and hands out no pointer but its own.
LEMMA SoleKept ==
  ASSUME Shape, SoleOK,
         \A h \in Handlers : pc'[h] = "create" => pc[h] = "create" /\ cur'[h] = cur[h],
         \A g \in Handlers : cur'[g] = cur[g] \/ cur'[g] = NoSession
  PROVE  SoleOK'
<1>1. \A h \in Handlers : pc[h] = "create" => cur[h] # NoSession
  BY DEF Shape, HandlerShape, CurOK
<1> QED
  BY <1>1 DEF SoleOK

\* A step made while nobody is creating a session.
LEMMA SoleFree ==
  ASSUME Shape, TableFree, NEW h \in Handlers,
         \A g \in Handlers \ {h} : pc'[g] = pc[g] /\ cur'[g] = cur[g],
         pc'[h] = "create" => cur'[h] \notin created /\ cur'[h] # NoSession
  PROVE  SoleOK'
<1>1. \A g \in Handlers \ {h} : pc'[g] # "create" /\ cur'[g] \in created \cup {NoSession}
  BY DEF TableFree, Shape, HandlerShape
<1> QED
  BY <1>1 DEF SoleOK

LEMMA SoleStep ==
  ASSUME Shape, SoleOK, [Next]_vars
  PROVE  SoleOK'
<1>1. ASSUME NEW h \in Handlers, Request(h) \/ HandlerStep(h)
      PROVE  SoleOK'
  <2>1. CASE ResumeRead(h) \/ CreateFile(h)
    <3>1. TableFree /\ \A g \in Handlers \ {h} : pc'[g] = pc[g] /\ cur'[g] = cur[g]
      BY <2>1 DEF ResumeRead, CreateFile, Goto, Shape, HandlerShape
    <3>2. pc'[h] = "create" => cur'[h] \notin created /\ cur'[h] # NoSession
      BY <2>1, UploadConstants DEF ResumeRead, CreateFile, Goto, Shape, HandlerShape
    <3> QED
      BY <3>1, <3>2, SoleFree
  <2>2. ASSUME NEW s \in Sessions,
               \/ AbortBegin(h, s)
               \/ \E first \in 0..MaxOffset, len \in 0..MaxChunk, ranged \in BOOLEAN :
                     ChunkBegin(h, s, first, len, ranged)
        PROVE  SoleOK'
    <3>1. TableFree /\ \A g \in Handlers \ {h} : pc'[g] = pc[g] /\ cur'[g] = cur[g]
      BY <2>2 DEF AbortBegin, ChunkBegin, Goto, Shape, HandlerShape
    <3>2. pc'[h] # "create"
      BY <2>2 DEF AbortBegin, ChunkBegin, Goto, Shape, HandlerShape
    <3> QED
      BY <3>1, <3>2, SoleFree
  <2>3. CASE \/ \E size \in Sizes : InitCheck(h, size)
             \/ FindNone(h) \/ ChunkLock(h) \/ ChunkCopy(h) \/ ChunkFlushFails(h)
             \/ ChunkCommit(h) \/ MoveToCAS(h) \/ ChunkDone(h) \/ AbortLock(h)
             \/ AbortDelete(h)
    <3>1. PICK p \in PCs \ {"create"} : Goto(h, p) /\ cur' = cur
      BY <2>3 DEF InitCheck, FindNone, ChunkLock, ChunkCopy, ChunkFlushFails, ChunkCommit,
         MoveToCAS, ChunkDone, AbortLock, AbortDelete, PCs
    <3> QED
      BY <3>1, SoleKept DEF Goto, Shape, HandlerShape
  <2>4. CASE \/ CreateSession(h) \/ CreateSessionFails(h) \/ ResumePersist(h)
             \/ ChunkTurnedAway(h) \/ ChunkRefused(h) \/ ChunkUndo(h)
             \/ MoveToCASFails(h) \/ InsertRow(h) \/ InsertFails(h) \/ AbortRemove(h)
    <3>1. Goto(h, "idle") /\ cur' = [cur EXCEPT ![h] = NoSession]
      BY <2>4 DEF CreateSession, CreateSessionFails, ResumePersist, ChunkTurnedAway, ChunkRefused,
         ChunkUndo, MoveToCASFails, InsertRow, InsertFails, AbortRemove, Return
    <3> QED
      BY <3>1, SoleKept DEF Goto, Shape, HandlerShape
  <2>5. CASE ChunkPersist(h)
    <3>1. \/ Goto(h, "move") /\ cur' = cur
          \/ Goto(h, "idle") /\ cur' = [cur EXCEPT ![h] = NoSession]
      BY <2>5 DEF ChunkPersist, Return
    <3> QED
      BY <3>1, SoleKept DEF Goto, Shape, HandlerShape
  <2> QED
    BY <1>1, <2>1, <2>2, <2>3, <2>4, <2>5 DEF Request, HandlerStep
<1>2. CASE Environment
  <2>1. \/ pc' = pc /\ cur' = cur
        \/ \A g \in Handlers : pc'[g] = "idle"
    BY <1>2 DEF Environment, Reap, ForgetCompleted, PurgeAll, Crash, hVars
  <2> QED
    BY <2>1, SoleKept DEF SoleOK
<1>3. CASE UNCHANGED vars
  BY <1>3, SoleKept DEF vars, hVars
<1> QED
  BY <1>1, <1>2, <1>3 DEF Next

LEMMA FreshStep ==
  ASSUME Shape, FreshOK, [Next]_vars
  PROVE  FreshOK'
<1>1. created \subseteq created' /\ \A h \in Handlers : pc[h] \notin {"idle", "find", "new"} => cur[h] \in created
  <2>1. \A h \in Handlers : pc[h] \notin {"idle", "find", "new"} => cur[h] \in created
    BY CurType DEF Shape
  <2>2. created \subseteq created'
    <3>1. ASSUME NEW h \in Handlers, Request(h) \/ HandlerStep(h)
          PROVE  created \subseteq created'
      <4>1. CASE CreateFile(h)
        BY <4>1 DEF CreateFile
      <4>2. CASE ~ CreateFile(h)
        BY <3>1, <4>2 DEF Request, HandlerStep, InitCheck, ChunkBegin, AbortBegin, FindNone, CreateSession,
         CreateSessionFails, ResumeRead, ResumePersist, ChunkTurnedAway, ChunkLock, ChunkRefused,
         ChunkCopy, ChunkFlushFails, ChunkUndo, ChunkCommit, ChunkPersist, MoveToCAS,
         MoveToCASFails, ChunkDone, InsertRow, InsertFails, AbortLock, AbortDelete, AbortRemove,
         memVars
      <4> QED
        BY <4>1, <4>2
    <3>2. CASE Environment \/ UNCHANGED vars
      BY <3>2 DEF Environment, Reap, ForgetCompleted, PurgeAll, Crash, vars, memVars
    <3> QED
      BY <3>1, <3>2 DEF Next
  <2> QED
    BY <2>1, <2>2
<1> SUFFICES ASSUME NEW s \in Sessions \ created
             PROVE  meta'[s] = NoMeta
  BY <1>1 DEF FreshOK
<1>2. meta[s] = NoMeta
  BY DEF FreshOK
<1>3. ASSUME NEW h \in Handlers, Request(h) \/ HandlerStep(h)
      PROVE  meta'[s] = NoMeta
  <2>1. CASE CreateSession(h) \/ ResumePersist(h) \/ ChunkPersist(h)
    <3>1. cur[h] # s
      BY <1>1, <2>1 DEF CreateSession, ResumePersist, ChunkPersist
    <3>2. PICK m : meta' = [meta EXCEPT ![cur[h]] = m]
      BY <2>1 DEF CreateSession, ResumePersist, ChunkPersist
    <3> QED
      BY <1>2, <3>1, <3>2 DEF Shape, DiskShape
  <2>2. CASE ChunkDone(h) \/ AbortDelete(h)
    BY <1>2, <2>2 DEF ChunkDone, AbortDelete, DeleteSession, RemoveMeta
  <2>3. CASE ~ (\/ CreateSession(h) \/ ResumePersist(h) \/ ChunkPersist(h)
                \/ ChunkDone(h) \/ AbortDelete(h))
    <3>1. meta' = meta
      BY <1>3, <2>3 DEF Request, HandlerStep, InitCheck, ChunkBegin, AbortBegin, FindNone,
         CreateFile, CreateSessionFails, ResumeRead, ChunkTurnedAway, ChunkLock, ChunkRefused,
         ChunkCopy, ChunkFlushFails, ChunkUndo, ChunkCommit, MoveToCAS,
         MoveToCASFails, InsertRow, InsertFails, AbortLock, AbortRemove, diskVars
    <3> QED
      BY <1>2, <3>1
  <2> QED
    BY <2>1, <2>2, <2>3
<1>4. CASE Environment
  <2>1. CASE \E t \in Sessions : Reap(t)
    BY <1>2, <2>1 DEF Reap, DeleteSession, RemoveMeta
  <2>2. CASE PurgeAll
    BY <1>2, <2>2 DEF PurgeAll, RemoveMeta
  <2>3. CASE \E t \in Sessions : ForgetCompleted(t)
    BY <1>2, <2>3 DEF ForgetCompleted, diskVars
  <2>4. ASSUME NEW torn \in SUBSET Sessions, Crash(torn)
        PROVE  meta'[s] = NoMeta
    <3>1. s \notin torn
      BY <1>1, <2>4 DEF Crash, Persisting
    <3> QED
      BY <1>2, <2>4, <3>1 DEF Crash, NoMeta
  <2> QED
    BY <1>4, <2>1, <2>2, <2>3, <2>4 DEF Environment
<1>5. CASE UNCHANGED vars
  BY <1>2, <1>5 DEF vars, diskVars
<1> QED
  BY <1>3, <1>4, <1>5 DEF Next

\* The inductive invariant: shapes, mutual exclusion, the truncation size, creation.
Inv == Shape /\ LockOK /\ BaseOK /\ SoleOK /\ FreshOK

LEMMA InvInit == Init => Inv
<1>1. Init => LockOK
  BY DEF Init, LockOK, Holding
<1>2. Init => BaseOK
  BY DEF Init, BaseOK
<1>3. Init => SoleOK /\ FreshOK
  BY DEF Init, SoleOK, FreshOK
<1> QED
  BY <1>1, <1>2, <1>3, ShapeInit DEF Inv

LEMMA ShapeStep ==
  ASSUME Shape, BaseOK, [Next]_vars
  PROVE  Shape'
<1>1. ASSUME NEW h \in Handlers, HandlerStep(h)
      PROVE  Shape'
  BY <1>1, ShapeCreate, ShapeChunkStart, ShapeChunkBody, ShapeChunkEnd, ShapeAbort
     DEF HandlerStep
<1>2. ASSUME UNCHANGED vars
      PROVE  Shape'
  BY <1>2 DEF vars, memVars, diskVars, dbVars, hVars, Shape, HandlerShape, CurOK,
     SessionShape, DiskShape
<1> QED
  BY <1>1, <1>2, ShapeRequest, ShapeEnvironment DEF Next

LEMMA InvStep == Inv /\ [Next]_vars => Inv'
  BY ShapeStep, LockStep, BaseStep, SoleStep, FreshStep DEF Inv

LEMMA InvAlways == Spec => []Inv
  BY InvInit, InvStep, PTL DEF Spec

(***************************************************************************)
(* Every variable of the upload engine keeps its shape, for any number of  *)
(* handlers, sessions and crashes: in particular a handler in the middle   *)
(* of a request holds a pointer to a session that CreateSession made, and  *)
(* the truncation after a failed transfer never extends the file.          *)
(***************************************************************************)
THEOREM TypeCorrect == Spec => []TypeOK
<1>1. Inv => TypeOK
  BY ShapeIsType DEF Inv
<1> QED
  BY <1>1, InvAlways, PTL

(***************************************************************************)
(* sess.Mu excludes: two handlers between Lock and Unlock of UploadChunk   *)
(* never work on the same session, also after the session left the table.  *)
(***************************************************************************)
MutualExclusion ==
    \A g, h \in Handlers :
        pc[g] \in Holding /\ pc[h] \in Holding /\ cur[g] = cur[h] => g = h

THEOREM ChunksExclusive == Spec => []MutualExclusion
<1>1. Inv => MutualExclusion
  BY HoldersDiffer DEF Inv, MutualExclusion
<1> QED
  BY <1>1, InvAlways, PTL

-----------------------------------------------------------------------------
(* A cause, once struck, stays, and strikes only sessions that exist.      *)

Grown ==
    \A s \in Sessions : cause[s] \subseteq cause'[s] /\ (s \notin created => cause'[s] = cause[s])

LEMMA StrikeGrows ==
  ASSUME Shape, NEW S \in SUBSET created, NEW c, Strike(S, c)
  PROVE  Grown
  BY DEF Strike, Grown, Shape, SessionShape

LEMMA UnlinkGrows ==
  ASSUME Shape, NEW S, NEW l, UnlinkTemps(S, l)
  PROVE  Grown
<1>1. PICK kept \in Unremoved(S \cap onDisk) : Strike(kept, "disk")
  BY DEF UnlinkTemps
<1>2. kept \in SUBSET created
  BY DEF Unremoved, Shape, SessionShape
<1> QED
  BY <1>1, <1>2, StrikeGrows

LEMMA DeleteGrows ==
  ASSUME Shape, NEW s, NEW l, DeleteSession(s, l)
  PROVE  Grown
  BY UnlinkGrows DEF DeleteSession, Grown

LEMMA CauseGrows ==
  ASSUME Shape, [Next]_vars
  PROVE  Grown
<1>1. ASSUME NEW h \in Handlers, HandlerStep(h)
      PROVE  Grown
  <2>1. CASE ChunkLock(h) \/ InsertFails(h)
    <3>1. cur[h] \in created
      BY <2>1, CurType DEF ChunkLock, InsertFails, Shape
    <3> QED
      BY <2>1, <3>1 DEF ChunkLock, InsertFails, Grown, Shape, SessionShape
  <2>2. CASE ChunkFlushFails(h) \/ ChunkUndo(h)
    <3>1. cur[h] \in created
      BY <2>2, CurType DEF ChunkFlushFails, ChunkUndo, Shape
    <3>2. cause' = cause \/ Strike({cur[h]}, "disk")
      BY <2>2 DEF ChunkFlushFails, ChunkUndo
    <3> QED
      BY <3>1, <3>2, StrikeGrows DEF Grown
  <2>3. CASE ChunkDone(h) \/ AbortDelete(h)
    BY <2>3, DeleteGrows DEF ChunkDone, AbortDelete
  <2>4. CASE AbortRemove(h)
    BY <2>4, UnlinkGrows DEF AbortRemove
  <2>5. CASE ~ (\/ ChunkLock(h) \/ InsertFails(h) \/ ChunkFlushFails(h) \/ ChunkUndo(h)
                \/ ChunkDone(h) \/ AbortDelete(h) \/ AbortRemove(h))
    <3>1. cause' = cause
      BY <1>1, <2>5 DEF HandlerStep, FindNone, CreateFile, CreateSession, CreateSessionFails,
         ResumeRead, ResumePersist, ChunkTurnedAway, ChunkRefused, ChunkCopy, ChunkCommit,
         ChunkPersist, MoveToCAS, MoveToCASFails, InsertRow, AbortLock
    <3> QED
      BY <3>1 DEF Grown
  <2> QED
    BY <2>1, <2>2, <2>3, <2>4, <2>5
<1>2. ASSUME NEW h \in Handlers, Request(h)
      PROVE  Grown
  <2>1. cause' = cause
    BY <1>2 DEF Request, InitCheck, ChunkBegin, AbortBegin
  <2> QED
    BY <2>1 DEF Grown
<1>3. CASE Environment
  <2>1. CASE \E s \in Sessions : Reap(s)
    BY <2>1, DeleteGrows DEF Reap
  <2>2. CASE PurgeAll
    BY <2>2, UnlinkGrows DEF PurgeAll
  <2>3. CASE \E s \in Sessions : ForgetCompleted(s)
    BY <2>3 DEF ForgetCompleted, Grown
  <2>4. ASSUME NEW torn \in SUBSET Sessions, Crash(torn)
        PROVE  Grown
    <3>1. PICK S \in SUBSET onDisk : Strike(S, "crash")
      BY <2>4 DEF Crash
    <3>2. S \in SUBSET created
      BY DEF Shape, SessionShape
    <3> QED
      BY <3>1, <3>2, StrikeGrows
  <2> QED
    BY <1>3, <2>1, <2>2, <2>3, <2>4 DEF Environment
<1>4. CASE UNCHANGED vars
  BY <1>4 DEF vars, Grown
<1> QED
  BY <1>1, <1>2, <1>3, <1>4 DEF Next

-----------------------------------------------------------------------------
(* What completedSessions tells a retry.  Only the handler that marked a   *)
(* session is between the mark and the INSERT; it leaves there by adding   *)
(* the row or by losing it.                                                *)

\* A step of a handler that is not inserting, marks nothing and forgets no loss.
LEMMA RecordedKeep ==
  ASSUME Shape, CompletedIsRecorded, NEW h \in Handlers, NEW p, NEW c,
         pc[h] # "insert", Goto(h, p), cur' = [cur EXCEPT ![h] = c],
         done' \subseteq done, rows' = rows, Grown
  PROVE  CompletedIsRecorded'
<1>1. \A g \in Handlers : pc[g] = "insert" => pc'[g] = "insert" /\ cur'[g] = cur[g]
  BY DEF Shape, HandlerShape, Goto
<1>2. done \subseteq Sessions
  BY DEF Shape, SessionShape
<1> QED
  BY <1>1, <1>2 DEF CompletedIsRecorded, Grown

LEMMA RecordedChunkEnd ==
  ASSUME Shape, CompletedIsRecorded, NEW h \in Handlers, Grown,
         ChunkDone(h) \/ InsertRow(h) \/ InsertFails(h)
  PROVE  CompletedIsRecorded'
<1>1. cur[h] \in Sessions /\ done \subseteq Sessions
  BY CurType DEF Shape, SessionShape, ChunkDone, InsertRow, InsertFails
<1>2. CASE ChunkDone(h)
  <2>1. /\ done' = done \cup {cur[h]} /\ pc' = [pc EXCEPT ![h] = "insert"]
        /\ UNCHANGED <<rows, cur>>
    BY <1>2 DEF ChunkDone, Goto, dbVars
  <2>2. \A g \in Handlers : pc[g] = "insert" => pc'[g] = "insert"
    BY <2>1 DEF Shape, HandlerShape
  <2>3. pc'[h] = "insert"
    BY <2>1 DEF Shape, HandlerShape
  <2>4. \A s \in Sessions : "lost" \in cause[s] => "lost" \in cause'[s]
    BY DEF Grown
  <2> QED
    BY <1>1, <2>1, <2>2, <2>3, <2>4 DEF CompletedIsRecorded
<1>3. CASE InsertRow(h)
  <2> DEFINE row == [id |-> Cardinality(rows), sess |-> cur[h], size |-> uploaded[cur[h]],
                     bytes |-> loc[h].bytes]
  <2>a. row.sess = cur[h]
    OBVIOUS
  <2>b. row \in rows'
    BY <1>3 DEF InsertRow
  <2>1. \E r \in rows' : r.sess = cur[h]
    <3> HIDE DEF row
    <3> QED
      BY <2>a, <2>b
  <2>2. /\ pc' = [pc EXCEPT ![h] = "idle"] /\ cur' = [cur EXCEPT ![h] = NoSession]
        /\ rows \subseteq rows' /\ UNCHANGED <<done, cause>>
    BY <1>3 DEF InsertRow, Return, Goto
  <2>3. \A g \in Handlers : g # h => pc'[g] = pc[g] /\ cur'[g] = cur[g]
    BY <2>2 DEF Shape, HandlerShape
  <2> QED
    BY <2>1, <2>2, <2>3 DEF CompletedIsRecorded
<1>4. CASE InsertFails(h)
  <2>1. /\ pc' = [pc EXCEPT ![h] = "idle"] /\ cur' = [cur EXCEPT ![h] = NoSession]
        /\ cause' = [cause EXCEPT ![cur[h]] = @ \cup {"lost"}]
        /\ UNCHANGED <<done, rows>>
    BY <1>4 DEF InsertFails, Return, Goto
  <2>2. \A g \in Handlers : g # h => pc'[g] = pc[g] /\ cur'[g] = cur[g]
    BY <2>1 DEF Shape, HandlerShape
  <2>3. "lost" \in cause'[cur[h]]
    BY <1>1, <2>1 DEF Shape, SessionShape
  <2>4. \A s \in Sessions : "lost" \in cause[s] => "lost" \in cause'[s]
    BY <1>1, <2>1 DEF Shape, SessionShape
  <2> QED
    BY <1>1, <2>1, <2>2, <2>3, <2>4 DEF CompletedIsRecorded
<1> QED
  BY <1>2, <1>3, <1>4

LEMMA RecordedHandler ==
  ASSUME Shape, CompletedIsRecorded, NEW h \in Handlers, HandlerStep(h), Grown
  PROVE  CompletedIsRecorded'
<1>1. CASE \/ CreateSession(h) \/ CreateSessionFails(h) \/ ResumePersist(h)
           \/ ChunkTurnedAway(h) \/ AbortRemove(h) \/ ChunkRefused(h)
           \/ ChunkUndo(h) \/ MoveToCASFails(h)
  <2>1. /\ pc[h] \in {"new", "create", "resume", "lock", "abortrm", "copy", "commit", "move"}
        /\ Goto(h, "idle") /\ cur' = [cur EXCEPT ![h] = NoSession]
        /\ done' \subseteq done /\ rows' = rows
    BY <1>1 DEF CreateSession, CreateSessionFails, ResumePersist, ChunkTurnedAway,
                AbortRemove, ChunkRefused, ChunkUndo, MoveToCASFails, Return,
                memVars, dbVars
  <2> QED
    BY <2>1, RecordedKeep
<1>2. CASE ResumeRead(h) \/ CreateFile(h)
  <2>1. PICK c : cur' = [cur EXCEPT ![h] = c]
    BY <1>2 DEF ResumeRead, CreateFile
  <2>2. PICK p : Goto(h, p)
    BY <1>2 DEF ResumeRead, CreateFile
  <2>3. pc[h] # "insert" /\ done' = done /\ rows' = rows
    BY <1>2 DEF ResumeRead, CreateFile, memVars, dbVars
  <2> QED
    BY <2>1, <2>2, <2>3, RecordedKeep
<1>3. CASE \/ FindNone(h) \/ AbortLock(h) \/ AbortDelete(h) \/ ChunkLock(h) \/ ChunkCopy(h)
           \/ ChunkFlushFails(h) \/ ChunkCommit(h) \/ MoveToCAS(h)
  <2>1. cur' = [cur EXCEPT ![h] = cur[h]]
    BY <1>3 DEF FindNone, AbortLock, AbortDelete, ChunkLock, ChunkCopy, ChunkFlushFails,
                ChunkCommit, MoveToCAS, Shape, HandlerShape
  <2>2. PICK p : Goto(h, p)
    BY <1>3 DEF FindNone, AbortLock, AbortDelete, ChunkLock, ChunkCopy, ChunkFlushFails,
                ChunkCommit, MoveToCAS
  <2>3. /\ pc[h] # "insert"
        /\ done' \subseteq done /\ rows' = rows
    BY <1>3 DEF FindNone, AbortLock, AbortDelete, ChunkLock, ChunkCopy, ChunkFlushFails,
                ChunkCommit, MoveToCAS, memVars, dbVars
  <2> QED
    BY <2>1, <2>2, <2>3, RecordedKeep
<1>4. CASE ChunkPersist(h)
  <2>1. PICK p, c : Goto(h, p) /\ cur' = [cur EXCEPT ![h] = c]
    <3>1. cur = [cur EXCEPT ![h] = cur[h]]
      BY DEF Shape, HandlerShape
    <3> QED
      BY <1>4, <3>1 DEF ChunkPersist, Return
  <2>2. pc[h] # "insert" /\ UNCHANGED <<done, rows, cause>>
    BY <1>4 DEF ChunkPersist, dbVars
  <2> QED
    BY <2>1, <2>2, RecordedKeep
<1> QED
  BY <1>1, <1>2, <1>3, <1>4, RecordedChunkEnd DEF HandlerStep

LEMMA RecordedStep ==
  ASSUME Shape, CompletedIsRecorded, [Next]_vars
  PROVE  CompletedIsRecorded'
<1>0. Grown
  BY CauseGrows
<1>1. ASSUME NEW h \in Handlers, Request(h)
      PROVE  CompletedIsRecorded'
  <2>1. PICK p, c : Goto(h, p) /\ cur' = [cur EXCEPT ![h] = c]
    <3>1. cur = [cur EXCEPT ![h] = cur[h]]
      BY DEF Shape, HandlerShape
    <3> QED
      BY <1>1, <3>1 DEF Request, InitCheck, ChunkBegin, AbortBegin
  <2>2. pc[h] = "idle" /\ UNCHANGED <<done, rows>>
    BY <1>1 DEF Request, InitCheck, ChunkBegin, AbortBegin, memVars, dbVars
  <2> QED
    BY <1>0, <2>1, <2>2, RecordedKeep
<1>2. ASSUME Environment
      PROVE  CompletedIsRecorded'
  <2>1. CASE PurgeAll \/ \E s \in Sessions : Reap(s) \/ ForgetCompleted(s)
    <3>1. done' \subseteq done /\ UNCHANGED <<pc, cur, rows>>
      BY <2>1 DEF PurgeAll, Reap, ForgetCompleted, hVars, dbVars
    <3>2. done \subseteq Sessions
      BY DEF Shape, SessionShape
    <3> QED
      BY <1>0, <3>1, <3>2 DEF CompletedIsRecorded, Grown
  <2>2. CASE \E torn \in SUBSET Sessions : Crash(torn)
    BY <2>2 DEF Crash, CompletedIsRecorded
  <2> QED
    BY <1>2, <2>1, <2>2 DEF Environment
<1>3. ASSUME UNCHANGED vars
      PROVE  CompletedIsRecorded'
  BY <1>3 DEF vars, memVars, dbVars, hVars, CompletedIsRecorded
<1> QED
  BY <1>0, <1>1, <1>2, <1>3, RecordedHandler DEF Next

(***************************************************************************)
(* A session that completedSessions calls complete has its row, or its     *)
(* INSERT is under way or has failed, for any number of handlers, sessions *)
(* and crashes.                                                            *)
(***************************************************************************)
THEOREM CompletionCorrect == Spec => []CompletedIsRecorded
<1>1. Init => CompletedIsRecorded
  BY DEF Init, CompletedIsRecorded
<1>2. Inv /\ CompletedIsRecorded /\ [Next]_vars => CompletedIsRecorded'
  BY RecordedStep DEF Inv
<1> QED
  BY <1>1, <1>2, InvAlways, PTL DEF Spec

-----------------------------------------------------------------------------
(* The bytes of the file: prefixes and runs of 1, 2, 3 ...                 *)

LEMMA PlainType ==
  ASSUME NEW n \in Nat
  PROVE  Plain(n) \in Seq(Nat) /\ Len(Plain(n)) = n
<1>1. Plain(n) \in [1..n -> Nat]
  BY DEF Plain
<1>2. [1..n -> Nat] \in {[1..m -> Nat] : m \in Nat}
  OBVIOUS
<1>3. Plain(n) \in Seq(Nat)
  BY <1>1, <1>2, SeqDef
<1>4. DOMAIN Plain(n) = 1..n
  BY DEF Plain
<1> QED
  BY <1>3, <1>4, LenProperties

LEMMA PlainEmpty == Plain(0) = << >> /\ Len(<< >>) = 0
<1>1. Plain(0) \in Seq(Nat) /\ Len(Plain(0)) = 0
  BY PlainType
<1> QED
  BY <1>1, EmptySeq

\* The next k bytes of the client, appended to the first n.
LEMMA PlainAppend ==
  ASSUME NEW n \in Nat, NEW k \in Nat
  PROVE  Plain(n) \o Run(n, k) = Plain(n + k)
<1> DEFINE a == Plain(n)
           r == Run(n, k)
           b == Plain(n + k)
<1>1. a \in Seq(Nat) /\ Len(a) = n /\ r \in Seq(Nat) /\ Len(r) = k
  BY PlainType, RunType
<1>2. b \in Seq(Nat) /\ Len(b) = n + k
  BY PlainType
<1>3. \A i \in 1..n : a[i] = i
  BY DEF Plain
<1>4. \A i \in 1..k : r[i] = n + i
  BY DEF Run
<1>5. \A i \in 1..(n + k) : b[i] = i
  BY DEF Plain
<1> HIDE DEF a, r, b
<1>6. a \o r \in Seq(Nat) /\ Len(a \o r) = n + k
  BY <1>1, ConcatProperties
<1>7. \A i \in 1..(n + k) : (a \o r)[i] = b[i]
  <2> SUFFICES ASSUME NEW i \in 1..(n + k)
               PROVE  (a \o r)[i] = b[i]
    OBVIOUS
  <2>0. i <= n \/ i > n
    OBVIOUS
  <2>1. CASE i <= n
    BY <2>1, <1>1, <1>3, <1>5
  <2>2. CASE i > n
    <3>1. (a \o r)[i] = r[i - n] /\ i - n \in 1..k
      BY <2>2, <1>1
    <3> QED
      BY <3>1, <1>4, <1>5
  <2> QED
    BY <2>0, <2>1, <2>2, Zenon
<1>8. a \o r = b
  BY <1>2, <1>6, <1>7, SeqEqual
<1> QED
  BY <1>8 DEF a, r, b

\* Truncation of a prefix of the file is a prefix of the file.
LEMMA PlainTruncate ==
  ASSUME NEW n \in Nat, NEW b \in Nat, b <= n
  PROVE  SubSeq(Plain(n), 1, b) = Plain(b)
<1> DEFINE a == Plain(n)
           c == Plain(b)
<1>1. a \in Seq(Nat) /\ Len(a) = n /\ c \in Seq(Nat) /\ Len(c) = b
  BY PlainType
<1>2. (\A i \in 1..n : a[i] = i) /\ (\A i \in 1..b : c[i] = i)
  BY DEF Plain
<1> HIDE DEF a, c
<1>3. SubSeq(a, 1, b) \in Seq(Nat) /\ Len(SubSeq(a, 1, b)) = b
  BY <1>1
<1>4. \A i \in 1..b : SubSeq(a, 1, b)[i] = c[i]
  BY <1>1, <1>2
<1>5. SubSeq(a, 1, b) = c
  BY <1>1, <1>3, <1>4, SeqEqual
<1> QED
  BY <1>5 DEF a, c

-----------------------------------------------------------------------------
(* What a step leaves alone.                                               *)

\* Nothing about session t changes but its metadata file.
SameSession(t) ==
    /\ expected'[t] = expected[t] /\ uploaded'[t] = uploaded[t]
    /\ temp'[t] = temp[t] /\ cause'[t] = cause[t] /\ mu'[t] = mu[t]
    /\ t \in onDisk' <=> t \in onDisk
    /\ t \in table' <=> t \in table

SameHandler(g) ==
    pc'[g] = pc[g] /\ cur'[g] = cur[g] /\ req'[g] = req[g] /\ loc'[g] = loc[g]

LEMMA SessionKept ==
  ASSUME NEW t \in Sessions, SessionOK(t), SameSession(t), meta'[t] = meta[t],
         mu[t] # Free => pc'[mu[t]] = pc[mu[t]]
  PROVE  SessionOK(t)'
  BY DEF SessionOK, SameSession

LEMMA PointerKept ==
  ASSUME NEW t \in Sessions, NEW g \in Handlers, PointerOK(g, t), SameSession(t),
         SameHandler(g)
  PROVE  PointerOK(g, t)'
  BY DEF PointerOK, HolderOK, SameSession, SameHandler

\* A handler that does not hold sess.Mu knows little, and that little lasts.
LEMMA BystanderKept ==
  ASSUME NEW s \in Sessions, NEW g \in Handlers, PointerOK(g, s), SameHandler(g),
         pc[g] \notin Holding, pc[g] # "create", expected'[s] = expected[s],
         s \in table' => s \in table
  PROVE  PointerOK(g, s)'
  BY DEF PointerOK, HolderOK, SameHandler, Holding, FileOpen

\* The holder of the mutex of t points to t.
LEMMA HolderOf ==
  ASSUME Inv, NEW t \in Sessions, mu[t] # Free
  PROVE  mu[t] \in Handlers /\ pc[mu[t]] \in Holding /\ cur[mu[t]] = t
  BY DEF Inv, LockOK, Shape, SessionShape

(***************************************************************************)
(* A step of handler h on the session s it points to, while nobody else    *)
(* holds the mutex of s: what has to be shown is only about h and s.       *)
(***************************************************************************)
LEMMA OwnStep ==
  ASSUME Inv, DataInv, NEW h \in Handlers, NEW s \in Sessions, cur[h] = s,
         pc[h] \notin {"idle", "find", "new"},
         \A g \in Handlers \ {h} : SameHandler(g),
         \A t \in Sessions \ {s} : SameSession(t) /\ meta'[t] = meta[t],
         pc[h] \in Holding \/ mu[s] = Free,
         expected'[s] = expected[s], pc[h] = "create" \/ (s \in table' => s \in table),
         SessionOK(s)',
         pc'[h] \notin {"idle", "find", "new"} => cur'[h] = s /\ PointerOK(h, s)'
  PROVE  DataInv'
<1>1. ASSUME NEW t \in Sessions
      PROVE  SessionOK(t)'
  <2>1. CASE t = s
    BY <2>1
  <2>2. CASE t # s
    <3>1. mu[t] # Free => mu[t] \in Handlers \ {h}
      BY <2>2, HolderOf
    <3> QED
      BY <2>2, <3>1, SessionKept DEF DataInv, SameHandler
  <2> QED
    BY <2>1, <2>2
<1>2. ASSUME NEW g \in Handlers, pc'[g] \notin {"idle", "find", "new"}
      PROVE  PointerOK(g, cur[g])' 
  <2>1. CASE g = h
    BY <1>2, <2>1
  <2>2. CASE g # h
    <3>1. SameHandler(g)
      BY <2>2
    <3>2. pc[g] \notin {"idle", "find", "new"} /\ cur'[g] = cur[g]
      BY <1>2, <3>1 DEF SameHandler
    <3>3. cur[g] \in Sessions /\ PointerOK(g, cur[g])
      BY <3>2, CurType DEF Inv, Shape, DataInv
    <3>4. PICK c \in Sessions : c = cur[g]
      BY <3>3
    <3>5. CASE c = s
      <4>1. pc[g] \notin Holding
        <5>1. pc[h] \in Holding => cur[g] # cur[h] \/ pc[g] \notin Holding
          BY <2>2, HoldersDiffer DEF Inv
        <5>2. pc[g] \in Holding => mu[cur[g]] = g
          BY DEF Inv, LockOK
        <5>3. g # Free
          BY UploadConstants
        <5> QED
          BY <3>4, <3>5, <5>1, <5>2, <5>3
      <4>2. pc[g] # "create" /\ pc[h] # "create"
        BY <2>2, <3>4, <3>5 DEF Inv, SoleOK
      <4> QED
        BY <3>1, <3>2, <3>3, <3>4, <3>5, <4>1, <4>2, BystanderKept
    <3>6. CASE c # s
      BY <3>1, <3>2, <3>3, <3>4, <3>6, PointerKept
    <3> QED
      BY <3>5, <3>6
  <2> QED
    BY <2>1, <2>2
<1> QED
  BY <1>1, <1>2 DEF DataInv

(***************************************************************************)
(* A step of a handler that does not hold sess.Mu and changes no session.  *)
(***************************************************************************)
LEMMA QuietStep ==
  ASSUME Inv, DataInv, NEW h \in Handlers,
         pc[h] \notin Holding,
         \A g \in Handlers \ {h} : SameHandler(g),
         \A t \in Sessions : SameSession(t) /\ meta'[t] = meta[t],
         pc'[h] \notin {"idle", "find", "new"} => PointerOK(h, cur[h])'
  PROVE  DataInv'
<1>1. ASSUME NEW t \in Sessions
      PROVE  SessionOK(t)'
  <2>1. mu[t] # Free => mu[t] \in Handlers \ {h}
    BY HolderOf
  <2> QED
    BY <2>1, SessionKept DEF DataInv, SameHandler
<1>2. ASSUME NEW g \in Handlers, g # h, pc'[g] \notin {"idle", "find", "new"}
      PROVE  PointerOK(g, cur[g])'
  <2>1. SameHandler(g)
    BY <1>2
  <2>2. pc[g] \notin {"idle", "find", "new"} /\ cur'[g] = cur[g]
    BY <1>2, <2>1 DEF SameHandler
  <2>3. cur[g] \in Sessions /\ PointerOK(g, cur[g])
    BY <2>2, CurType DEF Inv, Shape, DataInv
  <2>4. PICK c \in Sessions : c = cur[g]
    BY <2>3
  <2> QED
    BY <2>1, <2>2, <2>3, <2>4, PointerKept
<1> QED
  BY <1>1, <1>2 DEF DataInv

LEMMA ReturnSame ==
  ASSUME Inv, NEW h \in Handlers, Return(h)
  PROVE  pc'[h] = "idle" /\ \A g \in Handlers \ {h} : SameHandler(g)
  BY DEF Inv, Shape, HandlerShape, Return, Goto, SameHandler

LEMMA GotoSame ==
  ASSUME Inv, NEW h \in Handlers, NEW p, Goto(h, p), UNCHANGED <<cur, req>>,
         \A g \in Handlers \ {h} : loc'[g] = loc[g]
  PROVE  /\ pc'[h] = p /\ cur'[h] = cur[h] /\ req'[h] = req[h]
         /\ \A g \in Handlers \ {h} : SameHandler(g)
  BY DEF Inv, Shape, HandlerShape, Goto, SameHandler

\* What is known of a handler in the middle of a request, and of its session.
LEMMA OwnFacts ==
  ASSUME Inv, DataInv, NEW h \in Handlers, NEW s, s = cur[h], pc[h] \notin {"idle", "find", "new"}
  PROVE  /\ s \in Sessions /\ SessionOK(s) /\ PointerOK(h, s)
         /\ uploaded[s] \in Nat /\ expected[s] \in Nat /\ temp[s] \in Seq(Nat)
         /\ Len(temp[s]) \in Nat /\ meta[s] \in Int
         /\ loc[h] \in Locals /\ req[h] \in ChunkRequest
         /\ pc[h] \in Holding => mu[s] = h /\ h # Free
<1>1. cur[h] \in Sessions
  BY CurType DEF Inv, Shape
<1>2. SessionOK(s) /\ PointerOK(h, s)
  BY <1>1 DEF DataInv
<1>3. uploaded[s] \in Nat /\ expected[s] \in Nat /\ temp[s] \in Seq(Nat) /\ meta[s] \in Int
  <2>1. s \in Sessions
    BY <1>1
  <2>2. uploaded \in [Sessions -> Nat] /\ expected \in [Sessions -> Nat]
    BY DEF Inv, Shape, SessionShape
  <2>3. temp \in [Sessions -> Seq(Nat)] /\ meta \in [Sessions -> Nat \cup {NoMeta, TornMeta}]
    BY DEF Inv, Shape, DiskShape
  <2>4. meta[s] \in Int
    BY ONLY <2>1, <2>3 DEF NoMeta, TornMeta
  <2> QED
    BY ONLY <2>1, <2>2, <2>3, <2>4
<1>4. Len(temp[s]) \in Nat
  BY <1>3
<1>5. loc[h] \in Locals /\ req[h] \in ChunkRequest
  BY DEF Inv, Shape, HandlerShape
<1>6. pc[h] \in Holding => mu[s] = h /\ h # Free
  BY UploadConstants DEF Inv, LockOK
<1> QED
  BY <1>1, <1>2, <1>3, <1>4, <1>5, <1>6

(* One lemma per operation. *)

LEMMA DataLock ==
  ASSUME Inv, DataInv, NEW h \in Handlers, ChunkLock(h)
  PROVE  DataInv'
<1>1. PICK s : s = cur[h]
  OBVIOUS
<1>2. pc[h] = "lock" /\ mu[s] = Free
  BY <1>1 DEF ChunkLock
<1>3. /\ s \in Sessions /\ SessionOK(s) /\ PointerOK(h, s)
      /\ uploaded[s] \in Nat /\ expected[s] \in Nat /\ temp[s] \in Seq(Nat)
      /\ loc[h] \in Locals
  BY <1>1, <1>2, OwnFacts
<1>4. /\ mu' = [mu EXCEPT ![s] = h]
      /\ onDisk' = onDisk \cup {s}
      /\ loc' = [loc EXCEPT ![h].linked = TRUE]
      /\ cause' = [cause EXCEPT ![s] = @ \cup NewCauses(req[h], s)]
      /\ Goto(h, "copy")
      /\ UNCHANGED <<expected, uploaded, table, temp, meta, cur, req>>
  BY <1>1 DEF ChunkLock
<1>5. /\ pc'[h] = "copy" /\ cur'[h] = s /\ req'[h] = req[h]
      /\ \A g \in Handlers \ {h} : SameHandler(g)
  <2>1. \A g \in Handlers \ {h} : loc'[g] = loc[g]
    BY <1>4 DEF Inv, Shape, HandlerShape
  <2> QED
    BY <1>1, <1>4, <2>1, GotoSame
<1>6. \A t \in Sessions \ {s} : SameSession(t) /\ meta'[t] = meta[t]
  BY <1>4 DEF SameSession, Inv, Shape, SessionShape
<1>7. cause'[s] = cause[s] \cup NewCauses(req[h], s) /\ mu'[s] = h /\ loc'[h].linked
  BY <1>3, <1>4 DEF Inv, Shape, SessionShape, HandlerShape, Locals
<1>8. cause'[s] = {} => cause[s] = {} /\ s \in table /\ req[h].first = uploaded[s]
  <2>1. ~ OffsetMismatch(req[h], uploaded[s])
    BY <1>1 DEF ChunkLock
  <2> QED
    BY <1>7, <2>1 DEF NewCauses, OffsetMismatch
<1>9. SessionOK(s)'
  BY <1>2, <1>3, <1>4, <1>5, <1>8 DEF SessionOK
<1>10. PointerOK(h, s)'
  BY <1>3, <1>4, <1>5, <1>7, <1>8 DEF PointerOK, HolderOK, FileOpen
<1>11. expected'[s] = expected[s] /\ (s \in table' => s \in table)
  BY <1>3, <1>4 DEF PointerOK
<1> QED
  BY <1>1, <1>2, <1>3, <1>5, <1>6, <1>9, <1>10, <1>11, OwnStep

\* The handler gives the mutex back with the session as its last step left it.
LEMMA DataRelease ==
  ASSUME Inv, DataInv, NEW h \in Handlers, NEW s, s = cur[h],
         pc[h] \in {"copy", "move", "insert"}, Unlock(s), Return(h),
         UNCHANGED <<expected, uploaded, table, onDisk, temp, meta>>,
         \A t \in Sessions : cause[t] \subseteq cause'[t],
         \A t \in Sessions \ {s} : cause'[t] = cause[t]
  PROVE  DataInv'
<1>1. /\ s \in Sessions /\ SessionOK(s) /\ PointerOK(h, s) /\ mu[s] = h
  BY OwnFacts DEF Holding
<1>2. pc'[h] = "idle" /\ \A g \in Handlers \ {h} : SameHandler(g)
  BY ReturnSame
<1>3. mu'[s] = Free /\ \A t \in Sessions \ {s} : SameSession(t) /\ meta'[t] = meta[t]
  BY <1>1 DEF Unlock, SameSession, Inv, Shape, SessionShape
<1>4. cause'[s] = {} => cause[s] = {}
  BY <1>1
<1>5. SessionOK(s)'
  BY <1>1, <1>3, <1>4 DEF SessionOK, PointerOK
<1> QED
  BY <1>1, <1>2, <1>3, <1>5, OwnStep DEF Holding

LEMMA DataCopy ==
  ASSUME Inv, DataInv, NEW h \in Handlers, ChunkCopy(h)
  PROVE  DataInv'
<1>1. PICK s : s = cur[h]
  OBVIOUS
<1>2. pc[h] = "copy"
  BY DEF ChunkCopy
<1>3. /\ s \in Sessions /\ SessionOK(s) /\ PointerOK(h, s)
      /\ uploaded[s] \in Nat /\ expected[s] \in Nat /\ temp[s] \in Seq(Nat)
      /\ Len(temp[s]) \in Nat
      /\ loc[h] \in Locals /\ req[h] \in ChunkRequest /\ mu[s] = h /\ h # Free
  BY <1>1, <1>2, OwnFacts DEF Holding
<1>4. req[h].first \in Nat /\ req[h].len \in Nat
  BY <1>3 DEF ChunkRequest
<1>5. PICK ok \in BOOLEAN, k \in 0..Transfer(h) :
         /\ loc' = [loc EXCEPT ![h].wrote = k, ![h].ok = ok, ![h].base = Len(temp[s])]
         /\ temp' = IF loc[h].linked
                    THEN [temp EXCEPT ![s] = @ \o Run(req[h].first, k)] ELSE temp
  BY <1>1 DEF ChunkCopy, WriteBody
<1>a. k \in Nat
  BY <1>5
<1>6. Goto(h, "commit") /\ UNCHANGED <<expected, uploaded, table, mu, onDisk, meta, cur, req, cause>>
  BY DEF ChunkCopy, memVars
<1>7. /\ pc'[h] = "commit" /\ cur'[h] = s /\ req'[h] = req[h]
      /\ \A g \in Handlers \ {h} : SameHandler(g)
  <2>1. \A g \in Handlers \ {h} : loc'[g] = loc[g]
    BY <1>5 DEF Inv, Shape, HandlerShape
  <2> QED
    BY <1>1, <1>6, <2>1, GotoSame
<1>8. loc'[h].wrote = k /\ loc'[h].base = Len(temp[s]) /\ loc'[h].linked = loc[h].linked
  <2>1. loc'[h] = [[[loc[h] EXCEPT !.wrote = k] EXCEPT !.ok = ok] EXCEPT !.base = Len(temp[s])]
    BY <1>5 DEF Inv, Shape, HandlerShape
  <2> QED
    BY <1>3, <2>1 DEF Locals
<1>9. \A t \in Sessions \ {s} : temp'[t] = temp[t]
  BY <1>5 DEF Inv, Shape, DiskShape
<1>10. temp'[s] = IF loc[h].linked THEN temp[s] \o Run(req[h].first, k) ELSE temp[s]
  BY <1>3, <1>5 DEF Inv, Shape, DiskShape
<1>11. \A t \in Sessions \ {s} : SameSession(t) /\ meta'[t] = meta[t]
  BY <1>6, <1>9 DEF SameSession
<1>12. ASSUME cause[s] = {}
       PROVE  /\ req[h].first = uploaded[s] /\ (loc[h].linked <=> s \in onDisk)
              /\ s \in table <=> loc[h].linked
              /\ temp[s] = Plain(Len(temp[s]))
              /\ loc[h].linked => Len(temp[s]) = uploaded[s]
  BY <1>2, <1>3, <1>12 DEF PointerOK, HolderOK, SessionOK, FileOpen
<1>13. ASSUME cause[s] = {}, loc[h].linked
       PROVE  temp'[s] = Plain(uploaded[s] + k) /\ Len(temp'[s]) = uploaded[s] + k
  <2>1. temp'[s] = Plain(uploaded[s]) \o Run(uploaded[s], k)
    BY <1>10, <1>12, <1>13
  <2>2. temp'[s] = Plain(uploaded[s] + k)
    BY <1>a, <1>3, <2>1, PlainAppend
  <2>3. uploaded[s] + k \in Nat
    BY <1>a, <1>3
  <2> QED
    BY <2>2, <2>3, PlainType
<1>14. cause[s] = {} => temp'[s] = Plain(Len(temp'[s]))
  <2>1. CASE loc[h].linked
    BY <1>13, <2>1
  <2>2. CASE ~ loc[h].linked
    <3>1. temp'[s] = temp[s]
      BY <1>10, <2>2
    <3> QED
      BY <1>12, <3>1
  <2> QED
    BY <2>1, <2>2
<1>15. SessionOK(s)'
  BY <1>3, <1>6, <1>7, <1>12, <1>14 DEF SessionOK
<1>16. PointerOK(h, s)'
  <2>1. cause[s] = {} => HolderOK(h, s)'
    BY <1>3, <1>6, <1>7, <1>8, <1>12, <1>13 DEF HolderOK
  <2> QED
    BY <1>3, <1>6, <1>7, <2>1 DEF PointerOK
<1>17. expected'[s] = expected[s] /\ (s \in table' => s \in table)
  BY <1>3, <1>6 DEF PointerOK
<1> QED
  BY <1>1, <1>2, <1>3, <1>7, <1>11, <1>15, <1>16, <1>17, OwnStep DEF Holding

\* Nothing is claimed of the bytes of a session the disk has struck.
LEMMA StruckOK ==
  ASSUME Inv, DataInv, NEW s \in Sessions, Strike({s}, "disk"),
         UNCHANGED <<expected, uploaded, meta>>
  PROVE  /\ SessionOK(s)' /\ cause'[s] # {}
         /\ \A t \in Sessions \ {s} : cause'[t] = cause[t]
  BY DEF DataInv, SessionOK, Strike

LEMMA DataFlushFails ==
  ASSUME Inv, DataInv, NEW h \in Handlers, ChunkFlushFails(h)
  PROVE  DataInv'
<1>1. PICK s : s = cur[h]
  OBVIOUS
<1>2. pc[h] = "copy"
  BY DEF ChunkFlushFails
<1>3. s \in Sessions /\ PointerOK(h, s)
  BY <1>1, <1>2, OwnFacts
<1>4. /\ Goto(h, "commit") /\ Strike({s}, "disk")
      /\ UNCHANGED <<expected, uploaded, table, mu, onDisk, meta, cur, req>>
  BY <1>1 DEF ChunkFlushFails, memVars
<1>5. PICK k, n : WriteBody(h, k, n, TRUE)
  BY DEF ChunkFlushFails
<1>6. /\ pc'[h] = "commit" /\ cur'[h] = s
      /\ \A g \in Handlers \ {h} : SameHandler(g)
  <2>1. \A g \in Handlers \ {h} : loc'[g] = loc[g]
    BY <1>5 DEF WriteBody, Inv, Shape, HandlerShape
  <2> QED
    BY <1>1, <1>4, <2>1, GotoSame
<1>7. \A t \in Sessions \ {s} : temp'[t] = temp[t]
  BY <1>1, <1>5 DEF WriteBody, Inv, Shape, DiskShape
<1>8. /\ SessionOK(s)' /\ cause'[s] # {}
      /\ \A t \in Sessions \ {s} : cause'[t] = cause[t]
  BY <1>3, <1>4, StruckOK
<1>9. \A t \in Sessions \ {s} : SameSession(t) /\ meta'[t] = meta[t]
  BY <1>4, <1>7, <1>8 DEF SameSession
<1>10. PointerOK(h, s)'
  BY <1>6, <1>8 DEF PointerOK
<1> QED
  BY <1>1, <1>2, <1>3, <1>4, <1>6, <1>8, <1>9, <1>10, OwnStep DEF Holding

LEMMA DataUndo ==
  ASSUME Inv, DataInv, NEW h \in Handlers, ChunkUndo(h)
  PROVE  DataInv'
<1>1. PICK s : s = cur[h]
  OBVIOUS
<1>2. pc[h] = "commit"
  BY DEF ChunkUndo
<1>3. /\ s \in Sessions /\ SessionOK(s) /\ PointerOK(h, s)
      /\ uploaded[s] \in Nat /\ temp[s] \in Seq(Nat) /\ Len(temp[s]) \in Nat
      /\ loc[h] \in Locals /\ mu[s] = h /\ h # Free
  BY <1>1, <1>2, OwnFacts DEF Holding
<1>a. /\ mu' = [mu EXCEPT ![s] = Free] /\ Return(h)
      /\ UNCHANGED <<expected, uploaded, table, onDisk, meta>>
  BY <1>1 DEF ChunkUndo, Unlock
<1>5. pc'[h] = "idle" /\ \A g \in Handlers \ {h} : SameHandler(g)
  BY <1>a, ReturnSame
<1>b. CASE Strike({s}, "disk") /\ UNCHANGED temp
  <2>1. /\ SessionOK(s)' /\ cause'[s] # {}
        /\ \A t \in Sessions \ {s} : cause'[t] = cause[t]
    BY <1>3, <1>a, <1>b, StruckOK
  <2>2. \A t \in Sessions \ {s} : SameSession(t) /\ meta'[t] = meta[t]
    BY <1>3, <1>a, <1>b, <2>1 DEF SameSession, Inv, Shape, SessionShape
  <2> QED
    BY <1>1, <1>2, <1>3, <1>5, <1>a, <2>1, <2>2, OwnStep DEF Holding
<1> SUFFICES ASSUME /\ temp' = IF loc[h].linked THEN [temp EXCEPT ![s] = Truncated(h)] ELSE temp
                    /\ UNCHANGED cause
             PROVE  DataInv'
  BY <1>1, <1>b DEF ChunkUndo
<1>4. /\ temp' = IF loc[h].linked THEN [temp EXCEPT ![s] = SubSeq(@, 1, loc[h].base)] ELSE temp
      /\ mu' = [mu EXCEPT ![s] = Free] /\ Return(h)
      /\ UNCHANGED <<expected, uploaded, table, onDisk, meta, cause>>
  BY <1>1, <1>a DEF Truncated
<1>6. /\ temp'[s] = IF loc[h].linked THEN SubSeq(temp[s], 1, loc[h].base) ELSE temp[s]
      /\ \A t \in Sessions \ {s} : temp'[t] = temp[t]
  BY <1>3, <1>4 DEF Inv, Shape, DiskShape
<1>7. mu'[s] = Free /\ \A t \in Sessions \ {s} : mu'[t] = mu[t]
  BY <1>3, <1>4 DEF Inv, Shape, SessionShape
<1>8. \A t \in Sessions \ {s} : SameSession(t) /\ meta'[t] = meta[t]
  BY <1>4, <1>6, <1>7 DEF SameSession
<1>9. ASSUME cause[s] = {}
      PROVE  /\ loc[h].linked <=> s \in onDisk
             /\ loc[h].linked <=> s \in table
             /\ temp[s] = Plain(Len(temp[s]))
             /\ loc[h].linked => loc[h].base = uploaded[s] /\ Len(temp[s]) = uploaded[s] + loc[h].wrote
  BY <1>2, <1>3, <1>9 DEF PointerOK, HolderOK, SessionOK, FileOpen
<1>10. ASSUME cause[s] = {}, loc[h].linked
       PROVE  temp'[s] = Plain(uploaded[s]) /\ Len(temp'[s]) = uploaded[s]
  <2>1. loc[h].wrote \in Nat
    BY <1>3 DEF Locals
  <2>2. uploaded[s] <= Len(temp[s])
    BY <1>3, <1>9, <1>10, <2>1
  <2>3. temp'[s] = SubSeq(Plain(Len(temp[s])), 1, uploaded[s])
    BY <1>6, <1>9, <1>10
  <2>4. temp'[s] = Plain(uploaded[s])
    BY <1>3, <2>2, <2>3, PlainTruncate
  <2> QED
    BY <1>3, <2>4, PlainType
<1>11. cause[s] = {} => temp'[s] = Plain(Len(temp'[s]))
  BY <1>6, <1>9, <1>10
<1>12. SessionOK(s)'
  BY <1>3, <1>4, <1>7, <1>9, <1>10, <1>11 DEF SessionOK
<1>13. expected'[s] = expected[s] /\ (s \in table' => s \in table)
  BY <1>3, <1>4 DEF PointerOK
<1> QED
  BY <1>1, <1>2, <1>3, <1>5, <1>8, <1>12, <1>13, OwnStep DEF Holding

LEMMA DataCommit ==
  ASSUME Inv, DataInv, NEW h \in Handlers, ChunkCommit(h)
  PROVE  DataInv'
<1>1. PICK s : s = cur[h]
  OBVIOUS
<1>2. pc[h] = "commit" /\ uploaded[s] + loc[h].wrote <= expected[s]
  BY <1>1 DEF ChunkCommit, Fits
<1>3. /\ s \in Sessions /\ SessionOK(s) /\ PointerOK(h, s) /\ mu[s] = h /\ h # Free
  BY <1>1, <1>2, OwnFacts DEF Holding
<1>4. /\ uploaded' = [uploaded EXCEPT ![s] = @ + loc[h].wrote] /\ Goto(h, "persist")
      /\ UNCHANGED <<expected, table, mu, onDisk, temp, meta, cur, req, loc, cause>>
  BY <1>1 DEF ChunkCommit, diskVars
<1>5. /\ pc'[h] = "persist" /\ cur'[h] = s
      /\ \A g \in Handlers \ {h} : SameHandler(g)
  BY <1>1, <1>4, GotoSame
<1>6. /\ uploaded'[s] = uploaded[s] + loc[h].wrote
      /\ \A t \in Sessions \ {s} : SameSession(t) /\ meta'[t] = meta[t]
  BY <1>3, <1>4 DEF SameSession, Inv, Shape, SessionShape
<1>7. ASSUME cause[s] = {}
      PROVE  /\ loc[h].linked <=> s \in onDisk
             /\ loc[h].linked <=> s \in table
             /\ loc[h].linked => Len(temp[s]) = uploaded[s] + loc[h].wrote
  BY <1>2, <1>3, <1>7 DEF PointerOK, HolderOK, FileOpen
<1>8. SessionOK(s)'
  BY <1>2, <1>3, <1>4, <1>6, <1>7 DEF SessionOK
<1>9. PointerOK(h, s)'
  BY <1>3, <1>4, <1>5, <1>7 DEF PointerOK, HolderOK
<1>10. expected'[s] = expected[s] /\ (s \in table' => s \in table)
  BY <1>3, <1>4 DEF PointerOK
<1> QED
  BY <1>1, <1>2, <1>3, <1>5, <1>6, <1>8, <1>9, <1>10, OwnStep DEF Holding

\* What PersistSession leaves on disk is no larger than the file will be.
LEMMA PersistedBound ==
  ASSUME NEW s, SessionOK(s), expected[s] \in Nat, NEW n \in Nat, n <= expected[s],
         NEW m \in Persisted(s, n)
  PROVE  m <= expected[s]
  BY DEF Persisted, SessionOK, TornMeta

LEMMA DataPersist ==
  ASSUME Inv, DataInv, NEW h \in Handlers, ChunkPersist(h)
  PROVE  DataInv'
<1>1. PICK s : s = cur[h]
  OBVIOUS
<1>2. pc[h] = "persist"
  BY DEF ChunkPersist
<1>3. /\ s \in Sessions /\ SessionOK(s) /\ PointerOK(h, s)
      /\ uploaded[s] \in Nat /\ expected[s] \in Nat /\ mu[s] = h /\ h # Free
  BY <1>1, <1>2, OwnFacts DEF Holding
<1>a. PICK m \in Persisted(s, uploaded[s]) : meta' = [meta EXCEPT ![s] = m]
  BY <1>1 DEF ChunkPersist
<1>4. UNCHANGED <<expected, uploaded, table, onDisk, temp, cause>>
  BY <1>1 DEF ChunkPersist
<1>5. meta'[s] = m /\ \A t \in Sessions \ {s} : meta'[t] = meta[t]
  BY <1>3, <1>a DEF Inv, Shape, DiskShape
<1>6. m <= expected[s]
  BY <1>3, <1>a, PersistedBound DEF SessionOK
<1>7. cause[s] = {} =>
         /\ temp[s] = Plain(Len(temp[s]))
         /\ s \in table => s \in onDisk /\ Len(temp[s]) = uploaded[s]
  BY <1>2, <1>3 DEF SessionOK, PointerOK
<1>8. SessionOK(s)'
  BY <1>3, <1>4, <1>5, <1>6, <1>7 DEF SessionOK
<1>9. CASE uploaded[s] >= expected[s]
  <2>1. Goto(h, "move") /\ UNCHANGED <<mu, cur, req, loc>>
    BY <1>1, <1>9 DEF ChunkPersist
  <2>2. /\ pc'[h] = "move" /\ cur'[h] = s
        /\ \A g \in Handlers \ {h} : SameHandler(g)
    BY <1>1, <2>1, GotoSame
  <2>3. \A t \in Sessions \ {s} : SameSession(t) /\ meta'[t] = meta[t]
    BY <1>4, <1>5, <2>1 DEF SameSession
  <2>4. uploaded[s] = expected[s]
    BY <1>3, <1>9 DEF SessionOK
  <2>5. PointerOK(h, s)'
    BY <1>2, <1>3, <1>4, <2>2, <2>4 DEF PointerOK, HolderOK, FileOpen
  <2> QED
    BY <1>1, <1>2, <1>3, <1>4, <1>8, <2>2, <2>3, <2>5, OwnStep DEF Holding
<1>10. CASE ~ (uploaded[s] >= expected[s])
  <2>1. mu' = [mu EXCEPT ![s] = Free] /\ Return(h)
    BY <1>1, <1>10 DEF ChunkPersist, Unlock
  <2>2. pc'[h] = "idle" /\ \A g \in Handlers \ {h} : SameHandler(g)
    BY <2>1, ReturnSame
  <2>3. \A t \in Sessions \ {s} : SameSession(t) /\ meta'[t] = meta[t]
    BY <1>4, <1>5, <2>1 DEF SameSession, Inv, Shape, SessionShape
  <2> QED
    BY <1>1, <1>2, <1>3, <1>4, <1>8, <2>2, <2>3, OwnStep DEF Holding
<1> QED
  BY <1>9, <1>10

LEMMA DataMove ==
  ASSUME Inv, DataInv, NEW h \in Handlers, MoveToCAS(h)
  PROVE  DataInv'
<1>1. PICK s : s = cur[h]
  OBVIOUS
<1>2. pc[h] = "move" /\ s \in onDisk
  BY <1>1 DEF MoveToCAS
<1>3. /\ s \in Sessions /\ SessionOK(s) /\ PointerOK(h, s)
      /\ loc[h] \in Locals /\ mu[s] = h /\ h # Free
  BY <1>1, <1>2, OwnFacts DEF Holding
<1>4. /\ loc' = [loc EXCEPT ![h].bytes = temp[s], ![h].existed = temp[s] \in blobs]
      /\ onDisk' = onDisk \ {s} /\ temp' = [temp EXCEPT ![s] = <<>>] /\ Goto(h, "drop")
      /\ UNCHANGED <<expected, uploaded, table, mu, meta, cur, req, cause>>
  BY <1>1 DEF MoveToCAS, memVars
<1>5. /\ pc'[h] = "drop" /\ cur'[h] = s
      /\ \A g \in Handlers \ {h} : SameHandler(g)
  <2>1. \A g \in Handlers \ {h} : loc'[g] = loc[g]
    BY <1>4 DEF Inv, Shape, HandlerShape
  <2> QED
    BY <1>1, <1>4, <2>1, GotoSame
<1>6. temp'[s] = << >> /\ \A t \in Sessions \ {s} : SameSession(t) /\ meta'[t] = meta[t]
  BY <1>3, <1>4 DEF SameSession, Inv, Shape, DiskShape
<1>7. loc'[h].bytes = temp[s]
  <2>1. loc'[h] = [[loc[h] EXCEPT !.bytes = temp[s]] EXCEPT !.existed = temp[s] \in blobs]
    BY <1>4 DEF Inv, Shape, HandlerShape
  <2> QED
    BY <1>3, <2>1 DEF Locals
<1>8. cause[s] = {} => temp[s] = Plain(uploaded[s])
  BY <1>2, <1>3 DEF SessionOK, PointerOK, HolderOK
<1>9. SessionOK(s)'
  <2>1. temp'[s] = Plain(Len(temp'[s]))
    BY <1>6, PlainEmpty
  <2> QED
    BY <1>3, <1>4, <1>5, <2>1, UploadConstants DEF SessionOK
<1>10. PointerOK(h, s)'
  BY <1>2, <1>3, <1>4, <1>5, <1>7, <1>8 DEF PointerOK, HolderOK, FileOpen
<1>11. expected'[s] = expected[s] /\ (s \in table' => s \in table)
  BY <1>3, <1>4 DEF PointerOK
<1> QED
  BY <1>1, <1>2, <1>3, <1>5, <1>6, <1>9, <1>10, <1>11, OwnStep DEF Holding

(***************************************************************************)
(* Sessions S leave the table and the disk together: the handlers that     *)
(* have their files open lose the link, all others notice nothing.  The    *)
(* step is made by handler a, or by a background job if a is no handler.   *)
(***************************************************************************)
LEMMA UnlinkStep ==
  ASSUME Inv, DataInv, NEW S \in SUBSET Sessions, NEW a, NEW l,
         UnlinkTemps(S, l),
         \A g \in Handlers \ {a} : l[g] = loc[g] /\ pc'[g] = pc[g] /\ cur'[g] = cur[g] /\ req'[g] = req[g],
         UNCHANGED <<expected, uploaded, mu>>,
         table' = table \ S,
         \A g \in Handlers \ {a} : pc[g] = "create" => cur[g] \notin S,
         \A t \in Sessions : meta'[t] = meta[t] \/ (t \in S /\ meta'[t] = NoMeta),
         a \in Handlers /\ pc[a] \in Holding => cur[a] \in S,
         a \in Handlers /\ pc'[a] \notin {"idle", "find", "new"} => PointerOK(a, cur[a])'
  PROVE  DataInv'
<1>1. PICK kept \in Unremoved(S \cap onDisk) :
         /\ onDisk' = onDisk \ (S \ kept)
         /\ temp' = [t \in Sessions |-> IF t \in S \ kept THEN <<>> ELSE temp[t]]
         /\ loc' = [g \in Handlers |-> IF pc[g] \in FileOpen /\ cur[g] \in S \ kept
                                       THEN [l[g] EXCEPT !.linked = FALSE] ELSE l[g]]
         /\ Strike(kept, "disk")
  BY DEF UnlinkTemps
<1>4. /\ kept \subseteq S
      /\ \A t \in kept : cause'[t] # {}
      /\ \A t \in Sessions \ kept : cause'[t] = cause[t]
      /\ \A t \in Sessions : temp'[t] = IF t \in S \ kept THEN <<>> ELSE temp[t]
  BY <1>1 DEF Unremoved, Strike
<1>2. ASSUME NEW t \in Sessions
      PROVE  SessionOK(t)'
  <2>1. SessionOK(t)
    BY DEF DataInv
  <2>2. CASE t \in S
    <3>1. cause'[t] = {} => temp'[t] = Plain(Len(temp'[t]))
      BY <1>4, <2>2, PlainEmpty
    <3>2. meta'[t] <= expected'[t]
      <4>1. expected[t] \in Nat
        BY DEF Inv, Shape, SessionShape
      <4> QED
        BY <2>1, <4>1 DEF SessionOK, NoMeta
    <3> QED
      BY <2>1, <2>2, <3>1, <3>2 DEF SessionOK
  <2>3. CASE t \notin S
    <3>1. SameSession(t) /\ meta'[t] = meta[t]
      BY <1>1, <1>4, <2>3 DEF SameSession
    <3>2. mu[t] # Free => mu[t] \in Handlers \ {a}
      BY <2>3, HolderOf
    <3> QED
      BY <2>1, <3>1, <3>2, SessionKept
  <2> QED
    BY <2>2, <2>3
<1>3. ASSUME NEW g \in Handlers, g # a, pc'[g] \notin {"idle", "find", "new"}
      PROVE  PointerOK(g, cur[g])'
  <2>1. pc'[g] = pc[g] /\ cur'[g] = cur[g] /\ req'[g] = req[g] /\ l[g] = loc[g]
    BY <1>3
  <2>2. cur[g] \in Sessions /\ PointerOK(g, cur[g])
    BY <1>3, <2>1, CurType DEF Inv, Shape, DataInv
  <2>3. PICK c \in Sessions : c = cur[g]
    BY <2>2
  <2>5. loc[g] \in Locals
    BY DEF Inv, Shape, HandlerShape
  <2>4. CASE c \in kept
    <3>1. loc'[g] = loc[g] /\ cause'[c] # {} /\ c \notin table'
      BY <1>1, <1>4, <2>1, <2>3, <2>4
    <3>2. pc[g] # "create"
      BY <1>3, <1>4, <2>3, <2>4
    <3>3. PointerOK(g, c)'
      BY <2>1, <2>2, <2>3, <3>1, <3>2 DEF PointerOK
    <3> QED
      BY <2>1, <2>3, <3>3
  <2>6. CASE c \in S \ kept
    <3>0. PICK x, y \in Locals : x = loc'[g] /\ y = loc[g]
      <4>1. [loc[g] EXCEPT !.linked = FALSE] \in Locals
        BY <2>5 DEF Locals
      <4> QED
        BY <1>1, <2>1, <2>5, <4>1
    <3>a. /\ pc[g] \in FileOpen => x = [y EXCEPT !.linked = FALSE]
          /\ pc[g] \notin FileOpen => x = y
      BY <1>1, <2>1, <2>3, <2>6, <3>0
    <3>b. /\ pc[g] \in FileOpen => ~ x.linked
          /\ x.snap = y.snap /\ x.bytes = y.bytes
      BY ONLY <3>0, <3>a DEF Locals
    <3>1. pc[g] \in FileOpen => ~ loc'[g].linked
      BY <3>0, <3>b
    <3>2. loc'[g].snap = loc[g].snap /\ loc'[g].bytes = loc[g].bytes
      BY <3>0, <3>b
    <3>c. c \notin table' /\ c \notin onDisk' /\ cause'[c] = cause[c] /\ pc[g] # "create"
      BY <1>1, <1>3, <1>4, <2>3, <2>6
    <3>3. PointerOK(g, c)'
      BY <2>1, <2>2, <2>3, <3>1, <3>2, <3>c DEF PointerOK, HolderOK, FileOpen
    <3> QED
      BY <2>1, <2>3, <3>3
  <2>7. CASE c \notin S
    <3>1. SameSession(c) /\ SameHandler(g)
      BY <1>1, <1>4, <2>1, <2>3, <2>7 DEF SameSession, SameHandler
    <3>2. PointerOK(g, c)'
      BY <2>2, <2>3, <3>1, PointerKept
    <3> QED
      BY <2>1, <2>3, <3>2
  <2> QED
    BY <2>4, <2>6, <2>7
<1> QED
  BY <1>2, <1>3 DEF DataInv

\* What DeleteSession leaves of the session it takes out of the table.
LEMMA DeleteKnown ==
  ASSUME Inv, NEW s \in Sessions, DeleteSession(s, loc), s \in table
  PROVE  /\ TableFree /\ UnlinkTemps({s}, loc) /\ table' = table \ {s}
         /\ \A t \in Sessions : meta'[t] = meta[t] \/ (t \in {s} /\ meta'[t] = NoMeta)
         /\ cause'[s] = {} => cause[s] = {} /\ s \notin onDisk'
         /\ \A g \in Handlers : pc[g] \notin FileOpen => loc'[g] = loc[g]
<1>1. /\ TableFree /\ UnlinkTemps({s}, loc) /\ RemoveMeta({s}) /\ table' = table \ {s}
  BY DEF DeleteSession
<1>2. \A t \in Sessions : meta'[t] = meta[t] \/ (t \in {s} /\ meta'[t] = NoMeta)
  BY <1>1 DEF RemoveMeta
<1>3. PICK kept \in Unremoved({s} \cap onDisk) :
         /\ onDisk' = onDisk \ ({s} \ kept)
         /\ loc' = [g \in Handlers |-> IF pc[g] \in FileOpen /\ cur[g] \in {s} \ kept
                                       THEN [loc[g] EXCEPT !.linked = FALSE] ELSE loc[g]]
         /\ Strike(kept, "disk")
  BY <1>1 DEF UnlinkTemps
<1>4. cause'[s] = {} => cause[s] = {} /\ s \notin kept
  BY <1>3 DEF Strike
<1> QED
  BY <1>1, <1>2, <1>3, <1>4

LEMMA DataDone ==
  ASSUME Inv, DataInv, NEW h \in Handlers, ChunkDone(h)
  PROVE  DataInv'
<1>1. PICK s : s = cur[h]
  OBVIOUS
<1>2. pc[h] = "drop"
  BY DEF ChunkDone
<1>3. /\ s \in Sessions /\ SessionOK(s) /\ PointerOK(h, s) /\ mu[s] = h /\ h # Free
      /\ loc[h] \in Locals
  BY <1>1, <1>2, OwnFacts DEF Holding
<1>4. /\ DeleteSession(s, loc) /\ Goto(h, "insert")
      /\ UNCHANGED <<expected, uploaded, mu, cur, req>>
  BY <1>1 DEF ChunkDone
<1>5. /\ pc'[h] = "insert" /\ cur'[h] = s
      /\ \A g \in Handlers \ {h} : pc'[g] = pc[g] /\ cur'[g] = cur[g] /\ req'[g] = req[g]
  BY <1>1, <1>4 DEF Goto, Inv, Shape, HandlerShape
<1>6. CASE s \in table
  <2>1. /\ TableFree /\ UnlinkTemps({s}, loc) /\ table' = table \ {s}
        /\ \A t \in Sessions : meta'[t] = meta[t] \/ (t \in {s} /\ meta'[t] = NoMeta)
        /\ cause'[s] = {} => cause[s] = {} /\ s \notin onDisk'
        /\ loc'[h] = loc[h]
    BY <1>2, <1>3, <1>4, <1>6, DeleteKnown DEF FileOpen
  <2>4. PointerOK(h, s)'
    BY <1>2, <1>3, <1>4, <1>5, <2>1 DEF PointerOK, HolderOK, FileOpen
  <2>5. PointerOK(h, cur[h])'
    BY <1>5, <2>4
  <2>6. \A g \in Handlers \ {h} : pc[g] = "create" => cur[g] \notin {s}
    BY <2>1 DEF TableFree
  <2>7. \A g \in Handlers \ {h} : loc[g] = loc[g] /\ pc'[g] = pc[g] /\ cur'[g] = cur[g] /\ req'[g] = req[g]
    BY <1>5
  <2> QED
    BY <1>1, <1>3, <1>4, <2>1, <2>5, <2>6, <2>7, UnlinkStep
<1>7. CASE s \notin table
  <2>1. UNCHANGED <<onDisk, temp, meta, table, loc, cause>>
    BY <1>4, <1>7 DEF DeleteSession
  <2>2. \A g \in Handlers \ {h} : SameHandler(g)
    BY <1>5, <2>1 DEF SameHandler
  <2>3. \A t \in Sessions \ {s} : SameSession(t) /\ meta'[t] = meta[t]
    BY <1>4, <2>1 DEF SameSession
  <2>4. SessionOK(s)'
    BY <1>3, <1>4, <1>7, <2>1 DEF SessionOK
  <2>5. PointerOK(h, s)'
    BY <1>2, <1>3, <1>4, <1>5, <1>7, <2>1 DEF PointerOK, HolderOK, FileOpen
  <2>6. expected'[s] = expected[s] /\ (s \in table' => s \in table)
    BY <1>3, <1>4, <2>1 DEF PointerOK
  <2> QED
    BY <1>1, <1>2, <1>3, <1>5, <2>2, <2>3, <2>4, <2>5, <2>6, OwnStep DEF Holding
<1> QED
  BY <1>6, <1>7

LEMMA DataAbort ==
  ASSUME Inv, DataInv, NEW h \in Handlers, AbortDelete(h) \/ AbortRemove(h)
  PROVE  DataInv'
<1>1. PICK s : s = cur[h]
  OBVIOUS
<1>2. /\ s \in Sessions /\ SessionOK(s) /\ PointerOK(h, s)
  BY <1>1, OwnFacts DEF AbortDelete, AbortRemove
<1>3. CASE AbortDelete(h)
  <2>1. /\ DeleteSession(s, loc) /\ Goto(h, "abortrm") /\ pc[h] = "abortdel"
        /\ UNCHANGED <<expected, uploaded, mu, cur, req>>
    BY <1>1, <1>3 DEF AbortDelete
  <2>2. /\ pc'[h] = "abortrm" /\ cur'[h] = s
        /\ \A g \in Handlers \ {h} : pc'[g] = pc[g] /\ cur'[g] = cur[g] /\ req'[g] = req[g]
    BY <1>1, <2>1 DEF Goto, Inv, Shape, HandlerShape
  <2>3. CASE s \in table
    <3>1. /\ TableFree /\ UnlinkTemps({s}, loc) /\ table' = table \ {s}
          /\ \A t \in Sessions : meta'[t] = meta[t] \/ (t \in {s} /\ meta'[t] = NoMeta)
      BY <1>2, <2>1, <2>3, DeleteKnown
    <3>3. PointerOK(h, s)'
      BY <2>2, <3>1 DEF PointerOK, HolderOK, FileOpen
    <3>4. PointerOK(h, cur[h])'
      BY <2>2, <3>3
    <3>5. \A g \in Handlers \ {h} : pc[g] = "create" => cur[g] \notin {s}
      BY <3>1 DEF TableFree
    <3>6. \A g \in Handlers \ {h} : loc[g] = loc[g] /\ pc'[g] = pc[g] /\ cur'[g] = cur[g] /\ req'[g] = req[g]
      BY <2>2
    <3> QED
      BY <1>1, <1>2, <2>1, <3>1, <3>4, <3>5, <3>6, UnlinkStep
  <2>4. CASE s \notin table
    <3>1. UNCHANGED <<onDisk, temp, meta, table, loc, cause>>
      BY <2>1, <2>4 DEF DeleteSession
    <3>2. \A g \in Handlers \ {h} : SameHandler(g)
      BY <2>2, <3>1 DEF SameHandler
    <3>3. \A t \in Sessions : SameSession(t) /\ meta'[t] = meta[t]
      BY <2>1, <3>1 DEF SameSession
    <3>4. PointerOK(h, s)'
      BY <1>2, <2>2, <2>4, <3>1 DEF PointerOK, HolderOK, FileOpen
    <3>5. PointerOK(h, cur[h])' /\ pc[h] \notin Holding
      BY <2>1, <2>2, <3>4 DEF Holding
    <3> QED
      BY <3>2, <3>3, <3>5, QuietStep
  <2> QED
    BY <2>3, <2>4
<1>4. CASE AbortRemove(h)
  <2> DEFINE l == [loc EXCEPT ![h] = NoLoc]
  <2>1. /\ UnlinkTemps({s}, l) /\ pc[h] = "abortrm" /\ pc' = [pc EXCEPT ![h] = "idle"]
        /\ cur' = [cur EXCEPT ![h] = NoSession] /\ req' = [req EXCEPT ![h] = NoReq]
        /\ UNCHANGED <<expected, uploaded, table, mu, meta>>
    BY <1>1, <1>4 DEF AbortRemove, Goto
  <2>2. s \notin table
    BY <1>2, <2>1 DEF PointerOK
  <2>3. \A g \in Handlers \ {h} : l[g] = loc[g] /\ pc'[g] = pc[g] /\ cur'[g] = cur[g] /\ req'[g] = req[g]
    BY <2>1 DEF Inv, Shape, HandlerShape
  <2>4. pc'[h] = "idle" /\ pc[h] \notin Holding
    BY <2>1 DEF Inv, Shape, HandlerShape, Holding
  <2>5. table' = table \ {s}
    BY <2>1, <2>2
  <2>6. \A t \in Sessions : meta'[t] = meta[t] \/ (t \in {s} /\ meta'[t] = NoMeta)
    BY <2>1
  <2>7. \A g \in Handlers \ {h} : pc[g] = "create" => cur[g] \notin {s}
    BY <1>1 DEF Inv, SoleOK
  <2> HIDE DEF l
  <2> QED
    BY <1>2, <2>1, <2>3, <2>4, <2>5, <2>6, <2>7, UnlinkStep
<1> QED
  BY <1>3, <1>4

LEMMA DataCreateFile ==
  ASSUME Inv, DataInv, NEW h \in Handlers, CreateFile(h)
  PROVE  DataInv'
<1>1. PICK s \in Sessions \ created :
         /\ expected' = [expected EXCEPT ![s] = req[h].len]
         /\ uploaded' = [uploaded EXCEPT ![s] = 0]
         /\ onDisk' = onDisk \cup {s}
         /\ temp' = [temp EXCEPT ![s] = <<>>]
         /\ cur' = [cur EXCEPT ![h] = s]
  BY DEF CreateFile
<1>2. pc[h] = "new" /\ Goto(h, "create") /\ UNCHANGED <<table, mu, meta, req, loc, cause>>
  BY DEF CreateFile
<1>3. pc'[h] = "create" /\ cur'[h] = s /\ \A g \in Handlers \ {h} : SameHandler(g)
  BY <1>1, <1>2 DEF Goto, SameHandler, Inv, Shape, HandlerShape
<1>4. \A t \in Sessions \ {s} : SameSession(t) /\ meta'[t] = meta[t]
  BY <1>1, <1>2 DEF SameSession, Inv, Shape, SessionShape, DiskShape
<1>5. /\ expected'[s] = req[h].len /\ uploaded'[s] = 0 /\ temp'[s] = <<>> /\ meta'[s] = NoMeta
      /\ s \in onDisk' /\ s \notin table' /\ req[h].len \in Nat
  BY <1>1, <1>2 DEF Inv, Shape, SessionShape, DiskShape, HandlerShape, ChunkRequest, FreshOK
<1>6. SessionOK(s)'
  BY <1>5, PlainEmpty DEF SessionOK, NoMeta
<1>7. ASSUME NEW t \in Sessions, t # s
      PROVE  SessionOK(t)'
  <2>1. mu[t] # Free => mu[t] \in Handlers \ {h}
    BY <1>2, HolderOf DEF Holding
  <2> QED
    BY <1>3, <1>4, <1>7, <2>1, SessionKept DEF DataInv, SameHandler
<1>8. ASSUME NEW g \in Handlers \ {h}, pc'[g] \notin {"idle", "find", "new"}
      PROVE  PointerOK(g, cur[g])'
  <2>1. SameHandler(g)
    BY <1>3
  <2>2. pc[g] \notin {"idle", "find", "new"} /\ cur'[g] = cur[g]
    BY <1>8, <2>1 DEF SameHandler
  <2>3. cur[g] \in Sessions /\ cur[g] \in created /\ PointerOK(g, cur[g])
    BY <2>2, CurType DEF Inv, Shape, DataInv
  <2>4. PICK c \in Sessions \ {s} : c = cur[g]
    BY <1>1, <2>3
  <2> QED
    BY <1>4, <2>1, <2>2, <2>3, <2>4, PointerKept
<1>9. PointerOK(h, s)'
  BY <1>3, <1>5 DEF PointerOK, HolderOK, FileOpen
<1> QED
  BY <1>3, <1>6, <1>7, <1>8, <1>9 DEF DataInv

LEMMA DataCreate ==
  ASSUME Inv, DataInv, NEW h \in Handlers, CreateSession(h)
  PROVE  DataInv'
<1>1. PICK s : s = cur[h]
  OBVIOUS
<1>2. pc[h] = "create" /\ table' = table \cup {s} /\ Return(h)
      /\ UNCHANGED <<expected, uploaded, mu, onDisk, temp, cause>>
  BY <1>1 DEF CreateSession
<1>3. /\ s \in Sessions /\ SessionOK(s) /\ PointerOK(h, s)
      /\ uploaded[s] \in Nat /\ expected[s] \in Nat
  BY <1>1, <1>2, OwnFacts
<1>4. pc'[h] = "idle" /\ \A g \in Handlers \ {h} : SameHandler(g)
  BY <1>2, ReturnSame
<1>5. PICK m \in Persisted(s, 0) : meta' = [meta EXCEPT ![s] = m]
  BY <1>1 DEF CreateSession
<1>6. m <= expected[s]
  BY <1>3, <1>5, PersistedBound
<1>7. meta'[s] = m /\ \A t \in Sessions \ {s} : SameSession(t) /\ meta'[t] = meta[t]
  BY <1>2, <1>3, <1>5 DEF SameSession, Inv, Shape, DiskShape
<1>8. s \in onDisk /\ temp[s] = <<>> /\ uploaded[s] = 0
  BY <1>2, <1>3 DEF PointerOK
<1>9. SessionOK(s)'
  BY <1>2, <1>3, <1>6, <1>7, <1>8, PlainEmpty DEF SessionOK
<1>10. mu[s] = Free
  <2>1. mu[s] # Free => mu[s] \in Handlers \ {h} /\ cur[mu[s]] = s
    BY <1>2, <1>3, HolderOf DEF Holding
  <2> QED
    BY <1>1, <1>2, <2>1 DEF Inv, SoleOK
<1> QED
  BY <1>1, <1>2, <1>3, <1>4, <1>7, <1>9, <1>10, OwnStep

\* InitSession's PersistSession, without the mutex, may overlap a chunk.
LEMMA DataResume ==
  ASSUME Inv, DataInv, NEW h \in Handlers, ResumePersist(h)
  PROVE  DataInv'
<1>1. PICK s : s = cur[h]
  OBVIOUS
<1>2. pc[h] = "resume"
  BY DEF ResumePersist
<1>3. /\ s \in Sessions /\ SessionOK(s) /\ PointerOK(h, s)
      /\ expected[s] \in Nat /\ loc[h] \in Locals
  BY <1>1, <1>2, OwnFacts
<1>a. PICK m \in Persisted(s, loc[h].snap) : meta' = [meta EXCEPT ![s] = m]
  BY <1>1 DEF ResumePersist
<1>4. Return(h) /\ UNCHANGED <<expected, uploaded, table, mu, onDisk, temp, cause>>
  BY <1>1 DEF ResumePersist, memVars
<1>5. pc'[h] = "idle" /\ \A g \in Handlers \ {h} : SameHandler(g)
  BY <1>4, ReturnSame
<1>6. meta'[s] = m /\ \A t \in Sessions \ {s} : meta'[t] = meta[t]
  BY <1>3, <1>a DEF Inv, Shape, DiskShape
<1>7. meta'[s] <= expected[s]
  <2>1. loc[h].snap \in Nat /\ loc[h].snap <= expected[s]
    BY <1>2, <1>3 DEF PointerOK, Locals
  <2> QED
    BY <1>3, <1>6, <1>a, <2>1, PersistedBound
<1>8. \A t \in Sessions : SameSession(t)
  BY <1>4 DEF SameSession
<1>9. ASSUME NEW t \in Sessions
      PROVE  SessionOK(t)'
  <2>1. mu[t] # Free => mu[t] \in Handlers \ {h}
    BY <1>2, HolderOf DEF Holding
  <2>2. mu[t] # Free => pc'[mu[t]] = pc[mu[t]]
    BY <1>5, <2>1 DEF SameHandler
  <2>3. CASE t = s
    BY <1>3, <1>4, <1>7, <2>2, <2>3 DEF SessionOK
  <2>4. CASE t # s
    BY <1>6, <1>8, <2>2, <2>4, SessionKept DEF DataInv
  <2> QED
    BY <2>3, <2>4
<1>10. ASSUME NEW g \in Handlers, pc'[g] \notin {"idle", "find", "new"}
       PROVE  PointerOK(g, cur[g])'
  <2>1. g # h /\ SameHandler(g)
    BY <1>5, <1>10
  <2>2. pc[g] \notin {"idle", "find", "new"} /\ cur'[g] = cur[g]
    BY <1>10, <2>1 DEF SameHandler
  <2>3. cur[g] \in Sessions /\ PointerOK(g, cur[g])
    BY <2>2, CurType DEF Inv, Shape, DataInv
  <2>4. PICK c \in Sessions : c = cur[g]
    BY <2>3
  <2> QED
    BY <1>8, <2>1, <2>2, <2>3, <2>4, PointerKept
<1> QED
  BY <1>9, <1>10 DEF DataInv

\* Steps that only move a handler that does not hold sess.Mu.
LEMMA DataQuiet ==
  ASSUME Inv, DataInv, NEW h \in Handlers,
         \/ Request(h) \/ FindNone(h) \/ CreateSessionFails(h) \/ ResumeRead(h)
         \/ ChunkTurnedAway(h) \/ AbortLock(h)
  PROVE  DataInv'
<1>1. /\ pc[h] \notin Holding
      /\ UNCHANGED <<expected, uploaded, table, mu, onDisk, temp, meta, cause>>
  BY DEF Request, InitCheck, ChunkBegin, AbortBegin, FindNone, CreateSessionFails, ResumeRead,
     ChunkTurnedAway, AbortLock, memVars, diskVars, Holding
<1>2. \A g \in Handlers \ {h} : SameHandler(g)
  BY DEF Request, InitCheck, ChunkBegin, AbortBegin, FindNone, CreateSessionFails, ResumeRead,
     ChunkTurnedAway, AbortLock, Return, Goto, SameHandler, Inv, Shape, HandlerShape
<1>3. \A t \in Sessions : SameSession(t) /\ meta'[t] = meta[t]
  BY <1>1 DEF SameSession
<1>5. pc'[h] \notin {"idle", "find", "new"} => PointerOK(h, cur[h])'
  <2>1. CASE \/ FindNone(h) \/ CreateSessionFails(h) \/ ChunkTurnedAway(h)
             \/ \E size \in Sizes : InitCheck(h, size)
    BY <2>1 DEF FindNone, CreateSessionFails, ChunkTurnedAway, InitCheck, Return, Goto,
       Inv, Shape, HandlerShape
  <2>2. CASE \/ \E s \in Sessions, first \in 0..MaxOffset, len \in 0..MaxChunk,
                   ranged \in BOOLEAN : ChunkBegin(h, s, first, len, ranged)
             \/ \E s \in Sessions : AbortBegin(h, s)
    <3>1. PICK s \in Sessions : s \in table /\ cur' = [cur EXCEPT ![h] = s]
                                /\ (Goto(h, "lock") \/ Goto(h, "abortlock"))
      BY <2>2 DEF ChunkBegin, AbortBegin
    <3>2. cur'[h] = s /\ pc'[h] \in {"lock", "abortlock"}
      BY <3>1 DEF Goto, Inv, Shape, HandlerShape
    <3>3. PointerOK(h, s)'
      BY <1>1, <3>1, <3>2 DEF PointerOK, HolderOK, FileOpen
    <3> QED
      BY <3>2, <3>3
  <2>3. CASE ResumeRead(h)
    <3>1. PICK s \in ActiveSessions(req[h].len) :
             cur' = [cur EXCEPT ![h] = s] /\ loc' = [loc EXCEPT ![h].snap = uploaded[s]]
      BY <2>3 DEF ResumeRead
    <3>2. s \in table /\ s \in Sessions
      BY <3>1 DEF ActiveSessions, Inv, Shape, SessionShape
    <3>3. cur'[h] = s /\ pc'[h] = "resume" /\ loc'[h].snap = uploaded[s]
      BY <2>3, <3>1 DEF ResumeRead, Goto, Inv, Shape, HandlerShape, Locals
    <3>4. uploaded[s] <= expected[s]
      BY <3>2 DEF DataInv, SessionOK
    <3>5. PointerOK(h, s)'
      BY <1>1, <3>2, <3>3, <3>4 DEF PointerOK, HolderOK, FileOpen
    <3> QED
      BY <3>3, <3>5
  <2>4. CASE AbortLock(h)
    <3>1. PICK s : s = cur[h]
      OBVIOUS
    <3>2. PointerOK(h, s)
      BY <2>4, <3>1, OwnFacts DEF AbortLock
    <3>3. cur'[h] = s /\ pc'[h] = "abortdel"
      BY <2>4, <3>1 DEF AbortLock, Goto, Inv, Shape, HandlerShape
    <3>4. PointerOK(h, s)'
      BY <1>1, <3>2, <3>3 DEF PointerOK, HolderOK, FileOpen
    <3> QED
      BY <3>3, <3>4
  <2> QED
    BY <2>1, <2>2, <2>3, <2>4 DEF Request
<1> QED
  BY <1>1, <1>2, <1>3, <1>5, QuietStep

(***************************************************************************)
(* After a restart nobody holds a pointer, and a session is restored only  *)
(* with its file; where the metadata disagrees with it the crash is a      *)
(* cause.                                                                  *)
(***************************************************************************)
LEMMA DataCrash ==
  ASSUME Inv, DataInv, NEW torn \in SUBSET Sessions, Crash(torn)
  PROVE  DataInv'
<1>1. \A g \in Handlers : pc'[g] = "idle"
  BY DEF Crash
<1>2. ASSUME NEW s \in Sessions
      PROVE  SessionOK(s)'
  <2> DEFINE m == IF s \in torn THEN TornMeta ELSE meta[s]
             back == s \in onDisk /\ m >= 0
  <2>1. /\ s \in table' <=> back
        /\ uploaded'[s] = IF back THEN m ELSE uploaded[s]
        /\ meta'[s] = IF s \notin onDisk /\ m >= 0 THEN NoMeta ELSE m
        /\ mu'[s] = Free
        /\ cause'[s] = IF s \in onDisk /\ m # Len(temp[s]) THEN cause[s] \cup {"crash"} ELSE cause[s]
        /\ UNCHANGED <<expected, onDisk, temp>>
    BY DEF Crash, Restorable, Strike
  <2>2. SessionOK(s)
    BY DEF DataInv
  <2>3. expected[s] \in Nat /\ meta[s] \in Nat \cup {NoMeta, TornMeta}
    BY DEF Inv, Shape, SessionShape, DiskShape
  <2>4. m \in Nat \cup {NoMeta, TornMeta} /\ m <= expected[s]
    BY <2>2, <2>3 DEF SessionOK, TornMeta
  <2>5. cause'[s] = {} => cause[s] = {} /\ (back => m = Len(temp[s]))
    BY <2>1
  <2> HIDE DEF m
  <2>8. uploaded'[s] <= expected'[s] /\ meta'[s] <= expected'[s]
    BY <2>1, <2>2, <2>3, <2>4 DEF SessionOK, NoMeta
  <2>10. ASSUME cause'[s] = {}
         PROVE  /\ temp'[s] = Plain(Len(temp'[s]))
                /\ s \in table' => s \in onDisk' /\ Len(temp'[s]) = uploaded'[s]
    <3>1. temp[s] = Plain(Len(temp[s]))
      BY <2>2, <2>5, <2>10 DEF SessionOK
    <3> QED
      BY <2>1, <2>5, <2>10, <3>1
  <2> QED
    BY <2>8, <2>10 DEF SessionOK
<1> QED
  BY <1>1, <1>2 DEF DataInv

LEMMA DataInit == Init => DataInv
  BY PlainEmpty DEF Init, DataInv, SessionOK, NoMeta

LEMMA DataStep ==
  ASSUME Inv, DataInv, [Next]_vars
  PROVE  DataInv'
<1>1. ASSUME NEW h \in Handlers, HandlerStep(h)
      PROVE  DataInv'
  <2>1. CASE \/ ChunkRefused(h) \/ MoveToCASFails(h) \/ InsertRow(h) \/ InsertFails(h)
    <3>1. PICK s : s = cur[h]
      OBVIOUS
    <3>2. /\ pc[h] \in {"copy", "move", "insert"} /\ Unlock(s) /\ Return(h)
          /\ UNCHANGED <<expected, uploaded, table, onDisk, temp, meta>>
          /\ \/ cause' = cause
             \/ cause' = [cause EXCEPT ![s] = @ \cup {"lost"}]
      BY <2>1, <3>1 DEF ChunkRefused, MoveToCASFails, InsertRow, InsertFails, diskVars
    <3>3. /\ \A t \in Sessions : cause[t] \subseteq cause'[t]
          /\ \A t \in Sessions \ {s} : cause'[t] = cause[t]
      BY <3>2 DEF Inv, Shape, SessionShape
    <3> QED
      BY <3>1, <3>2, <3>3, DataRelease
  <2> QED
    BY <1>1, <2>1, DataCreateFile, DataCreate, DataResume, DataQuiet, DataLock, DataCopy,
       DataFlushFails, DataUndo, DataCommit, DataPersist, DataMove, DataDone, DataAbort DEF HandlerStep
<1>2. ASSUME NEW s \in Sessions, Reap(s)
      PROVE  DataInv'
  <2>1. /\ TableFree /\ UnlinkTemps({s}, loc) /\ table' = table \ {s}
        /\ \A t \in Sessions : meta'[t] = meta[t] \/ (t \in {s} /\ meta'[t] = NoMeta)
    BY <1>2, DeleteKnown DEF Reap
  <2>2. /\ UNCHANGED <<expected, uploaded, mu, pc, cur, req>>
        /\ \A g \in Handlers \ {Free} : pc[g] = "create" => cur[g] \notin {s}
    BY <1>2, <2>1 DEF Reap, TableFree
  <2>3. Free \notin Handlers
    BY UploadConstants
  <2> QED
    BY <2>1, <2>2, <2>3, UnlinkStep
<1>3. ASSUME PurgeAll
      PROVE  DataInv'
  <2>1. /\ UnlinkTemps(Sessions, loc) /\ table' = table \ Sessions
        /\ UNCHANGED <<expected, uploaded, mu, pc, cur, req>>
        /\ \A g \in Handlers \ {Free} : pc[g] = "create" => cur[g] \notin Sessions
    BY <1>3 DEF PurgeAll, Inv, Shape, SessionShape, TableFree
  <2>2. \A t \in Sessions : meta'[t] = meta[t] \/ (t \in Sessions /\ meta'[t] = NoMeta)
    BY <1>3 DEF PurgeAll, RemoveMeta
  <2>3. Free \notin Handlers
    BY UploadConstants
  <2> QED
    BY <2>1, <2>2, <2>3, UnlinkStep
<1>4. ASSUME (\E s \in Sessions : ForgetCompleted(s)) \/ UNCHANGED vars
      PROVE  DataInv'
  <2>1. UNCHANGED <<expected, uploaded, table, mu, onDisk, temp, meta, cause, pc, cur, req, loc>>
    BY <1>4 DEF ForgetCompleted, vars, memVars, diskVars, hVars
  <2> QED
    BY <2>1 DEF DataInv, SessionOK, PointerOK, HolderOK
<1> QED
  BY <1>1, <1>2, <1>3, <1>4, DataQuiet, DataCrash DEF Next, Environment

LEMMA DataAlways == Spec => []DataInv
<1>1. Inv /\ DataInv /\ [Next]_vars => DataInv'
  BY DataStep
<1> QED
  BY <1>1, DataInit, InvAlways, PTL DEF Spec

-----------------------------------------------------------------------------
(* The rows.  Once a session has its row, the way back into it leads       *)
(* through a cause: a chunk through a stale pointer.                       *)

\* No step returns to a session that is over.
LEMMA OverKeep ==
  ASSUME NEW s \in Sessions, Over(s), cause[s] \subseteq cause'[s],
         s \in onDisk' => s \in onDisk,
         s \in table' => s \in table \/ s \in onDisk,
         \A g \in Handlers : pc'[g] \in Holding => pc[g] \in Holding /\ cur'[g] = cur[g]
  PROVE  Over(s)'
  BY DEF Over

LEMMA OverLock ==
  ASSUME Inv, NEW s \in Sessions, Over(s), NEW h \in Handlers, ChunkLock(h)
  PROVE  Over(s)' /\ cause[s] \subseteq cause'[s]
<1>1. PICK c : c = cur[h]
  OBVIOUS
<1>2. c \in Sessions
  BY <1>1, CurType DEF ChunkLock, Inv, Shape
<1>3. /\ onDisk' = onDisk \cup {c} /\ UNCHANGED <<table, cur>>
      /\ pc' = [pc EXCEPT ![h] = "copy"]
      /\ cause' = [cause EXCEPT ![c] = @ \cup NewCauses(req[h], c)]
  BY <1>1 DEF ChunkLock, Goto
<1>4. /\ cause'[c] = cause[c] \cup NewCauses(req[h], c)
      /\ \A t \in Sessions \ {c} : cause'[t] = cause[t]
  BY <1>2, <1>3 DEF Inv, Shape, SessionShape
<1>5. c \notin table => cause'[c] # {}
  BY <1>4 DEF NewCauses
<1>6. \A g \in Handlers \ {h} : pc'[g] = pc[g]
  BY <1>3 DEF Inv, Shape, HandlerShape
<1>7. CASE s = c
  BY <1>4, <1>5, <1>7 DEF Over
<1>8. CASE s # c
  BY <1>1, <1>3, <1>4, <1>6, <1>8 DEF Over
<1> QED
  BY <1>7, <1>8

\* No step shrinks a session's causes or changes the size it announced.
LEMMA HistoryKept ==
  ASSUME Inv, [Next]_vars, NEW s \in created
  PROVE  s \in created' /\ expected'[s] = expected[s] /\ cause[s] \subseteq cause'[s]
<1>0. s \in Sessions
  BY DEF Inv, Shape, SessionShape
<1>1. cause[s] \subseteq cause'[s]
  BY <1>0, CauseGrows DEF Inv, Grown
<1>2. ASSUME NEW h \in Handlers, CreateFile(h)
      PROVE  s \in created' /\ expected'[s] = expected[s]
  BY <1>2 DEF CreateFile, Inv, Shape, SessionShape
<1>3. ASSUME NEW h \in Handlers, Request(h) \/ HandlerStep(h)
      PROVE  CreateFile(h) \/ UNCHANGED <<created, expected>>
  BY <1>3 DEF Request, InitCheck, ChunkBegin, AbortBegin, HandlerStep, FindNone, CreateSession,
     CreateSessionFails, ResumeRead, ResumePersist, ChunkTurnedAway, ChunkLock, ChunkRefused,
     ChunkCopy, ChunkFlushFails, ChunkUndo, ChunkCommit, ChunkPersist, MoveToCAS, MoveToCASFails,
     ChunkDone, InsertRow, InsertFails, AbortLock, AbortDelete, AbortRemove, memVars
<1>4. Environment \/ UNCHANGED vars => UNCHANGED <<created, expected>>
  BY DEF Environment, Reap, ForgetCompleted, PurgeAll, Crash, vars, memVars
<1> QED
  BY <1>1, <1>2, <1>3, <1>4 DEF Next

LEMMA OverStep ==
  ASSUME Inv, DataInv, [Next]_vars, NEW s \in created, Over(s)
  PROVE  Over(s)'
<1>0. s \in Sessions /\ cause[s] \subseteq cause'[s]
  BY HistoryKept DEF Inv, Shape, SessionShape
<1>1. ASSUME NEW h \in Handlers, CreateFile(h) \/ CreateSession(h)
      PROVE  Over(s)'
  <2>1. s \in onDisk' => s \in onDisk
    BY <1>1 DEF CreateFile, CreateSession
  <2>a. s \in table' => s \in table \/ s \in onDisk
    <3>1. pc[h] = "create" => cur[h] \in onDisk
      BY DEF DataInv, PointerOK
    <3> QED
      BY <1>1, <3>1 DEF CreateFile, CreateSession
  <2>2. \A g \in Handlers : pc'[g] \in Holding => pc[g] \in Holding /\ cur'[g] = cur[g]
    BY <1>1 DEF CreateFile, CreateSession, Return, Goto, Holding, Inv, Shape, HandlerShape
  <2> QED
    BY <1>0, <2>1, <2>2, <2>a, OverKeep
<1>2. ASSUME NEW h \in Handlers, Request(h)
      PROVE  Over(s)'
  <2>1. UNCHANGED <<table, onDisk>>
    BY <1>2 DEF Request, InitCheck, ChunkBegin, AbortBegin, memVars, diskVars
  <2>2. \A g \in Handlers : pc'[g] \in Holding => pc[g] \in Holding /\ cur'[g] = cur[g]
    BY <1>2 DEF Request, InitCheck, ChunkBegin, AbortBegin, Goto, Holding, Inv, Shape, HandlerShape
  <2> QED
    BY <1>0, <2>1, <2>2, OverKeep
<1>3. ASSUME NEW h \in Handlers,
             \/ FindNone(h) \/ CreateSessionFails(h) \/ ResumeRead(h) \/ ResumePersist(h)
             \/ ChunkTurnedAway(h) \/ ChunkRefused(h) \/ ChunkCopy(h) \/ ChunkFlushFails(h) \/ ChunkUndo(h) \/ ChunkCommit(h)
             \/ ChunkPersist(h) \/ MoveToCAS(h) \/ MoveToCASFails(h) \/ InsertRow(h)
             \/ InsertFails(h) \/ AbortLock(h)
      PROVE  Over(s)'
  <2>1. table' = table /\ onDisk' \subseteq onDisk
    BY <1>3 DEF FindNone, CreateSessionFails, ResumeRead, ResumePersist, ChunkTurnedAway, ChunkRefused,
       ChunkCopy, ChunkFlushFails, ChunkUndo, ChunkCommit, ChunkPersist, MoveToCAS, MoveToCASFails, InsertRow,
       InsertFails, AbortLock, memVars, diskVars
  <2>2. \A g \in Handlers : pc'[g] \in Holding => pc[g] \in Holding /\ cur'[g] = cur[g]
    BY <1>3 DEF FindNone, CreateSessionFails, ResumeRead, ResumePersist, ChunkTurnedAway, ChunkRefused,
       ChunkCopy, ChunkFlushFails, ChunkUndo, ChunkCommit, ChunkPersist, MoveToCAS, MoveToCASFails, InsertRow,
       InsertFails, AbortLock, Return, Goto, Holding, Inv, Shape, HandlerShape
  <2> QED
    BY <1>0, <2>1, <2>2, OverKeep
<1>4. ASSUME NEW h \in Handlers, ChunkDone(h) \/ AbortDelete(h) \/ AbortRemove(h)
      PROVE  Over(s)'
  <2>1. table' \subseteq table /\ onDisk' \subseteq onDisk
    BY <1>4 DEF ChunkDone, AbortDelete, AbortRemove, DeleteSession, UnlinkTemps
  <2>2. \A g \in Handlers : pc'[g] \in Holding => pc[g] \in Holding /\ cur'[g] = cur[g]
    BY <1>4 DEF ChunkDone, AbortDelete, AbortRemove, Goto, Holding, Inv, Shape, HandlerShape
  <2> QED
    BY <1>0, <2>1, <2>2, OverKeep
<1>5. ASSUME Environment \/ UNCHANGED vars
      PROVE  Over(s)'
  <2>1. CASE \E torn \in SUBSET Sessions : Crash(torn)
    <3>1. s \in onDisk' => s \in onDisk
      BY <2>1 DEF Crash
    <3>2. s \in table' => s \in onDisk
      BY <2>1 DEF Crash, Restorable
    <3>3. \A g \in Handlers : pc'[g] \notin Holding
      BY <2>1 DEF Crash, Holding
    <3> QED
      BY <1>0, <3>1, <3>2, <3>3, OverKeep
  <2>2. CASE ~ \E torn \in SUBSET Sessions : Crash(torn)
    <3>1. UNCHANGED <<pc, cur>> /\ table' \subseteq table /\ onDisk' \subseteq onDisk
      BY <1>5, <2>2 DEF Environment, Reap, ForgetCompleted, PurgeAll, DeleteSession, UnlinkTemps,
         vars, memVars, diskVars, hVars
    <3> QED
      BY <1>0, <3>1, OverKeep
  <2> QED
    BY <2>1, <2>2
<1> QED
  BY <1>0, <1>1, <1>2, <1>3, <1>4, <1>5, OverLock DEF Next, HandlerStep

LEMMA RowsKept ==
  ASSUME Inv, DataInv, RowInv, [Next]_vars, rows' = rows
  PROVE  RowInv'
<1>1. \A r \in rows : RowOK(r)'
  BY HistoryKept, OverStep DEF RowInv, RowOK
<1>2. \A r \in rows : /\ expected'[r.sess] = expected[r.sess]
                      /\ cause'[r.sess] = {} => cause[r.sess] = {}
  BY HistoryKept DEF RowInv, RowOK
<1>3. RowsIntact'
  BY <1>2 DEF RowInv, RowsIntact
<1>4. OneRowPerUpload'
  BY <1>2 DEF RowInv, OneRowPerUpload
<1> QED
  BY <1>1, <1>3, <1>4 DEF RowInv

\* The INSERT happens once, with the client's bytes.
LEMMA RowsInserted ==
  ASSUME Inv, DataInv, RowInv, NEW h \in Handlers, InsertRow(h)
  PROVE  RowInv'
<1>1. PICK s : s = cur[h]
  OBVIOUS
<1>2. pc[h] = "insert"
  BY DEF InsertRow
<1>3. s \in Sessions /\ PointerOK(h, s) /\ mu[s] = h /\ s \in created
  BY <1>1, <1>2, OwnFacts, CurType DEF Holding, Inv, Shape
<1>4. cause[s] = {} => /\ s \notin table /\ s \notin onDisk
                       /\ loc[h].bytes = Plain(uploaded[s]) /\ uploaded[s] = expected[s]
  BY <1>2, <1>3 DEF PointerOK, HolderOK
<1>5. /\ UNCHANGED <<created, expected, table, onDisk, cause>>
      /\ pc' = [pc EXCEPT ![h] = "idle"] /\ cur' = [cur EXCEPT ![h] = NoSession]
  BY DEF InsertRow, Return, Goto, diskVars
<1>6. PICK row : /\ row.sess = s /\ row.size = uploaded[s] /\ row.bytes = loc[h].bytes
                 /\ rows' = rows \cup {row}
  BY <1>1 DEF InsertRow
<1>7. \A r \in rows : RowOK(r)'
  <2>1. \A r \in rows : r.sess \in created /\ Over(r.sess)
    BY DEF RowInv, RowOK
  <2>2. [Next]_vars
    BY DEF Next, HandlerStep
  <2> QED
    BY <1>5, <2>1, <2>2, OverStep DEF RowOK
<1>8. Over(s)'
  <2>1. \A g \in Handlers : pc[g] \in Holding /\ cur[g] = s => g = h
    BY <1>1, <1>2, HoldersDiffer DEF Inv, Holding
  <2>2. /\ pc'[h] = "idle"
        /\ \A g \in Handlers \ {h} : pc'[g] = pc[g] /\ cur'[g] = cur[g]
    BY <1>5 DEF Inv, Shape, HandlerShape
  <2>3. \A g \in Handlers : cur'[g] = s => pc'[g] \notin Holding
    BY <2>1, <2>2 DEF Holding
  <2> QED
    BY <1>4, <1>5, <2>3 DEF Over
<1>9. ASSUME NEW r \in rows, r.sess = s
      PROVE  cause[s] # {}
  BY <1>1, <1>2, <1>9 DEF RowInv, RowOK, Over, Holding
<1>10. RowsIntact'
  BY <1>4, <1>5, <1>6 DEF RowInv, RowsIntact
<1>11. OneRowPerUpload'
  BY <1>5, <1>6, <1>9 DEF RowInv, OneRowPerUpload
<1>12. RowOK(row)'
  BY <1>3, <1>5, <1>6, <1>8 DEF RowOK
<1> QED
  BY <1>6, <1>7, <1>10, <1>11, <1>12 DEF RowInv

LEMMA RowStep ==
  ASSUME Inv, DataInv, RowInv, [Next]_vars
  PROVE  RowInv'
<1>1. (\E h \in Handlers : InsertRow(h)) \/ rows' = rows
  <2>1. ASSUME NEW h \in Handlers, Request(h)
        PROVE  rows' = rows
    BY <2>1 DEF Request, InitCheck, ChunkBegin, AbortBegin, dbVars
  <2>2. ASSUME NEW h \in Handlers, HandlerStep(h), ~ InsertRow(h)
        PROVE  rows' = rows
    BY <2>2 DEF HandlerStep, FindNone, CreateFile, CreateSession, CreateSessionFails, ResumeRead,
       ResumePersist, ChunkTurnedAway, ChunkLock, ChunkRefused, ChunkCopy, ChunkFlushFails, ChunkUndo, ChunkCommit,
       ChunkPersist, MoveToCAS, MoveToCASFails, ChunkDone, InsertFails, AbortLock,
       AbortDelete, AbortRemove, dbVars
  <2>3. Environment \/ UNCHANGED vars => rows' = rows
    BY DEF Environment, Reap, ForgetCompleted, PurgeAll, Crash, vars, dbVars
  <2> QED
    BY <2>1, <2>2, <2>3 DEF Next
<1> QED
  BY <1>1, RowsKept, RowsInserted

LEMMA RowAlways == Spec => []RowInv
<1>1. Init => RowInv
  BY DEF Init, RowInv, RowsIntact, OneRowPerUpload
<1>2. Inv /\ DataInv /\ RowInv /\ [Next]_vars => RowInv'
  BY RowStep
<1> QED
  BY <1>1, <1>2, InvAlways, DataAlways, PTL DEF Spec

(***************************************************************************)
(* A row of the files table holds exactly the client's bytes, whatever     *)
(* retries, failed transfers, aborts, reaping, purges and crashes          *)
(* happened, unless a cause struck its session.                            *)
(***************************************************************************)
THEOREM RowsCorrect == Spec => []RowsIntact
<1>1. RowInv => RowsIntact
  BY DEF RowInv
<1> QED
  BY <1>1, RowAlways, PTL

(***************************************************************************)
(* One upload session yields at most one row, unless a cause struck it.    *)
(***************************************************************************)
THEOREM OneRowCorrect == Spec => []OneRowPerUpload
<1>1. RowInv => OneRowPerUpload
  BY DEF RowInv
<1> QED
  BY <1>1, RowAlways, PTL

(***************************************************************************)
(* The offset the server tells its clients is the length of the temporary  *)
(* file whenever no chunk request is at work on the session.               *)
(***************************************************************************)
THEOREM OffsetCorrect == Spec => []OffsetMatchesFile
<1>1. Inv /\ DataInv => OffsetMatchesFile
  BY DEF DataInv, SessionOK, OffsetMatchesFile, Inv, Shape, SessionShape
<1> QED
  BY <1>1, InvAlways, DataAlways, PTL

-----------------------------------------------------------------------------
(* Temporary files without a session *)

Creating(s) == \E h \in Handlers : pc[h] = "create" /\ cur[h] = s

\* A step that makes no new file, drops no session from the table without its
\* file or a cause, and lets nobody leave CreateSession.
LEMMA LeakKept ==
  ASSUME NoTempLeak, onDisk \subseteq Sessions, Grown,
         \A s \in onDisk' : cause'[s] # {} \/ (s \in onDisk /\ (s \in table => s \in table')),
         \A h \in Handlers : pc[h] = "create" => pc'[h] = "create" /\ cur'[h] = cur[h]
  PROVE  NoTempLeak'
<1> SUFFICES ASSUME NEW s \in onDisk' \ table', cause'[s] = {}
             PROVE  Creating(s)'
  BY DEF NoTempLeak, Creating
<1>1. s \in onDisk \ table /\ cause[s] = {}
  BY DEF Grown
<1>2. Creating(s)
  BY <1>1 DEF NoTempLeak, Creating
<1> QED
  BY <1>2 DEF Creating

\* Removing the files of S with their sessions leaks only what the disk keeps.
LEMMA LeakUnlink ==
  ASSUME Inv, NEW S, NEW l, UnlinkTemps(S, l), table \ S \subseteq table'
  PROVE  \A s \in onDisk' : cause'[s] # {} \/ (s \in onDisk /\ (s \in table => s \in table'))
<1>1. PICK kept \in Unremoved(S \cap onDisk) :
         onDisk' = onDisk \ (S \ kept) /\ Strike(kept, "disk")
  BY DEF UnlinkTemps
<1>2. \A s \in kept : cause'[s] # {}
  BY <1>1 DEF Unremoved, Strike, Inv, Shape, SessionShape
<1> QED
  BY <1>1, <1>2

LEMMA LeakDelete ==
  ASSUME Inv, NEW s, DeleteSession(s, loc)
  PROVE  \A t \in onDisk' : cause'[t] # {} \/ (t \in onDisk /\ (t \in table => t \in table'))
<1>1. CASE s \in table
  BY <1>1, LeakUnlink DEF DeleteSession
<1>2. CASE s \notin table
  BY <1>2 DEF DeleteSession
<1> QED
  BY <1>1, <1>2

LEMMA LeakHandler ==
  ASSUME Inv, NoTempLeak, Grown, NEW h \in Handlers, Request(h) \/ HandlerStep(h)
  PROVE  NoTempLeak'
<1>0. onDisk \subseteq Sessions
  BY DEF Inv, Shape, SessionShape
<1>1. CASE CreateFile(h)
  <2>1. PICK s : /\ onDisk' = onDisk \cup {s} /\ cur' = [cur EXCEPT ![h] = s]
    BY <1>1 DEF CreateFile
  <2>2. TableFree /\ UNCHANGED <<table, cause>> /\ Goto(h, "create")
    BY <1>1 DEF CreateFile
  <2>3. Creating(s)'
    BY <2>1, <2>2 DEF Creating, Goto, Inv, Shape, HandlerShape
  <2> QED
    BY <2>1, <2>2, <2>3 DEF NoTempLeak, Creating, TableFree
<1>2. CASE CreateSession(h)
  <2>1. table' = table \cup {cur[h]} /\ UNCHANGED <<onDisk, cause>>
    BY <1>2 DEF CreateSession
  <2>2. \A g \in Handlers \ {h} : pc'[g] = pc[g] /\ cur'[g] = cur[g]
    BY <1>2 DEF CreateSession, Return, Goto, Inv, Shape, HandlerShape
  <2> QED
    BY <2>1, <2>2 DEF NoTempLeak
<1>3. CASE ChunkLock(h)
  <2>1. PICK c : c = cur[h]
    OBVIOUS
  <2>2. /\ onDisk' = onDisk \cup {c} /\ table' = table /\ cur' = cur /\ Goto(h, "copy")
        /\ pc[h] = "lock" /\ cause' = [cause EXCEPT ![c] = @ \cup NewCauses(req[h], c)]
    BY <1>3, <2>1 DEF ChunkLock
  <2>3. c \in Sessions
    BY <1>3, <2>1, CurType DEF ChunkLock, Inv, Shape
  <2>4. c \notin table => cause'[c] # {}
    BY <2>2, <2>3 DEF NewCauses, Inv, Shape, SessionShape
  <2>5. \A g \in Handlers : pc[g] = "create" => pc'[g] = "create" /\ cur'[g] = cur[g]
    BY <2>2 DEF Goto, Inv, Shape, HandlerShape
  <2> QED
    BY <1>0, <2>2, <2>4, <2>5 DEF NoTempLeak, Grown
<1>4. CASE ChunkDone(h) \/ AbortDelete(h)
  <2>1. \A t \in onDisk' : cause'[t] # {} \/ (t \in onDisk /\ (t \in table => t \in table'))
    BY <1>4, LeakDelete DEF ChunkDone, AbortDelete
  <2>2. \A g \in Handlers : pc[g] = "create" => pc'[g] = "create" /\ cur'[g] = cur[g]
    BY <1>4 DEF ChunkDone, AbortDelete, Goto, Inv, Shape, HandlerShape
  <2> QED
    BY <1>0, <2>1, <2>2, LeakKept
<1>5. CASE AbortRemove(h)
  <2>1. \A t \in onDisk' : cause'[t] # {} \/ (t \in onDisk /\ (t \in table => t \in table'))
    BY <1>5, LeakUnlink DEF AbortRemove
  <2>2. \A g \in Handlers : pc[g] = "create" => pc'[g] = "create" /\ cur'[g] = cur[g]
    BY <1>5 DEF AbortRemove, Goto, Inv, Shape, HandlerShape
  <2> QED
    BY <1>0, <2>1, <2>2, LeakKept
<1>6. CASE ~ (\/ CreateFile(h) \/ CreateSession(h) \/ ChunkLock(h) \/ ChunkDone(h)
              \/ AbortDelete(h) \/ AbortRemove(h))
  <2>1. onDisk' \subseteq onDisk /\ table' = table
    BY <1>6 DEF Request, InitCheck, ChunkBegin, AbortBegin, HandlerStep, FindNone,
       CreateSessionFails, ResumeRead, ResumePersist, ChunkTurnedAway, ChunkRefused, ChunkCopy,
       ChunkFlushFails, ChunkUndo, ChunkCommit, ChunkPersist, MoveToCAS, MoveToCASFails,
       InsertRow, InsertFails, AbortLock, memVars, diskVars
  <2>2. /\ pc[h] # "create"
        /\ \A g \in Handlers \ {h} : pc'[g] = pc[g] /\ cur'[g] = cur[g]
    BY <1>6 DEF Request, InitCheck, ChunkBegin, AbortBegin, HandlerStep, FindNone,
       CreateSessionFails, ResumeRead, ResumePersist, ChunkTurnedAway, ChunkRefused, ChunkCopy,
       ChunkFlushFails, ChunkUndo, ChunkCommit, ChunkPersist, MoveToCAS, MoveToCASFails,
       InsertRow, InsertFails, AbortLock, Return, Goto, Inv, Shape, HandlerShape
  <2> QED
    BY <1>0, <2>1, <2>2, LeakKept
<1> QED
  BY <1>1, <1>2, <1>3, <1>4, <1>5, <1>6

LEMMA LeakStep ==
  ASSUME Inv, NoTempLeak, [Next]_vars
  PROVE  NoTempLeak'
<1>0. Grown /\ onDisk \subseteq Sessions
  BY CauseGrows DEF Inv, Shape, SessionShape
<1>1. ASSUME NEW torn \in SUBSET Sessions, Crash(torn)
      PROVE  NoTempLeak'
  <2> SUFFICES ASSUME NEW s \in onDisk', s \notin table'
               PROVE  cause'[s] # {}
    BY DEF NoTempLeak
  <2> DEFINE m == IF s \in torn THEN TornMeta ELSE meta[s]
  <2>1. s \in onDisk /\ s \in Sessions /\ ~ (m >= 0)
    BY <1>0, <1>1 DEF Crash, Restorable
  <2>2. Len(temp[s]) \in Nat
    <3>1. temp[s] \in Seq(Nat)
      BY <2>1 DEF Inv, Shape, DiskShape
    <3> QED
      BY <3>1
  <2>3. m # Len(temp[s])
    BY <2>1, <2>2
  <2>4. cause'[s] = cause[s] \cup {"crash"}
    BY <1>1, <2>1, <2>3 DEF Crash, Strike
  <2> QED
    BY <2>4
<1>2. ASSUME NEW t \in Sessions, Reap(t)
      PROVE  NoTempLeak'
  BY <1>0, <1>2, LeakDelete, LeakKept DEF Reap
<1>3. ASSUME PurgeAll
      PROVE  NoTempLeak'
  <2>1. table \ Sessions \subseteq table'
    BY DEF Inv, Shape, SessionShape
  <2> QED
    BY <1>0, <1>3, <2>1, LeakUnlink, LeakKept DEF PurgeAll
<1>4. ASSUME (\E t \in Sessions : ForgetCompleted(t)) \/ UNCHANGED vars
      PROVE  NoTempLeak'
  BY <1>4 DEF ForgetCompleted, vars, memVars, diskVars, hVars, NoTempLeak
<1> QED
  BY <1>0, <1>1, <1>2, <1>3, <1>4, LeakHandler DEF Next, Environment

(***************************************************************************)
(* A temporary file that no session of the table owns is being created, or *)
(* a cause is to blame: nothing else leaves one behind.                    *)
(***************************************************************************)
THEOREM TempCorrect == Spec => []NoTempLeak
<1>1. Init => NoTempLeak
  BY DEF Init, NoTempLeak
<1>2. Inv /\ NoTempLeak /\ [Next]_vars => NoTempLeak'
  BY LeakStep
<1> QED
  BY <1>1, <1>2, InvAlways, PTL DEF Spec

-----------------------------------------------------------------------------
(* The refinement of UploadTable *)

\* A step that strikes sessions: those in the table's hands, none else.
LEMMA StrikeStep ==
  ASSUME Inv, UNCHANGED <<created, expected, rows>>, cause' \in [Sessions -> SUBSET Causes], Grown
  PROVE  Table!Next
<1>1. cause' = [s \in Sessions |-> cause'[s]]
  OBVIOUS
<1> QED
  BY <1>1 DEF Table!Next, Table!Strike, Grown

\* The INSERT is the one step that an upload is.
LEMMA RecordStep ==
  ASSUME Inv, RowInv', NEW h \in Handlers, InsertRow(h)
  PROVE  [Table!Next]_(Table!tvars)
<1>1. PICK s : s = cur[h]
  OBVIOUS
<1>2. PICK r : r = [id |-> Cardinality(rows), sess |-> s, size |-> uploaded[s], bytes |-> loc[h].bytes]
  OBVIOUS
<1>3. r.sess = s /\ rows' = rows \cup {r} /\ UNCHANGED <<created, expected, cause>>
  BY <1>1, <1>2 DEF InsertRow
<1>4. s \in created /\ s \in Sessions
  BY <1>3 DEF RowInv, RowOK, Inv, Shape, SessionShape
<1>5. CASE r \in rows
  BY <1>3, <1>5 DEF Table!tvars
<1>6. CASE r \notin rows
  <2>1. r \in rows' \ rows
    BY <1>3, <1>6
  <2>2. ASSUME cause[s] = {} PROVE Table!Sound(r, s)
    <3>1. r.bytes = Plain(r.size) /\ r.size = expected[s]
      BY <1>3, <2>1, <2>2 DEF RowInv, RowsIntact
    <3>2. ASSUME NEW q \in rows, q.sess = s PROVE FALSE
      <4>1. q = r
        BY <1>3, <2>1, <2>2, <3>2 DEF RowInv, OneRowPerUpload
      <4> QED
        BY <1>6, <4>1
    <3> QED
      BY <3>1, <3>2 DEF Table!Sound, Table!Whole, Plain
  <2>3. Table!Record(s)
    BY <1>4, <1>3, <2>1, <2>2 DEF Table!Record
  <2> QED
    BY <1>4, <2>3 DEF Table!Next
<1> QED
  BY <1>5, <1>6

LEMMA TableStep ==
  ASSUME Inv, TypeOK, RowInv', TypeOK', [Next]_vars
  PROVE  [Table!Next]_(Table!tvars)
<1>1. ASSUME NEW h \in Handlers, CreateFile(h) PROVE Table!Next
  <2>1. PICK s \in Sessions \ created :
           created' = created \cup {s} /\ expected' = [expected EXCEPT ![s] = req[h].len]
    BY <1>1 DEF CreateFile
  <2>2. expected'[s] = req[h].len /\ expected'[s] \in Nat
    BY <2>1 DEF TypeOK
  <2>3. Table!Open(s)
    BY <1>1, <2>1, <2>2 DEF Table!Open, CreateFile, dbVars
  <2> QED
    BY <2>3 DEF Table!Next
<1>2. ASSUME NEW h \in Handlers, InsertRow(h) PROVE [Table!Next]_(Table!tvars)
  BY <1>2, RecordStep
<1>3. UNCHANGED <<created, expected, rows>> => Table!Next
  BY CauseGrows, StrikeStep DEF Inv, TypeOK
<1>4. ASSUME NEW h \in Handlers, Request(h) \/ HandlerStep(h)
      PROVE  CreateFile(h) \/ InsertRow(h) \/ UNCHANGED <<created, expected, rows>>
  BY <1>4 DEF Request, InitCheck, ChunkBegin, AbortBegin, HandlerStep, FindNone, CreateSession,
     CreateSessionFails, ResumeRead, ResumePersist, ChunkTurnedAway, ChunkLock, ChunkRefused,
     ChunkCopy, ChunkFlushFails, ChunkUndo, ChunkCommit, ChunkPersist, MoveToCAS, MoveToCASFails,
     ChunkDone, InsertFails, AbortLock, AbortDelete, AbortRemove, memVars, dbVars
<1>5. Environment \/ UNCHANGED vars => UNCHANGED <<created, expected, rows>>
  BY DEF Environment, Reap, ForgetCompleted, PurgeAll, Crash, vars, memVars, dbVars
<1> QED
  BY <1>1, <1>2, <1>3, <1>4, <1>5 DEF Next

(***************************************************************************)
(* The upload handlers implement UploadTable: whatever interleavings,      *)
(* retries, aborts, purges and crashes happen, an upload is one step that  *)
(* records its whole file once, and rows are never changed.                *)
(***************************************************************************)
THEOREM TableCorrect == Spec => ImplementsTable
<1>1. Init => Table!Init
  BY DEF Init, Table!Init
<1>2. Inv /\ TypeOK /\ RowInv' /\ TypeOK' /\ [Next]_vars => [Table!Next]_(Table!tvars)
  BY TableStep
<1> QED
  BY <1>1, <1>2, InvAlways, TypeCorrect, RowAlways, PTL DEF Spec, ImplementsTable, Table!Spec
=============================================================================
