-------------------------- MODULE FileStoreProofs --------------------------
(***************************************************************************)
(* Proofs about FileStore, for any number of goroutines, contents, rows    *)
(* and challenges, and for every choice of faults, purges and crashes.     *)
(***************************************************************************)
EXTENDS FileStore, TLAPS

\* Busy and Collecting of a handler that stands at p with the operation o.
BusyWith(o) == IF o.kind = "purge" THEN Hashes ELSE (o.todo \cup {o.hash}) \ {NoHash}

Collects(p, o) == o.kind \in {"delete", "purge"} \/ p \in {"remove", "invalidate"}

\* A handler there still has to refer to the blob k, or to take it away.
Owes(p, o, k) ==
    \/ p \in {"copy", "cache", "record"} /\ o.kind \in Stores /\ ~ o.existed /\ o.hash = k
    \/ p \in {"gc", "remove"} /\ k \in o.todo
    \/ p = "invalidate" /\ k \in o.todo \ {o.hash}

\* Which operations can be where.
OpOK(p, o) ==
    /\ p = "idle" => o = NoOp
    /\ p # "idle" => o.kind # "none"
    /\ p \in {"exists", "stat", "fill"} => o.kind \in Stores \cup {"init", "pow"}
    /\ p = "open" => o.kind = "pow"
    /\ p \in {"rename", "copy", "cache"} => o.kind \in Stores
    /\ p \in {"exists", "stat", "fill", "rename", "copy", "cache"} => ~ o.existed
    /\ p = "record" => o.kind \in Stores \cup {"pow"}
    /\ p \in {"delrow", "gc"} => o.kind = "delete"
    /\ p \in {"remove", "invalidate"} =>
          o.hash \in o.todo /\ (o.kind = "delete" \/ (o.kind = "upload" /\ o.todo = {o.hash}))
    /\ p \in {"shred", "clear", "wipe"} <=> o.kind = "purge"
    /\ p \notin {"idle", "gc", "shred", "clear", "wipe"} => o.hash \in Hashes
    /\ p = "gc" => o.todo # {}

OpInv == \A h \in Handlers : OpOK(pc[h], op[h])

\* A hash two handlers work on, one of which may remove its blob, is endangered.
OverlapInv ==
    \A g, h \in Handlers : g # h /\ Collecting(g) => Busy(g) \cap Busy(h) \subseteq endangered

\* A blob that was found or made is still there when its row is written.
FoundInv ==
    \A h \in Handlers :
        pc[h] \in {"fill", "copy", "cache", "record"} => op[h].hash \in blobs \cup endangered

\* A count of zero still holds when the blob is removed.
CountInv ==
    \A h \in Handlers : pc[h] = "remove" => op[h].hash \in endangered \/ ~ Referenced(op[h].hash)

\* A cached hash without its blob awaits Invalidate or the purge.
CachedInv ==
    \A k \in cache : \/ k \in blobs \cup endangered
                     \/ \E g \in Handlers : \/ pc[g] = "invalidate" /\ op[g].hash = k
                                            \/ pc[g] = "clear"

\* After the shredding, new blobs come from operations that overlap the purge.
ShreddedInv == \A h \in Handlers : pc[h] \in {"clear", "wipe"} => blobs \subseteq endangered

\* A blob without a row is owed one, or its removal, by some handler.
OwedInv ==
    \A k \in blobs : \/ Referenced(k) \/ k \in endangered \cup littered
                     \/ \E h \in Handlers : Owes(pc[h], op[h], k)

StoreInv ==
    /\ TypeOK /\ OpInv /\ OverlapInv /\ FoundInv /\ CountInv
    /\ RowsHaveBlobs /\ CachedInv /\ ShreddedInv /\ OwedInv

-----------------------------------------------------------------------------
(* What a step of one handler has to respect, part by part. *)

DataType ==
    /\ ref \in [Files -> Hashes \cup {NoHash}]
    /\ trashed \subseteq Rows
    /\ blobs \subseteq Hashes
    /\ cache \subseteq Hashes
    /\ challenge \in [Nonces -> Hashes \cup {NoHash}]
    /\ endangered \subseteq Hashes
    /\ littered \subseteq Hashes

\* Handler h goes to p with the operation o.
Becomes(h, p, o) ==
    /\ pc' = [pc EXCEPT ![h] = p]
    /\ op' = [op EXCEPT ![h] = o]

FitType(p, o) ==
    /\ p \in PCs /\ o \in Operation /\ OpOK(p, o)
    /\ DataType'
    /\ endangered \subseteq endangered' /\ littered \subseteq littered'

FitOverlap(h, p, o) ==
    \A g \in Handlers \ {h} :
        Collecting(g) \/ Collects(p, o) => BusyWith(o) \cap Busy(g) \subseteq endangered'

FitBlobs(h, p, o) ==
    /\ blobs' \subseteq blobs \cup Busy(h)
    /\ \A k \in blobs \ blobs' : \A g \in Handlers \ {h} : k \in Busy(g) => k \in endangered'
    /\ p \in {"fill", "copy", "cache", "record"} => o.hash \in blobs' \cup endangered'
    /\ p \in {"clear", "wipe"} => blobs' \subseteq endangered'

FitRows(h, p, o) ==
    /\ \A k \in Hashes : Referenced(k)' =>
          \/ Referenced(k)
          \/ \A g \in Handlers \ {h} : Collecting(g) /\ k \in Busy(g) => k \in endangered'
    /\ \A k \in Hashes : Referenced(k)' =>
          \/ k \in blobs' \cup endangered' \/ o.kind = "purge"
          \/ Referenced(k) /\ k \notin blobs \ blobs' /\ op[h].kind # "purge"
    /\ p = "remove" => o.hash \in endangered' \/ ~ Referenced(o.hash)'

FitCache(h, p, o) ==
    /\ cache' \subseteq cache \cup blobs' \cup endangered'
    /\ \A k \in cache' \cap (blobs \ blobs') :
          k \in endangered' \/ (p = "invalidate" /\ o.hash = k) \/ p = "clear"
    /\ pc[h] = "invalidate" => op[h].hash \notin cache'
    /\ pc[h] = "clear" => cache' = {}

FitOwed(h, p, o) ==
    \A k \in blobs' :
        \/ Referenced(k)' \/ k \in endangered' \cup littered' \/ Owes(p, o, k)
        \/ k \in blobs /\ ~ Referenced(k) /\ ~ Owes(pc[h], op[h], k)

Fits(h, p, o) ==
    /\ FitType(p, o) /\ FitOverlap(h, p, o) /\ FitBlobs(h, p, o)
    /\ FitRows(h, p, o) /\ FitCache(h, p, o) /\ FitOwed(h, p, o)

LEMMA FitStep ==
  ASSUME StoreInv, NEW h \in Handlers, NEW p, NEW o, Becomes(h, p, o), Fits(h, p, o)
  PROVE  StoreInv'
<1> USE DEF StoreInv, Fits
<1>1. /\ p \in PCs /\ o \in Operation /\ OpOK(p, o) /\ DataType'
      /\ endangered \subseteq endangered' /\ littered \subseteq littered'
  BY DEF FitType
<1>2. /\ pc'[h] = p /\ op'[h] = o
      /\ \A g \in Handlers \ {h} : pc'[g] = pc[g] /\ op'[g] = op[g]
      /\ pc' \in [Handlers -> PCs] /\ op' \in [Handlers -> Operation]
  BY <1>1 DEF Becomes, TypeOK
<1>3. /\ Busy(h)' = BusyWith(o) /\ (Collecting(h)' <=> Collects(p, o))
      /\ \A g \in Handlers \ {h} : Busy(g)' = Busy(g) /\ (Collecting(g)' <=> Collecting(g))
  BY <1>2 DEF Busy, BusyWith, Collecting, Collects
<1>4. OpInv'
  BY <1>1, <1>2 DEF OpInv
<1>5. TypeOK'
  <2>1. ASSUME NEW g \in Handlers
        PROVE  (pc'[g] = "idle" <=> op'[g] = NoOp) /\ (pc'[g] = "gc" => op'[g].todo # {})
    <3>1. OpOK(pc'[g], op'[g])
      BY <1>1, <1>2 DEF OpInv
    <3> QED
      BY <3>1 DEF OpOK, NoOp
  <2> QED
    BY <1>1, <1>2, <2>1 DEF TypeOK, DataType
<1>6. OverlapInv'
  <2> SUFFICES ASSUME NEW f \in Handlers, NEW g \in Handlers, f # g, Collecting(f)'
               PROVE  Busy(f)' \cap Busy(g)' \subseteq endangered'
    BY DEF OverlapInv
  <2>1. CASE f # h /\ g # h
    BY <1>1, <1>3, <2>1 DEF OverlapInv
  <2>2. CASE f = h
    <3>1. g \in Handlers \ {h}
      BY <2>2
    <3> QED
      BY <1>3, <2>2, <3>1 DEF FitOverlap
  <2>3. CASE g = h
    <3>1. f \in Handlers \ {h}
      BY <2>3
    <3> QED
      BY <1>3, <2>3, <3>1 DEF FitOverlap
  <2> QED
    BY <2>1, <2>2, <2>3
<1>7. FoundInv'
  <2> SUFFICES ASSUME NEW g \in Handlers, pc'[g] \in {"fill", "copy", "cache", "record"}
               PROVE  op'[g].hash \in blobs' \cup endangered'
    BY DEF FoundInv
  <2>1. CASE g = h
    BY <1>2, <2>1 DEF FitBlobs
  <2>2. CASE g # h
    <3>1. pc[g] \in {"fill", "copy", "cache", "record"} /\ op'[g] = op[g]
      BY <1>2, <2>2
    <3>2. op[g].hash \in blobs \cup endangered
      BY <3>1 DEF FoundInv
    <3>3. op[g].hash \in Busy(g)
      BY <3>1, StoreConstants DEF OpInv, OpOK, Busy, Stores
    <3> QED
      BY <1>1, <2>2, <3>1, <3>2, <3>3 DEF FitBlobs
  <2> QED
    BY <2>1, <2>2
<1>8. CountInv'
  <2> SUFFICES ASSUME NEW g \in Handlers, pc'[g] = "remove", NEW k, k = op'[g].hash, Referenced(k)'
               PROVE  k \in endangered'
    BY DEF CountInv, Referenced
  <2>1. CASE g = h
    BY <1>2, <2>1 DEF FitRows, Referenced
  <2>2. CASE g # h
    <3>1. pc[g] = "remove" /\ k = op[g].hash
      BY <1>2, <2>2
    <3>2. k \in Hashes /\ k \in Busy(g) /\ Collecting(g)
      BY <3>1, StoreConstants DEF OpInv, OpOK, Busy, Collecting
    <3>3. k \in endangered \/ ~ Referenced(k)
      BY <3>1 DEF CountInv
    <3> QED
      BY <1>1, <2>2, <3>2, <3>3 DEF FitRows
  <2> QED
    BY <2>1, <2>2
<1>9. RowsHaveBlobs'
  <2> SUFFICES ASSUME NEW f \in Files, NEW k \in Hashes, k = ref'[f]
               PROVE  k \in blobs' \cup endangered' \/ Purging'
    BY <1>1 DEF RowsHaveBlobs, Rows, DataType
  <2>1. Referenced(k)'
    BY DEF Referenced
  <2>2. CASE o.kind = "purge"
    BY <1>2, <2>2 DEF Purging
  <2>3. CASE Referenced(k) /\ k \notin blobs \ blobs' /\ op[h].kind # "purge"
    <3>1. k \in blobs \cup endangered \/ Purging
      BY <2>3, StoreConstants DEF RowsHaveBlobs, Referenced, Rows
    <3>2. ASSUME Purging
          PROVE  Purging'
      BY <1>2, <2>3, <3>2 DEF Purging
    <3> QED
      BY <1>1, <2>3, <3>1, <3>2
  <2> QED
    BY <2>1, <2>2, <2>3 DEF FitRows
<1>10. CachedInv'
  <2> SUFFICES ASSUME NEW k \in cache', k \notin blobs' \cup endangered'
               PROVE  \E g \in Handlers : \/ pc'[g] = "invalidate" /\ op'[g].hash = k
                                          \/ pc'[g] = "clear"
    BY DEF CachedInv
  <2>1. k \in cache
    BY DEF FitCache
  <2>2. CASE k \in blobs \cup endangered
    <3>1. k \in cache' \cap (blobs \ blobs')
      BY <1>1, <2>2
    <3>2. (p = "invalidate" /\ o.hash = k) \/ p = "clear"
      BY <3>1 DEF FitCache
    <3> QED
      BY <1>2, <3>2
  <2>3. CASE k \notin blobs \cup endangered
    <3>1. PICK g \in Handlers : (pc[g] = "invalidate" /\ op[g].hash = k) \/ pc[g] = "clear"
      BY <2>1, <2>3 DEF CachedInv
    <3>2. g # h
      BY <3>1 DEF FitCache
    <3> QED
      BY <1>2, <3>1, <3>2
  <2> QED
    BY <2>2, <2>3
<1>11. ShreddedInv'
  <2> SUFFICES ASSUME NEW g \in Handlers, pc'[g] \in {"clear", "wipe"}
               PROVE  blobs' \subseteq endangered'
    BY DEF ShreddedInv
  <2>1. CASE g = h
    BY <1>2, <2>1 DEF FitBlobs
  <2>2. CASE g # h
    <3>1. pc[g] \in {"clear", "wipe"}
      BY <1>2, <2>2
    <3>2. blobs \subseteq endangered
      BY <3>1 DEF ShreddedInv
    <3>3. Busy(g) = Hashes /\ Collecting(g)
      BY <3>1 DEF OpInv, OpOK, Busy, Collecting
    <3>4. Busy(g) \cap Busy(h) \subseteq endangered
      BY <2>2, <3>3 DEF OverlapInv
    <3>5. blobs' \subseteq blobs \cup Busy(h) /\ blobs' \subseteq Hashes
      BY <1>1 DEF FitBlobs, DataType
    <3> QED
      BY <1>1, <3>2, <3>3, <3>4, <3>5
  <2> QED
    BY <2>1, <2>2
<1>12. OwedInv'
  <2> SUFFICES ASSUME NEW k \in blobs', ~ Referenced(k)', k \notin endangered' \cup littered'
               PROVE  \E g \in Handlers : Owes(pc'[g], op'[g], k)
    BY DEF OwedInv, Owes, Referenced
  <2>1. CASE Owes(p, o, k)
    BY <1>2, <2>1
  <2>2. CASE k \in blobs /\ ~ Referenced(k) /\ ~ Owes(pc[h], op[h], k)
    <3>1. k \notin endangered \cup littered
      BY <1>1
    <3>2. PICK g \in Handlers : Owes(pc[g], op[g], k)
      BY <2>2, <3>1 DEF OwedInv
    <3>3. g # h
      BY <2>2, <3>2
    <3> QED
      BY <1>2, <3>2, <3>3
  <2> QED
    BY <2>1, <2>2 DEF FitOwed
<1> QED
  BY <1>4, <1>5, <1>6, <1>7, <1>8, <1>9, <1>10, <1>11, <1>12

-----------------------------------------------------------------------------
(* Facts about one handler. *)

LEMMA NoOpType == NoOp \in Operation
  BY DEF NoOp, Operation, Kinds, Stores

LEMMA IdleOK == "idle" \in PCs /\ OpOK("idle", NoOp) /\ BusyWith(NoOp) = {} /\ ~ Collects("idle", NoOp)
  BY DEF PCs, OpOK, NoOp, BusyWith, Collects, Stores

LEMMA DataTyped ==
  ASSUME StoreInv
  PROVE  DataType
  BY DEF StoreInv, TypeOK, DataType

\* The operation of a handler, as a value.
LEMMA OpOf ==
  ASSUME StoreInv, NEW h \in Handlers
  PROVE  \E x \in Operation :
            /\ x = op[h] /\ OpOK(pc[h], x) /\ Busy(h) = BusyWith(x)
            /\ x.kind \in Kinds /\ x.hash \in Hashes \cup {NoHash} /\ x.existed \in BOOLEAN
            /\ x.todo \in SUBSET Hashes
  BY DEF StoreInv, TypeOK, OpInv, Busy, BusyWith, Operation

\* A hash a handler works on is endangered as soon as another may remove its blob.
LEMMA Overlap ==
  ASSUME StoreInv, NEW h \in Handlers, NEW g \in Handlers, g # h, Collecting(g) \/ Collecting(h),
         NEW k \in Busy(h), k \in Busy(g)
  PROVE  k \in endangered
  BY DEF StoreInv, OverlapInv

\* A referenced hash has its blob, or is endangered, or all of them are being purged.
LEMMA RowHasBlob ==
  ASSUME StoreInv, NEW k \in Hashes, Referenced(k)
  PROVE  k \in blobs \cup endangered \/ Purging
  BY StoreConstants DEF StoreInv, RowsHaveBlobs, Referenced, Rows

\* A handler that works on a hash can believe the cache.
LEMMA CacheRight ==
  ASSUME StoreInv, NEW h \in Handlers, pc[h] = "exists", op[h].hash \in cache
  PROVE  op[h].hash \in blobs \cup endangered
<1>1. PICK x \in Operation : /\ x = op[h] /\ OpOK(pc[h], x) /\ Busy(h) = BusyWith(x)
  BY OpOf
<1>2. x.hash \in Hashes /\ x.hash \in Busy(h) /\ x.kind # "purge"
  BY <1>1, StoreConstants DEF OpOK, BusyWith, Stores
<1>3. ASSUME NEW g \in Handlers, (pc[g] = "invalidate" /\ op[g].hash = x.hash) \/ pc[g] = "clear"
      PROVE  x.hash \in endangered
  <2>1. PICK y \in Operation : /\ y = op[g] /\ OpOK(pc[g], y) /\ Busy(g) = BusyWith(y)
    BY OpOf
  <2>2. g # h /\ Collecting(g) /\ x.hash \in Busy(g)
    BY <1>2, <1>3, <2>1, StoreConstants DEF OpOK, BusyWith, Collecting
  <2> QED
    BY <1>2, <2>2, Overlap
<1> QED
  BY <1>1, <1>3 DEF StoreInv, CachedInv

\* An operation that goes on with what it works on overlaps nothing new.
LEMMA OverlapShrinks ==
  ASSUME StoreInv, NEW h \in Handlers, NEW p, NEW o, BusyWith(o) \subseteq Busy(h),
         Collects(p, o) => Collecting(h), endangered \subseteq endangered'
  PROVE  FitOverlap(h, p, o)
  BY Overlap DEF FitOverlap

LEMMA CacheGrows ==
  ASSUME NEW h \in Handlers, NEW p, NEW o, pc[h] \notin {"invalidate", "clear"},
         UNCHANGED blobs, cache' \subseteq cache \cup blobs \cup endangered'
  PROVE  FitCache(h, p, o)
  BY DEF FitCache

\* A step that leaves the rows and the blobs alone.
LEMMA QuietFits ==
  ASSUME StoreInv, NEW h \in Handlers, NEW p, NEW o, UNCHANGED <<ref, blobs>>,
         FitType(p, o), FitOverlap(h, p, o), FitCache(h, p, o),
         p \in {"fill", "copy", "cache", "record"} => o.hash \in blobs \cup endangered',
         p \in {"clear", "wipe"} => blobs \subseteq endangered',
         p = "remove" => o.hash \in endangered' \/ ~ Referenced(o.hash),
         o.kind = "purge" \/ op[h].kind # "purge",
         \A k \in blobs : Owes(pc[h], op[h], k) =>
            Owes(p, o, k) \/ Referenced(k) \/ k \in endangered' \cup littered'
  PROVE  Fits(h, p, o)
<1>1. \A k : Referenced(k)' <=> Referenced(k)
  BY DEF Referenced
<1>2. FitBlobs(h, p, o)
  BY DEF FitBlobs
<1>3. FitRows(h, p, o)
  BY <1>1 DEF FitRows, Referenced
<1>4. FitOwed(h, p, o)
  BY <1>1 DEF FitOwed
<1> QED
  BY <1>2, <1>3, <1>4 DEF Fits

\* The request ends, and owed nothing.
LEMMA ReturnStep ==
  ASSUME StoreInv, NEW h \in Handlers, Return(h), UNCHANGED <<ref, blobs, cache>>, DataType',
         endangered \subseteq endangered', littered \subseteq littered',
         pc[h] \notin {"invalidate", "clear"}, op[h].kind # "purge",
         \A k \in blobs : Owes(pc[h], op[h], k) => Referenced(k) \/ k \in endangered' \cup littered'
  PROVE  StoreInv'
<1>1. Becomes(h, "idle", NoOp)
  BY DEF Return, Goto, Becomes
<1>2. FitType("idle", NoOp)
  BY IdleOK, NoOpType DEF FitType
<1>3. FitOverlap(h, "idle", NoOp) /\ FitCache(h, "idle", NoOp)
  BY IdleOK, OverlapShrinks, CacheGrows
<1>4. Fits(h, "idle", NoOp)
  BY <1>2, <1>3, QuietFits
<1> QED
  BY <1>1, <1>4, FitStep

\* The request goes on at p, with the same operation, and owes what it owed.
LEMMA GotoStep ==
  ASSUME StoreInv, NEW h \in Handlers, NEW p \in PCs, Goto(h, p), UNCHANGED op,
         UNCHANGED <<ref, trashed, blobs>>, DataType', UNCHANGED history,
         OpOK(p, op[h]), p \notin {"remove", "invalidate", "clear"},
         FitCache(h, p, op[h]),
         p \in {"fill", "copy", "cache", "record"} => op[h].hash \in blobs \cup endangered,
         p = "wipe" => blobs \subseteq endangered,
         \A k \in blobs : Owes(pc[h], op[h], k) => Owes(p, op[h], k)
  PROVE  StoreInv'
<1>1. PICK x \in Operation : x = op[h] /\ Busy(h) = BusyWith(x)
  BY OpOf
<1>2. Becomes(h, p, x)
  BY <1>1 DEF Becomes, Goto, StoreInv, TypeOK
<1>3. FitType(p, x)
  BY <1>1 DEF FitType, history
<1>4. FitOverlap(h, p, x)
  <2>1. Collects(p, x) => Collecting(h)
    BY <1>1 DEF Collects, Collecting
  <2> QED
    BY <1>1, <2>1, OverlapShrinks DEF history
<1>5. Fits(h, p, x)
  BY <1>1, <1>3, <1>4, QuietFits DEF history
<1> QED
  BY <1>2, <1>5, FitStep

-----------------------------------------------------------------------------
(* The steps of Exists, of challenges and of stores that keep the rows. *)

\* Exists has answered TRUE.
LEMMA StoreFound ==
  ASSUME StoreInv, NEW h \in Handlers, pc[h] \in {"exists", "fill"}, Found(h),
         op[h].hash \in blobs \cup endangered,
         UNCHANGED <<dbVars, blobs, challenge, history>>,
         cache' = cache \/ cache' = cache \cup {op[h].hash}
  PROVE  StoreInv'
<1>1. PICK x \in Operation :
         /\ x = op[h] /\ OpOK(pc[h], x) /\ Busy(h) = BusyWith(x)
         /\ x.kind \in Kinds /\ x.hash \in Hashes \cup {NoHash} /\ x.existed \in BOOLEAN
         /\ x.todo \in SUBSET Hashes
  BY OpOf
<1>2. /\ x.kind \in Stores \cup {"init", "pow"} /\ ~ x.existed /\ x.hash \in Hashes
      /\ x.kind # "none" /\ x.kind # "purge"
  BY <1>1 DEF OpOK, Stores
<1>3. DataType'
  BY <1>1, <1>2, DataTyped DEF DataType, Rows, dbVars, history
<1>4. \A p, o : FitCache(h, p, o)
  BY <1>1 DEF FitCache, history
<1>5. UNCHANGED <<ref, trashed, blobs>> /\ \A k : ~ Owes(pc[h], x, k)
  BY DEF dbVars, Owes
<1>6. CASE x.kind \in {"init", "pow"}
  <2>1. CASE x.kind = "init"
    <3>1. Goto(h, "issue") /\ UNCHANGED op /\ "issue" \in PCs
      BY <1>1, <2>1 DEF Found, PCs
    <3>2. OpOK("issue", x)
      BY <1>2, <2>1 DEF OpOK
    <3> QED
      BY <1>1, <1>3, <1>4, <1>5, <3>1, <3>2, GotoStep
  <2>2. CASE x.kind = "pow"
    <3>1. Goto(h, "open") /\ UNCHANGED op /\ "open" \in PCs
      BY <1>1, <2>2 DEF Found, PCs
    <3>2. OpOK("open", x)
      BY <1>2, <2>2 DEF OpOK
    <3> QED
      BY <1>1, <1>3, <1>4, <1>5, <3>1, <3>2, GotoStep
  <2> QED
    BY <1>6, <2>1, <2>2
<1>7. CASE x.kind \in Stores
  <2> DEFINE o == [x EXCEPT !.existed = TRUE]
  <2>1. /\ o \in Operation /\ o.kind = x.kind /\ o.hash = x.hash /\ o.existed = TRUE
        /\ o.todo = x.todo
    BY <1>1 DEF Operation
  <2>2. Becomes(h, "record", o)
    <3>1. x.kind # "init" /\ x.kind # "pow"
      BY <1>7 DEF Stores
    <3>2. Goto(h, "record") /\ op' = [op EXCEPT ![h].existed = TRUE]
      BY <1>1, <3>1 DEF Found
    <3> QED
      BY <1>1, <3>2 DEF Becomes, Goto
  <2> HIDE DEF o
  <2>3. OpOK("record", o) /\ "record" \in PCs
    BY <1>2, <1>7, <2>1 DEF OpOK, PCs, Stores
  <2>4. FitType("record", o)
    BY <1>3, <2>1, <2>3 DEF FitType, history
  <2>5. FitOverlap(h, "record", o)
    <3>1. BusyWith(o) \subseteq Busy(h) /\ (Collects("record", o) => Collecting(h))
      BY <1>1, <2>1 DEF BusyWith, Collects, Collecting
    <3> QED
      BY <3>1, OverlapShrinks DEF history
  <2>6. Fits(h, "record", o)
    BY <1>1, <1>2, <1>4, <1>5, <2>1, <2>4, <2>5, QuietFits DEF history
  <2> QED
    BY <2>2, <2>6, FitStep
<1> QED
  BY <1>2, <1>6, <1>7

LEMMA StoreExistsCached ==
  ASSUME StoreInv, NEW h \in Handlers, ExistsCached(h)
  PROVE  StoreInv'
<1>1. pc[h] = "exists" /\ UNCHANGED <<dbVars, casVars, challenge, history>>
  BY DEF ExistsCached
<1>2. CASE op[h].hash \in cache
  BY <1>1, <1>2, CacheRight, StoreFound DEF ExistsCached, casVars
<1>3. CASE op[h].hash \notin cache
  <2>1. Goto(h, "stat") /\ UNCHANGED op /\ UNCHANGED <<ref, trashed, blobs, cache>>
    BY <1>1, <1>3 DEF ExistsCached, dbVars, casVars
  <2>2. DataType'
    BY <1>1, <2>1, DataTyped DEF DataType, Rows, history
  <2>3. OpOK("stat", op[h]) /\ "stat" \in PCs
    BY <1>1, OpOf DEF OpOK, PCs, Stores
  <2>4. FitCache(h, "stat", op[h]) /\ \A k : ~ Owes(pc[h], op[h], k)
    BY <1>1, <2>1 DEF FitCache, Owes
  <2> QED
    BY <1>1, <2>1, <2>2, <2>3, <2>4, GotoStep
<1> QED
  BY <1>2, <1>3

LEMMA StoreExistsStat ==
  ASSUME StoreInv, NEW h \in Handlers, ExistsStat(h)
  PROVE  StoreInv'
<1>1. /\ pc[h] = "stat" /\ UNCHANGED <<ref, trashed, blobs, cache, challenge, endangered, littered>>
      /\ UNCHANGED history
  BY DEF ExistsStat, dbVars, casVars, history
<1>2. DataType'
  BY <1>1, DataTyped DEF DataType, Rows
<1>3. OpOK("stat", op[h]) /\ \A k : ~ Owes(pc[h], op[h], k)
  BY <1>1, OpOf DEF Owes
<1>4. CASE Return(h)
  <2>1. op[h].kind # "purge"
    BY <1>3 DEF OpOK
  <2> QED
    BY <1>1, <1>2, <1>3, <1>4, <2>1, ReturnStep
<1>5. CASE op[h].hash \in blobs
  <2>1. Goto(h, "fill") /\ UNCHANGED op /\ "fill" \in PCs
    BY <1>5 DEF ExistsStat, PCs
  <2>2. OpOK("fill", op[h])
    BY <1>3 DEF OpOK, Stores
  <2>3. FitCache(h, "fill", op[h])
    BY <1>1 DEF FitCache
  <2> QED
    BY <1>1, <1>2, <1>3, <1>5, <2>1, <2>2, <2>3, GotoStep
<1>6. CASE op[h].hash \notin blobs /\ op[h].kind \in Stores
  <2>1. Goto(h, "rename") /\ UNCHANGED op /\ "rename" \in PCs
    BY <1>6 DEF ExistsStat, PCs
  <2>2. OpOK("rename", op[h])
    BY <1>3, <1>6 DEF OpOK, Stores
  <2>3. FitCache(h, "rename", op[h])
    BY <1>1 DEF FitCache
  <2> QED
    BY <1>1, <1>2, <1>3, <2>1, <2>2, <2>3, GotoStep
<1> QED
  BY <1>4, <1>5, <1>6 DEF ExistsStat

LEMMA StoreExistsFill ==
  ASSUME StoreInv, NEW h \in Handlers, ExistsFill(h)
  PROVE  StoreInv'
<1>1. op[h].hash \in blobs \cup endangered
  BY DEF ExistsFill, StoreInv, FoundInv
<1> QED
  BY <1>1, StoreFound DEF ExistsFill

LEMMA StoreCacheStore ==
  ASSUME StoreInv, NEW h \in Handlers, CacheStore(h)
  PROVE  StoreInv'
<1>1. /\ pc[h] = "cache" /\ cache' = cache \cup {op[h].hash} /\ Goto(h, "record") /\ UNCHANGED op
      /\ UNCHANGED <<ref, trashed, blobs, challenge, endangered, littered>> /\ UNCHANGED history
  BY DEF CacheStore, dbVars, history
<1>2. OpOK("cache", op[h]) /\ op[h].hash \in blobs \cup endangered
  BY <1>1, OpOf DEF StoreInv, FoundInv
<1>3. DataType'
  BY <1>1, <1>2, DataTyped DEF DataType, Rows, OpOK
<1>4. OpOK("record", op[h]) /\ "record" \in PCs
  BY <1>2 DEF OpOK, PCs, Stores
<1>5. FitCache(h, "record", op[h])
  BY <1>1, <1>2 DEF FitCache
<1>6. \A k \in blobs : Owes(pc[h], op[h], k) => Owes("record", op[h], k)
  BY <1>1 DEF Owes
<1> QED
  BY <1>1, <1>2, <1>3, <1>4, <1>5, <1>6, GotoStep

\* A request that ends with nothing but its challenge changed.
LEMMA StoreEnds ==
  ASSUME StoreInv, NEW h \in Handlers, Return(h), pc[h] \in {"rename", "issue", "open", "delrow"},
         UNCHANGED <<dbVars, casVars, history>>,
         challenge' \in [Nonces -> Hashes \cup {NoHash}]
  PROVE  StoreInv'
<1>1. UNCHANGED <<ref, trashed, blobs, cache, endangered, littered>>
  BY DEF dbVars, casVars, history
<1>2. DataType'
  BY <1>1, DataTyped DEF DataType, Rows
<1>3. op[h].kind # "purge" /\ \A k : ~ Owes(pc[h], op[h], k)
  BY OpOf DEF OpOK, Owes
<1> QED
  BY <1>1, <1>2, <1>3, ReturnStep

LEMMA StoreRenameFails ==
  ASSUME StoreInv, NEW h \in Handlers, RenameFails(h)
  PROVE  StoreInv'
  BY StoreEnds, DataTyped DEF RenameFails, DataType

LEMMA StoreIssueFails ==
  ASSUME StoreInv, NEW h \in Handlers, IssueFails(h)
  PROVE  StoreInv'
  BY StoreEnds, DataTyped DEF IssueFails, DataType

LEMMA StoreVerifyFails ==
  ASSUME StoreInv, NEW h \in Handlers, VerifyFails(h)
  PROVE  StoreInv'
  BY StoreEnds, DataTyped DEF VerifyFails, DataType

LEMMA StoreDeleteFails ==
  ASSUME StoreInv, NEW h \in Handlers, DeleteFails(h)
  PROVE  StoreInv'
  BY StoreEnds, DataTyped DEF DeleteFails, DataType

LEMMA StoreIssue ==
  ASSUME StoreInv, NEW h \in Handlers, NEW n \in Nonces, IssueChallenge(h, n)
  PROVE  StoreInv'
<1>1. PICK k \in Hashes \cup {NoHash} : k = op[h].hash
  BY OpOf
<1>2. challenge' \in [Nonces -> Hashes \cup {NoHash}]
  BY <1>1, DataTyped DEF IssueChallenge, DataType
<1> QED
  BY <1>2, StoreEnds DEF IssueChallenge

LEMMA StoreVerifyOpen ==
  ASSUME StoreInv, NEW h \in Handlers, VerifyOpen(h)
  PROVE  StoreInv'
<1>1. /\ pc[h] = "open" /\ op[h].hash \in blobs /\ Goto(h, "record") /\ UNCHANGED op
      /\ UNCHANGED <<ref, trashed, blobs, cache, endangered, littered>> /\ UNCHANGED history
  BY DEF VerifyOpen, dbVars, casVars, history
<1>2. challenge' \in [Nonces -> Hashes \cup {NoHash}]
  BY DataTyped DEF VerifyOpen, DataType
<1>3. DataType'
  BY <1>1, <1>2, DataTyped DEF DataType, Rows
<1>4. OpOK("open", op[h])
  BY <1>1, OpOf
<1>5. OpOK("record", op[h]) /\ "record" \in PCs
  BY <1>4 DEF OpOK, PCs, Stores
<1>6. FitCache(h, "record", op[h]) /\ \A k : ~ Owes(pc[h], op[h], k)
  BY <1>1 DEF FitCache, Owes
<1> QED
  BY <1>1, <1>3, <1>5, <1>6, GotoStep

-----------------------------------------------------------------------------
(* Requests. *)

\* Begin notes every hash that now has two operations, one of which may remove it.
LEMMA BeginFits ==
  ASSUME StoreInv, NEW h \in Handlers, NEW p, NEW o, NEW K, Begin(h, p, o, K),
         BusyWith(o) \subseteq K, K \subseteq Hashes, p \notin {"remove", "invalidate"}
  PROVE  /\ Becomes(h, p, o) /\ pc[h] = "idle" /\ op[h] = NoOp
         /\ endangered \subseteq endangered' /\ endangered' \subseteq Hashes
         /\ UNCHANGED littered
         /\ FitOverlap(h, p, o)
         /\ Purging => K \subseteq endangered'
<1>1. /\ pc[h] = "idle" /\ Becomes(h, p, o) /\ UNCHANGED littered
      /\ endangered' = endangered \cup
            (K \cap UNION {Busy(g) : g \in {g \in Handlers \ {h} :
                                              Collecting(g) \/ o.kind \in {"delete", "purge"}}})
  BY DEF Begin, Goto, Becomes
<1>2. op[h] = NoOp
  BY <1>1 DEF StoreInv, TypeOK
<1>3. FitOverlap(h, p, o)
  BY <1>1 DEF FitOverlap, Collects
<1>4. ASSUME Purging
      PROVE  K \subseteq endangered'
  <2>1. PICK g \in Handlers : op[g].kind = "purge"
    BY <1>4 DEF Purging
  <2>2. g # h /\ Collecting(g) /\ Busy(g) = Hashes
    BY <1>2, <2>1 DEF NoOp, Collecting, Busy
  <2> QED
    BY <1>1, <2>2
<1>5. endangered \subseteq Hashes
  BY DataTyped DEF DataType
<1> QED
  BY <1>1, <1>2, <1>3, <1>4, <1>5

\* A request that begins by looking for a blob, or with a row it has read.
LEMMA BeginStep ==
  ASSUME StoreInv, NEW h \in Handlers, NEW p \in PCs, NEW o \in Operation, NEW K,
         Begin(h, p, o, K), BusyWith(o) = K, K \subseteq Hashes, OpOK(p, o),
         p \in {"exists", "record", "delrow", "shred"},
         p = "record" => o.hash \in K /\ Referenced(o.hash),
         UNCHANGED <<dbVars, casVars, challenge>>
  PROVE  StoreInv'
<1>1. /\ Becomes(h, p, o) /\ pc[h] = "idle" /\ op[h] = NoOp
      /\ endangered \subseteq endangered' /\ endangered' \subseteq Hashes
      /\ UNCHANGED littered
      /\ FitOverlap(h, p, o)
      /\ Purging => K \subseteq endangered'
  BY BeginFits
<1>2. UNCHANGED <<ref, trashed, blobs, cache, challenge>>
  BY DEF dbVars, casVars
<1>3. FitType(p, o)
  BY <1>1, <1>2, DataTyped DEF FitType, DataType, Rows
<1>4. FitCache(h, p, o)
  BY <1>1, <1>2 DEF FitCache
<1>5. p = "record" => o.hash \in blobs \cup endangered'
  BY <1>1, RowHasBlob
<1>6. op[h].kind # "purge" /\ \A k : ~ Owes(pc[h], op[h], k)
  BY <1>1 DEF NoOp, Owes
<1>7. Fits(h, p, o)
  BY <1>1, <1>2, <1>3, <1>4, <1>5, <1>6, QuietFits
<1> QED
  BY <1>1, <1>7, FitStep

LEMMA StoreLook ==
  ASSUME StoreInv, NEW h \in Handlers, NEW k \in Hashes, NEW o \in Operation,
         o.kind \in Stores \cup {"init", "pow"}, o.hash = k, o.todo = {}, o.existed = FALSE,
         Begin(h, "exists", o, {k}), UNCHANGED <<dbVars, casVars, challenge>>
  PROVE  StoreInv'
<1>1. OpOK("exists", o) /\ "exists" \in PCs
  BY DEF OpOK, PCs, Stores
<1>2. PICK K : K = {k}
  OBVIOUS
<1>3. BusyWith(o) = K /\ K \subseteq Hashes /\ Begin(h, "exists", o, K)
  BY <1>2, StoreConstants DEF BusyWith, Stores
<1> QED
  BY <1>1, <1>3, BeginStep

LEMMA StoreStoreBegin ==
  ASSUME StoreInv, NEW h \in Handlers, NEW kind \in {"upload", "download"}, NEW k \in Hashes, StoreBegin(h, kind, k)
  PROVE  StoreInv'
<1>1. PICK o : o = [NoOp EXCEPT !.kind = kind, !.hash = k]
  OBVIOUS
<1>2. /\ o \in Operation /\ o.kind \in Stores \cup {"init", "pow"}
      /\ o.hash = k /\ o.todo = {} /\ o.existed = FALSE
  BY <1>1 DEF NoOp, Operation, Kinds, Stores
<1>3. Begin(h, "exists", o, {k}) /\ UNCHANGED <<dbVars, casVars, challenge>>
  BY <1>1 DEF StoreBegin
<1> QED
  BY <1>2, <1>3, StoreLook

LEMMA StoreInitBegin ==
  ASSUME StoreInv, NEW h \in Handlers, NEW k \in Hashes, InitBegin(h, k)
  PROVE  StoreInv'
<1>1. PICK o : o = [NoOp EXCEPT !.kind = "init", !.hash = k]
  OBVIOUS
<1>2. /\ o \in Operation /\ o.kind \in Stores \cup {"init", "pow"}
      /\ o.hash = k /\ o.todo = {} /\ o.existed = FALSE
  BY <1>1 DEF NoOp, Operation, Kinds, Stores
<1>3. Begin(h, "exists", o, {k}) /\ UNCHANGED <<dbVars, casVars, challenge>>
  BY <1>1 DEF InitBegin
<1> QED
  BY <1>2, <1>3, StoreLook

LEMMA StoreMoveAcross ==
  ASSUME StoreInv, NEW h \in Handlers, NEW f \in Files, NEW k \in Hashes, MoveAcross(h, f, k)
  PROVE  StoreInv'
<1>1. PICK o : o = [NoOp EXCEPT !.kind = "move", !.hash = k, !.file = f]
  OBVIOUS
<1>2. /\ o \in Operation /\ o.kind \in Stores \cup {"init", "pow"}
      /\ o.hash = k /\ o.todo = {} /\ o.existed = FALSE
  BY <1>1 DEF NoOp, Operation, Kinds, Stores
<1>3. Begin(h, "exists", o, {k}) /\ UNCHANGED <<dbVars, casVars, challenge>>
  BY <1>1 DEF MoveAcross
<1> QED
  BY <1>2, <1>3, StoreLook

LEMMA StoreVerifyBegin ==
  ASSUME StoreInv, NEW h \in Handlers, NEW n \in Nonces, VerifyBegin(h, n)
  PROVE  StoreInv'
<1>1. PICK k \in Hashes : k = challenge[n]
  BY DataTyped DEF VerifyBegin, DataType
<1>2. PICK o : o = [NoOp EXCEPT !.kind = "pow", !.hash = k, !.nonce = n]
  OBVIOUS
<1>3. /\ o \in Operation /\ o.kind \in Stores \cup {"init", "pow"}
      /\ o.hash = k /\ o.todo = {} /\ o.existed = FALSE
  BY <1>2 DEF NoOp, Operation, Kinds, Stores
<1>4. Begin(h, "exists", o, {k}) /\ UNCHANGED <<dbVars, casVars, challenge>>
  BY <1>1, <1>2 DEF VerifyBegin
<1> QED
  BY <1>3, <1>4, StoreLook

LEMMA StoreMoveWithin ==
  ASSUME StoreInv, NEW h \in Handlers, NEW f \in Files, MoveWithin(h, f)
  PROVE  StoreInv'
<1>1. PICK k \in Hashes : k = ref[f] /\ Referenced(k)
  BY DataTyped DEF MoveWithin, DataType, Rows, Referenced
<1>2. PICK o : o = [NoOp EXCEPT !.kind = "move", !.hash = k, !.file = f]
  OBVIOUS
<1>3. o \in Operation /\ o.kind = "move" /\ o.hash = k /\ o.todo = {} /\ o.existed = FALSE
  BY <1>2 DEF NoOp, Operation, Kinds, Stores
<1>4. OpOK("record", o) /\ "record" \in PCs
  BY <1>3 DEF OpOK, PCs, Stores
<1>5. PICK K : K = {k}
  OBVIOUS
<1>6. BusyWith(o) = K /\ K \subseteq Hashes /\ Begin(h, "record", o, K) /\ o.hash \in K
  BY <1>1, <1>2, <1>3, <1>5, StoreConstants DEF BusyWith, MoveWithin
<1> QED
  BY <1>1, <1>3, <1>4, <1>6, BeginStep DEF MoveWithin

LEMMA StoreDeleteBegin ==
  ASSUME StoreInv, NEW h \in Handlers, NEW f \in Files, DeleteBegin(h, f)
  PROVE  StoreInv'
<1>1. PICK k \in Hashes : k = ref[f]
  BY DataTyped DEF DeleteBegin, DataType, Rows
<1>2. PICK o : o = [NoOp EXCEPT !.kind = "delete", !.hash = k, !.file = f]
  OBVIOUS
<1>3. o \in Operation /\ o.kind = "delete" /\ o.hash = k /\ o.todo = {}
  BY <1>2 DEF NoOp, Operation, Kinds
<1>4. OpOK("delrow", o) /\ "delrow" \in PCs
  BY <1>3 DEF OpOK, PCs, Stores
<1>5. PICK K : K = {k}
  OBVIOUS
<1>6. BusyWith(o) = K /\ K \subseteq Hashes /\ Begin(h, "delrow", o, K)
  BY <1>1, <1>2, <1>3, <1>5, StoreConstants DEF BusyWith, DeleteBegin
<1> QED
  BY <1>1, <1>3, <1>4, <1>6, BeginStep DEF DeleteBegin

LEMMA StorePurgeBegin ==
  ASSUME StoreInv, NEW h \in Handlers, PurgeBegin(h)
  PROVE  StoreInv'
<1>1. PICK o : o = [NoOp EXCEPT !.kind = "purge"]
  OBVIOUS
<1>2. o \in Operation /\ o.kind = "purge"
  BY <1>1 DEF NoOp, Operation, Kinds
<1>3. OpOK("shred", o) /\ "shred" \in PCs
  BY <1>2 DEF OpOK, PCs, Stores
<1>4. BusyWith(o) = Hashes /\ Begin(h, "shred", o, Hashes)
  BY <1>1, <1>2 DEF BusyWith, PurgeBegin
<1> QED
  BY <1>2, <1>3, <1>4, BeginStep DEF PurgeBegin

\* The rows are gone and their hashes are on the list.
LEMMA StoreEmptyTrash ==
  ASSUME StoreInv, NEW h \in Handlers, NEW T \in SUBSET Files, EmptyTrash(h, T)
  PROVE  StoreInv'
<1>1. /\ T # {} /\ T \subseteq trashed /\ trashed' = trashed \ T
      /\ ref' = [f \in Files |-> IF f \in T THEN NoHash ELSE ref[f]]
      /\ UNCHANGED <<blobs, cache, challenge>>
  BY DEF EmptyTrash, casVars
<1>2. PICK K \in SUBSET Hashes : K = {ref[f] : f \in T}
  BY <1>1, DataTyped DEF DataType, Rows
<1>3. PICK o : o = [NoOp EXCEPT !.kind = "delete", !.todo = K]
  OBVIOUS
<1>4. o \in Operation /\ o.kind = "delete" /\ o.hash = NoHash /\ o.todo = K
  BY <1>2, <1>3 DEF NoOp, Operation, Kinds
<1>5. OpOK("gc", o) /\ "gc" \in PCs
  BY <1>1, <1>2, <1>4 DEF OpOK, PCs, Stores
<1>6. BusyWith(o) = K /\ Begin(h, "gc", o, K)
  BY <1>2, <1>3, <1>4, StoreConstants DEF BusyWith, EmptyTrash
<1>7. /\ Becomes(h, "gc", o) /\ pc[h] = "idle" /\ op[h] = NoOp
      /\ endangered \subseteq endangered' /\ endangered' \subseteq Hashes
      /\ UNCHANGED littered
      /\ FitOverlap(h, "gc", o)
  BY <1>2, <1>6, BeginFits
<1>8. \A k \in Hashes : /\ Referenced(k)' => Referenced(k)
                        /\ Referenced(k) /\ k \notin K => Referenced(k)'
  BY <1>1, <1>2, StoreConstants DEF Referenced
<1>9. DataType'
  BY <1>1, <1>7, DataTyped DEF DataType, Rows
<1>10. FitType("gc", o)
  BY <1>4, <1>5, <1>7, <1>9 DEF FitType
<1>11. FitBlobs(h, "gc", o) /\ FitCache(h, "gc", o)
  BY <1>1, <1>7 DEF FitBlobs, FitCache
<1>12. FitRows(h, "gc", o)
  BY <1>1, <1>7, <1>8 DEF FitRows, NoOp
<1>13. FitOwed(h, "gc", o)
  BY <1>1, <1>4, <1>7, <1>8, DataTyped DEF FitOwed, Owes, DataType
<1> QED
  BY <1>7, <1>10, <1>11, <1>12, <1>13, FitStep DEF Fits

-----------------------------------------------------------------------------
(* The rows that uploads, downloads, moves and proofs of ownership write. *)

LEMMA Recording ==
  ASSUME StoreInv, NEW h \in Handlers, pc[h] = "record"
  PROVE  \E x \in Operation :
            /\ x = op[h] /\ x.kind \in Stores \cup {"pow"} /\ x.kind # "purge"
            /\ x.existed \in BOOLEAN /\ Busy(h) = BusyWith(x)
            /\ x.hash \in Hashes /\ x.hash \in Busy(h) /\ x.hash \in blobs \cup endangered
            /\ \A k : Owes(pc[h], x, k) => k = x.hash /\ x.kind \in Stores /\ ~ x.existed
<1>1. PICK x \in Operation :
         /\ x = op[h] /\ OpOK(pc[h], x) /\ Busy(h) = BusyWith(x)
         /\ x.kind \in Kinds /\ x.hash \in Hashes \cup {NoHash} /\ x.existed \in BOOLEAN
  BY OpOf
<1>2. x.kind \in Stores \cup {"pow"} /\ x.kind # "purge" /\ x.hash \in Hashes /\ x.hash \in Busy(h)
  BY <1>1, StoreConstants DEF OpOK, Stores, BusyWith
<1>3. x.hash \in blobs \cup endangered
  BY <1>1 DEF StoreInv, FoundInv
<1>4. \A k : Owes(pc[h], x, k) => k = x.hash /\ x.kind \in Stores /\ ~ x.existed
  BY DEF Owes
<1> QED
  BY <1>1, <1>2, <1>3, <1>4

\* The row now refers to the hash; other rows keep theirs, or what they had is littered.
LEMMA RecordFits ==
  ASSUME StoreInv, NEW h \in Handlers, pc[h] = "record", Return(h), NEW f \in Files,
         ref' = [ref EXCEPT ![f] = op[h].hash], UNCHANGED <<trashed, casVars, challenge, endangered>>,
         littered \subseteq littered', littered' \subseteq Hashes,
         ref[f] \in {NoHash, op[h].hash} \cup littered'
  PROVE  StoreInv'
<1>1. PICK x \in Operation :
         /\ x = op[h] /\ x.kind # "purge"
         /\ x.hash \in Hashes /\ x.hash \in Busy(h) /\ x.hash \in blobs \cup endangered
         /\ \A k : Owes(pc[h], x, k) => k = x.hash
  BY Recording
<1>2. Becomes(h, "idle", NoOp) /\ UNCHANGED <<blobs, cache>>
  BY DEF Return, Goto, Becomes, casVars
<1>3. \A k \in Hashes : /\ Referenced(k)' => Referenced(k) \/ k = x.hash
                        /\ Referenced(k) => Referenced(k)' \/ k \in littered'
                        /\ k = x.hash => Referenced(k)'
  BY <1>1, DataTyped, StoreConstants DEF Referenced, DataType
<1>4. DataType'
  BY <1>1, <1>2, DataTyped, StoreConstants DEF DataType, Rows
<1>5. FitType("idle", NoOp)
  BY <1>4, IdleOK, NoOpType DEF FitType
<1>6. FitOverlap(h, "idle", NoOp) /\ FitCache(h, "idle", NoOp) /\ FitBlobs(h, "idle", NoOp)
  BY <1>2, IdleOK, OverlapShrinks, CacheGrows DEF FitBlobs
<1>7. FitRows(h, "idle", NoOp)
  <2>1. \A g \in Handlers \ {h} : Collecting(g) /\ x.hash \in Busy(g) => x.hash \in endangered
    BY <1>1, Overlap
  <2> QED
    BY <1>1, <1>2, <1>3, <2>1 DEF FitRows
<1>8. FitOwed(h, "idle", NoOp)
  BY <1>1, <1>2, <1>3, DataTyped DEF FitOwed, DataType
<1> QED
  BY <1>2, <1>5, <1>6, <1>7, <1>8, FitStep DEF Fits

LEMMA StoreInsert ==
  ASSUME StoreInv, NEW h \in Handlers, NEW f \in Files, Insert(h, f)
  PROVE  StoreInv'
<1>1. ref[f] = NoHash
  BY DEF Insert, Unused, Rows
<1>2. UNCHANGED <<endangered, littered>> /\ littered \subseteq Hashes
  BY DataTyped DEF Insert, history, DataType
<1> QED
  BY <1>1, <1>2, RecordFits DEF Insert

LEMMA StoreMoveUpdate ==
  ASSUME StoreInv, NEW h \in Handlers, MoveUpdate(h)
  PROVE  StoreInv'
<1>1. PICK x \in Operation :
         /\ x = op[h] /\ x.kind # "purge" /\ x.hash \in Hashes
         /\ \A k : Owes(pc[h], x, k) => k = x.hash
  BY Recording DEF MoveUpdate
<1>2. pc[h] = "record" /\ Return(h) /\ UNCHANGED <<trashed, casVars, challenge, endangered>>
  BY DEF MoveUpdate
<1>3. CASE x.file \in Rows
  <2>1. PICK f \in Files : f = x.file /\ ref[f] \in Hashes
    BY <1>3, DataTyped DEF Rows, DataType
  <2>2. /\ ref' = [ref EXCEPT ![f] = op[h].hash]
        /\ littered' = littered \cup ({ref[f]} \ {x.hash})
    BY <1>1, <1>3, <2>1 DEF MoveUpdate
  <2>3. /\ littered \subseteq littered' /\ littered' \subseteq Hashes
        /\ ref[f] \in {NoHash, op[h].hash} \cup littered'
    BY <1>1, <2>1, <2>2, DataTyped DEF DataType
  <2> QED
    BY <1>2, <2>2, <2>3, RecordFits
<1>4. CASE x.file \notin Rows
  <2>1. UNCHANGED <<ref, trashed, blobs, cache>> /\ littered' = littered \cup {x.hash}
    BY <1>1, <1>2, <1>4 DEF MoveUpdate, casVars
  <2>2. DataType'
    BY <1>1, <1>2, <2>1, DataTyped DEF DataType, Rows
  <2> QED
    BY <1>1, <1>2, <2>1, <2>2, ReturnStep
<1> QED
  BY <1>3, <1>4

LEMMA StoreMoveFails ==
  ASSUME StoreInv, NEW h \in Handlers, MoveFails(h)
  PROVE  StoreInv'
<1>1. PICK x \in Operation :
         /\ x = op[h] /\ x.kind # "purge" /\ x.hash \in Hashes
         /\ \A k : Owes(pc[h], x, k) => k = x.hash
  BY Recording DEF MoveFails
<1>2. /\ pc[h] = "record" /\ Return(h) /\ UNCHANGED <<ref, trashed, blobs, cache, challenge, endangered>>
      /\ littered' = littered \cup {x.hash}
  BY <1>1 DEF MoveFails, dbVars, casVars
<1>3. DataType'
  BY <1>1, <1>2, DataTyped DEF DataType, Rows
<1> QED
  BY <1>1, <1>2, <1>3, ReturnStep

\* The clean-up is about to remove the blob, and notes whom that may hurt.
LEMMA StoreInsertFails ==
  ASSUME StoreInv, NEW h \in Handlers, InsertFails(h)
  PROVE  StoreInv'
<1>1. PICK x \in Operation :
         /\ x = op[h] /\ x.kind \in Stores \cup {"pow"} /\ x.kind # "purge"
         /\ x.existed \in BOOLEAN /\ Busy(h) = BusyWith(x)
         /\ x.hash \in Hashes /\ x.hash \in Busy(h)
         /\ \A k : Owes(pc[h], x, k) => k = x.hash /\ x.kind \in Stores /\ ~ x.existed
  BY Recording DEF InsertFails
<1>2. /\ pc[h] = "record" /\ x.kind \in {"upload", "pow"}
      /\ UNCHANGED <<ref, trashed, blobs, cache, challenge, littered>>
  BY <1>1 DEF InsertFails, dbVars, casVars
<1>3. CASE ~ Undoes(x)
  <2>1. Return(h) /\ UNCHANGED endangered
    BY <1>1, <1>3 DEF InsertFails
  <2>2. DataType'
    BY <1>2, <2>1, DataTyped DEF DataType, Rows
  <2>3. \A k : ~ Owes(pc[h], x, k)
    BY <1>1, <1>2, <1>3 DEF Undoes, Stores
  <2> QED
    BY <1>1, <1>2, <2>1, <2>2, <2>3, ReturnStep
<1>4. CASE Undoes(x)
  <2>1. PICK K \in SUBSET Hashes : K = {x.hash}
    BY <1>1
  <2> DEFINE o == [x EXCEPT !.todo = K]
  <2>2. o \in Operation /\ o.kind = "upload" /\ o.hash = x.hash /\ o.todo = K
    BY <1>1, <1>4, <2>1 DEF Operation, Undoes
  <2>3. Becomes(h, "remove", o)
    BY <1>1, <1>4, <2>1 DEF InsertFails, Goto, Becomes
  <2> HIDE DEF o
  <2>4. endangered' = IF x.hash \in BusyOthers(h) \/ Referenced(x.hash)
                      THEN endangered \cup {x.hash} ELSE endangered
    BY <1>1, <1>4 DEF InsertFails
  <2>5. endangered \subseteq endangered' /\ DataType'
    BY <1>1, <1>2, <2>4, DataTyped DEF DataType, Rows
  <2>6. OpOK("remove", o) /\ "remove" \in PCs
    BY <1>1, <2>1, <2>2 DEF OpOK, PCs, Stores
  <2>7. FitType("remove", o)
    BY <1>2, <2>2, <2>5, <2>6 DEF FitType
  <2>8. FitOverlap(h, "remove", o)
    <3>1. BusyWith(o) \subseteq {x.hash}
      BY <2>1, <2>2 DEF BusyWith
    <3>2. \A g \in Handlers \ {h} : x.hash \in Busy(g) => x.hash \in endangered'
      BY <2>4 DEF BusyOthers
    <3> QED
      BY <3>1, <3>2 DEF FitOverlap
  <2>9. FitCache(h, "remove", o)
    BY <1>2, CacheGrows
  <2>10. x.hash \in endangered' \/ ~ Referenced(x.hash)
    BY <2>4
  <2>11. \A k \in blobs : Owes(pc[h], x, k) => Owes("remove", o, k)
    BY <1>1, <2>1, <2>2 DEF Owes
  <2>12. Fits(h, "remove", o)
    BY <1>1, <1>2, <2>2, <2>7, <2>8, <2>9, <2>10, <2>11, QuietFits
  <2> QED
    BY <2>3, <2>12, FitStep
<1> QED
  BY <1>3, <1>4

\* The new blob is owed a row.
LEMMA NewBlob ==
  ASSUME StoreInv, NEW h \in Handlers, NEW p \in {"copy", "cache"}, pc[h] = "rename",
         blobs' = blobs \cup {op[h].hash}, Goto(h, p),
         UNCHANGED <<dbVars, cache, challenge, op, history>>
  PROVE  StoreInv'
<1>1. PICK x \in Operation : x = op[h] /\ OpOK("rename", x) /\ Busy(h) = BusyWith(x)
  BY OpOf
<1>2. /\ x.kind \in Stores /\ x.kind # "purge" /\ ~ x.existed
      /\ x.hash \in Hashes /\ x.hash \in Busy(h)
  BY <1>1, StoreConstants DEF OpOK, Stores, BusyWith
<1>3. /\ blobs' = blobs \cup {x.hash}
      /\ UNCHANGED <<ref, trashed, cache, challenge, endangered, littered>>
      /\ Becomes(h, p, x)
  BY <1>1 DEF dbVars, history, Goto, Becomes, StoreInv, TypeOK
<1>4. DataType'
  BY <1>2, <1>3, DataTyped DEF DataType, Rows
<1>5. OpOK(p, x) /\ p \in PCs
  BY <1>1 DEF OpOK, PCs, Stores
<1>6. FitType(p, x)
  BY <1>1, <1>3, <1>4, <1>5 DEF FitType
<1>7. FitOverlap(h, p, x)
  <2>1. Collects(p, x) => Collecting(h)
    BY <1>1 DEF Collects, Collecting
  <2> QED
    BY <1>1, <1>3, <2>1, OverlapShrinks
<1>8. FitBlobs(h, p, x) /\ FitCache(h, p, x)
  BY <1>2, <1>3 DEF FitBlobs, FitCache
<1>9. \A k : Referenced(k)' <=> Referenced(k)
  BY <1>3 DEF Referenced
<1>10. FitRows(h, p, x)
  BY <1>1, <1>2, <1>3, <1>9 DEF FitRows
<1>11. FitOwed(h, p, x)
  <2>1. Owes(p, x, x.hash) /\ \A k : ~ Owes(pc[h], op[h], k)
    BY <1>2, <1>3 DEF Owes
  <2> QED
    BY <1>3, <1>9, <2>1 DEF FitOwed
<1> QED
  BY <1>3, <1>6, <1>7, <1>8, <1>10, <1>11, FitStep DEF Fits

LEMMA StoreRename ==
  ASSUME StoreInv, NEW h \in Handlers, Rename(h)
  PROVE  StoreInv'
<1>1. /\ pc[h] = "rename" /\ blobs' = blobs \cup {op[h].hash} /\ Goto(h, "cache")
      /\ UNCHANGED <<dbVars, cache, challenge, op, history>>
  BY DEF Rename
<1> QED
  BY <1>1, NewBlob

LEMMA StoreCopyBegin ==
  ASSUME StoreInv, NEW h \in Handlers, CopyBegin(h)
  PROVE  StoreInv'
<1>1. /\ pc[h] = "rename" /\ blobs' = blobs \cup {op[h].hash} /\ Goto(h, "copy")
      /\ UNCHANGED <<dbVars, cache, challenge, op, history>>
  BY DEF CopyBegin
<1> QED
  BY <1>1, NewBlob

LEMMA StoreCopyDone ==
  ASSUME StoreInv, NEW h \in Handlers, CopyDone(h)
  PROVE  StoreInv'
<1>1. /\ pc[h] = "copy" /\ Goto(h, "cache") /\ UNCHANGED op
      /\ UNCHANGED <<ref, trashed, blobs, cache, challenge, endangered, littered>> /\ UNCHANGED history
  BY DEF CopyDone, dbVars, casVars, history
<1>2. OpOK("copy", op[h]) /\ op[h].hash \in blobs \cup endangered
  BY <1>1, OpOf DEF StoreInv, FoundInv
<1>3. DataType'
  BY <1>1, DataTyped DEF DataType, Rows
<1>4. OpOK("cache", op[h]) /\ "cache" \in PCs
  BY <1>2 DEF OpOK, PCs, Stores
<1>5. FitCache(h, "cache", op[h])
  BY <1>1 DEF FitCache
<1>6. \A k \in blobs : Owes(pc[h], op[h], k) => Owes("cache", op[h], k)
  BY <1>1 DEF Owes
<1> QED
  BY <1>1, <1>2, <1>3, <1>4, <1>5, <1>6, GotoStep

\* A request that ends by taking its own blob back, and notes whom that may hurt.
LEMMA TakenBack ==
  ASSUME StoreInv, NEW h \in Handlers, NEW k \in Hashes, Return(h),
         op[h].kind # "purge", pc[h] \notin {"invalidate", "clear"},
         UNCHANGED <<ref, trashed, cache, challenge, littered>>,
         blobs' = blobs \ {k} \/ (UNCHANGED blobs /\ k \in endangered'),
         endangered \subseteq endangered', endangered' \subseteq Hashes,
         k \in BusyOthers(h) \cup cache \/ Referenced(k) => k \in endangered',
         \A j \in blobs : Owes(pc[h], op[h], j) => j = k
  PROVE  StoreInv'
<1>1. blobs' = blobs \/ blobs' = blobs \ {k}
  OBVIOUS
<1>2. DataType'
  BY <1>1, DataTyped DEF DataType, Rows
<1>3. Becomes(h, "idle", NoOp)
  BY DEF Return, Goto, Becomes
<1>4. \A j : Referenced(j)' <=> Referenced(j)
  BY DEF Referenced
<1>5. FitType("idle", NoOp) /\ FitOverlap(h, "idle", NoOp)
  BY <1>2, IdleOK, NoOpType, OverlapShrinks DEF FitType
<1>6. FitBlobs(h, "idle", NoOp)
  <2>1. \A g \in Handlers \ {h} : k \in Busy(g) => k \in endangered'
    BY DEF BusyOthers
  <2> QED
    BY <1>1, <2>1 DEF FitBlobs
<1>7. FitCache(h, "idle", NoOp)
  BY <1>1 DEF FitCache
<1>8. FitRows(h, "idle", NoOp)
  BY <1>1, <1>4 DEF FitRows
<1>9. FitOwed(h, "idle", NoOp)
  BY <1>1, <1>4 DEF FitOwed
<1> QED
  BY <1>3, <1>5, <1>6, <1>7, <1>8, <1>9, FitStep DEF Fits

LEMMA StoreCopyFails ==
  ASSUME StoreInv, NEW h \in Handlers, CopyFails(h)
  PROVE  StoreInv'
<1>1. PICK x \in Operation : x = op[h] /\ OpOK("copy", x)
  BY OpOf DEF CopyFails
<1>2. x.kind # "purge" /\ x.hash \in Hashes /\ pc[h] = "copy"
  BY <1>1 DEF OpOK, Stores, CopyFails
<1>3. PICK k \in Hashes : k = op[h].hash
  BY <1>1, <1>2
<1>4. /\ Return(h) /\ UNCHANGED <<ref, trashed, cache, challenge, littered>>
      /\ Removes(k)
      /\ endangered' = endangered \cup
            (IF k \in BusyOthers(h) \cup cache \cup blobs' \/ Referenced(k) THEN {k} ELSE {})
  BY <1>3 DEF CopyFails, dbVars
<1>5. /\ endangered \subseteq endangered' /\ endangered' \subseteq Hashes
      /\ k \in BusyOthers(h) \cup cache \cup blobs' \/ Referenced(k) => k \in endangered'
  BY <1>4, DataTyped DEF DataType
<1>6. blobs' = blobs \ {k} \/ (UNCHANGED blobs /\ k \in endangered')
  BY <1>4, <1>5 DEF Removes
<1>7. \A j \in blobs : Owes(pc[h], op[h], j) => j = k
  BY <1>2, <1>3 DEF Owes
<1> QED
  BY <1>1, <1>2, <1>4, <1>5, <1>6, <1>7, TakenBack

LEMMA StoreDownloadInsertFails ==
  ASSUME StoreInv, NEW h \in Handlers, DownloadInsertFails(h)
  PROVE  StoreInv'
<1>1. PICK x \in Operation :
         /\ x = op[h] /\ x.kind # "purge" /\ x.hash \in Hashes
         /\ \A k : Owes(pc[h], x, k) => k = x.hash /\ ~ x.existed
  BY Recording DEF DownloadInsertFails
<1>2. /\ pc[h] = "record" /\ Return(h) /\ UNCHANGED <<ref, trashed, cache, challenge, littered>>
  BY DEF DownloadInsertFails, dbVars
<1>3. CASE x.existed
  <2>1. UNCHANGED <<blobs, endangered>>
    BY <1>1, <1>3 DEF DownloadInsertFails
  <2>2. DataType'
    BY <1>2, <2>1, DataTyped DEF DataType, Rows
  <2> QED
    BY <1>1, <1>2, <1>3, <2>1, <2>2, ReturnStep
<1>4. CASE ~ x.existed
  <2>1. Removes(x.hash) /\ endangered' = endangered \cup {x.hash}
    BY <1>1, <1>4 DEF DownloadInsertFails
  <2>2. blobs' = blobs \ {x.hash} \/ (UNCHANGED blobs /\ x.hash \in endangered')
    BY <2>1 DEF Removes
  <2>3. endangered \subseteq endangered' /\ endangered' \subseteq Hashes /\ x.hash \in endangered'
    BY <1>1, <2>1, DataTyped DEF DataType
  <2> QED
    BY <1>1, <1>2, <2>2, <2>3, TakenBack
<1> QED
  BY <1>3, <1>4

-----------------------------------------------------------------------------
(* Deletions. *)

\* Where the loop over the hashes goes on, and what it still owes.
LEMMA GcDoneGood ==
  ASSUME StoreInv, NEW h \in Handlers, NEW left, GcDone(h, left), left \subseteq op[h].todo,
         op[h].kind = "delete" \/ left = {}, op[h].kind # "purge"
  PROVE  \E p \in {"idle", "gc"}, o \in Operation :
            /\ Becomes(h, p, o) /\ p \in PCs /\ OpOK(p, o) /\ o.kind # "purge"
            /\ BusyWith(o) \subseteq Busy(h) /\ (Collects(p, o) => Collecting(h))
            /\ \A k \in left : Owes(p, o, k)
<1>1. PICK x \in Operation : /\ x = op[h] /\ Busy(h) = BusyWith(x) /\ x.todo \in SUBSET Hashes
  BY OpOf
<1>2. CASE left = {}
  <2>1. Becomes(h, "idle", NoOp)
    BY <1>2 DEF GcDone, Return, Goto, Becomes
  <2>2. NoOp.kind # "purge"
    BY DEF NoOp
  <2> QED
    BY <1>2, <2>1, <2>2, IdleOK, NoOpType
<1>3. CASE left # {}
  <2>1. PICK L \in SUBSET Hashes : L = left /\ L # {} /\ L \subseteq x.todo
    BY <1>1, <1>3
  <2>2. x.kind = "delete"
    BY <1>1, <1>3
  <2> DEFINE o == [x EXCEPT !.todo = L, !.hash = NoHash]
  <2>3. o \in Operation /\ o.kind = "delete" /\ o.todo = L /\ o.hash = NoHash
    BY <1>1, <2>1, <2>2 DEF Operation
  <2>4. Becomes(h, "gc", o)
    <3>1. Goto(h, "gc") /\ op' = [op EXCEPT ![h].todo = L, ![h].hash = NoHash]
      BY <1>3, <2>1 DEF GcDone
    <3>2. op' = [op EXCEPT ![h] = o]
      BY <1>1, <3>1 DEF StoreInv, TypeOK
    <3> QED
      BY <3>1, <3>2 DEF Becomes, Goto
  <2> HIDE DEF o
  <2>5. OpOK("gc", o) /\ "gc" \in PCs
    BY <2>1, <2>3 DEF OpOK, PCs, Stores
  <2>6. BusyWith(o) \subseteq Busy(h)
    BY <1>1, <2>1, <2>2, <2>3 DEF BusyWith
  <2>7. (Collects("gc", o) => Collecting(h)) /\ \A k \in left : Owes("gc", o, k)
    BY <1>1, <2>1, <2>2, <2>3 DEF Collecting, Owes
  <2> QED
    BY <2>3, <2>4, <2>5, <2>6, <2>7
<1> QED
  BY <1>2, <1>3

\* The blob of a deleted row is on the list.
LEMMA StoreDeleteRow ==
  ASSUME StoreInv, NEW h \in Handlers, DeleteRow(h)
  PROVE  StoreInv'
<1>1. PICK x \in Operation : x = op[h] /\ OpOK("delrow", x) /\ Busy(h) = BusyWith(x)
  BY OpOf DEF DeleteRow
<1>2. x.kind = "delete" /\ x.hash \in Hashes
  BY <1>1 DEF OpOK
<1>3. pc[h] = "delrow" /\ UNCHANGED <<blobs, cache, challenge, endangered>>
  BY DEF DeleteRow, casVars
<1>4. CASE x.file \notin Rows
  <2>1. Return(h) /\ UNCHANGED <<ref, trashed, littered>>
    BY <1>1, <1>4 DEF DeleteRow
  <2>2. challenge' \in [Nonces -> Hashes \cup {NoHash}]
    BY <1>3, DataTyped DEF DataType
  <2> QED
    BY <1>3, <2>1, <2>2, StoreEnds DEF dbVars, casVars, history
<1>5. CASE x.file \in Rows
  <2>1. PICK f \in Files : f = x.file /\ ref[f] \in Hashes
    BY <1>5, DataTyped DEF Rows, DataType
  <2>2. PICK K \in SUBSET Hashes : K = {x.hash}
    BY <1>2
  <2>3. /\ ref' = [ref EXCEPT ![f] = NoHash] /\ trashed' = trashed \ {f}
        /\ op' = [op EXCEPT ![h].todo = K] /\ Goto(h, "gc")
        /\ littered' = littered \cup ({ref[f]} \ {x.hash})
    BY <1>1, <1>5, <2>1, <2>2 DEF DeleteRow
  <2> DEFINE o == [x EXCEPT !.todo = K]
  <2>4. o \in Operation /\ o.kind = "delete" /\ o.hash = x.hash /\ o.todo = K
    BY <1>1, <1>2, <2>2 DEF Operation
  <2>5. Becomes(h, "gc", o)
    BY <1>1, <2>3 DEF Goto, Becomes
  <2> HIDE DEF o
  <2>6. \A k \in Hashes : /\ Referenced(k)' => Referenced(k)
                          /\ Referenced(k) => Referenced(k)' \/ k = ref[f]
    BY <2>1, <2>3, DataTyped, StoreConstants DEF Referenced, DataType
  <2>7. DataType'
    BY <1>3, <2>1, <2>3, DataTyped DEF DataType, Rows
  <2>8. OpOK("gc", o) /\ "gc" \in PCs
    BY <2>2, <2>4 DEF OpOK, PCs, Stores
  <2>9. FitType("gc", o)
    BY <1>3, <2>3, <2>4, <2>7, <2>8 DEF FitType
  <2>10. FitOverlap(h, "gc", o)
    <3>1. BusyWith(o) \subseteq Busy(h)
      BY <1>1, <1>2, <2>2, <2>4 DEF BusyWith
    <3>2. Collecting(h)
      BY <1>1, <1>2 DEF Collecting
    <3> QED
      BY <1>3, <3>1, <3>2, OverlapShrinks
  <2>11. FitBlobs(h, "gc", o) /\ FitCache(h, "gc", o)
    BY <1>3 DEF FitBlobs, FitCache
  <2>12. FitRows(h, "gc", o)
    BY <1>1, <1>2, <1>3, <2>6 DEF FitRows
  <2>13. FitOwed(h, "gc", o)
    <3>1. \A k : ~ Owes(pc[h], op[h], k)
      BY <1>3 DEF Owes
    <3>2. ref[f] \in littered' \/ Owes("gc", o, ref[f])
      BY <2>2, <2>3, <2>4 DEF Owes
    <3> QED
      BY <1>3, <2>6, <3>1, <3>2, DataTyped DEF FitOwed, DataType
  <2> QED
    BY <2>5, <2>9, <2>10, <2>11, <2>12, <2>13, FitStep DEF Fits
<1> QED
  BY <1>4, <1>5

\* The count, or its failure, decides to remove the blob of k.
LEMMA GcRemoves ==
  ASSUME StoreInv, NEW h \in Handlers, pc[h] = "gc", NEW k \in op[h].todo, Goto(h, "remove"),
         op' = [op EXCEPT ![h].hash = k], UNCHANGED <<dbVars, casVars, challenge, littered>>,
         endangered' \in {endangered, endangered \cup {k}},
         k \in endangered' \/ ~ Referenced(k)
  PROVE  StoreInv'
<1>1. PICK x \in Operation : /\ x = op[h] /\ OpOK("gc", x) /\ Busy(h) = BusyWith(x)
                             /\ x.todo \in SUBSET Hashes
  BY OpOf
<1>2. x.kind = "delete" /\ k \in Hashes /\ k \in x.todo
  BY <1>1 DEF OpOK
<1> DEFINE o == [x EXCEPT !.hash = k]
<1>3. o \in Operation /\ o.kind = "delete" /\ o.hash = k /\ o.todo = x.todo
  BY <1>1, <1>2 DEF Operation
<1>4. Becomes(h, "remove", o)
  BY <1>1 DEF Goto, Becomes
<1> HIDE DEF o
<1>5. UNCHANGED <<ref, trashed, blobs, cache>>
  BY DEF dbVars, casVars
<1>6. DataType' /\ endangered \subseteq endangered'
  BY <1>2, <1>5, DataTyped DEF DataType, Rows
<1>7. OpOK("remove", o) /\ "remove" \in PCs
  BY <1>2, <1>3 DEF OpOK, PCs, Stores
<1>8. FitType("remove", o)
  BY <1>3, <1>6, <1>7 DEF FitType
<1>9. FitOverlap(h, "remove", o)
  <2>1. BusyWith(o) \subseteq Busy(h) /\ Collecting(h)
    BY <1>1, <1>2, <1>3 DEF BusyWith, Collecting
  <2> QED
    BY <1>6, <2>1, OverlapShrinks
<1>10. FitCache(h, "remove", o)
  BY <1>5, CacheGrows
<1>11. \A j \in blobs : Owes(pc[h], op[h], j) => Owes("remove", o, j)
  BY <1>1, <1>3 DEF Owes
<1>12. Fits(h, "remove", o)
  BY <1>1, <1>2, <1>3, <1>5, <1>8, <1>9, <1>10, <1>11, QuietFits
<1> QED
  BY <1>4, <1>12, FitStep

LEMMA StoreGcCountFails ==
  ASSUME StoreInv, NEW h \in Handlers, NEW k \in Hashes, GcCountFails(h, k)
  PROVE  StoreInv'
<1>1. /\ pc[h] = "gc" /\ k \in op[h].todo /\ Goto(h, "remove") /\ op' = [op EXCEPT ![h].hash = k]
      /\ UNCHANGED <<dbVars, casVars, challenge, littered>> /\ endangered' = endangered \cup {k}
  BY DEF GcCountFails
<1> QED
  BY <1>1, GcRemoves

LEMMA StoreGcCount ==
  ASSUME StoreInv, NEW h \in Handlers, NEW k \in Hashes, GcCount(h, k)
  PROVE  StoreInv'
<1>1. /\ pc[h] = "gc" /\ k \in op[h].todo /\ UNCHANGED <<dbVars, casVars, challenge, history>>
  BY DEF GcCount
<1>2. CASE ~ Referenced(k)
  <2>1. Goto(h, "remove") /\ op' = [op EXCEPT ![h].hash = k] /\ UNCHANGED <<endangered, littered>>
    BY <1>1, <1>2 DEF GcCount, CountIsZero, history
  <2> QED
    BY <1>1, <1>2, <2>1, GcRemoves
<1>3. CASE Referenced(k)
  <2>1. PICK left : left = op[h].todo \ {k} /\ GcDone(h, left)
    BY <1>3 DEF GcCount, CountIsZero
  <2>2. op[h].kind = "delete"
    BY <1>1, OpOf DEF OpOK
  <2>3. PICK p \in {"idle", "gc"}, o \in Operation :
            /\ Becomes(h, p, o) /\ p \in PCs /\ OpOK(p, o) /\ o.kind # "purge"
            /\ BusyWith(o) \subseteq Busy(h) /\ (Collects(p, o) => Collecting(h))
            /\ \A j \in left : Owes(p, o, j)
    BY <2>1, <2>2, GcDoneGood
  <2>4. UNCHANGED <<ref, trashed, blobs, cache, challenge, endangered, littered>>
    BY <1>1 DEF dbVars, casVars, history
  <2>5. FitType(p, o)
    BY <2>3, <2>4, DataTyped DEF FitType, DataType, Rows
  <2>6. FitOverlap(h, p, o) /\ FitCache(h, p, o)
    BY <1>1, <2>3, <2>4, OverlapShrinks, CacheGrows
  <2>7. \A j \in blobs : Owes(pc[h], op[h], j) => Owes(p, o, j) \/ Referenced(j)
    <3>1. \A j : Owes(pc[h], op[h], j) => j \in left \/ j = k
      BY <1>1, <2>1 DEF Owes
    <3> QED
      BY <1>3, <2>3, <3>1
  <2>8. Fits(h, p, o)
    BY <2>2, <2>3, <2>4, <2>5, <2>6, <2>7, QuietFits
  <2> QED
    BY <2>3, <2>8, FitStep
<1> QED
  BY <1>2, <1>3

\* Nobody refers to the blob that goes, or its hash is endangered.
LEMMA StoreGcRemove ==
  ASSUME StoreInv, NEW h \in Handlers, GcRemove(h)
  PROVE  StoreInv'
<1>1. PICK x \in Operation : x = op[h] /\ OpOK("remove", x) /\ Busy(h) = BusyWith(x)
  BY OpOf DEF GcRemove
<1>2. /\ x.kind # "purge" /\ x.hash \in x.todo /\ x.hash \in Hashes /\ x.hash \in Busy(h)
  BY <1>1, StoreConstants DEF OpOK, BusyWith
<1>3. /\ pc[h] = "remove" /\ (blobs' = blobs \/ blobs' = blobs \ {x.hash})
      /\ littered' = littered \cup ({x.hash} \cap blobs')
      /\ UNCHANGED <<ref, trashed, cache, challenge, endangered>>
      /\ Becomes(h, "invalidate", x)
  BY <1>1 DEF GcRemove, RemoveBlob, Removes, dbVars, Goto, Becomes, StoreInv, TypeOK
<1>4. Collecting(h)
  BY <1>3 DEF Collecting
<1>5. x.hash \in endangered \/ ~ Referenced(x.hash)
  BY <1>1, <1>3 DEF StoreInv, CountInv
<1>6. DataType'
  BY <1>2, <1>3, DataTyped DEF DataType, Rows
<1>7. OpOK("invalidate", x) /\ "invalidate" \in PCs
  BY <1>1 DEF OpOK, PCs, Stores
<1>8. FitType("invalidate", x)
  BY <1>1, <1>3, <1>6, <1>7 DEF FitType
<1>9. FitOverlap(h, "invalidate", x)
  BY <1>1, <1>3, <1>4, OverlapShrinks
<1>10. FitBlobs(h, "invalidate", x)
  <2>1. \A g \in Handlers \ {h} : x.hash \in Busy(g) => x.hash \in endangered
    BY <1>2, <1>4, Overlap
  <2> QED
    BY <1>3, <2>1 DEF FitBlobs
<1>11. FitCache(h, "invalidate", x)
  BY <1>3 DEF FitCache
<1>12. \A k : Referenced(k)' <=> Referenced(k)
  BY <1>3 DEF Referenced
<1>13. FitRows(h, "invalidate", x)
  BY <1>1, <1>2, <1>3, <1>5, <1>12 DEF FitRows
<1>14. FitOwed(h, "invalidate", x)
  <2>1. \A k \in blobs' : Owes(pc[h], op[h], k) => Owes("invalidate", x, k) \/ k \in littered'
    BY <1>1, <1>3 DEF Owes
  <2> QED
    BY <1>3, <1>12, <2>1 DEF FitOwed
<1> QED
  BY <1>3, <1>8, <1>9, <1>10, <1>11, <1>13, <1>14, FitStep DEF Fits

LEMMA StoreGcInvalidate ==
  ASSUME StoreInv, NEW h \in Handlers, GcInvalidate(h)
  PROVE  StoreInv'
<1>1. PICK x \in Operation : x = op[h] /\ OpOK("invalidate", x) /\ Busy(h) = BusyWith(x)
  BY OpOf DEF GcInvalidate
<1>2. /\ pc[h] = "invalidate" /\ cache' = cache \ {x.hash}
      /\ UNCHANGED <<ref, trashed, blobs, challenge, endangered, littered>>
  BY <1>1 DEF GcInvalidate, Invalidate, dbVars, history
<1>3. PICK left : left = x.todo \ {x.hash} /\ GcDone(h, left)
  BY <1>1 DEF GcInvalidate
<1>4. /\ left \subseteq op[h].todo /\ (op[h].kind = "delete" \/ left = {}) /\ op[h].kind # "purge"
  BY <1>1, <1>3 DEF OpOK
<1>5. PICK p \in {"idle", "gc"}, o \in Operation :
          /\ Becomes(h, p, o) /\ p \in PCs /\ OpOK(p, o) /\ o.kind # "purge"
          /\ BusyWith(o) \subseteq Busy(h) /\ (Collects(p, o) => Collecting(h))
          /\ \A j \in left : Owes(p, o, j)
  BY <1>3, <1>4, GcDoneGood
<1>6. FitType(p, o)
  BY <1>2, <1>5, DataTyped DEF FitType, DataType, Rows
<1>7. FitOverlap(h, p, o)
  BY <1>2, <1>5, OverlapShrinks
<1>8. FitCache(h, p, o)
  BY <1>1, <1>2 DEF FitCache
<1>9. \A k \in blobs : Owes(pc[h], op[h], k) => Owes(p, o, k)
  <2>1. \A k : Owes(pc[h], op[h], k) => k \in left
    BY <1>1, <1>2, <1>3 DEF Owes
  <2> QED
    BY <1>5, <2>1
<1>10. Fits(h, p, o)
  BY <1>2, <1>4, <1>5, <1>6, <1>7, <1>8, <1>9, QuietFits
<1> QED
  BY <1>5, <1>10, FitStep

-----------------------------------------------------------------------------
(* The panic purge, a crash, and what concerns no handler. *)

LEMMA StorePurgeShred ==
  ASSUME StoreInv, NEW h \in Handlers, PurgeShred(h)
  PROVE  StoreInv'
<1>1. PICK x \in Operation : x = op[h] /\ OpOK("shred", x) /\ Busy(h) = BusyWith(x)
  BY OpOf DEF PurgeShred
<1>2. x.kind = "purge" /\ Busy(h) = Hashes /\ Collecting(h)
  BY <1>1 DEF OpOK, BusyWith, Collecting
<1>3. /\ pc[h] = "shred" /\ blobs' \subseteq blobs /\ endangered' = endangered \cup blobs'
      /\ UNCHANGED <<ref, trashed, cache, challenge, littered>>
      /\ Becomes(h, "clear", x)
  BY <1>1 DEF PurgeShred, dbVars, Goto, Becomes, StoreInv, TypeOK
<1>4. DataType'
  BY <1>3, DataTyped DEF DataType, Rows
<1>5. OpOK("clear", x) /\ "clear" \in PCs
  BY <1>1 DEF OpOK, PCs, Stores
<1>6. FitType("clear", x)
  BY <1>1, <1>3, <1>4, <1>5 DEF FitType
<1>7. FitOverlap(h, "clear", x)
  BY <1>1, <1>2, <1>3, OverlapShrinks
<1>8. FitBlobs(h, "clear", x)
  <2>1. ASSUME NEW k \in blobs, NEW g \in Handlers \ {h}, k \in Busy(g)
        PROVE  k \in endangered
    <3>1. k \in Busy(h)
      BY <1>2, DataTyped DEF DataType
    <3> QED
      BY <1>2, <2>1, <3>1, Overlap
  <2> QED
    BY <1>3, <2>1 DEF FitBlobs
<1>9. FitCache(h, "clear", x) /\ FitOwed(h, "clear", x)
  BY <1>3 DEF FitCache, FitOwed
<1>10. FitRows(h, "clear", x)
  BY <1>2, <1>3 DEF FitRows, Referenced
<1> QED
  BY <1>3, <1>6, <1>7, <1>8, <1>9, <1>10, FitStep DEF Fits

LEMMA StorePurgeClear ==
  ASSUME StoreInv, NEW h \in Handlers, PurgeClearCache(h)
  PROVE  StoreInv'
<1>1. /\ pc[h] = "clear" /\ cache' = {} /\ Goto(h, "wipe") /\ UNCHANGED op
      /\ UNCHANGED <<ref, trashed, blobs, challenge, endangered, littered>> /\ UNCHANGED history
  BY DEF PurgeClearCache, dbVars, history
<1>2. DataType'
  BY <1>1, DataTyped DEF DataType, Rows
<1>3. OpOK("clear", op[h])
  BY <1>1, OpOf
<1>4. OpOK("wipe", op[h]) /\ "wipe" \in PCs
  BY <1>3 DEF OpOK, PCs, Stores
<1>5. FitCache(h, "wipe", op[h]) /\ \A k : ~ Owes(pc[h], op[h], k)
  BY <1>1 DEF FitCache, Owes
<1>6. blobs \subseteq endangered
  BY <1>1 DEF StoreInv, ShreddedInv
<1> QED
  BY <1>1, <1>2, <1>4, <1>5, <1>6, GotoStep

LEMMA StorePurgeRowsFails ==
  ASSUME StoreInv, NEW h \in Handlers, PurgeRowsFails(h)
  PROVE  StoreInv'
<1>1. /\ pc[h] = "wipe" /\ Becomes(h, "idle", NoOp) /\ endangered' = Hashes
      /\ UNCHANGED <<ref, trashed, blobs, cache, challenge, littered>>
  BY DEF PurgeRowsFails, Return, Goto, Becomes, dbVars, casVars
<1>2. DataType' /\ endangered \subseteq endangered' /\ blobs \subseteq endangered'
  BY <1>1, DataTyped DEF DataType, Rows
<1>3. FitType("idle", NoOp) /\ FitOverlap(h, "idle", NoOp) /\ FitCache(h, "idle", NoOp)
  BY <1>1, <1>2, IdleOK, NoOpType, OverlapShrinks, CacheGrows DEF FitType
<1>4. FitBlobs(h, "idle", NoOp) /\ FitOwed(h, "idle", NoOp) /\ FitRows(h, "idle", NoOp)
  BY <1>1, <1>2 DEF FitBlobs, FitOwed, FitRows
<1> QED
  BY <1>1, <1>3, <1>4, FitStep DEF Fits

LEMMA StorePurgeRows ==
  ASSUME StoreInv, NEW h \in Handlers, PurgeRows(h)
  PROVE  StoreInv'
<1>1. /\ pc[h] = "wipe" /\ Becomes(h, "idle", NoOp) /\ ref' = [f \in Files |-> NoHash]
      /\ trashed' = {} /\ UNCHANGED <<blobs, cache, challenge, endangered, littered>>
  BY DEF PurgeRows, Return, Goto, Becomes, casVars, history
<1>2. blobs \subseteq endangered
  BY <1>1 DEF StoreInv, ShreddedInv
<1>3. \A k \in Hashes : ~ Referenced(k)'
  BY <1>1, StoreConstants DEF Referenced
<1>4. DataType'
  BY <1>1, DataTyped DEF DataType, Rows
<1>5. FitType("idle", NoOp) /\ FitOverlap(h, "idle", NoOp) /\ FitCache(h, "idle", NoOp)
  BY <1>1, <1>4, IdleOK, NoOpType, OverlapShrinks, CacheGrows DEF FitType
<1>6. FitBlobs(h, "idle", NoOp) /\ FitOwed(h, "idle", NoOp)
  BY <1>1, <1>2 DEF FitBlobs, FitOwed
<1>7. FitRows(h, "idle", NoOp)
  BY <1>3 DEF FitRows
<1> QED
  BY <1>1, <1>5, <1>6, <1>7, FitStep DEF Fits

\* What was under way is over; its hashes may keep an unused blob.
LEMMA StoreCrash ==
  ASSUME StoreInv, Crash
  PROVE  StoreInv'
<1> USE DEF StoreInv
<1>1. /\ cache' = {} /\ challenge' = [n \in Nonces |-> NoHash]
      /\ pc' = [h \in Handlers |-> "idle"] /\ op' = [h \in Handlers |-> NoOp]
      /\ littered' = littered \cup UNION {Busy(h) : h \in Handlers}
      /\ endangered' = IF Purging THEN Hashes
            ELSE endangered \cup {op[h].hash : h \in {g \in Handlers : pc[g] = "copy"}}
      /\ UNCHANGED <<ref, trashed, blobs>>
  BY DEF Crash, dbVars
<1>2. \A h \in Handlers : pc'[h] = "idle" /\ op'[h] = NoOp
  BY <1>1
<1>3. \A h \in Handlers : Busy(h) \subseteq Hashes
  BY OpOf DEF BusyWith
<1>4. /\ endangered \subseteq endangered' /\ littered \subseteq littered'
      /\ endangered' \subseteq Hashes /\ littered' \subseteq Hashes
  <2>1. \A h \in Handlers : pc[h] = "copy" => op[h].hash \in Hashes
    BY OpOf DEF OpOK
  <2> QED
    BY <1>1, <1>3, <2>1, DataTyped DEF DataType
<1>5. OpInv'
  BY <1>2, IdleOK DEF OpInv
<1>6. TypeOK'
  BY <1>1, <1>2, <1>4, IdleOK, NoOpType DEF TypeOK, Rows, NoOp
<1>7. OverlapInv' /\ FoundInv' /\ CountInv' /\ ShreddedInv'
  BY <1>2 DEF OverlapInv, FoundInv, CountInv, ShreddedInv, Collecting, NoOp
<1>8. CachedInv'
  BY <1>1 DEF CachedInv
<1>9. RowsHaveBlobs'
  <2> SUFFICES ASSUME NEW f \in Files, ref'[f] # NoHash
               PROVE  ref'[f] \in blobs' \cup endangered'
    BY DEF RowsHaveBlobs, Rows
  <2>1. ref[f] \in Hashes /\ f \in Rows
    BY <1>1, DataTyped DEF DataType, Rows
  <2>2. ref[f] \in blobs \cup endangered \/ Purging
    BY <2>1 DEF RowsHaveBlobs
  <2> QED
    BY <1>1, <1>4, <2>1, <2>2
<1>10. OwedInv'
  <2> SUFFICES ASSUME NEW k \in blobs
               PROVE  Referenced(k)' \/ k \in endangered' \cup littered'
    BY <1>1 DEF OwedInv, Referenced
  <2>1. CASE Referenced(k) \/ k \in endangered \cup littered
    BY <1>1, <1>4, <2>1 DEF Referenced
  <2>2. CASE \E h \in Handlers : Owes(pc[h], op[h], k)
    <3>1. PICK h \in Handlers : Owes(pc[h], op[h], k)
      BY <2>2
    <3>2. k \in Hashes /\ k # NoHash
      BY DataTyped, StoreConstants DEF DataType
    <3>3. k \in Busy(h)
      BY <3>1, <3>2 DEF Owes, Busy
    <3> QED
      BY <1>1, <3>3
  <2> QED
    BY <2>1, <2>2 DEF OwedInv
<1> QED
  BY <1>5, <1>6, <1>7, <1>8, <1>9, <1>10

LEMMA StoreKept ==
  ASSUME StoreInv, UNCHANGED <<ref, blobs, cache, pc, op, endangered, littered>>, DataType'
  PROVE  StoreInv'
<1> USE DEF StoreInv
<1>1. TypeOK'
  BY DEF TypeOK, DataType
<1>2. /\ \A k : Referenced(k)' <=> Referenced(k)
      /\ \A h : Busy(h)' = Busy(h) /\ (Collecting(h)' <=> Collecting(h))
      /\ Purging' <=> Purging
  BY DEF Referenced, Busy, Collecting, Purging
<1>3. OpInv' /\ OverlapInv' /\ FoundInv' /\ ShreddedInv' /\ CachedInv'
  BY <1>2 DEF OpInv, OverlapInv, FoundInv, ShreddedInv, CachedInv
<1>4. CountInv' /\ OwedInv'
  BY DEF CountInv, OwedInv, Referenced
<1>5. RowsHaveBlobs'
  BY <1>2 DEF RowsHaveBlobs, Rows
<1> QED
  BY <1>1, <1>3, <1>4, <1>5

\* The rows that go leave littered hashes behind; nobody comes to refer to more.
LEMMA StoreDropRows ==
  ASSUME StoreInv, NEW F \in SUBSET Files, DropRows(F)
  PROVE  StoreInv'
<1> USE DEF StoreInv
<1>1. /\ F \subseteq Rows /\ ref' = [f \in Files |-> IF f \in F THEN NoHash ELSE ref[f]]
      /\ trashed' = trashed \ F /\ littered' = littered \cup {ref[f] : f \in F}
      /\ UNCHANGED <<blobs, cache, challenge, pc, op, endangered>>
  BY DEF DropRows, casVars
<1>2. DataType'
  BY <1>1, DataTyped DEF DataType, Rows
<1>3. TypeOK'
  BY <1>1, <1>2 DEF TypeOK, DataType
<1>4. \A k \in Hashes : /\ Referenced(k)' => Referenced(k)
                        /\ Referenced(k) => Referenced(k)' \/ k \in littered'
  BY <1>1, StoreConstants DEF Referenced
<1>5. /\ \A h : Busy(h)' = Busy(h) /\ (Collecting(h)' <=> Collecting(h))
      /\ Purging' <=> Purging
  BY <1>1 DEF Busy, Collecting, Purging
<1>6. OpInv' /\ OverlapInv' /\ FoundInv' /\ ShreddedInv' /\ CachedInv'
  BY <1>1, <1>5 DEF OpInv, OverlapInv, FoundInv, ShreddedInv, CachedInv
<1>7. CountInv'
  <2> SUFFICES ASSUME NEW h \in Handlers, pc[h] = "remove", NEW k, k = op[h].hash, Referenced(k)'
               PROVE  k \in endangered
    BY <1>1 DEF CountInv, Referenced
  <2>1. k \in Hashes
    BY OpOf DEF OpOK
  <2> QED
    BY <1>4, <2>1 DEF CountInv
<1>8. OwedInv'
  BY <1>1, <1>4, DataTyped DEF OwedInv, DataType
<1>9. RowsHaveBlobs'
  BY <1>1, <1>5 DEF RowsHaveBlobs, Rows
<1> QED
  BY <1>3, <1>6, <1>7, <1>8, <1>9

LEMMA StoreEnvironment ==
  ASSUME StoreInv, Environment
  PROVE  StoreInv'
<1>1. ASSUME NEW F, Trash(F)
      PROVE  StoreInv'
  <2>1. DataType'
    BY <1>1, DataTyped DEF Trash, DataType, Rows, casVars, history
  <2> QED
    BY <1>1, <2>1, StoreKept DEF Trash, casVars, history
<1>2. ASSUME NEW f, RestoreFile(f)
      PROVE  StoreInv'
  <2>1. DataType'
    BY <1>2, DataTyped DEF RestoreFile, DataType, Rows, casVars, history
  <2> QED
    BY <1>2, <2>1, StoreKept DEF RestoreFile, casVars, history
<1>3. ASSUME NEW n, ChallengeExpires(n)
      PROVE  StoreInv'
  <2>1. DataType'
    BY <1>3, DataTyped DEF ChallengeExpires, DataType, Rows, dbVars, casVars, history
  <2> QED
    BY <1>3, <2>1, StoreKept DEF ChallengeExpires, dbVars, casVars, history
<1> QED
  BY <1>1, <1>2, <1>3, StoreCrash, StoreDropRows DEF Environment

-----------------------------------------------------------------------------
(* The invariant, for every step. *)

LEMMA StoreInit ==
  ASSUME Init
  PROVE  StoreInv
<1> USE DEF Init
<1>1. OpInv
  BY IdleOK DEF OpInv
<1>2. TypeOK
  <2>1. ref \in [Files -> Hashes \cup {NoHash}]
    BY StoreConstants
  <2>2. endangered \subseteq Hashes
    BY <2>1 DEF Rows
  <2> QED
    BY <2>1, <2>2, IdleOK, NoOpType DEF TypeOK, Rows, NoOp
<1>3. OverlapInv /\ FoundInv /\ CountInv /\ ShreddedInv
  BY DEF OverlapInv, FoundInv, CountInv, ShreddedInv, Collecting, NoOp
<1>4. RowsHaveBlobs /\ CachedInv /\ OwedInv
  BY DEF RowsHaveBlobs, Rows, CachedInv, OwedInv
<1> QED
  BY <1>1, <1>2, <1>3, <1>4 DEF StoreInv

LEMMA StoreRequest ==
  ASSUME StoreInv, NEW h \in Handlers, Request(h)
  PROVE  StoreInv'
  BY StoreInitBegin, StoreStoreBegin, StoreMoveWithin, StoreDeleteBegin, StoreMoveAcross,
     StoreVerifyBegin, StoreEmptyTrash, StorePurgeBegin
     DEF Request

LEMMA StoreHandlerStep ==
  ASSUME StoreInv, NEW h \in Handlers, HandlerStep(h)
  PROVE  StoreInv'
  BY StoreExistsCached, StoreExistsStat, StoreExistsFill, StoreRename, StoreRenameFails,
     StoreCopyBegin, StoreCopyDone, StoreCopyFails,
     StoreCacheStore, StoreIssue, StoreIssueFails, StoreVerifyOpen, StoreVerifyFails, StoreInsert,
     StoreInsertFails, StoreDownloadInsertFails, StoreMoveUpdate, StoreMoveFails,
     StoreDeleteRow, StoreDeleteFails, StoreGcCount, StoreGcCountFails, StoreGcRemove,
     StoreGcInvalidate, StorePurgeShred, StorePurgeClear, StorePurgeRows,
     StorePurgeRowsFails
     DEF HandlerStep

LEMMA StoreStutter ==
  ASSUME StoreInv, UNCHANGED vars
  PROVE  StoreInv'
<1>1. DataType'
  BY DataTyped DEF vars, dbVars, casVars, history, DataType, Rows
<1> QED
  BY <1>1, StoreKept DEF vars, dbVars, casVars, history

LEMMA StoreAlways == Spec => []StoreInv
<1>1. Init => StoreInv
  BY StoreInit
<1>2. StoreInv /\ [Next]_vars => StoreInv'
  BY StoreRequest, StoreHandlerStep, StoreEnvironment, StoreStutter DEF Next
<1> QED
  BY <1>1, <1>2, PTL DEF Spec

(***************************************************************************)
(* Every reachable state is well formed, for any number of handlers,       *)
(* hashes, rows and nonces.                                                *)
(***************************************************************************)
THEOREM TypeCorrect == Spec => []TypeOK
<1>1. StoreInv => TypeOK
  BY DEF StoreInv
<1> QED
  BY <1>1, StoreAlways, PTL

(***************************************************************************)
(* A row keeps its blob through deduplicated uploads, moves, deletions of  *)
(* rows with the same hash, EmptyTrash, failed INSERTs and crashes, as     *)
(* long as its content was not met by one of the listed races or failures. *)
(***************************************************************************)
THEOREM RowsCorrect == Spec => []RowsHaveBlobs
<1>1. StoreInv => RowsHaveBlobs
  BY DEF StoreInv
<1> QED
  BY <1>1, StoreAlways, PTL

(***************************************************************************)
(* existCache claims no blob that is gone once nobody works on the hash:   *)
(* every removal is followed by its Invalidate.                            *)
(***************************************************************************)
THEOREM CacheCorrect == Spec => []CacheCoherent
<1>1. StoreInv => CacheCoherent
  <2> SUFFICES ASSUME StoreInv, NEW k \in Hashes, Quiet(k), k \in cache,
                      k \notin blobs \cup endangered
               PROVE  FALSE
    BY DEF CacheCoherent
  <2>1. PICK g \in Handlers : (pc[g] = "invalidate" /\ op[g].hash = k) \/ pc[g] = "clear"
    BY DEF StoreInv, CachedInv
  <2>2. OpOK(pc[g], op[g])
    BY DEF StoreInv, OpInv
  <2>3. k \in Busy(g)
    BY <2>1, <2>2, StoreConstants DEF OpOK, Busy
  <2> QED
    BY <2>3 DEF Quiet
<1> QED
  BY <1>1, StoreAlways, PTL

(***************************************************************************)
(* A blob nobody works on has a row: DeleteFile and EmptyTrash free the    *)
(* space of the last reference, unless a crash, a move, a cascade, a       *)
(* failing os.Remove or a race with another operation on the same content  *)
(* came in between.                                                        *)
(***************************************************************************)
THEOREM OrphanCorrect == Spec => []NoOrphanBlobs
<1>1. StoreInv => NoOrphanBlobs
  <2> SUFFICES ASSUME StoreInv, NEW k \in Hashes, Quiet(k), k \in blobs, ~ Referenced(k),
                      k \notin endangered \cup littered
               PROVE  FALSE
    BY DEF NoOrphanBlobs
  <2>1. PICK h \in Handlers : Owes(pc[h], op[h], k)
    BY DEF StoreInv, OwedInv
  <2>2. k \in Busy(h)
    BY <2>1, StoreConstants DEF Owes, Busy
  <2> QED
    BY <2>2 DEF Quiet
<1> QED
  BY <1>1, StoreAlways, PTL
=============================================================================
