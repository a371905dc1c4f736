------------------------- MODULE VaultFoldersProofs -------------------------
(***************************************************************************)
(* Proofs about VaultFolders, for any number of folders, files, vault      *)
(* sessions and handlers, with and without failing queries.                *)
(***************************************************************************)
EXTENDS VaultFolders, TLAPS

\* Folder d exists or existed: whether it is a vault folder is settled.
Made(d) == d \in made \cup System

(***************************************************************************)
(* The folders form a forest whose trees lie inside or outside the vault:  *)
(* every set of folders has one whose parent is not in the set.            *)
(***************************************************************************)
TreeInv ==
    /\ NoDangling
    /\ \A d \in dirs : inVault[d] = Domain(parent[d])
    /\ \A S \in SUBSET dirs : S # {} => \E d \in S : parent[d] \notin S

CacheInv == CacheSound /\ (cacheValid => VaultRoot \in cacheIDs)

\* The key for content on the given side of the vault's boundary.
SideKey(isVault) == IF isVault THEN "vk" ELSE "std"

\* What an upload or a download to the server knows: the keys of the content it
\* made, or of the content it found.
StoreLoc(p, l) ==
    /\ p \in {"chunk", "encrypt", "claim", "compare", "prove", "fetch", "insert"} => Made(l.dir)
    /\ p = "compare" => Made(l.src)
    /\ ~ l.odd =>
          /\ p \in {"chunk", "encrypt"} => l.keys \subseteq {KeyOf(l.dir)}
          /\ p = "compare" => l.keys = {KeyOf(l.src)} /\ l.vault = Domain(l.dir)
          /\ p = "fetch" => l.vault = Domain(l.dir)
          /\ p \in {"prove", "insert"} => l.keys = {KeyOf(l.dir)}

\* What a move knows: the keys of the content it read, and of the one it made.
MoveLoc(p, l) ==
    /\ p \in {"target", "source"} => Made(l.src)
    /\ p \in {"source", "dest", "reencrypt", "update", "batch"} => Made(l.dir)
    /\ ~ l.odd =>
          /\ p \in {"target", "source"} => l.keys = {KeyOf(l.src)}
          /\ p \in {"dest", "reencrypt"} => l.keys = {SideKey(l.vault)}
          /\ p = "reencrypt" => l.vault # Domain(l.dir)
          /\ p = "update" => l.keys = {KeyOf(l.dir)}

\* What a folder deletion or a ZIP download knows of the folders it collected.
CollectLoc(p, l) ==
    /\ p \in {"collect", "rmdir", "gather"} =>
          /\ l.queue \subseteq l.coll
          /\ Made(l.dir)
          /\ \A c \in l.coll : Made(c) /\ Domain(c) = Domain(l.dir)
    /\ p \in {"collect", "rmdir"} =>
          /\ l.dir \in Folders
          /\ \A c \in l.coll : c \in Folders /\ (c = l.dir \/ parent[c] \in l.coll)
          /\ Domain(l.dir) => l.sess # NoSession
    /\ ~ l.odd =>
          /\ p = "rmdir" /\ l.dir \in dirs => l.vault = Domain(l.dir)
          /\ p = "gather" => l.vault = Domain(l.dir)
          /\ p \in {"gather", "stream"} =>
                \A e \in l.snap : e.odd \/ e.keys = {SideKey(l.vault)}

\* What a request that was let in knows: where the row was that it read, or
\* which of the folders there were are the vault's.
ActLoc(p, l) ==
    /\ p \in {"permit", "act"} => Made(l.src)
    /\ ~ l.odd =>
          /\ p = "act" => l.vault = Domain(l.src)
          /\ p = "sweep" /\ ~ l.vault =>
                \A d \in l.queue : Made(d) /\ (Domain(d) => d \in l.coll)

\* What handler knows that stands at p with the local variables l.
GoodLoc(p, l) == StoreLoc(p, l) /\ MoveLoc(p, l) /\ CollectLoc(p, l) /\ ActLoc(p, l)

LocInv == \A h \in Handlers : GoodLoc(pc[h], loc[h])

VaultInv == TypeOK /\ TreeInv /\ CacheInv /\ KeyMatchesFolder /\ LocInv

-----------------------------------------------------------------------------
(* The tree of folders. *)

\* Everything below the folders S: it contains S and is closed under children.
LEMMA BelowClosed ==
  ASSUME NEW S
  PROVE  /\ S \subseteq Below(S)
         /\ \A c \in dirs : parent[c] \in Below(S) => c \in Below(S)
  BY DEF Below

\* The walk down from f2 finds exactly the folders created inside the vault.
LEMMA VaultIDsRight ==
  ASSUME TypeOK, TreeInv
  PROVE  /\ \A d \in dirs : d \in VaultIDs <=> inVault[d]
         /\ VaultRoot \in VaultIDs
         /\ VaultIDs \subseteq Places
<1>1. /\ dirs \subseteq Folders /\ VaultRoot \notin Folders
      /\ inVault \in [Folders -> BOOLEAN]
  BY VaultConstants DEF TypeOK, System
<1>2. VaultIDs \subseteq Places
  BY <1>1 DEF VaultIDs, Below, Places, System
<1>3. VaultRoot \in VaultIDs
  BY BelowClosed DEF VaultIDs
<1>4. ASSUME NEW d \in dirs, d \in VaultIDs
      PROVE  inVault[d]
  <2> DEFINE T == {VaultRoot} \cup {c \in dirs : inVault[c]}
  <2>1. T \in SUBSET (dirs \cup {VaultRoot}) /\ {VaultRoot} \subseteq T
    OBVIOUS
  <2>2. ASSUME NEW c \in dirs, parent[c] \in T
        PROVE  c \in T
    BY <1>1, <2>2 DEF TreeInv, Domain
  <2>3. d \in T
    BY <1>4, <2>1, <2>2 DEF VaultIDs, Below
  <2> QED
    BY <1>1, <2>3
<1>5. ASSUME NEW d \in dirs, inVault[d]
      PROVE  d \in VaultIDs
  <2> SUFFICES ASSUME NEW T \in SUBSET (dirs \cup {VaultRoot}), {VaultRoot} \subseteq T,
                      \A c \in dirs : parent[c] \in T => c \in T
               PROVE  d \in T
    BY DEF VaultIDs, Below
  <2> DEFINE S == {c \in dirs : inVault[c] /\ c \notin T}
  <2>1. ASSUME d \notin T
        PROVE  FALSE
    <3>1. S \in SUBSET dirs /\ S # {}
      BY <1>5, <2>1
    <3>2. PICK c \in S : parent[c] \notin S
      <4> HIDE DEF S
      <4> QED
        BY <3>1 DEF TreeInv
    <3>3. c \in dirs /\ inVault[c] /\ c \notin T
      BY <3>2
    <3>4. Domain(parent[c]) /\ parent[c] \in dirs \cup System
      BY <3>3 DEF TreeInv, NoDangling, Exists
    <3>5. parent[c] # Root
      BY <3>4, VaultConstants DEF Domain, System
    <3>6. CASE parent[c] = VaultRoot
      BY <3>3, <3>6
    <3>7. CASE parent[c] \in dirs
      <4>1. inVault[parent[c]]
        BY <1>1, <3>4, <3>7 DEF Domain
      <4>2. parent[c] \in T
        BY <3>2, <3>7, <4>1
      <4> QED
        BY <3>3, <4>2
    <3> QED
      BY <3>4, <3>5, <3>6, <3>7 DEF System
  <2> QED
    BY <2>1
<1> QED
  BY <1>2, <1>3, <1>4, <1>5

\* IsVaultFolder leaves the cache or loads it.
LEMMA AnswerCache ==
  ASSUME NEW d, NEW ans, IsVaultFolder(d, ans)
  PROVE  UNCHANGED cacheVars \/ (~ cacheValid /\ LoadCache)
  BY DEF IsVaultFolder

\* A wrong answer of IsVaultFolder has one of the named causes.
LEMMA AnswerRight ==
  ASSUME TypeOK, TreeInv, CacheInv, NEW d \in Places, NEW ans \in BOOLEAN, IsVaultFolder(d, ans)
  PROVE  ans = Domain(d) \/ Wrong(d, ans)
<1> SUFFICES ASSUME ans # Domain(d)
             PROVE  blind' \/ d \notin dirs \/ \E h \in Handlers : pc[h] = "invalidate"
  BY DEF Wrong
<1> SUFFICES ASSUME ~ blind', d \in dirs, \A h \in Handlers : pc[h] # "invalidate"
             PROVE  FALSE
  OBVIOUS
<1>1. d \in Folders /\ d \notin System /\ d # VaultRoot /\ inVault[d] \in BOOLEAN
  BY VaultConstants DEF TypeOK, System
<1>2. ans # inVault[d]
  <2>1. Domain(d) = inVault[d]
    BY <1>1 DEF Domain
  <2> QED
    BY <2>1
<1>3. CASE cacheValid /\ ans = (d \in cacheIDs) /\ UNCHANGED cacheVars
  <2>1. ~ blind
    BY <1>3 DEF cacheVars
  <2>2. d \in cacheIDs <=> inVault[d]
    BY <1>3, <2>1 DEF CacheInv, CacheSound
  <2>3. (d \in cacheIDs) = inVault[d]
    BY <1>1, <2>2
  <2> QED
    BY <1>2, <1>3, <2>3
<1>4. CASE ~ cacheValid /\ LoadCache /\ ans = (d \in cacheIDs')
  <2>1. cacheIDs' = VaultIDs
    BY <1>4 DEF LoadCache
  <2>2. d \in VaultIDs <=> inVault[d]
    BY VaultIDsRight
  <2>3. (d \in VaultIDs) = inVault[d]
    BY <1>1, <2>2
  <2> QED
    BY <1>2, <1>4, <2>1, <2>3
<1> QED
  BY <1>1, <1>3, <1>4 DEF IsVaultFolder

-----------------------------------------------------------------------------
(* Steps. *)

DbType ==
    /\ dirs \subseteq made /\ made \subseteq Folders
    /\ parent \in [Folders -> Places]
    /\ live \subseteq born /\ born \subseteq Files
    /\ trash \subseteq live
    /\ at \in [Files -> Places]
    /\ keys \in [Files -> SUBSET Keys]
    /\ inVault \in [Folders -> BOOLEAN]
    /\ odd \subseteq live

CacheType ==
    /\ cacheValid \in BOOLEAN /\ blind \in BOOLEAN
    /\ cacheIDs \subseteq Places

KeyType ==
    /\ store \in [Sessions -> {"absent", "live", "expired"}]
    /\ bytes \in [Sessions -> {"vk", "junk"}]

HandlerType == pc \in [Handlers -> PCs] /\ loc \in [Handlers -> Locals]

LEMMA TypeParts == TypeOK <=> DbType /\ CacheType /\ KeyType /\ HandlerType
  BY DEF TypeOK, DbType, CacheType, KeyType, HandlerType

\* Whether a folder that exists or existed is in the vault never changes.
Stable ==
    /\ \A d : Made(d) => Made(d)' /\ Domain(d)' = Domain(d)
    /\ \A d \in made : parent'[d] = parent[d] /\ (d \in dirs' => d \in dirs)

LEMMA StableKeep ==
  ASSUME UNCHANGED <<dirs, made, parent, inVault>>
  PROVE  Stable
  BY DEF Stable, Made, Domain

\* What a handler knows lasts.
LEMMA GoodLocKept ==
  ASSUME TypeOK, Stable, NEW p, NEW l, GoodLoc(p, l)
  PROVE  GoodLoc(p, l)'
<1>1. \A d : Made(d) => Made(d)' /\ Domain(d)' = Domain(d) /\ KeyOf(d)' = KeyOf(d)
  BY DEF Stable, KeyOf
<1>2. StoreLoc(p, l)'
  BY <1>1 DEF GoodLoc, StoreLoc
<1>3. MoveLoc(p, l)'
  BY <1>1 DEF GoodLoc, MoveLoc, SideKey
<1>4. CollectLoc(p, l)'
  <2>1. \A d \in Folders : Made(d) =>
           d \in made /\ parent'[d] = parent[d] /\ (d \in dirs' => d \in dirs)
    BY VaultConstants DEF Stable, Made
  <2>2. CollectLoc(p, l)
    BY DEF GoodLoc
  <2>3. p \in {"collect", "rmdir", "gather"} =>
           /\ l.queue \subseteq l.coll
           /\ Made(l.dir)'
           /\ \A c \in l.coll : Made(c)' /\ Domain(c)' = Domain(l.dir)'
    BY <1>1, <2>2 DEF CollectLoc
  <2>4. p \in {"collect", "rmdir"} =>
           /\ l.dir \in Folders
           /\ \A c \in l.coll : c \in Folders /\ (c = l.dir \/ parent'[c] \in l.coll)
           /\ Domain(l.dir)' => l.sess # NoSession
    BY <1>1, <2>1, <2>2, <2>3 DEF CollectLoc
  <2>5. ~ l.odd =>
           /\ p = "rmdir" /\ l.dir \in dirs' => l.vault = Domain(l.dir)'
           /\ p = "gather" => l.vault = Domain(l.dir)'
    BY <1>1, <2>1, <2>2 DEF CollectLoc
  <2> QED
    BY <2>2, <2>3, <2>4, <2>5 DEF CollectLoc, SideKey
<1>5. ActLoc(p, l)'
  BY <1>1 DEF GoodLoc, ActLoc
<1> QED
  BY <1>2, <1>3, <1>4, <1>5 DEF GoodLoc

LEMMA LocStep ==
  ASSUME TypeOK, LocInv, Stable, NEW h \in Handlers, NEW p \in PCs, NEW l \in Locals,
         Become(h, p, l), GoodLoc(p, l)
  PROVE  LocInv' /\ HandlerType'
<1>1. /\ pc'[h] = p /\ loc'[h] = l
      /\ \A g \in Handlers \ {h} : pc'[g] = pc[g] /\ loc'[g] = loc[g]
  BY DEF Become, TypeOK
<1>2. ASSUME NEW g \in Handlers
      PROVE  GoodLoc(pc[g], loc[g])'
  <2>1. PICK q, m : q = pc'[g] /\ m = loc'[g]
    OBVIOUS
  <2>2. GoodLoc(q, m)
    BY <1>1, <2>1 DEF LocInv
  <2>3. GoodLoc(q, m)'
    BY <2>2, GoodLocKept
  <2> QED
    BY <2>1, <2>3
<1> QED
  BY <1>2 DEF LocInv, HandlerType, Become, TypeOK

LEMMA LocKept ==
  ASSUME TypeOK, LocInv, Stable, UNCHANGED <<pc, loc>>
  PROVE  LocInv' /\ HandlerType'
<1>1. ASSUME NEW g \in Handlers
      PROVE  GoodLoc(pc[g], loc[g])'
  <2>1. PICK q, m : q = pc[g] /\ m = loc[g]
    OBVIOUS
  <2>2. GoodLoc(q, m)
    BY <2>1 DEF LocInv
  <2>3. GoodLoc(q, m)'
    BY <2>2, GoodLocKept
  <2> QED
    BY <2>1, <2>3
<1> QED
  BY <1>1 DEF LocInv, HandlerType, TypeOK

\* The folders stay, and so does every pending invalidation.
LEMMA CacheKept ==
  ASSUME TypeOK, TreeInv, CacheInv, UNCHANGED <<dirs, inVault>>,
         UNCHANGED cacheVars \/ LoadCache,
         \A g \in Handlers : pc[g] = "invalidate" => pc'[g] = "invalidate"
  PROVE  CacheInv' /\ CacheType'
<1>1. CASE UNCHANGED cacheVars
  BY <1>1 DEF CacheInv, CacheSound, CacheType, TypeOK, cacheVars
<1>2. CASE LoadCache
  <2>1. VaultRoot \in cacheIDs' /\ cacheIDs' \subseteq Places
    BY <1>2, VaultIDsRight DEF LoadCache, Places, System
  <2>2. CacheType'
    BY <1>2, <2>1 DEF LoadCache, CacheType
  <2>3. CASE blind'
    BY <2>1, <2>2, <2>3 DEF CacheInv, CacheSound
  <2>4. CASE ~ blind'
    <3>1. cacheIDs' = VaultIDs
      BY <1>2, <2>4 DEF LoadCache
    <3> QED
      BY <2>1, <2>2, <3>1, VaultIDsRight DEF CacheInv, CacheSound
  <2> QED
    BY <2>2, <2>3, <2>4
<1> QED
  BY <1>1, <1>2

\* A change of the folders awaits its invalidation.
LEMMA CachePending ==
  ASSUME TypeOK, CacheInv, UNCHANGED cacheVars, NEW h \in Handlers, pc'[h] = "invalidate"
  PROVE  CacheInv' /\ CacheType'
  BY DEF CacheInv, CacheSound, CacheType, TypeOK, cacheVars

LEMMA CacheDropped ==
  ASSUME InvalidateVaultCache
  PROVE  CacheInv' /\ CacheType'
  BY DEF InvalidateVaultCache, CacheInv, CacheSound, CacheType

LEMMA RowsKept ==
  ASSUME TypeOK, TreeInv, KeyMatchesFolder, UNCHANGED <<dbVars, inVault, odd>>
  PROVE  DbType' /\ TreeInv' /\ KeyMatchesFolder'
<1>1. DbType'
  BY DEF TypeOK, DbType, dbVars
<1>2. TreeInv'
  BY DEF TreeInv, NoDangling, Exists, Domain, dbVars
<1>3. KeyMatchesFolder'
  BY DEF KeyMatchesFolder, KeyOf, Domain, dbVars
<1> QED
  BY <1>1, <1>2, <1>3

LEMMA WipeType ==
  ASSUME TypeOK, NEW S, Wipe(S)
  PROVE  KeyType'
  BY DEF Wipe, TypeOK, KeyType

\* A step of one handler that leaves the tables alone.
LEMMA LocalStep ==
  ASSUME VaultInv, NEW h \in Handlers, NEW p \in PCs, NEW l \in Locals,
         Become(h, p, l), GoodLoc(p, l), pc[h] # "invalidate",
         UNCHANGED <<dbVars, inVault, odd>>, UNCHANGED cacheVars \/ LoadCache,
         UNCHANGED keyVars \/ \E S \in SUBSET Sessions : Wipe(S)
  PROVE  VaultInv'
<1> USE DEF VaultInv
<1>1. DbType' /\ TreeInv' /\ KeyMatchesFolder'
  BY RowsKept
<1>2. Stable
  BY StableKeep DEF dbVars
<1>3. LocInv' /\ HandlerType'
  BY <1>2, LocStep
<1>4. \A g \in Handlers : pc[g] = "invalidate" => pc'[g] = "invalidate"
  BY DEF Become, TypeOK
<1>5. CacheInv' /\ CacheType'
  <2>1. UNCHANGED <<dirs, inVault>>
    BY DEF dbVars
  <2> QED
    BY <1>4, <2>1, CacheKept
<1>6. KeyType'
  BY WipeType DEF KeyType, TypeOK, keyVars
<1>7. TypeOK'
  BY <1>1, <1>3, <1>5, <1>6 DEF TypeOK, DbType, CacheType, KeyType, HandlerType
<1> QED
  BY <1>1, <1>3, <1>5, <1>7

\* A step of the environment that leaves the tables alone.
LEMMA KeyStep ==
  ASSUME VaultInv, UNCHANGED <<dbVars, inVault, odd, hVars>>,
         UNCHANGED cacheVars \/ LoadCache \/ InvalidateVaultCache, KeyType'
  PROVE  VaultInv'
<1> USE DEF VaultInv
<1>1. DbType' /\ TreeInv' /\ KeyMatchesFolder'
  BY RowsKept
<1>2. Stable
  BY StableKeep DEF dbVars
<1>3. LocInv' /\ HandlerType'
  BY <1>2, LocKept DEF hVars
<1>4. CacheInv' /\ CacheType'
  <2>1. UNCHANGED <<dirs, inVault, pc>>
    BY DEF dbVars, hVars
  <2> QED
    BY <2>1, CacheKept, CacheDropped
<1>5. TypeOK'
  BY <1>1, <1>3, <1>4 DEF TypeOK, DbType, CacheType, KeyType, HandlerType
<1> QED
  BY <1>1, <1>3, <1>4, <1>5

-----------------------------------------------------------------------------
(* The steps of uploads and downloads. *)

LEMMA NoLocType == NoLoc \in Locals
  BY VaultConstants DEF NoLoc, Locals, Cookies, Places, System

\* At its end, or between its statements, a request knows nothing.
LEMMA NoLocGood ==
  ASSUME NEW p \in {"idle", "invalidate", "purgefiles", "purgefolders", "mkdir"}, NEW l
  PROVE  p \in PCs /\ GoodLoc(p, l)
  BY DEF GoodLoc, StoreLoc, MoveLoc, CollectLoc, ActLoc, PCs

LEMMA ReturnStep ==
  ASSUME VaultInv, NEW h \in Handlers, Return(h), pc[h] # "invalidate",
         UNCHANGED <<dbVars, cacheVars, keyVars, inVault, odd>>
  PROVE  VaultInv'
<1>1. "idle" \in PCs /\ GoodLoc("idle", NoLoc)
  BY NoLocGood
<1> QED
  BY <1>1, NoLocType, LocalStep DEF Return

\* An existing folder is in shape.
LEMMA ExistsMade ==
  ASSUME TypeOK, NEW d, Exists(d)
  PROVE  Made(d) /\ d \in Places
  BY DEF TypeOK, Exists, Made, Places

LEMMA LocType ==
  ASSUME TypeOK, NEW h \in Handlers
  PROVE  loc[h] \in Locals
  BY DEF TypeOK

LEMMA SliceType ==
  ASSUME TypeOK, NEW r
  PROVE  Slice(r) \in {"vk", "junk"}
  BY DEF TypeOK, Slice

LEMMA VaultInitSession ==
  ASSUME VaultInv, NEW h \in Handlers, NEW d \in Places, NEW s \in Sessions, InitSession(h, d, s)
  PROVE  VaultInv'
<1> DEFINE l == [NoLoc EXCEPT !.dir = d, !.sess = s]
<1>1. l \in Locals /\ l.dir = d /\ l.keys = {}
  BY NoLocType DEF Locals, NoLoc, Cookies
<1>2. PICK p \in {"chunk", "claim"} :
         Become(h, p, l) /\ pc[h] = "idle" /\ UNCHANGED <<dbVars, keyVars, inVault, odd>>
  BY DEF InitSession
<1>3. UNCHANGED cacheVars \/ LoadCache
  BY AnswerCache DEF InitSession
<1>4. Made(d)
  BY ExistsMade DEF InitSession, VaultInv
<1> HIDE DEF l
<1>5. GoodLoc(p, l) /\ p \in PCs
  BY <1>1, <1>2, <1>4 DEF GoodLoc, StoreLoc, MoveLoc, CollectLoc, ActLoc, PCs
<1> QED
  BY <1>1, <1>2, <1>3, <1>5, LocalStep

\* What is stored is under the key of the folder it was stored for.
LEMMA ContentGood ==
  ASSUME VaultInv, NEW c \in Content
  PROVE  /\ c.at \in Places /\ Made(c.at) /\ c.keys \in SUBSET Keys /\ c.odd \in BOOLEAN
         /\ ~ c.odd => c.keys = {KeyOf(c.at)}
<1>1. CASE \E d \in System :
              c = [at |-> d, keys |-> {KeyOf(d)}, odd |-> FALSE, found |-> FALSE]
  BY <1>1 DEF Made, Places, KeyOf, Keys
<1>2. CASE \E f \in live :
              c = [at |-> at[f], keys |-> keys[f], odd |-> f \in odd, found |-> f \notin trash]
  <2>1. PICK f \in live :
           c = [at |-> at[f], keys |-> keys[f], odd |-> f \in odd, found |-> f \notin trash]
    BY <1>2
  <2>2. f \in Files /\ at[f] \in Places /\ keys[f] \in SUBSET Keys /\ (f \in odd) \in BOOLEAN
    BY DEF VaultInv, TypeOK
  <2>3. Made(at[f])
    BY ExistsMade DEF VaultInv, TreeInv, NoDangling
  <2>4. f \notin odd => keys[f] = {KeyOf(at[f])}
    BY DEF VaultInv, KeyMatchesFolder
  <2>5. c.at = at[f] /\ c.keys = keys[f] /\ c.odd = (f \in odd)
    BY <2>1
  <2> QED
    BY <2>2, <2>3, <2>4, <2>5
<1> QED
  BY <1>1, <1>2 DEF Content

LEMMA VaultFindContent ==
  ASSUME VaultInv, NEW h \in Handlers, FindContent(h)
  PROVE  VaultInv'
<1>1. PICK x \in Locals : x = loc[h] /\ GoodLoc(pc[h], x)
  BY LocType DEF VaultInv, LocInv
<1>2. pc[h] = "claim" /\ UNCHANGED <<dbVars, keyVars, inVault, odd>>
  BY DEF FindContent
<1>3. PICK c \in Content, a \in Places, ans \in BOOLEAN :
         /\ \/ c.found /\ a = c.at
            \/ (~ c.found \/ DBErrors) /\ a = Root
         /\ IsVaultFolder(x.dir, ans)
         /\ Become(h, "compare",
                   [x EXCEPT !.src = a, !.keys = c.keys, !.vault = ans,
                             !.odd = c.odd \/ Domain(a) # Domain(c.at) \/ Wrong(x.dir, ans)])
  BY <1>1, ZenonT(60) DEF FindContent
<1>4. /\ Made(c.at) /\ c.keys \in SUBSET Keys /\ c.odd \in BOOLEAN
      /\ ~ c.odd => c.keys = {KeyOf(c.at)}
  BY ContentGood
<1>5. PICK o \in BOOLEAN, ks \in SUBSET Keys :
         /\ o = (c.odd \/ Domain(a) # Domain(c.at) \/ Wrong(x.dir, ans))
         /\ ks = c.keys
  BY <1>4
<1> DEFINE l == [x EXCEPT !.src = a, !.keys = ks, !.vault = ans, !.odd = o]
<1>6. /\ l \in Locals /\ l.dir = x.dir /\ l.src = a /\ l.keys = ks /\ l.vault = ans /\ l.odd = o
  BY <1>1, <1>3, <1>5 DEF Locals
<1>7. Become(h, "compare", l)
  BY <1>3, <1>5
<1> HIDE DEF l
<1>8. x.dir \in Places /\ Made(x.dir) /\ Made(a)
  BY <1>1, <1>2, <1>3, <1>4 DEF Locals, GoodLoc, StoreLoc, Made, System
<1>9. ans = Domain(x.dir) \/ Wrong(x.dir, ans)
  BY <1>3, <1>8, AnswerRight DEF VaultInv
<1>10. ~ o => ks = {KeyOf(a)} /\ ans = Domain(x.dir)
  BY <1>4, <1>5, <1>9 DEF KeyOf
<1>11. GoodLoc("compare", l) /\ "compare" \in PCs
  BY <1>6, <1>8, <1>10 DEF GoodLoc, StoreLoc, MoveLoc, CollectLoc, ActLoc, PCs
<1>12. UNCHANGED cacheVars \/ LoadCache
  BY <1>3, AnswerCache
<1> QED
  BY <1>2, <1>6, <1>7, <1>11, <1>12, LocalStep

LEMMA VaultCompareDomains ==
  ASSUME VaultInv, NEW h \in Handlers, CompareDomains(h)
  PROVE  VaultInv'
<1>1. PICK x \in Locals : x = loc[h] /\ GoodLoc(pc[h], x)
  BY LocType DEF VaultInv, LocInv
<1>2. pc[h] = "compare" /\ UNCHANGED <<dbVars, keyVars, inVault, odd>>
  BY DEF CompareDomains
<1>3. PICK ans \in BOOLEAN :
         /\ IsVaultFolder(x.src, ans)
         /\ IF ans = x.vault
            THEN Become(h, "prove", [NoLoc EXCEPT !.dir = x.dir, !.keys = x.keys,
                                                  !.odd = x.odd \/ Wrong(x.src, ans)])
            ELSE Become(h, "chunk", [NoLoc EXCEPT !.dir = x.dir, !.sess = x.sess])
  BY <1>1 DEF CompareDomains
<1>4. PICK o \in BOOLEAN : o = (x.odd \/ Wrong(x.src, ans))
  OBVIOUS
<1>5. /\ x.dir \in Places /\ x.src \in Places /\ Made(x.dir) /\ Made(x.src)
      /\ ~ x.odd => x.keys = {KeyOf(x.src)} /\ x.vault = Domain(x.dir)
  BY <1>1, <1>2 DEF Locals, GoodLoc, StoreLoc
<1>6. ans = Domain(x.src) \/ Wrong(x.src, ans)
  BY <1>3, <1>5, AnswerRight DEF VaultInv
<1>7. UNCHANGED cacheVars \/ LoadCache
  BY <1>3, AnswerCache
<1>8. CASE ans = x.vault
  <2> DEFINE l == [NoLoc EXCEPT !.dir = x.dir, !.keys = x.keys, !.odd = o]
  <2>1. l \in Locals /\ l.dir = x.dir /\ l.keys = x.keys /\ l.odd = o
    BY <1>1, <1>4, NoLocType, ZenonT(60) DEF Locals
  <2>2. Become(h, "prove", l)
    BY <1>3, <1>4, <1>8
  <2> HIDE DEF l
  <2>3. ~ o => x.keys = {KeyOf(x.dir)}
    BY <1>4, <1>5, <1>6, <1>8 DEF KeyOf
  <2>4. GoodLoc("prove", l) /\ "prove" \in PCs
    BY <1>5, <2>1, <2>3 DEF GoodLoc, StoreLoc, MoveLoc, CollectLoc, ActLoc, PCs
  <2> QED
    BY <1>2, <1>7, <2>1, <2>2, <2>4, LocalStep
<1>9. CASE ans # x.vault
  <2> DEFINE l == [NoLoc EXCEPT !.dir = x.dir, !.sess = x.sess]
  <2>1. l \in Locals /\ l.dir = x.dir /\ l.keys = {}
    BY <1>1, NoLocType DEF Locals, NoLoc
  <2>2. Become(h, "chunk", l)
    BY <1>3, <1>9
  <2> HIDE DEF l
  <2>3. GoodLoc("chunk", l) /\ "chunk" \in PCs
    BY <1>5, <2>1 DEF GoodLoc, StoreLoc, MoveLoc, CollectLoc, ActLoc, PCs
  <2> QED
    BY <1>2, <1>7, <2>1, <2>2, <2>3, LocalStep
<1> QED
  BY <1>8, <1>9

LEMMA VaultMiddleware ==
  ASSUME VaultInv, NEW h \in Handlers, VaultKeyMiddleware(h)
  PROVE  VaultInv'
<1>1. PICK x \in Locals : x = loc[h] /\ GoodLoc(pc[h], x)
  BY LocType DEF VaultInv, LocInv
<1>2. PICK r \in Cookies : r = IF Unlocked(x.sess) THEN x.sess ELSE NoSession
  BY DEF Unlocked, Cookies
<1> DEFINE l == [x EXCEPT !.ref = r]
<1>3. l \in Locals /\ l.dir = x.dir /\ l.keys = x.keys /\ l.odd = x.odd
  BY <1>1, <1>2 DEF Locals
<1>4. /\ Become(h, "encrypt", l) /\ pc[h] = "chunk"
      /\ UNCHANGED <<dbVars, cacheVars, keyVars, inVault, odd>>
  BY <1>1, <1>2 DEF VaultKeyMiddleware
<1> HIDE DEF l
<1>5. GoodLoc("encrypt", l) /\ "encrypt" \in PCs
  BY <1>1, <1>3, <1>4 DEF GoodLoc, StoreLoc, MoveLoc, CollectLoc, ActLoc, PCs
<1> QED
  BY <1>3, <1>4, <1>5, LocalStep

LEMMA VaultUploadChunk ==
  ASSUME VaultInv, NEW h \in Handlers, UploadChunk(h)
  PROVE  VaultInv'
<1>1. PICK x \in Locals : x = loc[h] /\ GoodLoc(pc[h], x)
  BY LocType DEF VaultInv, LocInv
<1>2. pc[h] = "encrypt" /\ UNCHANGED <<dbVars, keyVars, inVault, odd>>
  BY DEF UploadChunk
<1>3. PICK ans \in BOOLEAN, more \in BOOLEAN :
         /\ IsVaultFolder(x.dir, ans)
         /\ Become(h, IF more THEN "chunk" ELSE "insert",
                   [x EXCEPT !.keys = @ \cup {ChunkKey(x, ans)}, !.ref = NoSession,
                             !.sess = IF more THEN @ ELSE NoSession,
                             !.odd = @ \/ Wrong(x.dir, ans) \/ Wiped(ChunkKey(x, ans))])
  BY <1>1 DEF UploadChunk
<1>4. PICK k \in Keys : k = ChunkKey(x, ans) /\ (ans => k \in {"vk", "junk"}) /\ (~ ans => k = "std")
  BY SliceType DEF ChunkKey, Keys, VaultInv
<1>5. PICK o \in BOOLEAN : o = (x.odd \/ Wrong(x.dir, ans) \/ Wiped(k))
  OBVIOUS
<1>6. PICK c \in Cookies : c = IF more THEN x.sess ELSE NoSession
  BY <1>1 DEF Locals, Cookies
<1>7. PICK q \in {"chunk", "insert"} : q = IF more THEN "chunk" ELSE "insert"
  OBVIOUS
<1>a. PICK ks \in SUBSET Keys : ks = x.keys \cup {k}
  BY <1>1, <1>4 DEF Locals
<1> DEFINE l == [x EXCEPT !.keys = ks, !.ref = NoSession, !.sess = c, !.odd = o]
<1>8. l \in Locals /\ l.dir = x.dir /\ l.keys = ks /\ l.odd = o
  BY <1>1, <1>a, <1>5, <1>6, ZenonT(40) DEF Locals, Cookies
<1>9. Become(h, q, l)
  BY <1>3, <1>4, <1>5, <1>6, <1>7, <1>a
<1> HIDE DEF l
<1>10. x.dir \in Places /\ Made(x.dir) /\ (~ x.odd => x.keys \subseteq {KeyOf(x.dir)})
  BY <1>1, <1>2 DEF Locals, GoodLoc, StoreLoc
<1>11. ans = Domain(x.dir) \/ Wrong(x.dir, ans)
  BY <1>3, <1>10, AnswerRight DEF VaultInv
<1>12. ~ o => k = KeyOf(x.dir) /\ ~ x.odd
  BY <1>4, <1>5, <1>11 DEF KeyOf, Wiped
<1>13. GoodLoc(q, l) /\ q \in PCs
  BY <1>7, <1>8, <1>10, <1>12, <1>a DEF GoodLoc, StoreLoc, MoveLoc, CollectLoc, ActLoc, PCs
<1>14. UNCHANGED cacheVars \/ LoadCache
  BY <1>3, AnswerCache
<1> QED
  BY <1>2, <1>8, <1>9, <1>13, <1>14, LocalStep

LEMMA VaultStartDownload ==
  ASSUME VaultInv, NEW h \in Handlers, NEW d \in Places, NEW s \in Sessions, StartDownload(h, d, s)
  PROVE  VaultInv'
<1>1. /\ pc[h] = "idle" /\ Exists(d)
      /\ UNCHANGED <<dbVars, cacheVars, keyVars, inVault, odd>>
  BY DEF StartDownload
<1>2. PICK ans \in BOOLEAN :
         Become(h, "fetch", [NoLoc EXCEPT !.dir = d, !.vault = ans,
                                          !.ref = IF ans THEN s ELSE NoSession,
                                          !.odd = ans # Domain(d)])
  BY DEF StartDownload
<1>3. PICK r \in Cookies : r = IF ans THEN s ELSE NoSession
  BY DEF Cookies
<1>4. PICK o \in BOOLEAN : o = (ans # Domain(d))
  OBVIOUS
<1> DEFINE l == [NoLoc EXCEPT !.dir = d, !.vault = ans, !.ref = r, !.odd = o]
<1>5. l \in Locals /\ l.dir = d /\ l.vault = ans /\ l.odd = o
  BY <1>2, <1>3, <1>4, NoLocType, ZenonT(40) DEF Locals, Cookies
<1>6. Become(h, "fetch", l)
  BY <1>2, <1>3, <1>4
<1> HIDE DEF l
<1>7. Made(d)
  BY <1>1, ExistsMade DEF VaultInv
<1>8. GoodLoc("fetch", l) /\ "fetch" \in PCs
  BY <1>4, <1>5, <1>7 DEF GoodLoc, StoreLoc, MoveLoc, CollectLoc, ActLoc, PCs
<1> QED
  BY <1>1, <1>5, <1>6, <1>8, LocalStep

LEMMA VaultOpenStream ==
  ASSUME VaultInv, NEW h \in Handlers, OpenStream(h)
  PROVE  VaultInv'
<1>1. PICK x \in Locals : x = loc[h] /\ GoodLoc(pc[h], x)
  BY LocType DEF VaultInv, LocInv
<1>2. PICK k \in Keys : /\ k = IF x.vault THEN Slice(x.ref) ELSE "std"
                        /\ x.vault => k \in {"vk", "junk"}
  BY SliceType DEF Keys, VaultInv
<1>3. PICK o \in BOOLEAN : o = (x.odd \/ Wiped(k))
  OBVIOUS
<1>a. PICK ks \in SUBSET Keys, r \in Cookies : ks = {k} /\ r = NoSession
  BY DEF Cookies
<1> DEFINE l == [x EXCEPT !.keys = ks, !.ref = r, !.vault = FALSE, !.odd = o]
<1>b. l \in Locals /\ l.dir = x.dir /\ l.keys = ks /\ l.odd = o
  BY DEF Locals
<1>4. l \in Locals /\ l.dir = x.dir /\ l.keys = {k} /\ l.odd = o
  BY <1>a, <1>b
<1>5. /\ Become(h, "insert", l) /\ pc[h] = "fetch"
      /\ UNCHANGED <<dbVars, cacheVars, keyVars, inVault, odd>>
  BY <1>1, <1>2, <1>3, <1>a DEF OpenStream
<1> HIDE DEF l
<1>6. Made(x.dir) /\ (~ x.odd => x.vault = Domain(x.dir))
  BY <1>1, <1>5 DEF GoodLoc, StoreLoc
<1>7. ~ o => k = KeyOf(x.dir)
  BY <1>2, <1>3, <1>6 DEF KeyOf, Wiped
<1>8. GoodLoc("insert", l) /\ "insert" \in PCs
  BY <1>4, <1>6, <1>7 DEF GoodLoc, StoreLoc, MoveLoc, CollectLoc, ActLoc, PCs
<1> QED
  BY <1>4, <1>5, <1>8, LocalStep

-----------------------------------------------------------------------------
(* The steps of moves. *)

\* The row as it is read: its key and its folder.
LEMMA ReadRowGood ==
  ASSUME VaultInv, NEW f \in live, NEW x \in Locals, NEW l, l = ReadRow(x, f)
  PROVE  /\ l \in Locals /\ l.dir = x.dir /\ Made(l.src)
         /\ ~ l.odd => l.keys = {KeyOf(l.src)}
<1>1. f \in Files /\ at[f] \in Places /\ keys[f] \in SUBSET Keys /\ (f \in odd) \in BOOLEAN
  BY DEF VaultInv, TypeOK
<1>2. l \in Locals /\ l.dir = x.dir
  <2>1. PICK a \in Places, ks \in SUBSET Keys, o \in BOOLEAN :
           a = at[f] /\ ks = keys[f] /\ o = (f \in odd)
    BY <1>1
  <2>2. l = [x EXCEPT !.file = f, !.src = a, !.keys = ks, !.odd = o]
    BY <2>1 DEF ReadRow
  <2> QED
    BY <1>1, <2>1, <2>2 DEF Locals
<1>3. l.src = at[f] /\ l.keys = keys[f] /\ l.odd = (f \in odd)
  BY DEF ReadRow, Locals
<1>4. Made(at[f])
  BY ExistsMade DEF VaultInv, TreeInv, NoDangling
<1>5. f \notin odd => keys[f] = {KeyOf(at[f])}
  BY DEF VaultInv, KeyMatchesFolder
<1> QED
  BY <1>2, <1>3, <1>4, <1>5

LEMMA VaultMoveFile ==
  ASSUME VaultInv, NEW h \in Handlers, NEW f \in Files, NEW d \in Places, NEW s \in Sessions,
         MoveFile(h, f, d, s)
  PROVE  VaultInv'
<1> DEFINE x == [NoLoc EXCEPT !.dir = d, !.sess = s]
<1>1. x \in Locals
  BY NoLocType DEF Locals, Cookies
<1>2. /\ f \in live /\ pc[h] = "idle" /\ Become(h, "target", ReadRow(x, f))
      /\ UNCHANGED <<dbVars, cacheVars, keyVars, inVault, odd>>
  BY DEF MoveFile
<1> HIDE DEF x
<1>3. PICK l : l = ReadRow(x, f)
  OBVIOUS
<1>4. l \in Locals /\ Made(l.src) /\ (~ l.odd => l.keys = {KeyOf(l.src)})
  BY <1>1, <1>2, <1>3, ReadRowGood
<1>5. GoodLoc("target", l) /\ "target" \in PCs
  BY <1>4 DEF GoodLoc, StoreLoc, MoveLoc, CollectLoc, ActLoc, PCs
<1> QED
  BY <1>2, <1>3, <1>4, <1>5, LocalStep

LEMMA VaultMoveTarget ==
  ASSUME VaultInv, NEW h \in Handlers, MoveTarget(h)
  PROVE  VaultInv'
<1>1. PICK x \in Locals : x = loc[h] /\ GoodLoc(pc[h], x)
  BY LocType DEF VaultInv, LocInv
<1>2. /\ pc[h] = "target" /\ Exists(x.dir) /\ Become(h, "source", x)
      /\ UNCHANGED <<dbVars, cacheVars, keyVars, inVault, odd>>
  BY <1>1 DEF MoveTarget
<1>3. Made(x.dir)
  BY <1>2, ExistsMade DEF VaultInv
<1>4. GoodLoc("source", x) /\ "source" \in PCs
  BY <1>1, <1>2, <1>3 DEF GoodLoc, StoreLoc, MoveLoc, CollectLoc, ActLoc, PCs
<1> QED
  BY <1>1, <1>2, <1>4, LocalStep

LEMMA VaultMoveBatch ==
  ASSUME VaultInv, NEW h \in Handlers, NEW S \in SUBSET Files, NEW d \in Places,
         NEW s \in Sessions, MoveFilesBatch(h, S, d, s)
  PROVE  VaultInv'
<1> DEFINE l == [NoLoc EXCEPT !.dir = d, !.sess = s, !.todo = S]
<1>1. l \in Locals /\ l.dir = d
  BY NoLocType DEF Locals, Cookies
<1>2. /\ pc[h] = "idle" /\ Exists(d) /\ Become(h, "batch", l)
      /\ UNCHANGED <<dbVars, cacheVars, keyVars, inVault, odd>>
  BY DEF MoveFilesBatch
<1> HIDE DEF l
<1>3. Made(d)
  BY <1>2, ExistsMade DEF VaultInv
<1>4. GoodLoc("batch", l) /\ "batch" \in PCs
  BY <1>1, <1>3 DEF GoodLoc, StoreLoc, MoveLoc, CollectLoc, ActLoc, PCs
<1> QED
  BY <1>1, <1>2, <1>4, LocalStep

LEMMA VaultBatchNext ==
  ASSUME VaultInv, NEW h \in Handlers, BatchNext(h)
  PROVE  VaultInv'
<1>1. PICK x \in Locals : x = loc[h] /\ GoodLoc(pc[h], x)
  BY LocType DEF VaultInv, LocInv
<1>2. pc[h] = "batch" /\ UNCHANGED <<dbVars, cacheVars, keyVars, inVault, odd>>
  BY DEF BatchNext
<1>3. Made(x.dir)
  BY <1>1, <1>2 DEF GoodLoc, MoveLoc
<1>4. CASE Return(h)
  BY <1>2, <1>4, ReturnStep
<1>5. CASE ~ Return(h)
  <2>1. PICK f \in x.todo :
           IF f \in live \ trash /\ at[f] # x.dir
           THEN Become(h, "source", ReadRow([x EXCEPT !.todo = @ \ {f}], f))
           ELSE Become(h, "batch", [x EXCEPT !.todo = @ \ {f}])
    BY <1>1, <1>5 DEF BatchNext
  <2>2. PICK y \in Locals : y = [x EXCEPT !.todo = @ \ {f}] /\ y.dir = x.dir
    <3>1. PICK td \in SUBSET Files : td = x.todo \ {f}
      BY <1>1 DEF Locals
    <3>2. [x EXCEPT !.todo = td] \in Locals /\ [x EXCEPT !.todo = td].dir = x.dir
      BY <1>1, <3>1 DEF Locals
    <3> QED
      BY <3>1, <3>2
  <2>3. CASE f \in live \ trash /\ at[f] # x.dir
    <3>1. PICK l : l = ReadRow(y, f)
      OBVIOUS
    <3>a. f \in live /\ y \in Locals
      BY <2>2, <2>3
    <3>2. l \in Locals /\ l.dir = y.dir /\ Made(l.src) /\ (~ l.odd => l.keys = {KeyOf(l.src)})
      BY <3>1, <3>a, ReadRowGood
    <3>3. GoodLoc("source", l) /\ "source" \in PCs
      BY <1>3, <2>2, <3>2 DEF GoodLoc, StoreLoc, MoveLoc, CollectLoc, ActLoc, PCs
    <3>4. Become(h, "source", l)
      BY <2>1, <2>2, <2>3, <3>1
    <3> QED
      BY <1>2, <3>2, <3>3, <3>4, LocalStep
  <2>4. CASE ~ (f \in live \ trash /\ at[f] # x.dir)
    <3>1. GoodLoc("batch", y) /\ "batch" \in PCs
      BY <1>3, <2>2 DEF GoodLoc, StoreLoc, MoveLoc, CollectLoc, ActLoc, PCs
    <3>2. Become(h, "batch", y)
      BY <2>1, <2>2, <2>4
    <3> QED
      BY <1>2, <2>2, <3>1, <3>2, LocalStep
  <2> QED
    BY <2>3, <2>4
<1> QED
  BY <1>4, <1>5

\* Where a move that is over continues.
LEMMA NextMoveGood ==
  ASSUME VaultInv, NEW h \in Handlers, NextMove(h), Made(loc[h].dir)
  PROVE  \E p \in PCs, l \in Locals : p \in {"idle", "batch"} /\ Become(h, p, l) /\ GoodLoc(p, l)
<1>1. PICK x \in Locals : x = loc[h]
  BY LocType DEF VaultInv
<1>2. CASE x.todo = {}
  <2>1. "idle" \in PCs /\ GoodLoc("idle", NoLoc) /\ Become(h, "idle", NoLoc)
    BY <1>1, <1>2, NoLocGood DEF NextMove, Return
  <2> QED
    BY <2>1, NoLocType
<1>3. CASE x.todo # {}
  <2> DEFINE l == [NoLoc EXCEPT !.dir = x.dir, !.sess = x.sess, !.todo = x.todo]
  <2>1. l \in Locals /\ l.dir = x.dir
    BY <1>1, NoLocType DEF Locals
  <2>2. Become(h, "batch", l)
    BY <1>1, <1>3 DEF NextMove
  <2> HIDE DEF l
  <2>3. GoodLoc("batch", l) /\ "batch" \in PCs
    BY <1>1, <2>1 DEF GoodLoc, StoreLoc, MoveLoc, CollectLoc, ActLoc, PCs
  <2> QED
    BY <2>1, <2>2, <2>3
<1> QED
  BY <1>2, <1>3

LEMMA VaultNextMove ==
  ASSUME VaultInv, NEW h \in Handlers, NextMove(h), pc[h] \in {"source", "reencrypt", "update"},
         UNCHANGED <<dbVars, cacheVars, keyVars, inVault, odd>>
  PROVE  VaultInv'
<1>1. Made(loc[h].dir)
  BY DEF VaultInv, LocInv, GoodLoc, MoveLoc
<1> QED
  BY <1>1, NextMoveGood, LocalStep

LEMMA VaultMoveSource ==
  ASSUME VaultInv, NEW h \in Handlers, MoveSource(h)
  PROVE  VaultInv'
<1>1. PICK x \in Locals : x = loc[h] /\ GoodLoc(pc[h], x)
  BY LocType DEF VaultInv, LocInv
<1>2. pc[h] = "source" /\ UNCHANGED <<dbVars, keyVars, inVault, odd>>
  BY DEF MoveSource
<1>3. PICK ans \in BOOLEAN :
         /\ IsVaultFolder(x.src, ans)
         /\ Become(h, "dest", [x EXCEPT !.vault = ans, !.src = Root,
                                         !.odd = @ \/ Wrong(x.src, ans)])
  BY <1>1 DEF MoveSource
<1>4. PICK o \in BOOLEAN : o = (x.odd \/ Wrong(x.src, ans))
  OBVIOUS
<1> DEFINE l == [x EXCEPT !.vault = ans, !.src = Root, !.odd = o]
<1>5. l \in Locals /\ l.dir = x.dir /\ l.keys = x.keys /\ l.vault = ans /\ l.odd = o
  BY <1>1, <1>3, <1>4, ZenonT(60) DEF Locals, Places, System
<1>6. Become(h, "dest", l)
  BY <1>3, <1>4
<1> HIDE DEF l
<1>7. /\ x.src \in Places /\ Made(x.src) /\ Made(x.dir)
      /\ ~ x.odd => x.keys = {KeyOf(x.src)}
  BY <1>1, <1>2 DEF Locals, GoodLoc, MoveLoc
<1>8. ans = Domain(x.src) \/ Wrong(x.src, ans)
  BY <1>3, <1>7, AnswerRight DEF VaultInv
<1>9. ~ o => l.keys = {SideKey(ans)}
  BY <1>4, <1>5, <1>7, <1>8 DEF SideKey, KeyOf
<1>10. GoodLoc("dest", l) /\ "dest" \in PCs
  BY <1>5, <1>7, <1>9 DEF GoodLoc, StoreLoc, MoveLoc, CollectLoc, ActLoc, PCs
<1>11. UNCHANGED cacheVars \/ LoadCache
  BY <1>3, AnswerCache
<1> QED
  BY <1>2, <1>5, <1>6, <1>10, <1>11, LocalStep

LEMMA VaultMoveDest ==
  ASSUME VaultInv, NEW h \in Handlers, MoveDest(h)
  PROVE  VaultInv'
<1>1. PICK x \in Locals : x = loc[h] /\ GoodLoc(pc[h], x)
  BY LocType DEF VaultInv, LocInv
<1>2. pc[h] = "dest" /\ UNCHANGED <<dbVars, keyVars, inVault, odd>>
  BY DEF MoveDest
<1>3. PICK ans \in BOOLEAN :
         /\ IsVaultFolder(x.dir, ans)
         /\ IF Crosses(x.vault, ans)
            THEN /\ Unlocked(x.sess)
                 /\ Become(h, "reencrypt", [x EXCEPT !.ref = x.sess, !.odd = @ \/ Wrong(x.dir, ans)])
            ELSE Become(h, "update", [x EXCEPT !.vault = FALSE, !.odd = @ \/ Wrong(x.dir, ans)])
  BY <1>1 DEF MoveDest
<1>4. PICK o \in BOOLEAN : o = (x.odd \/ Wrong(x.dir, ans))
  OBVIOUS
<1>5. /\ x.dir \in Places /\ Made(x.dir) /\ x.vault \in BOOLEAN
      /\ ~ x.odd => x.keys = {SideKey(x.vault)}
  BY <1>1, <1>2 DEF Locals, GoodLoc, MoveLoc
<1>6. ans = Domain(x.dir) \/ Wrong(x.dir, ans)
  BY <1>3, <1>5, AnswerRight DEF VaultInv
<1>7. UNCHANGED cacheVars \/ LoadCache
  BY <1>3, AnswerCache
<1>8. CASE Crosses(x.vault, ans)
  <2> DEFINE l == [x EXCEPT !.ref = x.sess, !.odd = o]
  <2>1. l \in Locals /\ l.dir = x.dir /\ l.keys = x.keys /\ l.vault = x.vault /\ l.odd = o
    BY <1>1, <1>4 DEF Locals
  <2>2. Become(h, "reencrypt", l)
    BY <1>3, <1>4, <1>8
  <2> HIDE DEF l
  <2>3. x.vault # ans
    BY <1>8 DEF Crosses
  <2>4. ~ o => ~ x.odd /\ x.vault # Domain(x.dir)
    BY <1>4, <1>6, <2>3
  <2>5. GoodLoc("reencrypt", l) /\ "reencrypt" \in PCs
    BY <1>5, <2>1, <2>4 DEF GoodLoc, StoreLoc, MoveLoc, CollectLoc, ActLoc, PCs
  <2> QED
    BY <1>2, <1>7, <2>1, <2>2, <2>5, LocalStep
<1>9. CASE ~ Crosses(x.vault, ans)
  <2> DEFINE l == [x EXCEPT !.vault = FALSE, !.odd = o]
  <2>1. l \in Locals /\ l.dir = x.dir /\ l.keys = x.keys /\ l.odd = o
    BY <1>1, <1>4 DEF Locals
  <2>2. Become(h, "update", l)
    BY <1>3, <1>4, <1>9
  <2> HIDE DEF l
  <2>3. x.vault = ans
    BY <1>9 DEF Crosses
  <2>4. ~ o => l.keys = {KeyOf(x.dir)}
    BY <1>4, <1>5, <1>6, <2>1, <2>3 DEF SideKey, KeyOf
  <2>5. GoodLoc("update", l) /\ "update" \in PCs
    BY <1>5, <2>1, <2>4 DEF GoodLoc, StoreLoc, MoveLoc, CollectLoc, ActLoc, PCs
  <2> QED
    BY <1>2, <1>7, <2>1, <2>2, <2>5, LocalStep
<1> QED
  BY <1>8, <1>9

LEMMA VaultReencrypt ==
  ASSUME VaultInv, NEW h \in Handlers, Reencrypt(h)
  PROVE  VaultInv'
<1>1. PICK x \in Locals : x = loc[h] /\ GoodLoc(pc[h], x)
  BY LocType DEF VaultInv, LocInv
<1>2. pc[h] = "reencrypt" /\ UNCHANGED <<dbVars, cacheVars, keyVars, inVault, odd>>
  BY DEF Reencrypt
<1>3. CASE NextMove(h)
  BY <1>2, <1>3, VaultNextMove
<1>4. CASE ~ NextMove(h)
  <2>1. PICK k \in Keys : k = IF x.vault THEN "std" ELSE Slice(x.ref)
    BY SliceType DEF Keys, VaultInv
  <2>2. ~ x.vault => k \in {"vk", "junk"}
    BY <2>1, SliceType DEF VaultInv
  <2>3. PICK o \in BOOLEAN : o = (x.odd \/ Wiped(k))
    OBVIOUS
  <2>a. PICK ks \in SUBSET Keys : ks = {k}
    BY <2>1
  <2> DEFINE l == [x EXCEPT !.keys = ks, !.ref = NoSession, !.vault = FALSE, !.odd = o]
  <2>4. l \in Locals /\ l.dir = x.dir /\ l.keys = ks /\ l.odd = o
    BY <1>1, <2>3, <2>a DEF Locals, Cookies
  <2>5. Become(h, "update", l)
    BY <1>1, <1>4, <2>1, <2>3, <2>a DEF Reencrypt
  <2> HIDE DEF l
  <2>6. Made(x.dir) /\ x.vault \in BOOLEAN /\ (~ x.odd => x.vault # Domain(x.dir))
    BY <1>1, <1>2 DEF Locals, GoodLoc, MoveLoc
  <2>7. Domain(x.dir) \in BOOLEAN
    BY DEF Domain
  <2>8. ~ o => k = KeyOf(x.dir)
    BY <2>1, <2>2, <2>3, <2>6, <2>7 DEF KeyOf, Wiped
  <2>9. GoodLoc("update", l) /\ "update" \in PCs
    BY <2>4, <2>6, <2>8, <2>a DEF GoodLoc, StoreLoc, MoveLoc, CollectLoc, ActLoc, PCs
  <2> QED
    BY <1>2, <2>4, <2>5, <2>9, LocalStep
<1> QED
  BY <1>3, <1>4

LEMMA VaultMoveFails ==
  ASSUME VaultInv, NEW h \in Handlers, MoveFails(h)
  PROVE  VaultInv'
  BY VaultNextMove DEF MoveFails

LEMMA VaultGiveUp ==
  ASSUME VaultInv, NEW h \in Handlers, GiveUp(h)
  PROVE  VaultInv'
  BY ReturnStep DEF GiveUp

-----------------------------------------------------------------------------
(* The steps of requests about folders that leave the tables alone. *)

LEMMA VaultPanicPurge ==
  ASSUME VaultInv, NEW h \in Handlers, PanicPurge(h)
  PROVE  VaultInv'
<1>1. /\ pc[h] = "idle" /\ Become(h, "purgefiles", NoLoc)
      /\ UNCHANGED <<dbVars, cacheVars, inVault, odd>>
      /\ \E S \in SUBSET Sessions : Wipe(S)
  BY DEF PanicPurge
<1>2. "purgefiles" \in PCs /\ GoodLoc("purgefiles", NoLoc)
  BY NoLocGood
<1> QED
  BY <1>1, <1>2, NoLocType, LocalStep

LEMMA VaultCreateFolder ==
  ASSUME VaultInv, NEW h \in Handlers, NEW d \in Places, NEW s \in Sessions,
         CreateFolder(h, d, s)
  PROVE  VaultInv'
<1> DEFINE l == [NoLoc EXCEPT !.dir = d]
<1>1. l \in Locals
  BY NoLocType DEF Locals
<1>2. /\ pc[h] = "idle" /\ Become(h, "mkdir", l)
      /\ UNCHANGED <<dbVars, keyVars, inVault, odd>>
      /\ UNCHANGED cacheVars \/ LoadCache
  BY AnswerCache DEF CreateFolder
<1> HIDE DEF l
<1>3. "mkdir" \in PCs /\ GoodLoc("mkdir", l)
  BY NoLocGood
<1> QED
  BY <1>1, <1>2, <1>3, LocalStep

LEMMA VaultDeleteFolder ==
  ASSUME VaultInv, NEW h \in Handlers, NEW d \in Places, NEW s \in Sessions,
         DeleteFolder(h, d, s)
  PROVE  VaultInv'
<1>1. d \in Folders /\ Made(d)
  BY ExistsMade DEF DeleteFolder, VaultInv, TypeOK, Exists
<1>2. PICK D \in SUBSET Places : D = {d}
  OBVIOUS
<1>a. PICK ans \in BOOLEAN :
         /\ IsVaultFolder(d, ans)
         /\ Become(h, "collect", [NoLoc EXCEPT !.dir = d, !.coll = {d}, !.queue = {d},
                                               !.sess = IF ans \/ Wrong(d, ans) THEN s
                                                        ELSE NoSession])
  BY DEF DeleteFolder
<1>b. PICK c \in Cookies : c = IF ans \/ Wrong(d, ans) THEN s ELSE NoSession
  BY DEF Cookies
<1> DEFINE l == [NoLoc EXCEPT !.dir = d, !.coll = D, !.queue = D, !.sess = c]
<1>3. l \in Locals /\ l.dir = d /\ l.coll = D /\ l.queue = D /\ l.sess = c /\ l.odd = FALSE
  BY NoLocType, <1>2 DEF Locals, NoLoc
<1>4. /\ pc[h] = "idle" /\ Become(h, "collect", l)
      /\ UNCHANGED <<dbVars, keyVars, inVault, odd>>
      /\ UNCHANGED cacheVars \/ LoadCache
  BY <1>2, <1>a, <1>b, AnswerCache DEF DeleteFolder
<1> HIDE DEF l
<1>c. Domain(d) => c # NoSession
  <2>1. ans = Domain(d) \/ Wrong(d, ans)
    BY <1>a, AnswerRight DEF VaultInv
  <2>2. s # NoSession
    BY VaultConstants
  <2> QED
    BY <1>b, <2>1, <2>2
<1>5. "collect" \in PCs /\ GoodLoc("collect", l)
  BY <1>1, <1>2, <1>3, <1>c DEF GoodLoc, StoreLoc, MoveLoc, CollectLoc, ActLoc, PCs
<1> QED
  BY <1>3, <1>4, <1>5, LocalStep

LEMMA VaultDownloadFolder ==
  ASSUME VaultInv, NEW h \in Handlers, NEW d \in Places, NEW s \in Sessions,
         DownloadFolder(h, d, s)
  PROVE  VaultInv'
<1>1. Made(d)
  BY ExistsMade DEF DownloadFolder, VaultInv, Exists, System
<1>2. PICK ans \in BOOLEAN :
         /\ IsVaultFolder(d, ans)
         /\ Become(h, "gather",
                   [NoLoc EXCEPT !.dir = d, !.vault = ans, !.coll = {d}, !.queue = {d},
                                 !.ref = IF ans THEN s ELSE NoSession,
                                 !.odd = Wrong(d, ans)])
  BY DEF DownloadFolder
<1>3. PICK D \in SUBSET Places : D = {d}
  OBVIOUS
<1>4. PICK r \in Cookies : r = IF ans THEN s ELSE NoSession
  BY DEF Cookies
<1>5. PICK o \in BOOLEAN : o = Wrong(d, ans)
  BY DEF Wrong
<1> DEFINE l == [NoLoc EXCEPT !.dir = d, !.vault = ans, !.coll = D, !.queue = D, !.ref = r,
                              !.odd = o]
<1>6. /\ l \in Locals /\ l.dir = d /\ l.vault = ans /\ l.coll = D /\ l.queue = D /\ l.odd = o
      /\ l.snap = {}
  BY NoLocType, <1>2, <1>3, <1>4, <1>5, ZenonT(40) DEF Locals, NoLoc
<1>7. /\ pc[h] = "idle" /\ Become(h, "gather", l)
      /\ UNCHANGED <<dbVars, keyVars, inVault, odd>>
      /\ UNCHANGED cacheVars \/ LoadCache
  BY <1>2, <1>3, <1>4, <1>5, AnswerCache DEF DownloadFolder
<1> HIDE DEF l
<1>8. ~ o => ans = Domain(d)
  BY <1>2, <1>5, AnswerRight DEF VaultInv
<1>9. "gather" \in PCs /\ GoodLoc("gather", l)
  BY <1>1, <1>3, <1>6, <1>8 DEF GoodLoc, StoreLoc, MoveLoc, CollectLoc, ActLoc, PCs
<1> QED
  BY <1>6, <1>7, <1>9, LocalStep

\* The children of a collected folder are on its side of the vault's boundary.
LEMMA VaultCollect ==
  ASSUME VaultInv, NEW h \in Handlers, Collect(h)
  PROVE  VaultInv'
<1>1. PICK x \in Locals : x = loc[h] /\ GoodLoc(pc[h], x)
  BY LocType DEF VaultInv, LocInv
<1>2. PICK p \in {"collect", "gather"} : p = pc[h]
  BY DEF Collect
<1>3. PICK d \in x.queue : \E found \in {Children(d), {}} :
         Become(h, pc[h], [x EXCEPT !.coll = @ \cup found, !.queue = (@ \ {d}) \cup found])
  BY <1>1 DEF Collect
<1>4. PICK found \in {Children(d), {}} :
         Become(h, p, [x EXCEPT !.coll = @ \cup found, !.queue = (@ \ {d}) \cup found])
  BY <1>2, <1>3
<1>5. CollectLoc(p, x)
  BY <1>1, <1>2 DEF GoodLoc
<1>6. /\ x.queue \subseteq x.coll /\ Made(x.dir) /\ d \in x.coll
      /\ \A c \in x.coll : Made(c) /\ Domain(c) = Domain(x.dir)
      /\ p = "collect" => /\ x.dir \in Folders
                          /\ \A c \in x.coll : c \in Folders /\ (c = x.dir \/ parent[c] \in x.coll)
                          /\ Domain(x.dir) => x.sess # NoSession
  BY <1>2, <1>3, <1>5 DEF CollectLoc
<1>7. \A c \in found : /\ c \in dirs /\ c \in Folders /\ parent[c] = d
                       /\ Made(c) /\ Domain(c) = Domain(x.dir)
  <2> SUFFICES ASSUME NEW c \in found
               PROVE  /\ c \in dirs /\ c \in Folders /\ parent[c] = d
                      /\ Made(c) /\ Domain(c) = Domain(x.dir)
    OBVIOUS
  <2>1. c \in dirs /\ parent[c] = d
    BY <1>4 DEF Children
  <2>2. c \in Folders /\ Made(c) /\ c # VaultRoot /\ inVault[c] \in BOOLEAN
    BY <2>1, VaultConstants DEF VaultInv, TypeOK, Made, System
  <2>3. inVault[c] = Domain(d)
    BY <2>1 DEF VaultInv, TreeInv
  <2>4. Domain(c) = inVault[c]
    BY <2>2 DEF Domain
  <2> QED
    BY <1>6, <2>1, <2>2, <2>3, <2>4
<1>8. PICK C \in SUBSET Places, Q \in SUBSET Places :
         C = x.coll \cup found /\ Q = (x.queue \ {d}) \cup found
  <2>1. x.coll \subseteq Places /\ x.queue \subseteq Places
    BY <1>1 DEF Locals
  <2>2. found \subseteq Places
    BY <1>7 DEF Places
  <2> QED
    BY <2>1, <2>2
<1> DEFINE l == [x EXCEPT !.coll = C, !.queue = Q]
<1>9. /\ l \in Locals /\ l.dir = x.dir /\ l.vault = x.vault /\ l.coll = C /\ l.queue = Q
      /\ l.odd = x.odd /\ l.snap = x.snap /\ l.sess = x.sess
  BY <1>1, <1>8, ZenonT(40) DEF Locals
<1>10. /\ Become(h, p, l) /\ pc[h] # "invalidate"
       /\ UNCHANGED <<dbVars, cacheVars, keyVars, inVault, odd>>
  BY <1>2, <1>4, <1>8 DEF Collect
<1> HIDE DEF l
<1>11. CollectLoc(p, l)
  <2>1. l.queue \subseteq l.coll
    BY <1>6, <1>8, <1>9
  <2>2. \A c \in l.coll : Made(c) /\ Domain(c) = Domain(l.dir)
    BY <1>6, <1>7, <1>8, <1>9
  <2>3. p = "collect" => \A c \in l.coll : c \in Folders /\ (c = l.dir \/ parent[c] \in l.coll)
    BY <1>6, <1>7, <1>8, <1>9
  <2> QED
    BY <1>2, <1>5, <1>6, <1>9, <2>1, <2>2, <2>3 DEF CollectLoc
<1>12. GoodLoc(p, l) /\ p \in PCs
  BY <1>2, <1>11 DEF GoodLoc, StoreLoc, MoveLoc, ActLoc, PCs
<1> QED
  BY <1>9, <1>10, <1>12, LocalStep

LEMMA VaultDeleteAsk ==
  ASSUME VaultInv, NEW h \in Handlers, DeleteAsk(h)
  PROVE  VaultInv'
<1>1. PICK x \in Locals : x = loc[h] /\ GoodLoc(pc[h], x)
  BY LocType DEF VaultInv, LocInv
<1>2. PICK ans \in BOOLEAN :
         /\ IsVaultFolder(x.dir, ans)
         /\ Become(h, "rmdir", [x EXCEPT !.vault = ans,
                                         !.odd = x.dir \in dirs /\ Wrong(x.dir, ans)])
  BY <1>1 DEF DeleteAsk
<1>3. PICK o \in BOOLEAN : o = (x.dir \in dirs /\ Wrong(x.dir, ans))
  OBVIOUS
<1> DEFINE l == [x EXCEPT !.vault = ans, !.odd = o]
<1>4. /\ l \in Locals /\ l.dir = x.dir /\ l.vault = ans /\ l.coll = x.coll /\ l.queue = x.queue
      /\ l.odd = o /\ l.sess = x.sess
  BY <1>1, <1>2, <1>3 DEF Locals
<1>5. /\ Become(h, "rmdir", l) /\ pc[h] = "collect"
      /\ UNCHANGED <<dbVars, keyVars, inVault, odd>>
      /\ UNCHANGED cacheVars \/ LoadCache
  BY <1>2, <1>3, AnswerCache DEF DeleteAsk
<1> HIDE DEF l
<1>6. x.dir \in Places
  BY <1>1 DEF Locals
<1>7. ~ o /\ x.dir \in dirs => ans = Domain(x.dir)
  BY <1>2, <1>3, <1>6, AnswerRight DEF VaultInv
<1>8. "rmdir" \in PCs /\ GoodLoc("rmdir", l)
  BY <1>1, <1>4, <1>5, <1>7 DEF GoodLoc, StoreLoc, MoveLoc, CollectLoc, ActLoc, PCs
<1> QED
  BY <1>4, <1>5, <1>8, LocalStep

\* A listed row has the key of its folder, which is the one the archive will use.
LEMMA VaultListFiles ==
  ASSUME VaultInv, NEW h \in Handlers, ListFiles(h)
  PROVE  VaultInv'
<1>1. PICK x \in Locals : x = loc[h] /\ GoodLoc(pc[h], x)
  BY LocType DEF VaultInv, LocInv
<1>2. pc[h] = "gather" /\ UNCHANGED <<dbVars, cacheVars, keyVars, inVault, odd>>
  BY DEF ListFiles
<1>3. /\ x.queue \subseteq x.coll /\ Made(x.dir)
      /\ \A c \in x.coll : Made(c) /\ Domain(c) = Domain(x.dir)
      /\ ~ x.odd => /\ x.vault = Domain(x.dir)
                    /\ \A e \in x.snap : e.odd \/ e.keys = {SideKey(x.vault)}
  BY <1>1, <1>2 DEF GoodLoc, CollectLoc
<1>4. CASE Become(h, "stream", [x EXCEPT !.dir = Root])
  <2> DEFINE l == [x EXCEPT !.dir = Root]
  <2>1. l \in Locals /\ l.vault = x.vault /\ l.snap = x.snap /\ l.odd = x.odd
    BY <1>1 DEF Locals, Places, System
  <2>2. Become(h, "stream", l)
    BY <1>4
  <2> HIDE DEF l
  <2>3. "stream" \in PCs /\ GoodLoc("stream", l)
    BY <1>3, <2>1 DEF GoodLoc, StoreLoc, MoveLoc, CollectLoc, ActLoc, PCs
  <2> QED
    BY <1>2, <2>1, <2>2, <2>3, LocalStep
<1>5. CASE ~ Become(h, "stream", [x EXCEPT !.dir = Root])
  <2>1. PICK d \in x.coll : \E found \in {{g \in live \ trash : at[g] = d}, {}} :
           /\ x.queue = {}
           /\ Become(h, "gather",
                     [x EXCEPT !.coll = @ \ {d},
                               !.snap = @ \cup {[file |-> f, keys |-> keys[f], odd |-> f \in odd] :
                                                f \in found}])
    BY <1>1, <1>5 DEF ListFiles
  <2>2. PICK found \in {{g \in live \ trash : at[g] = d}, {}} :
           Become(h, "gather",
                  [x EXCEPT !.coll = @ \ {d},
                            !.snap = @ \cup {[file |-> f, keys |-> keys[f], odd |-> f \in odd] :
                                             f \in found}])
    BY <2>1
  <2> DEFINE E == {[file |-> f, keys |-> keys[f], odd |-> f \in odd] : f \in found}
  <2>3. \A e \in E : /\ e \in Entry
                     /\ ~ x.odd => (e.odd \/ e.keys = {SideKey(x.vault)})
    <3> SUFFICES ASSUME NEW f \in found, NEW e,
                        e = [file |-> f, keys |-> keys[f], odd |-> f \in odd]
                 PROVE  e \in Entry /\ (~ x.odd => (e.odd \/ e.keys = {SideKey(x.vault)}))
      OBVIOUS
    <3>1. f \in live /\ at[f] = d
      BY <2>2
    <3>2. f \in Files /\ keys[f] \in SUBSET Keys /\ (f \in odd) \in BOOLEAN
      BY <3>1 DEF VaultInv, TypeOK
    <3>3. e \in Entry
      BY <3>2 DEF Entry
    <3>4. e.keys = keys[f] /\ e.odd = (f \in odd)
      OBVIOUS
    <3>5. f \in odd \/ keys[f] = {KeyOf(d)}
      BY <3>1 DEF VaultInv, KeyMatchesFolder
    <3>6. ~ x.odd => KeyOf(d) = SideKey(x.vault)
      BY <1>3, <2>1 DEF KeyOf, SideKey
    <3> QED
      BY <3>3, <3>4, <3>5, <3>6
  <2>4. PICK C \in SUBSET Places, N \in SUBSET Entry : C = x.coll \ {d} /\ N = x.snap \cup E
    <3> HIDE DEF E
    <3>1. x.coll \subseteq Places /\ x.snap \subseteq Entry
      BY <1>1 DEF Locals
    <3> QED
      BY <2>3, <3>1
  <2> DEFINE l == [x EXCEPT !.coll = C, !.snap = N]
  <2>5. Become(h, "gather", l)
    BY <2>2, <2>4
  <2> HIDE DEF E
  <2>6. /\ l \in Locals /\ l.dir = x.dir /\ l.vault = x.vault /\ l.coll = C
        /\ l.queue = x.queue /\ l.snap = N /\ l.odd = x.odd
    BY <1>1, <2>4 DEF Locals
  <2> HIDE DEF l
  <2>7. ~ l.odd => \A e \in l.snap : e.odd \/ e.keys = {SideKey(l.vault)}
    BY <1>3, <2>3, <2>4, <2>6
  <2>8. l.queue \subseteq l.coll
    BY <2>1, <2>6
  <2>9. "gather" \in PCs /\ GoodLoc("gather", l)
    BY <1>3, <2>4, <2>6, <2>7, <2>8 DEF GoodLoc, StoreLoc, MoveLoc, CollectLoc, ActLoc, PCs
  <2> QED
    BY <1>2, <2>5, <2>6, <2>9, LocalStep
<1> QED
  BY <1>4, <1>5

LEMMA VaultStreamEntry ==
  ASSUME VaultInv, NEW h \in Handlers, StreamEntry(h)
  PROVE  VaultInv'
<1>1. PICK x \in Locals : x = loc[h] /\ GoodLoc(pc[h], x)
  BY LocType DEF VaultInv, LocInv
<1>2. pc[h] = "stream" /\ UNCHANGED <<dbVars, cacheVars, keyVars, inVault, odd>>
  BY DEF StreamEntry
<1>3. CASE Return(h)
  BY <1>2, <1>3, ReturnStep
<1>4. CASE ~ Return(h)
  <2>1. PICK e \in x.snap : Become(h, "stream", [x EXCEPT !.snap = @ \ {e}])
    BY <1>1, <1>4 DEF StreamEntry
  <2>2. PICK N \in SUBSET Entry : N = x.snap \ {e}
    BY <1>1 DEF Locals
  <2> DEFINE l == [x EXCEPT !.snap = N]
  <2>3. l \in Locals /\ l.vault = x.vault /\ l.snap = N /\ l.odd = x.odd
    BY <1>1, <2>2 DEF Locals
  <2>4. Become(h, "stream", l)
    BY <2>1, <2>2
  <2> HIDE DEF l
  <2>5. ~ x.odd => \A n \in x.snap : n.odd \/ n.keys = {SideKey(x.vault)}
    BY <1>1, <1>2 DEF GoodLoc, CollectLoc
  <2>6. "stream" \in PCs /\ GoodLoc("stream", l)
    BY <2>2, <2>3, <2>5 DEF GoodLoc, StoreLoc, MoveLoc, CollectLoc, ActLoc, PCs
  <2> QED
    BY <1>2, <2>3, <2>4, <2>6, LocalStep
<1> QED
  BY <1>3, <1>4

LEMMA VaultInvalidate ==
  ASSUME VaultInv, NEW h \in Handlers, Invalidate(h)
  PROVE  VaultInv'
<1> USE DEF VaultInv
<1>1. UNCHANGED <<dbVars, keyVars, inVault, odd>> /\ Become(h, "idle", NoLoc)
  BY DEF Invalidate, Return
<1>2. DbType' /\ TreeInv' /\ KeyMatchesFolder'
  BY <1>1, RowsKept
<1>3. Stable
  BY <1>1, StableKeep DEF dbVars
<1>4. LocInv' /\ HandlerType'
  <2>1. "idle" \in PCs /\ GoodLoc("idle", NoLoc)
    BY NoLocGood
  <2> QED
    BY <1>1, <1>3, <2>1, NoLocType, LocStep
<1>5. CacheInv' /\ CacheType'
  BY CacheDropped DEF Invalidate
<1>6. KeyType'
  BY <1>1 DEF KeyType, TypeOK, keyVars
<1>7. TypeOK'
  BY <1>2, <1>4, <1>5, <1>6 DEF TypeOK, DbType, CacheType, KeyType, HandlerType
<1> QED
  BY <1>2, <1>4, <1>5, <1>7

-----------------------------------------------------------------------------
(* The steps of the environment that leave the tables alone. *)

LEMMA KeyTypeNow ==
  ASSUME VaultInv
  PROVE  KeyType
  BY DEF VaultInv, TypeOK, KeyType

LEMMA VaultFillCache ==
  ASSUME VaultInv, FillCache
  PROVE  VaultInv'
<1>1. KeyType'
  BY KeyTypeNow DEF KeyType, FillCache, keyVars
<1> QED
  BY <1>1, KeyStep DEF FillCache

LEMMA VaultRenameFolder ==
  ASSUME VaultInv, NEW d, RenameFolder(d)
  PROVE  VaultInv'
<1>1. KeyType'
  BY KeyTypeNow DEF KeyType, RenameFolder, keyVars
<1> QED
  BY <1>1, KeyStep DEF RenameFolder

LEMMA VaultLogin ==
  ASSUME VaultInv, NEW s \in Sessions, Login(s)
  PROVE  VaultInv'
<1>1. KeyType'
  BY KeyTypeNow DEF KeyType, Login, UnlockedKey
<1> QED
  BY <1>1, KeyStep DEF Login

LEMMA VaultExpire ==
  ASSUME VaultInv, NEW s \in Sessions, Expire(s)
  PROVE  VaultInv'
<1>1. KeyType'
  BY KeyTypeNow DEF KeyType, Expire
<1> QED
  BY <1>1, KeyStep DEF Expire

LEMMA VaultLock ==
  ASSUME VaultInv, NEW s \in Sessions, LockVault(s)
  PROVE  VaultInv'
<1>1. KeyType'
  BY WipeType DEF LockVault, VaultInv
<1> QED
  BY <1>1, KeyStep DEF LockVault

LEMMA VaultCleanup ==
  ASSUME VaultInv, CleanupStaleKeys
  PROVE  VaultInv'
<1>1. PICK S : S = {s \in Sessions : store[s] = "expired"}
  OBVIOUS
<1>2. KeyType'
  BY <1>1, WipeType DEF CleanupStaleKeys, VaultInv
<1> QED
  BY <1>2, KeyStep DEF CleanupStaleKeys

-----------------------------------------------------------------------------
(* The steps that change the tables. *)

\* The parts of a step of one handler that changes the tables.
LEMMA TableStep ==
  ASSUME VaultInv, NEW h \in Handlers, NEW p \in PCs, NEW l \in Locals,
         Become(h, p, l), GoodLoc(p, l), Stable,
         DbType', TreeInv', KeyMatchesFolder', CacheInv', CacheType', UNCHANGED keyVars
  PROVE  VaultInv'
<1> USE DEF VaultInv
<1>1. LocInv' /\ HandlerType'
  BY LocStep
<1>2. KeyType'
  BY KeyTypeNow DEF KeyType, keyVars
<1>3. TypeOK'
  BY <1>1, <1>2 DEF TypeOK, DbType, CacheType, KeyType, HandlerType
<1> QED
  BY <1>1, <1>3

\* The folders stay and the rows are in folders that exist.
LEMMA TreeKept ==
  ASSUME TreeInv, UNCHANGED <<dirs, parent, inVault>>, \A f \in live' : Exists(at'[f])
  PROVE  TreeInv'
<1>1. \A d : Domain(d)' = Domain(d) /\ Exists(d)' = Exists(d)
  BY DEF Domain, Exists
<1>2. NoDangling'
  BY <1>1 DEF TreeInv, NoDangling, Exists
<1>3. \A d \in dirs' : inVault'[d] = Domain(parent[d])'
  BY DEF TreeInv, Domain
<1> QED
  BY <1>2, <1>3 DEF TreeInv

\* A new row in folder d, for content under d's key unless it is odd.
LEMMA InsertStep ==
  ASSUME VaultInv, NEW h \in Handlers, NEW d \in Places, NEW ks \in SUBSET Keys,
         NEW o \in BOOLEAN, Insert(d, ks, o), ~ o => ks = {KeyOf(d)},
         Return(h), pc[h] # "invalidate",
         UNCHANGED <<dirs, made, parent, trash, cacheVars, keyVars, inVault>>
  PROVE  VaultInv'
<1> USE DEF VaultInv
<1>2. PICK f \in Files \ born :
         /\ live' = live \cup {f}
         /\ born' = born \cup {f}
         /\ at' = [at EXCEPT ![f] = d]
         /\ keys' = [keys EXCEPT ![f] = ks]
         /\ odd' = IF o THEN odd \cup {f} ELSE odd
  BY DEF Insert
<1>3. Exists(d) /\ Become(h, "idle", NoLoc)
  BY DEF Insert, ForeignKey, Return
<1>5. DbType'
  BY <1>2 DEF TypeOK, DbType
<1>6. f \notin live /\ f \notin odd /\ live \subseteq Files
  BY <1>2 DEF TypeOK
<1>7. /\ at'[f] = d /\ keys'[f] = ks
      /\ \A g \in live : at'[g] = at[g] /\ keys'[g] = keys[g]
  BY <1>2, <1>6 DEF TypeOK
<1>8. TreeInv'
  <2>1. \A g \in live' : Exists(at'[g])
    BY <1>2, <1>3, <1>7 DEF TreeInv, NoDangling
  <2> QED
    BY <2>1, TreeKept
<1>9. KeyMatchesFolder'
  <2>1. \A e : KeyOf(e)' = KeyOf(e)
    BY DEF KeyOf, Domain
  <2>2. \A g \in live' \ odd' : keys'[g] = {KeyOf(at'[g])}
    BY <1>2, <1>6, <1>7 DEF KeyMatchesFolder
  <2> QED
    BY <2>1, <2>2 DEF KeyMatchesFolder
<1>10. Stable
  BY StableKeep
<1>11. CacheInv' /\ CacheType'
  <2>1. \A g \in Handlers : pc[g] = "invalidate" => pc'[g] = "invalidate"
    BY <1>3 DEF Become, TypeOK
  <2> QED
    BY <2>1, CacheKept
<1>12. "idle" \in PCs /\ GoodLoc("idle", NoLoc)
  BY NoLocGood
<1> QED
  BY <1>3, <1>5, <1>8, <1>9, <1>10, <1>11, <1>12, NoLocType, TableStep

LEMMA VaultInsertFile ==
  ASSUME VaultInv, NEW h \in Handlers, InsertFile(h)
  PROVE  VaultInv'
<1>1. PICK x \in Locals : x = loc[h] /\ GoodLoc(pc[h], x)
  BY LocType DEF VaultInv, LocInv
<1>2. /\ pc[h] = "insert" /\ Insert(x.dir, x.keys, x.odd) /\ Return(h)
      /\ UNCHANGED <<dirs, made, parent, trash, cacheVars, keyVars, inVault>>
  BY <1>1 DEF InsertFile
<1>3. /\ x.dir \in Places /\ x.keys \in SUBSET Keys /\ x.odd \in BOOLEAN
      /\ ~ x.odd => x.keys = {KeyOf(x.dir)}
  BY <1>1, <1>2 DEF GoodLoc, StoreLoc, Locals
<1> QED
  BY <1>2, <1>3, InsertStep

LEMMA VaultVerifyProof ==
  ASSUME VaultInv, NEW h \in Handlers, NEW d \in Places, VerifyProofOfOwnership(h, d)
  PROVE  VaultInv'
<1>1. PICK x \in Locals : x = loc[h] /\ GoodLoc(pc[h], x)
  BY LocType DEF VaultInv, LocInv
<1>2. PICK o \in BOOLEAN : o = (x.odd \/ Domain(d) # Domain(x.dir))
  OBVIOUS
<1>3. /\ pc[h] = "prove" /\ Insert(d, x.keys, o) /\ Return(h)
      /\ UNCHANGED <<dirs, made, parent, trash, cacheVars, keyVars, inVault>>
  BY <1>1, <1>2 DEF VerifyProofOfOwnership
<1>4. /\ x.keys \in SUBSET Keys
      /\ ~ o => x.keys = {KeyOf(d)}
  BY <1>1, <1>2, <1>3 DEF GoodLoc, StoreLoc, Locals, KeyOf
<1> QED
  BY <1>3, <1>4, InsertStep

LEMMA VaultMoveUpdate ==
  ASSUME VaultInv, NEW h \in Handlers, MoveUpdate(h)
  PROVE  VaultInv'
<1> USE DEF VaultInv
<1>1. PICK x \in Locals : x = loc[h] /\ GoodLoc(pc[h], x)
  BY LocType DEF LocInv
<1>2. /\ pc[h] = "update" /\ NextMove(h)
      /\ UNCHANGED <<dirs, made, parent, live, born, trash, cacheVars, keyVars, inVault>>
  BY DEF MoveUpdate
<1>3. /\ x.dir \in Places /\ x.keys \in SUBSET Keys /\ Made(x.dir)
      /\ ~ x.odd => x.keys = {KeyOf(x.dir)}
  BY <1>1, <1>2 DEF GoodLoc, MoveLoc, Locals
<1>4. PICK p \in PCs, l \in Locals : p \in {"idle", "batch"} /\ Become(h, p, l) /\ GoodLoc(p, l)
  BY <1>1, <1>2, <1>3, NextMoveGood
<1>5. DbType' /\ TreeInv' /\ KeyMatchesFolder'
  <2>1. CASE ~ (Exists(x.dir) /\ x.file \in live)
    <3>1. UNCHANGED <<dbVars, inVault, odd>>
      BY <1>1, <1>2, <2>1 DEF MoveUpdate, ForeignKey, dbVars
    <3> QED
      BY <3>1, RowsKept
  <2>2. CASE Exists(x.dir) /\ x.file \in live
    <3>1. /\ at' = [at EXCEPT ![x.file] = x.dir]
          /\ keys' = [keys EXCEPT ![x.file] = x.keys]
          /\ odd' = IF x.odd THEN odd \cup {x.file} ELSE odd \ {x.file}
      BY <1>1, <2>2 DEF MoveUpdate, ForeignKey
    <3>2. DbType'
      BY <1>2, <1>3, <2>2, <3>1 DEF TypeOK, DbType
    <3>3. /\ at'[x.file] = x.dir /\ keys'[x.file] = x.keys
          /\ \A g \in live \ {x.file} : at'[g] = at[g] /\ keys'[g] = keys[g]
      BY <2>2, <3>1 DEF TypeOK
    <3>4. TreeInv'
      <4>1. \A g \in live' : Exists(at'[g])
        BY <1>2, <2>2, <3>3 DEF TreeInv, NoDangling
      <4> QED
        BY <1>2, <4>1, TreeKept
    <3>5. KeyMatchesFolder'
      <4>1. \A d : KeyOf(d)' = KeyOf(d)
        BY <1>2 DEF KeyOf, Domain
      <4>2. \A g \in live' \ odd' : keys'[g] = {KeyOf(at'[g])}
        BY <1>2, <1>3, <3>1, <3>3 DEF KeyMatchesFolder
      <4> QED
        BY <4>1, <4>2 DEF KeyMatchesFolder
    <3> QED
      BY <3>2, <3>4, <3>5
  <2> QED
    BY <2>1, <2>2
<1>6. Stable
  BY <1>2, StableKeep
<1>7. CacheInv' /\ CacheType'
  <2>1. \A g \in Handlers : pc[g] = "invalidate" => pc'[g] = "invalidate"
    BY <1>2, <1>4 DEF Become, TypeOK
  <2> QED
    BY <1>2, <2>1, CacheKept
<1> QED
  BY <1>2, <1>4, <1>5, <1>6, <1>7, TableStep

\* A new folder is a leaf of the forest, on the side of the vault its parent is on.
LEMMA VaultInsertFolder ==
  ASSUME VaultInv, NEW h \in Handlers, InsertFolder(h)
  PROVE  VaultInv'
<1> USE DEF VaultInv
<1>1. PICK q \in Places : q = loc[h].dir
  BY LocType DEF Locals
<1>2. PICK d \in Folders \ made :
         /\ dirs' = dirs \cup {d}
         /\ made' = made \cup {d}
         /\ parent' = [parent EXCEPT ![d] = q]
         /\ inVault' = [inVault EXCEPT ![d] = Domain(q)]
  BY <1>1 DEF InsertFolder
<1>3. /\ pc[h] = "mkdir" /\ q \in dirs \cup System /\ Become(h, "invalidate", NoLoc)
      /\ UNCHANGED <<live, born, at, keys, trash, cacheVars, keyVars, odd>>
  BY <1>1 DEF InsertFolder, ForeignKey, Exists
<1>4. DbType'
  BY <1>2, <1>3 DEF TypeOK, DbType, Domain
<1>5. /\ d \notin dirs /\ d \notin System /\ d # q /\ d # VaultRoot
      /\ parent'[d] = q /\ inVault'[d] = Domain(q)
      /\ \A c \in made : c # d /\ c \in Folders /\ parent'[c] = parent[c] /\ inVault'[c] = inVault[c]
      /\ \A c \in dirs : c \in made
  BY <1>2, <1>3, VaultConstants DEF TypeOK, System
<1>6. \A c : Made(c) => Made(c)' /\ Domain(c)' = Domain(c)
  <2> SUFFICES ASSUME NEW c, Made(c)
               PROVE  Made(c)' /\ Domain(c)' = Domain(c)
    OBVIOUS
  <2>1. CASE c \in made
    BY <1>2, <1>5, <2>1 DEF Made, Domain
  <2>2. CASE c \in System
    BY <2>2, VaultConstants DEF Made, Domain
  <2> QED
    BY <2>1, <2>2 DEF Made
<1>7. Stable
  BY <1>2, <1>5, <1>6 DEF Stable
<1>8. \A c : Exists(c) => Made(c)
  BY ExistsMade
<1>9. TreeInv'
  <2>1. NoDangling'
    BY <1>2, <1>3, <1>5 DEF TreeInv, NoDangling, Exists
  <2>2. ASSUME NEW c \in dirs'
        PROVE  inVault'[c] = Domain(parent[c])'
    <3>1. CASE c = d
      <4>1. Domain(q)' = Domain(q)
        BY <1>3, <1>6, <1>8 DEF Exists
      <4> QED
        BY <1>5, <3>1, <4>1 DEF Domain
    <3>2. CASE c \in dirs
      <4>1. PICK e : e = parent[c] /\ Exists(e)
        BY <3>2 DEF TreeInv, NoDangling
      <4>2. Domain(e)' = Domain(e)
        BY <1>6, <1>8, <4>1
      <4>3. inVault[c] = Domain(e)
        BY <3>2, <4>1 DEF TreeInv
      <4>4. Domain(parent[c])' = Domain(e)'
        BY <1>5, <3>2, <4>1 DEF Domain
      <4> QED
        BY <1>5, <3>2, <4>2, <4>3, <4>4
    <3> QED
      BY <1>2, <3>1, <3>2
  <2>3. ASSUME NEW S \in SUBSET dirs', S # {}
        PROVE  \E c \in S : parent'[c] \notin S
    <3> DEFINE T == S \ {d}
    <3>1. CASE T = {}
      BY <1>5, <2>3, <3>1
    <3>2. CASE T # {}
      <4>1. T \in SUBSET dirs
        BY <1>2
      <4>2. PICK c \in T : parent[c] \notin T
        <5> HIDE DEF T
        <5> QED
          BY <3>2, <4>1 DEF TreeInv
      <4>3. c \in dirs /\ c \in S
        BY <4>1, <4>2
      <4>4. parent[c] # d
        BY <1>5, <4>3 DEF TreeInv, NoDangling, Exists
      <4> QED
        BY <1>5, <4>2, <4>3, <4>4
    <3> QED
      BY <3>1, <3>2
  <2> QED
    BY <2>1, <2>2, <2>3 DEF TreeInv
<1>10. KeyMatchesFolder'
  <2> SUFFICES ASSUME NEW f \in live' \ odd'
               PROVE  keys'[f] = {KeyOf(at[f])}'
    BY DEF KeyMatchesFolder
  <2>1. PICK e : e = at[f] /\ Exists(e)
    BY <1>3 DEF TreeInv, NoDangling
  <2>2. KeyOf(e)' = KeyOf(e)
    BY <1>6, <1>8, <2>1 DEF KeyOf
  <2>3. keys[f] = {KeyOf(e)}
    BY <1>3, <2>1 DEF KeyMatchesFolder
  <2> QED
    BY <1>3, <2>1, <2>2, <2>3
<1>11. CacheInv' /\ CacheType'
  <2>1. pc'[h] = "invalidate"
    BY <1>3 DEF Become, TypeOK
  <2> QED
    BY <1>3, <2>1, CachePending
<1>12. "invalidate" \in PCs /\ GoodLoc("invalidate", NoLoc)
  BY NoLocGood
<1> QED
  BY <1>3, <1>4, <1>7, <1>9, <1>10, <1>11, <1>12, NoLocType, TableStep

\* Nothing of a removed folder's subtree stays behind.
LEMMA TreeShrinks ==
  ASSUME TreeInv, UNCHANGED <<parent, inVault>>, dirs' \subseteq dirs,
         \A d \in dirs' : Exists(parent[d])',
         \A f \in live' : Exists(at[f])'
  PROVE  TreeInv'
<1>1. NoDangling'
  BY DEF NoDangling, Exists
<1>2. \A d \in dirs' : inVault'[d] = Domain(parent[d])'
  BY DEF TreeInv, Domain
<1>3. \A S \in SUBSET dirs' : S # {} => \E d \in S : parent'[d] \notin S
  BY DEF TreeInv
<1> QED
  BY <1>1, <1>2, <1>3 DEF TreeInv

LEMMA StableShrinks ==
  ASSUME TypeOK, UNCHANGED <<made, parent, inVault>>, dirs' \subseteq dirs
  PROVE  Stable
  BY DEF Stable, Made, Domain, TypeOK

(***************************************************************************)
(* A deletion that finds one of the folders it collected finds its own:    *)
(* the collected folders hang together and the tables have no dangling     *)
(* parent.                                                                 *)
(***************************************************************************)
LEMMA CollectedRoot ==
  ASSUME TypeOK, TreeInv, NEW top, NEW C,
         \A c \in C : c \in Folders /\ (c = top \/ parent[c] \in C),
         C \cap dirs # {}
  PROVE  top \in dirs
<1> DEFINE S == C \cap dirs
<1>1. PICK d \in S : parent[d] \notin S
  <2>1. S \in SUBSET dirs /\ S # {}
    OBVIOUS
  <2> HIDE DEF S
  <2> QED
    BY <2>1 DEF TreeInv
<1>2. d \in C /\ d \in dirs
  BY <1>1
<1>3. CASE d = top
  BY <1>2, <1>3
<1>4. CASE parent[d] \in C
  <2>1. parent[d] \in Folders /\ parent[d] \notin dirs
    BY <1>1, <1>4
  <2>2. parent[d] \in dirs \cup System
    BY <1>2 DEF TreeInv, NoDangling, Exists
  <2> QED
    BY <2>1, <2>2, VaultConstants
<1> QED
  BY <1>2, <1>3, <1>4

LEMMA VaultDeleteCommit ==
  ASSUME VaultInv, NEW h \in Handlers, DeleteCommit(h)
  PROVE  VaultInv'
<1> USE DEF VaultInv
<1>1. PICK x \in Locals : x = loc[h] /\ GoodLoc(pc[h], x)
  BY LocType DEF LocInv
<1>2. PICK updated \in Effect(x.coll), deleted \in Effect(x.coll \cap dirs) :
         LET removed == Below(deleted)
             moved   == {f \in live : at[f] \in updated}
             lost    == {f \in live \ moved : at[f] \in removed}
         IN
         /\ dirs' = dirs \ removed
         /\ live' = live \ lost
         /\ trash' = (trash \cup moved) \ lost
         /\ at' = [f \in Files |-> CASE f \in moved -> TrashPlace(x.vault)
                                  [] f \in lost -> Root
                                  [] OTHER -> at[f]]
         /\ keys' = [f \in Files |-> IF f \in lost THEN {} ELSE keys[f]]
         /\ odd' = (IF x.odd THEN odd \cup moved ELSE odd) \ lost
  BY <1>1 DEF DeleteCommit
<1>3. /\ pc[h] = "rmdir" /\ Become(h, "invalidate", NoLoc)
      /\ UNCHANGED <<made, parent, born, cacheVars, keyVars, inVault>>
  BY DEF DeleteCommit
<1>4. PICK removed, moved, lost :
         /\ removed = Below(deleted)
         /\ moved = {f \in live : at[f] \in updated}
         /\ lost = {f \in live \ moved : at[f] \in removed}
  OBVIOUS
<1>5. /\ dirs' = dirs \ removed
      /\ live' = live \ lost
      /\ trash' = (trash \cup moved) \ lost
      /\ at' = [f \in Files |-> IF f \in moved THEN TrashPlace(x.vault)
                                ELSE IF f \in lost THEN Root ELSE at[f]]
      /\ keys' = [f \in Files |-> IF f \in lost THEN {} ELSE keys[f]]
      /\ odd' = (IF x.odd THEN odd \cup moved ELSE odd) \ lost
  <2>1. \A f : f \in moved => f \notin lost
    BY <1>4
  <2>2. [f \in Files |-> CASE f \in moved -> TrashPlace(x.vault)
                           [] f \in lost -> Root
                           [] OTHER -> at[f]]
          = [f \in Files |-> IF f \in moved THEN TrashPlace(x.vault)
                             ELSE IF f \in lost THEN Root ELSE at[f]]
    BY <2>1
  <2> QED
    BY <1>2, <1>4, <2>2
<1>6. updated \subseteq x.coll
  BY DEF Effect
<1>7. /\ Root \in System /\ VaultRoot \in System /\ TrashPlace(x.vault) \in System
      /\ TrashPlace(x.vault) \in Places /\ Root \in Places
  BY DEF System, TrashPlace, Places
<1>8. moved \subseteq live /\ lost \subseteq live /\ live \subseteq Files
  BY <1>4 DEF TypeOK
<1>9. DbType'
  BY <1>3, <1>5, <1>7, <1>8 DEF TypeOK, DbType
<1>10. Stable
  BY <1>3, <1>5, StableShrinks
<1>11. ASSUME NEW f \in live'
       PROVE  /\ f \in live /\ f \in Files /\ f \notin lost /\ keys'[f] = keys[f]
              /\ f \in moved => at'[f] = TrashPlace(x.vault) /\ at[f] \in updated
              /\ f \notin moved => at'[f] = at[f] /\ at[f] \notin removed
  BY <1>4, <1>5, <1>8
<1>12. TreeInv'
  <2>1. ASSUME NEW d \in dirs'
        PROVE  Exists(parent[d])'
    <3>1. d \in dirs /\ d \notin removed
      BY <1>5
    <3>2. parent[d] \in dirs \cup System
      BY <3>1 DEF TreeInv, NoDangling, Exists
    <3>3. parent[d] \notin removed
      BY <1>4, <3>1, BelowClosed
    <3> QED
      BY <1>3, <1>5, <3>2, <3>3 DEF Exists
  <2>2. ASSUME NEW f \in live'
        PROVE  Exists(at[f])'
    <3>1. CASE f \in moved
      BY <1>7, <1>11, <3>1 DEF Exists
    <3>2. CASE f \notin moved
      <4>1. at[f] \in dirs \cup System
        BY <1>11 DEF TreeInv, NoDangling, Exists
      <4> QED
        BY <1>5, <1>11, <3>2, <4>1 DEF Exists
    <3> QED
      BY <3>1, <3>2
  <2>3. dirs' \subseteq dirs
    BY <1>5
  <2> QED
    BY <1>3, <2>1, <2>2, <2>3, TreeShrinks
<1>13. KeyMatchesFolder'
  <2>1. \A d : KeyOf(d)' = KeyOf(d)
    BY <1>3 DEF KeyOf, Domain
  <2>2. ASSUME NEW f \in live' \ odd'
        PROVE  keys'[f] = {KeyOf(at'[f])}
    <3>1. f \notin odd /\ (f \in moved => ~ x.odd)
      BY <1>5, <1>11, <2>2
    <3>2. keys[f] = {KeyOf(at[f])}
      BY <1>11, <2>2, <3>1 DEF KeyMatchesFolder
    <3>3. CASE f \notin moved
      BY <1>11, <2>2, <3>2, <3>3
    <3>4. CASE f \in moved
      <4>1. /\ Made(x.dir) /\ \A c \in x.coll : Domain(c) = Domain(x.dir)
            /\ \A c \in x.coll : c \in Folders /\ (c = x.dir \/ parent[c] \in x.coll)
            /\ x.dir \in dirs => x.vault = Domain(x.dir)
        BY <1>1, <1>3, <3>1, <3>4 DEF GoodLoc, CollectLoc
      <4>2. at[f] \in x.coll
        BY <1>6, <1>11, <2>2, <3>4
      <4>3. at[f] \in dirs
        BY <1>11, <2>2, <4>1, <4>2, VaultConstants DEF TreeInv, NoDangling, Exists
      <4>4. x.dir \in dirs
        <5>1. x.coll \cap dirs # {}
          BY <4>2, <4>3
        <5>2. \A c \in x.coll : c \in Folders /\ (c = x.dir \/ parent[c] \in x.coll)
          BY <4>1
        <5> HIDE <1>1, <1>2
        <5> QED
          BY <5>1, <5>2, CollectedRoot
      <4>5. KeyOf(at[f]) = SideKey(x.vault)
        BY <4>1, <4>2, <4>4 DEF KeyOf, SideKey
      <4>6. KeyOf(TrashPlace(x.vault)) = SideKey(x.vault)
        BY VaultConstants DEF KeyOf, SideKey, TrashPlace, Domain, System
      <4> QED
        BY <1>11, <2>2, <3>2, <3>4, <4>5, <4>6
    <3> QED
      BY <3>3, <3>4
  <2> QED
    BY <2>1, <2>2 DEF KeyMatchesFolder
<1>14. CacheInv' /\ CacheType'
  <2>1. pc'[h] = "invalidate"
    BY <1>3 DEF Become, TypeOK
  <2> QED
    BY <1>3, <2>1, CachePending
<1>15. "invalidate" \in PCs /\ GoodLoc("invalidate", NoLoc)
  BY NoLocGood
<1> QED
  BY <1>3, <1>9, <1>10, <1>12, <1>13, <1>14, <1>15, NoLocType, TableStep

\* Rows are removed, with the folders they are in or without.
LEMMA EraseRows ==
  ASSUME TypeOK, TreeInv, KeyMatchesFolder, NEW S, Erase(S),
         UNCHANGED <<made, parent, born, inVault>>, dirs' \subseteq dirs,
         \A d \in dirs' : Exists(parent[d])',
         \A f \in live \ S : at[f] \in dirs' \cup System
  PROVE  DbType' /\ TreeInv' /\ KeyMatchesFolder'
<1>1. /\ live' = live \ S /\ trash' = trash \ S /\ odd' = odd \ S
      /\ keys' = [f \in Files |-> IF f \in S THEN {} ELSE keys[f]]
      /\ at' = [f \in Files |-> IF f \in S THEN Root ELSE at[f]]
  BY DEF Erase, Forget
<1>2. DbType'
  BY <1>1 DEF TypeOK, DbType, Places, System
<1>3. \A f \in live' : f \in live \ S /\ at'[f] = at[f] /\ keys'[f] = keys[f]
  BY <1>1 DEF TypeOK
<1>4. TreeInv'
  <2>1. \A f \in live' : Exists(at[f])'
    BY <1>3 DEF Exists
  <2> QED
    BY <2>1, TreeShrinks
<1>5. KeyMatchesFolder'
  <2>1. \A d : KeyOf(d)' = KeyOf(d)
    BY DEF KeyOf, Domain
  <2>2. \A f \in live' \ odd' : keys'[f] = {KeyOf(at'[f])}
    BY <1>1, <1>3 DEF KeyMatchesFolder
  <2> QED
    BY <2>1, <2>2 DEF KeyMatchesFolder
<1> QED
  BY <1>2, <1>4, <1>5

LEMMA VaultPurgeFiles ==
  ASSUME VaultInv, NEW h \in Handlers, PurgeFiles(h)
  PROVE  VaultInv'
<1> USE DEF VaultInv
<1>1. /\ pc[h] = "purgefiles" /\ Become(h, "purgefolders", NoLoc)
      /\ UNCHANGED <<dirs, made, parent, born, cacheVars, keyVars, inVault>>
  BY DEF PurgeFiles
<1>2. PICK S : Erase(S)
  BY DEF PurgeFiles
<1>3. DbType' /\ TreeInv' /\ KeyMatchesFolder'
  BY <1>1, <1>2, EraseRows DEF TreeInv, NoDangling, Exists
<1>4. Stable
  BY <1>1, StableKeep
<1>5. CacheInv' /\ CacheType'
  <2>1. \A g \in Handlers : pc[g] = "invalidate" => pc'[g] = "invalidate"
    BY <1>1 DEF Become, TypeOK
  <2> QED
    BY <1>1, <2>1, CacheKept
<1>6. "purgefolders" \in PCs /\ GoodLoc("purgefolders", NoLoc)
  BY NoLocGood
<1> QED
  BY <1>1, <1>3, <1>4, <1>5, <1>6, NoLocType, TableStep

LEMMA VaultPurgeFolders ==
  ASSUME VaultInv, NEW h \in Handlers, PurgeFolders(h)
  PROVE  VaultInv'
<1> USE DEF VaultInv
<1>1. /\ pc[h] = "purgefolders" /\ Become(h, "invalidate", NoLoc)
      /\ UNCHANGED <<made, parent, born, cacheVars, keyVars, inVault>>
  BY DEF PurgeFolders
<1>2. PICK S \in {dirs, {}} : dirs' = dirs \ S /\ Erase({f \in live : at[f] \in S})
  BY DEF PurgeFolders
<1>3. PICK R : R = {f \in live : at[f] \in S}
  OBVIOUS
<1>4. Erase(R) /\ dirs' \subseteq dirs
  BY <1>2, <1>3
<1>5. \A d \in dirs' : Exists(parent[d])'
  BY <1>1, <1>2 DEF TreeInv, NoDangling, Exists
<1>6. \A f \in live \ R : at[f] \in dirs' \cup System
  BY <1>2, <1>3 DEF TreeInv, NoDangling, Exists
<1>7. DbType' /\ TreeInv' /\ KeyMatchesFolder'
  BY <1>1, <1>4, <1>5, <1>6, EraseRows
<1>8. Stable
  BY <1>1, <1>4, StableShrinks
<1>9. CacheInv' /\ CacheType'
  <2>1. pc'[h] = "invalidate"
    BY <1>1 DEF Become, TypeOK
  <2> QED
    BY <1>1, <2>1, CachePending
<1>10. "invalidate" \in PCs /\ GoodLoc("invalidate", NoLoc)
  BY NoLocGood
<1> QED
  BY <1>1, <1>7, <1>8, <1>9, <1>10, NoLocType, TableStep

LEMMA VaultReadFolder ==
  ASSUME VaultInv, NEW h \in Handlers, NEW f \in Files, ReadFolder(h, f)
  PROVE  VaultInv'
<1>1. /\ pc[h] = "idle" /\ f \in live
      /\ UNCHANGED <<dbVars, cacheVars, keyVars, inVault, odd>>
  BY DEF ReadFolder
<1>2. PICK a \in {at[f], Root} :
         Become(h, "permit", [NoLoc EXCEPT !.file = f, !.src = a, !.odd = a # at[f]])
  BY DEF ReadFolder
<1>3. a \in Places /\ Made(a)
  <2>1. at[f] \in Places /\ Made(at[f])
    BY <1>1, ExistsMade DEF VaultInv, TypeOK, TreeInv, NoDangling
  <2>2. Root \in Places /\ Made(Root)
    BY DEF Places, System, Made
  <2> QED
    BY <1>2, <2>1, <2>2
<1>4. PICK o \in BOOLEAN : o = (a # at[f])
  OBVIOUS
<1> DEFINE l == [NoLoc EXCEPT !.file = f, !.src = a, !.odd = o]
<1>5. l \in Locals /\ l.src = a
  BY <1>3, <1>4, NoLocType DEF Locals
<1>6. Become(h, "permit", l)
  BY <1>2, <1>4
<1> HIDE DEF l
<1>7. GoodLoc("permit", l) /\ "permit" \in PCs
  BY <1>3, <1>5 DEF GoodLoc, StoreLoc, MoveLoc, CollectLoc, ActLoc, PCs
<1> QED
  BY <1>1, <1>5, <1>6, <1>7, LocalStep

LEMMA VaultPermit ==
  ASSUME VaultInv, NEW h \in Handlers, Permit(h)
  PROVE  VaultInv'
<1>1. PICK x \in Locals : x = loc[h] /\ GoodLoc(pc[h], x)
  BY LocType DEF VaultInv, LocInv
<1>2. pc[h] = "permit" /\ UNCHANGED <<dbVars, keyVars, inVault, odd>>
  BY DEF Permit
<1>3. PICK ans \in BOOLEAN :
         /\ IsVaultFolder(x.src, ans)
         /\ Become(h, "act", [x EXCEPT !.vault = ans, !.odd = @ \/ Wrong(x.src, ans)])
  BY <1>1 DEF Permit
<1>4. PICK o \in BOOLEAN : o = (x.odd \/ Wrong(x.src, ans))
  OBVIOUS
<1> DEFINE l == [x EXCEPT !.vault = ans, !.odd = o]
<1>5. l \in Locals /\ l.src = x.src /\ l.vault = ans /\ l.odd = o
  BY <1>1, <1>3, <1>4 DEF Locals
<1>6. Become(h, "act", l)
  BY <1>3, <1>4
<1> HIDE DEF l
<1>7. x.src \in Places /\ Made(x.src)
  BY <1>1, <1>2 DEF Locals, GoodLoc, ActLoc
<1>8. ans = Domain(x.src) \/ Wrong(x.src, ans)
  BY <1>3, <1>7, AnswerRight DEF VaultInv
<1>9. GoodLoc("act", l) /\ "act" \in PCs
  BY <1>4, <1>5, <1>7, <1>8 DEF GoodLoc, StoreLoc, MoveLoc, CollectLoc, ActLoc, PCs
<1>10. UNCHANGED cacheVars \/ LoadCache
  BY <1>3, AnswerCache
<1> QED
  BY <1>2, <1>5, <1>6, <1>9, <1>10, LocalStep

LEMMA VaultMark ==
  ASSUME VaultInv, NEW h \in Handlers, Mark(h)
  PROVE  VaultInv'
<1> USE DEF VaultInv
<1>1. /\ pc[h] = "act" /\ Become(h, "idle", NoLoc)
      /\ UNCHANGED <<dirs, made, parent, live, born, at, keys, cacheVars, keyVars, inVault, odd>>
  BY DEF Mark, Return
<1>2. trash' \subseteq live
  BY DEF Mark, TypeOK
<1>3. DbType'
  BY <1>1, <1>2 DEF DbType, TypeOK
<1>4. TreeInv'
  BY <1>1, TreeKept DEF TreeInv, NoDangling
<1>5. KeyMatchesFolder'
  BY <1>1 DEF KeyMatchesFolder, KeyOf, Domain
<1>6. Stable
  BY <1>1, StableKeep
<1>7. CacheInv' /\ CacheType'
  <2>1. \A g \in Handlers : pc[g] = "invalidate" => pc'[g] = "invalidate"
    BY <1>1 DEF Become, TypeOK
  <2> QED
    BY <1>1, <2>1, CacheKept
<1>8. "idle" \in PCs /\ GoodLoc("idle", NoLoc)
  BY NoLocGood
<1> QED
  BY <1>1, <1>3, <1>4, <1>5, <1>6, <1>7, <1>8, NoLocType, TableStep

\* A request that removes rows, leaves the folders alone and returns.
LEMMA EraseStep ==
  ASSUME VaultInv, NEW h \in Handlers, NEW S, Erase(S), Return(h), pc[h] # "invalidate",
         UNCHANGED <<dirs, made, parent, born, cacheVars, keyVars, inVault>>
  PROVE  VaultInv'
<1> USE DEF VaultInv
<1>1. DbType' /\ TreeInv' /\ KeyMatchesFolder'
  BY EraseRows DEF TreeInv, NoDangling, Exists
<1>2. Stable
  BY StableKeep
<1>3. CacheInv' /\ CacheType'
  <2>1. \A g \in Handlers : pc[g] = "invalidate" => pc'[g] = "invalidate"
    BY DEF Return, Become, TypeOK
  <2> QED
    BY <2>1, CacheKept
<1>4. "idle" \in PCs /\ GoodLoc("idle", NoLoc) /\ Become(h, "idle", NoLoc)
  BY NoLocGood DEF Return
<1> QED
  BY <1>1, <1>2, <1>3, <1>4, NoLocType, TableStep

LEMMA VaultDeleteFile ==
  ASSUME VaultInv, NEW h \in Handlers, DeleteFile(h)
  PROVE  VaultInv'
<1>1. PICK S : S = {loc[h].file} \cap live
  OBVIOUS
<1> QED
  BY <1>1, EraseStep DEF DeleteFile

\* A cache that is right about the folders there are has the vault's.
LEMMA VaultEmptyTrash ==
  ASSUME VaultInv, NEW h \in Handlers, EmptyTrash(h)
  PROVE  VaultInv'
<1>1. pc[h] = "idle" /\ UNCHANGED <<dbVars, keyVars, inVault, odd>>
  BY DEF EmptyTrash
<1>2. CASE UNCHANGED cacheVars /\ Become(h, "sweep", [NoLoc EXCEPT !.vault = TRUE])
  <2> DEFINE l == [NoLoc EXCEPT !.vault = TRUE]
  <2>1. l \in Locals /\ l.vault
    BY NoLocType DEF Locals
  <2>2. Become(h, "sweep", l)
    BY <1>2
  <2> HIDE DEF l
  <2>3. GoodLoc("sweep", l) /\ "sweep" \in PCs
    BY <2>1 DEF GoodLoc, StoreLoc, MoveLoc, CollectLoc, ActLoc, PCs
  <2> QED
    BY <1>1, <1>2, <2>1, <2>2, <2>3, LocalStep
<1>3. CASE ~ (UNCHANGED cacheVars /\ Become(h, "sweep", [NoLoc EXCEPT !.vault = TRUE]))
  <2>1. /\ IF cacheValid THEN UNCHANGED cacheVars ELSE LoadCache
        /\ Become(h, "sweep",
                  [NoLoc EXCEPT !.coll = cacheIDs', !.queue = dirs \cup System,
                                !.odd = blind' \/ \E g \in Handlers : pc[g] = "invalidate"])
    BY <1>3 DEF EmptyTrash
  <2>2. UNCHANGED cacheVars \/ LoadCache
    BY <2>1
  <2>3. CacheInv' /\ CacheType'
    <3>1. UNCHANGED <<dirs, inVault>>
      BY <1>1 DEF dbVars
    <3>2. \A g \in Handlers : pc[g] = "invalidate" => pc'[g] = "invalidate"
      BY <1>1, <2>1 DEF Become, VaultInv, TypeOK
    <3> QED
      BY <2>2, <3>1, <3>2, CacheKept DEF VaultInv
  <2>4. PICK C \in SUBSET Places, Q \in SUBSET Places, o \in BOOLEAN :
           /\ C = cacheIDs' /\ Q = dirs \cup System
           /\ o = (blind' \/ \E g \in Handlers : pc[g] = "invalidate")
    BY <2>3 DEF CacheType, VaultInv, TypeOK, Places
  <2> DEFINE l == [NoLoc EXCEPT !.coll = C, !.queue = Q, !.odd = o]
  <2>5. l \in Locals /\ l.coll = C /\ l.queue = Q /\ l.odd = o
    BY <2>4, NoLocType DEF Locals
  <2>6. Become(h, "sweep", l)
    BY <2>1, <2>4
  <2> HIDE DEF l
  <2>7. ASSUME ~ o, NEW d \in Q
        PROVE  Made(d) /\ (Domain(d) => d \in C)
    <3>1. Made(d)
      BY <2>4, ExistsMade DEF VaultInv, Exists
    <3>2. cacheValid' /\ ~ blind' /\ \A g \in Handlers : pc'[g] # "invalidate"
      BY <1>1, <2>1, <2>4, <2>7 DEF LoadCache, cacheVars, Become, VaultInv, TypeOK
    <3>3. dirs' = dirs /\ inVault' = inVault
      BY <1>1 DEF dbVars
    <3>4. VaultRoot \in C /\ \A e \in dirs : e \in C <=> inVault[e]
      BY <2>3, <2>4, <3>2, <3>3 DEF CacheInv, CacheSound
    <3>5. CASE d \in dirs
      BY <3>1, <3>4, <3>5 DEF Domain
    <3>6. CASE d \in System
      BY <3>1, <3>4, <3>6, VaultConstants DEF Domain, System
    <3> QED
      BY <2>4, <3>5, <3>6
  <2>8. GoodLoc("sweep", l) /\ "sweep" \in PCs
    BY <2>5, <2>7 DEF GoodLoc, StoreLoc, MoveLoc, CollectLoc, ActLoc, PCs
  <2> QED
    BY <1>1, <2>2, <2>5, <2>6, <2>8, LocalStep
<1> QED
  BY <1>2, <1>3

LEMMA VaultSweep ==
  ASSUME VaultInv, NEW h \in Handlers, Sweep(h)
  PROVE  VaultInv'
<1>1. PICK S : S = Emptied(loc[h])
  OBVIOUS
<1> QED
  BY <1>1, EraseStep DEF Sweep

-----------------------------------------------------------------------------
(* The invariant, for every step. *)

LEMMA VaultInit ==
  ASSUME Init
  PROVE  VaultInv
<1> USE DEF Init
<1>1. pc \in [Handlers -> PCs] /\ loc \in [Handlers -> Locals]
  BY NoLocType DEF PCs
<1>2. TypeOK
  BY <1>1 DEF TypeOK, Places, System
<1>3. TreeInv /\ CacheInv /\ KeyMatchesFolder
  BY DEF TreeInv, NoDangling, CacheInv, CacheSound, KeyMatchesFolder
<1>4. LocInv
  BY NoLocGood DEF LocInv
<1> QED
  BY <1>2, <1>3, <1>4 DEF VaultInv

LEMMA VaultFileRequest ==
  ASSUME VaultInv, NEW h \in Handlers, FileRequest(h)
  PROVE  VaultInv'
  BY VaultInitSession, VaultStartDownload, VaultDownloadFolder, VaultMoveFile, VaultMoveBatch
     DEF FileRequest

LEMMA VaultFolderRequest ==
  ASSUME VaultInv, NEW h \in Handlers, FolderRequest(h)
  PROVE  VaultInv'
  BY VaultPanicPurge, VaultEmptyTrash, VaultReadFolder, VaultCreateFolder, VaultDeleteFolder
     DEF FolderRequest

LEMMA VaultHandlerStep ==
  ASSUME VaultInv, NEW h \in Handlers, HandlerStep(h)
  PROVE  VaultInv'
  BY VaultGiveUp, VaultFindContent, VaultCompareDomains, VaultVerifyProof, VaultMiddleware, VaultUploadChunk, VaultInsertFile, VaultOpenStream,
     VaultMoveTarget, VaultBatchNext, VaultMoveSource, VaultMoveDest, VaultReencrypt,
     VaultMoveFails, VaultMoveUpdate, VaultInsertFolder, VaultInvalidate, VaultCollect,
     VaultDeleteAsk, VaultDeleteCommit, VaultListFiles, VaultStreamEntry, VaultPermit,
     VaultMark, VaultDeleteFile, VaultSweep, VaultPurgeFiles, VaultPurgeFolders
     DEF HandlerStep

LEMMA VaultEnvironment ==
  ASSUME VaultInv, Environment
  PROVE  VaultInv'
  BY VaultFillCache, VaultCleanup, VaultLogin, VaultExpire, VaultLock, VaultRenameFolder
     DEF Environment

LEMMA VaultStutter ==
  ASSUME VaultInv, UNCHANGED vars
  PROVE  VaultInv'
<1>1. UNCHANGED <<dbVars, inVault, odd, hVars>> /\ UNCHANGED cacheVars /\ UNCHANGED keyVars
  BY DEF vars
<1>2. KeyType'
  BY <1>1, KeyTypeNow DEF KeyType, keyVars
<1> QED
  BY <1>1, <1>2, KeyStep

LEMMA VaultStep ==
  ASSUME VaultInv, [Next]_vars
  PROVE  VaultInv'
<1>1. Workers \subseteq Handlers /\ Admins \subseteq Handlers
  BY DEF Handlers
<1> QED
  BY <1>1, VaultFileRequest, VaultFolderRequest, VaultHandlerStep, VaultEnvironment,
     VaultStutter DEF Next

LEMMA VaultAlways == Spec => []VaultInv
<1>1. Init => VaultInv
  BY VaultInit
<1>2. VaultInv /\ [Next]_vars => VaultInv'
  BY VaultStep
<1> QED
  BY <1>1, <1>2, PTL DEF Spec

(***************************************************************************)
(* Every reachable state is well formed, for any number of folders, files, *)
(* sessions and handlers.                                                  *)
(***************************************************************************)
THEOREM TypeCorrect == Spec => []TypeOK
<1>1. VaultInv => TypeOK
  BY DEF VaultInv
<1> QED
  BY <1>1, VaultAlways, PTL

(***************************************************************************)
(* No row and no folder ever names a folder that is not there:             *)
(* DeleteFolder takes whole subtrees, however uploads, moves and new       *)
(* folders race with it.                                                   *)
(***************************************************************************)
THEOREM DanglingCorrect == Spec => []NoDangling
<1>1. VaultInv => NoDangling
  BY DEF VaultInv, TreeInv
<1> QED
  BY <1>1, VaultAlways, PTL

(***************************************************************************)
(* The cache of vault folders is exact whenever it is valid, was not       *)
(* filled by a failing query, and no folder change awaits its              *)
(* InvalidateVaultCache.                                                   *)
(***************************************************************************)
THEOREM CacheCorrect == Spec => []CacheSound
<1>1. VaultInv => CacheSound
  BY DEF VaultInv, CacheInv
<1> QED
  BY <1>1, VaultAlways, PTL

(***************************************************************************)
(* The content of a file is under the key of its folder, through uploads,  *)
(* content stored twice, downloads, MoveFile, MoveFilesBatch and           *)
(* DeleteFolder, except for the causes VaultFolders names.                 *)
(***************************************************************************)
THEOREM KeyCorrect == Spec => []KeyMatchesFolder
<1>1. VaultInv => KeyMatchesFolder
  BY DEF VaultInv
<1> QED
  BY <1>1, VaultAlways, PTL

(***************************************************************************)
(* What DownloadFolder has listed can be decrypted with the key it chose,  *)
(* whatever moves and deletions happen while it streams.                   *)
(***************************************************************************)
THEOREM ZipCorrect == Spec => []ZipReadable
<1>1. VaultInv => ZipReadable
  <2> SUFFICES ASSUME VaultInv, NEW h \in Handlers, pc[h] = "stream", ~ loc[h].odd,
                      ZipKey(loc[h]) # "junk", NEW e \in loc[h].snap
               PROVE  e.odd \/ e.keys = {ZipKey(loc[h])}
    BY DEF ZipReadable
  <2>1. e.odd \/ e.keys = {SideKey(loc[h].vault)}
    BY DEF VaultInv, LocInv, GoodLoc, CollectLoc
  <2>2. PICK r : r = loc[h].ref
    OBVIOUS
  <2>3. Slice(r) \in {"vk", "junk"}
    BY SliceType DEF VaultInv
  <2>4. ZipKey(loc[h]) = SideKey(loc[h].vault)
    BY <2>2, <2>3 DEF ZipKey, SideKey
  <2> QED
    BY <2>1, <2>4
<1> QED
  BY <1>1, VaultAlways, PTL

-----------------------------------------------------------------------------
(* What removes rows. *)

\* A row of the vault is removed by a handler that goes on from where it was let in.
Excused == \A f \in live \ live' : Domain(at[f]) =>
               \E h \in Handlers : pc'[h] # pc[h] /\ LetThrough(h, f)

\* Everything below folders of one side of the vault's boundary is on that side.
LEMMA BelowSide ==
  ASSUME TypeOK, TreeInv, NEW S, NEW b, \A c \in S : Domain(c) = b
  PROVE  \A d \in Below(S) : Domain(d) = b
<1> SUFFICES ASSUME NEW d \in Below(S)
             PROVE  Domain(d) = b
  OBVIOUS
<1> DEFINE T == {c \in dirs \cup S : Domain(c) = b}
<1>1. T \in SUBSET (dirs \cup S) /\ S \subseteq T
  OBVIOUS
<1>2. ASSUME NEW c \in dirs, parent[c] \in T
      PROVE  c \in T
  <2>1. c \in Folders /\ c # VaultRoot /\ inVault[c] \in BOOLEAN
    BY VaultConstants DEF TypeOK, System
  <2>2. Domain(c) = inVault[c]
    BY <2>1 DEF Domain
  <2>3. inVault[c] = Domain(parent[c])
    BY DEF TreeInv
  <2> QED
    BY <1>2, <2>2, <2>3
<1>3. d \in T
  BY <1>1, <1>2 DEF Below
<1> QED
  BY <1>3

\* Every other operation leaves all rows in the table.
LEMMA OthersKeepRows ==
  ASSUME [Next]_vars,
         \A h \in Handlers : /\ ~ DeleteCommit(h) /\ ~ PurgeFiles(h) /\ ~ PurgeFolders(h)
                             /\ ~ DeleteFile(h) /\ ~ Sweep(h)
  PROVE  live \subseteq live'
<1>1. CASE UNCHANGED vars
  BY <1>1 DEF vars, dbVars
<1>2. ASSUME NEW h \in Handlers, FileRequest(h)
      PROVE  live \subseteq live'
  BY <1>2 DEF FileRequest, InitSession, StartDownload, DownloadFolder, MoveFile,
              MoveFilesBatch, dbVars
<1>3. ASSUME NEW h \in Handlers, FolderRequest(h)
      PROVE  live \subseteq live'
  BY <1>3 DEF FolderRequest, PanicPurge, EmptyTrash, ReadFolder, CreateFolder, DeleteFolder,
              dbVars
<1>4. ASSUME NEW h \in Handlers, HandlerStep(h)
      PROVE  live \subseteq live'
  BY <1>4 DEF HandlerStep, GiveUp, VaultKeyMiddleware, UploadChunk, InsertFile, Insert,
     FindContent, CompareDomains, VerifyProofOfOwnership,
     OpenStream, MoveTarget, BatchNext, MoveSource, MoveDest, Reencrypt, MoveFails,
     MoveUpdate, InsertFolder, Invalidate, Collect, DeleteAsk, ListFiles, StreamEntry,
     Permit, Mark, dbVars
<1>5. CASE Environment
  BY <1>5 DEF Environment, FillCache, CleanupStaleKeys, Login, Expire, LockVault,
     RenameFolder, dbVars
<1> QED
  BY <1>1, <1>2, <1>3, <1>4, <1>5 DEF Next, Handlers

\* DeleteFolder: the rows that go are in the folders it was let in for, or below them.
LEMMA DeleteExcused ==
  ASSUME VaultInv, NEW h \in Handlers, DeleteCommit(h)
  PROVE  Excused
<1> USE DEF VaultInv
<1>1. PICK x \in Locals : x = loc[h] /\ GoodLoc(pc[h], x)
  BY LocType DEF LocInv
<1>2. pc[h] = "rmdir" /\ Become(h, "invalidate", NoLoc)
  BY DEF DeleteCommit
<1>3. PICK deleted \in Effect(x.coll \cap dirs) :
         \A f \in live \ live' : at[f] \in Below(deleted)
  BY <1>1 DEF DeleteCommit
<1>4. /\ \A c \in x.coll : Domain(c) = Domain(x.dir)
      /\ Domain(x.dir) => x.sess # NoSession
  BY <1>1, <1>2 DEF GoodLoc, CollectLoc
<1>5. \A c \in deleted : Domain(c) = Domain(x.dir)
  BY <1>4 DEF Effect
<1>6. PICK b : b = Domain(x.dir)
  OBVIOUS
<1>7. \A d \in Below(deleted) : Domain(d) = b
  BY <1>5, <1>6, BelowSide
<1>8. pc'[h] # pc[h]
  BY <1>2 DEF Become, TypeOK
<1> QED
  BY <1>1, <1>2, <1>3, <1>4, <1>6, <1>7, <1>8 DEF Excused, LetThrough

\* The others go from where what they asked was answered, and the answer was right.
LEMMA ErasureExcused ==
  ASSUME VaultInv, NEW h \in Handlers,
         PurgeFiles(h) \/ PurgeFolders(h) \/ DeleteFile(h) \/ Sweep(h)
  PROVE  Excused
<1> USE DEF VaultInv
<1>1. PICK x \in Locals : x = loc[h] /\ GoodLoc(pc[h], x)
  BY LocType DEF LocInv
<1>2. CASE PurgeFiles(h) \/ PurgeFolders(h)
  <2>1. pc[h] \in {"purgefiles", "purgefolders"} /\ pc'[h] # pc[h]
    BY <1>2 DEF PurgeFiles, PurgeFolders, Become, TypeOK
  <2> QED
    BY <2>1 DEF Excused, LetThrough
<1>3. CASE DeleteFile(h)
  <2>1. pc[h] = "act" /\ pc'[h] # pc[h]
    BY <1>3 DEF DeleteFile, Return, Become, TypeOK
  <2>2. x.odd \/ x.vault = Domain(x.src)
    BY <1>1, <2>1 DEF GoodLoc, ActLoc
  <2>3. \A f \in live \ live' : f = x.file
    BY <1>1, <1>3 DEF DeleteFile, Erase, Forget
  <2>4. \A f \in live \ live' : LetThrough(h, f) \/ ~ Domain(at[f])
    <3>1. x.vault \/ ~ Domain(x.src) \/ x.odd
      BY <2>2
    <3> QED
      BY <1>1, <2>1, <2>3, <3>1 DEF LetThrough
  <2> QED
    BY <2>1, <2>4 DEF Excused
<1>4. CASE Sweep(h)
  <2>1. pc[h] = "sweep" /\ pc'[h] # pc[h]
    BY <1>4 DEF Sweep, Return, Become, TypeOK
  <2>2. \A f \in live \ live' : x.vault \/ at[f] \notin x.coll
    BY <1>1, <1>4 DEF Sweep, Erase, Forget, Emptied
  <2>3. x.odd \/ x.vault \/ \A d \in x.queue : Domain(d) => d \in x.coll
    BY <1>1, <2>1 DEF GoodLoc, ActLoc
  <2>4. \A f \in live \ live' : Domain(at[f]) => x.vault \/ at[f] \notin x.queue \/ x.odd
    BY <2>2, <2>3
  <2> QED
    BY <1>1, <2>1, <2>4 DEF Excused, LetThrough
<1> QED
  BY <1>2, <1>3, <1>4

(***************************************************************************)
(* Only requests that were let in remove a row of the vault: DeleteFolder  *)
(* of a vault folder, PanicPurge, and a DeleteFile or EmptyTrash that saw  *)
(* the vault open, or the row outside it, or that a named cause misled.    *)
(* The checks go through the cache, so this rests on its being exact; that *)
(* the vault may be locked before they act is why no more can be said.     *)
(***************************************************************************)
THEOREM GuardedCorrect == Spec => VaultRowsGuarded
<1>1. VaultInv /\ [Next]_vars => [Excused]_vars
  BY OthersKeepRows, DeleteExcused, ErasureExcused DEF Excused
<1>2. [Excused]_vars => [\A f \in live \ live' : Domain(at[f]) =>
                            \E h \in Handlers : pc'[h] # pc[h] /\ LetThrough(h, f)]_vars
  BY DEF Excused
<1> HIDE DEF Excused
<1> QED
  BY <1>1, <1>2, VaultAlways, PTL DEF Spec, VaultRowsGuarded
=============================================================================
