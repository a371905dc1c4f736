-------------------------- MODULE ReconcileProofs --------------------------
(***************************************************************************)
(* Proofs about Reconcile, for any trees, any number of pages reconciling  *)
(* the same folder, and any failures.                                      *)
(***************************************************************************)
EXTENDS Reconcile, FiniteSetTheorems, TLAPS

Path == Seq(Nat)

(***************************************************************************)
(* The types: what the tables hold, and the locals of a request.           *)
(***************************************************************************)
Folder == [id : Ids, parent : Ids \cup {Base, Top}, name : Nat \cup {RootName}]
Row == [dir : Ids, name : Nat, size : Nat, hash : STRING, by : Clients]
Session == {s \in [dir : Ids, name : Nat, size : Nat, have : Nat] : s.have \in 1 .. s.size - 1}
Action == [path : Path, act : {"SKIP", "UPLOAD_NEW", "RESUME"}, dir : Ids \cup {Top}]
Found == [dirs : SUBSET Folder, rows : SUBSET Row]
Summary == [synced : Nat, resumable : Nat, missing : Nat, done : Nat, left : Nat]
Transfer == [path : Path, by : {"done", "cancel"}]
Places == UNION {[D -> Ids \cup {Top}] : D \in SUBSET Path}
Loc == [root : Ids \cup {Top}, found : Found, place : Places, todo : Seq(Path),
        plan : SUBSET Action, shown : SUBSET Transfer, sum : Summary]
PCs == {"idle", "mkroot", "folders", "files", "walk", "planned", "synced"}

\* The tables, whose rows and folders are in folders that exist.
Tables ==
    /\ tree \in Trees
    /\ dirs \subseteq Folder /\ rows \subseteq Row /\ sessions \subseteq Session
    /\ \A x \in dirs : x.parent \in {y.id : y \in dirs} \cup {Base, Top}
    /\ \A r \in rows : r.dir \in {y.id : y \in dirs}
    /\ failed \in BOOLEAN

-----------------------------------------------------------------------------
(* The invariant of one request, l being its locals *)

\* Nothing that was read is in folder d.
Barren(d, s) == DirsIn(d, s) = {} /\ RowsIn(d, s) = {}

\* Folders and rows do not vanish under a request that has read them.
FoundOK(l) == l.found.dirs \subseteq dirs /\ l.found.rows \subseteq rows

\* The walk is about to visit nodes of the tree whose directory has a folder.
TodoOK(l) ==
    \A i \in 1 .. Len(l.todo) : l.todo[i] \in DOMAIN tree /\ Front(l.todo[i]) \in DOMAIN l.place

(***************************************************************************)
(* A directory's folder is where the directory belongs.  After a failure   *)
(* it may be elsewhere, or missing, but then nothing was found in it.      *)
(***************************************************************************)
PlaceOK(l) ==
    \A p \in DOMAIN l.place :
        /\ IsAt(l.place[p], p) \/ Barren(l.place[p], l.found)
        /\ ~ failed => IsAt(l.place[p], p)

\* Every file is settled by an action or still to be visited, once.
CoverOK(l) ==
    \A p \in Files :
        /\ \/ \E a \in l.plan : IsPrefix(a.path, p)
           \/ \E i \in 1 .. Len(l.todo) : IsPrefix(l.todo[i], p)
        /\ \A a, b \in l.plan : IsPrefix(a.path, p) /\ IsPrefix(b.path, p) => a = b
        /\ \A a \in l.plan, i \in 1 .. Len(l.todo) :
              ~ (IsPrefix(a.path, p) /\ IsPrefix(l.todo[i], p))
        /\ \A i, j \in 1 .. Len(l.todo) :
              IsPrefix(l.todo[i], p) /\ IsPrefix(l.todo[j], p) => i = j

\* The files the plan has settled so far; the summary is about them.
Settled(l) == {p \in Files : \E a \in l.plan : IsPrefix(a.path, p)}

CountOK(l) ==
    /\ l.sum.synced + l.sum.resumable + l.sum.missing = Cardinality(Settled(l))
    /\ l.sum.done + l.sum.left <= SumOver(Settled(l))
    /\ l.sum.resumable = 0 => l.sum.done + l.sum.left = SumOver(Settled(l))

\* What is skipped is stored, what is uploaded goes to the right place.
PlanOK(l) ==
    \A a \in l.plan :
        /\ a.act = "SKIP" => \A p \in Within(a.path) : OnServer(p)
        /\ a.act # "SKIP" => a.path \in Files /\ (~ failed => IsAt(a.dir, Front(a.path)))

\* What is marked completed is stored, unless it was cancelled.
ShownOK(l) ==
    ~ failed => \A s \in l.shown : s.by # "cancel" => OnServer(s.path)

WalkOK(l) == TodoOK(l) /\ PlaceOK(l) /\ CoverOK(l) /\ CountOK(l)

\* What holds of a client that is at p with the locals l.
Fits(p, l) ==
    /\ p \in PCs /\ l \in Loc
    /\ FoundOK(l) /\ PlanOK(l)
    /\ p \in {"idle", "mkroot", "synced"} => l = NoLoc
    /\ p \in {"folders", "files"} => IsAt(l.root, <<>>) /\ l.todo = << >>
    /\ p = "walk" => WalkOK(l)
    /\ p = "planned" => ShownOK(l) /\ l.todo = << >>
    /\ p = "synced" => \A q \in Files : OnServer(q)

Inv ==
    /\ Tables
    /\ pc \in [Clients -> PCs] /\ loc \in [Clients -> Loc]
    /\ \A c \in Clients : Fits(pc[c], loc[c])

-----------------------------------------------------------------------------
(* Paths *)

LEMMA Initial ==
  ASSUME NEW q \in Path, NEW n \in 0 .. Len(q)
  PROVE  /\ SubSeq(q, 1, n) \in Path
         /\ Len(SubSeq(q, 1, n)) = n
         /\ \A i \in 1 .. n : SubSeq(q, 1, n)[i] = q[i]
  BY DEF Path

LEMMA FrontOf ==
  ASSUME NEW q \in Path, q # <<>>
  PROVE  /\ Front(q) \in Path /\ Last(q) \in Nat /\ Len(q) \in Nat \ {0}
         /\ Len(Front(q)) = Len(q) - 1
         /\ \A i \in 1 .. Len(q) - 1 : Front(q)[i] = q[i]
<1>1. Len(q) \in Nat \ {0}
  BY DEF Path
<1>2. Len(q) - 1 \in 0 .. Len(q) /\ Len(q) \in 1 .. Len(q)
  BY <1>1
<1>3. Last(q) \in Nat
  BY <1>2 DEF Path, Last
<1>4. /\ Front(q) \in Path /\ Len(Front(q)) = Len(q) - 1
      /\ \A i \in 1 .. Len(q) - 1 : Front(q)[i] = q[i]
  BY <1>2, Initial DEF Front
<1> QED
  BY <1>1, <1>3, <1>4

LEMMA SamePath ==
  ASSUME NEW p \in Path, NEW q \in Path, Len(p) = Len(q),
         \A i \in 1 .. Len(p) : p[i] = q[i]
  PROVE  p = q
  BY DEF Path

LEMMA PrefixOf ==
  ASSUME NEW p \in Path, NEW q \in Path
  PROVE  IsPrefix(p, q) <=> Len(p) <= Len(q) /\ \A i \in 1 .. Len(p) : p[i] = q[i]
<1>0. Len(p) \in Nat /\ Len(q) \in Nat
  BY DEF Path
<1>1. SubSeq(p, 1, Len(p)) = p
  BY DEF Path
<1>2. ASSUME Len(p) <= Len(q), \A i \in 1 .. Len(p) : p[i] = q[i]
      PROVE  SubSeq(q, 1, Len(p)) = p
  <2>1. Len(p) \in 0 .. Len(q)
    BY <1>0, <1>2
  <2>2. /\ SubSeq(q, 1, Len(p)) \in Path /\ Len(SubSeq(q, 1, Len(p))) = Len(p)
        /\ \A i \in 1 .. Len(p) : SubSeq(q, 1, Len(p))[i] = q[i]
    BY <2>1, Initial
  <2> QED
    BY <1>2, <2>2, SamePath
<1>3. ASSUME Len(p) <= Len(q), SubSeq(q, 1, Len(p)) = p
      PROVE  \A i \in 1 .. Len(p) : p[i] = q[i]
  <2>1. Len(p) \in 0 .. Len(q)
    BY <1>0, <1>3
  <2> QED
    BY <1>3, <2>1, Initial
<1> QED
  BY <1>1, <1>2, <1>3 DEF IsPrefix

\* The prefix of length n of a path is a prefix of it.
LEMMA InitialIsPrefix ==
  ASSUME NEW q \in Path, NEW n \in 0 .. Len(q)
  PROVE  IsPrefix(SubSeq(q, 1, n), q)
<1>1. PICK p \in Path : p = SubSeq(q, 1, n)
  BY Initial
<1>2. Len(p) = n /\ \A i \in 1 .. n : p[i] = q[i]
  BY <1>1, Initial
<1>3. Len(p) <= Len(q) /\ \A i \in 1 .. Len(p) : p[i] = q[i]
  BY <1>2 DEF Path
<1> QED
  BY <1>1, <1>3, PrefixOf

\* The initial segment one shorter than another is its Front.
LEMMA InitialFront ==
  ASSUME NEW q \in Path, NEW n \in 1 .. Len(q)
  PROVE  /\ Front(SubSeq(q, 1, n)) = SubSeq(q, 1, n - 1)
         /\ Last(SubSeq(q, 1, n)) = q[n]
         /\ SubSeq(q, 1, n) # <<>>
<1>0. Len(q) \in Nat
  BY DEF Path
<1>1. n \in 0 .. Len(q) /\ n - 1 \in 0 .. Len(q)
  BY <1>0
<1>2. PICK p \in Path : p = SubSeq(q, 1, n)
  BY <1>1, Initial
<1>3. PICK r \in Path : r = SubSeq(q, 1, n - 1)
  BY <1>1, Initial
<1>4. Len(p) = n /\ \A i \in 1 .. n : p[i] = q[i]
  BY <1>1, <1>2, Initial
<1>5. Len(r) = n - 1 /\ \A i \in 1 .. n - 1 : r[i] = q[i]
  BY <1>1, <1>3, Initial
<1>6. p # <<>>
  BY <1>4
<1>7. /\ Front(p) \in Path /\ Len(Front(p)) = n - 1
      /\ \A i \in 1 .. n - 1 : Front(p)[i] = p[i]
  BY <1>4, <1>6, FrontOf
<1>8. Front(p) = r
  <2>1. \A i \in 1 .. Len(r) : Front(p)[i] = r[i]
    BY <1>4, <1>5, <1>7
  <2> QED
    BY <1>5, <1>7, <2>1, SamePath
<1> QED
  BY <1>2, <1>3, <1>4, <1>6, <1>8 DEF Last

LEMMA WholeInitial ==
  ASSUME NEW q \in Path
  PROVE  SubSeq(q, 1, Len(q)) = q
  BY DEF Path

\* Two prefixes of equal length of the same path are the same.
LEMMA PrefixesEqual ==
  ASSUME NEW p \in Path, NEW q \in Path, NEW r \in Path,
         IsPrefix(p, r), IsPrefix(q, r), Len(p) = Len(q)
  PROVE  p = q
<1>1. \A i \in 1 .. Len(p) : p[i] = r[i]
  BY PrefixOf
<1>2. \A i \in 1 .. Len(q) : q[i] = r[i]
  BY PrefixOf
<1> QED
  BY <1>1, <1>2, SamePath

LEMMA PrefixTrans ==
  ASSUME NEW p \in Path, NEW q \in Path, NEW r \in Path, IsPrefix(p, q), IsPrefix(q, r)
  PROVE  IsPrefix(p, r)
<1>0. Len(p) \in Nat /\ Len(q) \in Nat /\ Len(r) \in Nat
  BY DEF Path
<1>1. Len(p) <= Len(q) /\ \A i \in 1 .. Len(p) : p[i] = q[i]
  BY PrefixOf
<1>2. Len(q) <= Len(r) /\ \A i \in 1 .. Len(q) : q[i] = r[i]
  BY PrefixOf
<1>3. Len(p) <= Len(r) /\ \A i \in 1 .. Len(p) : p[i] = r[i]
  BY <1>0, <1>1, <1>2
<1> QED
  BY <1>3, PrefixOf

LEMMA PrefixRefl ==
  ASSUME NEW p \in Path
  PROVE  IsPrefix(p, p) /\ IsPrefix(<<>>, p) /\ <<>> \in Path
<1>1. <<>> \in Path /\ Len(<<>>) = 0 /\ Len(p) \in Nat
  BY DEF Path
<1> QED
  BY <1>1, PrefixOf

LEMMA FrontIsPrefix ==
  ASSUME NEW q \in Path, q # <<>>
  PROVE  IsPrefix(Front(q), q)
<1>1. /\ Front(q) \in Path /\ Len(q) \in Nat \ {0} /\ Len(Front(q)) = Len(q) - 1
      /\ \A i \in 1 .. Len(q) - 1 : Front(q)[i] = q[i]
  BY FrontOf
<1> QED
  BY <1>1, PrefixOf

-----------------------------------------------------------------------------
(* The client's tree *)

LEMMA TreePaths ==
  ASSUME tree \in Trees, NEW q \in DOMAIN tree
  PROVE  q \in Path /\ q # <<>> /\ tree[q].type \in {"file", "directory"}
  BY TreesAreTrees DEF Path

LEMMA FilePaths ==
  ASSUME tree \in Trees, NEW p \in Files
  PROVE  p \in DOMAIN tree /\ p \in Path /\ p # <<>> /\ tree[p].size \in Nat
  BY TreesAreTrees DEF Path, Files

LEMMA ChildPaths ==
  ASSUME tree \in Trees, NEW p \in Path, NEW q \in Children(p)
  PROVE  /\ q \in DOMAIN tree /\ q \in Path /\ q # <<>>
         /\ Len(q) = Len(p) + 1 /\ Front(q) = p /\ IsPrefix(p, q)
  BY TreePaths, FrontIsPrefix DEF Children

LEMMA TreeFinite ==
  ASSUME tree \in Trees
  PROVE  /\ IsFiniteSet(DOMAIN tree) /\ IsFiniteSet(Files)
         /\ \A p : IsFiniteSet(Children(p)) /\ IsFiniteSet(Within(p))
<1>1. IsFiniteSet(DOMAIN tree)
  BY TreesAreTrees
<1>2. Files \in SUBSET DOMAIN tree /\ \A p : Children(p) \in SUBSET DOMAIN tree
  BY DEF Files, Children
<1>3. \A p : Within(p) \in SUBSET DOMAIN tree
  BY DEF Files, Within
<1> QED
  BY <1>1, <1>2, <1>3, FS_Subset

\* What a path of the tree passes through are its directories.
LEMMA AboveIsDirectory ==
  ASSUME tree \in Trees, NEW p \in DOMAIN tree, NEW n \in 1 .. Len(p) - 1
  PROVE  SubSeq(p, 1, n) \in DOMAIN tree /\ tree[SubSeq(p, 1, n)].type = "directory"
  BY TreesAreTrees

\* A prefix of a path is one of its initial segments.
LEMMA PrefixIsInitial ==
  ASSUME NEW p \in Path, NEW q \in Path, IsPrefix(q, p)
  PROVE  Len(q) \in 0 .. Len(p) /\ q = SubSeq(p, 1, Len(q))
<1>1. Len(q) <= Len(p) /\ \A i \in 1 .. Len(q) : q[i] = p[i]
  BY PrefixOf
<1>2. Len(q) \in 0 .. Len(p)
  BY <1>1 DEF Path
<1>3. IsPrefix(SubSeq(p, 1, Len(q)), p) /\ SubSeq(p, 1, Len(q)) \in Path
      /\ Len(SubSeq(p, 1, Len(q))) = Len(q)
  BY <1>2, InitialIsPrefix, Initial
<1> QED
  BY <1>2, <1>3, PrefixesEqual

\* Only directories have files below them.
LEMMA FileIsLeaf ==
  ASSUME tree \in Trees, NEW p \in Files, NEW q \in Files, IsPrefix(q, p)
  PROVE  q = p
<1>1. p \in DOMAIN tree /\ p \in Path /\ q \in Path /\ q # <<>>
  BY FilePaths
<1>2. Len(q) \in 0 .. Len(p) /\ q = SubSeq(p, 1, Len(q)) /\ Len(p) \in Nat
  BY <1>1, PrefixIsInitial DEF Path
<1>3. Len(q) # 0
  BY <1>1, FrontOf
<1>4. tree[q].type # "directory"
  BY DEF Files
<1>5. Len(q) \notin 1 .. Len(p) - 1
  BY <1>1, <1>2, <1>4, AboveIsDirectory
<1>6. Len(q) = Len(p)
  BY <1>2, <1>3, <1>5
<1> QED
  BY <1>1, <1>2, <1>6, WholeInitial

\* Whatever is below a directory is below one of its children, or is one.
LEMMA ChildToward ==
  ASSUME tree \in Trees, NEW p \in DOMAIN tree, NEW q \in Path, IsPrefix(q, p), q # p
  PROVE  \E c \in Children(q) : IsPrefix(c, p)
<1>1. p \in Path /\ p # <<>>
  BY TreePaths
<1>2. Len(q) \in 0 .. Len(p) /\ q = SubSeq(p, 1, Len(q)) /\ Len(p) \in Nat
  BY <1>1, PrefixIsInitial DEF Path
<1>3. Len(q) # Len(p)
  BY <1>1, <1>2, WholeInitial
<1>4. PICK n \in 1 .. Len(p) : n = Len(q) + 1
  BY <1>2, <1>3
<1>a. n \in 0 .. Len(p)
  BY <1>2
<1>5. PICK c \in Path : c = SubSeq(p, 1, n)
  BY <1>1, <1>a, Initial
<1>6. Len(c) = n /\ IsPrefix(c, p) /\ Front(c) = SubSeq(p, 1, n - 1)
  BY <1>1, <1>a, <1>5, Initial, InitialIsPrefix, InitialFront
<1>7. Front(c) = q
  BY <1>2, <1>4, <1>6
<1>8. c \in DOMAIN tree
  <2>1. CASE n = Len(p)
    BY <1>1, <1>5, <2>1, WholeInitial
  <2>2. CASE n # Len(p)
    <3>1. n \in 1 .. Len(p) - 1
      BY <1>2, <1>4, <2>2
    <3> QED
      BY <1>5, <3>1, AboveIsDirectory
  <2> QED
    BY <2>1, <2>2
<1> QED
  BY <1>4, <1>6, <1>7, <1>8 DEF Children

\* Within a directory is within its children.
LEMMA WithinChildren ==
  ASSUME tree \in Trees, NEW q \in Path, q \notin Files
  PROVE  \A p \in Files : IsPrefix(q, p) <=> \E c \in Children(q) : IsPrefix(c, p)
<1> SUFFICES ASSUME NEW p \in Files
             PROVE  IsPrefix(q, p) <=> \E c \in Children(q) : IsPrefix(c, p)
  OBVIOUS
<1>1. p \in DOMAIN tree /\ p \in Path /\ q # p
  BY FilePaths
<1>2. ASSUME NEW c \in Children(q), IsPrefix(c, p) PROVE IsPrefix(q, p)
  BY <1>1, <1>2, ChildPaths, PrefixTrans
<1> QED
  BY <1>1, <1>2, ChildToward

\* No file is below two children of the same directory.
LEMMA SiblingsApart ==
  ASSUME tree \in Trees, NEW q \in Path, NEW c \in Children(q), NEW e \in Children(q),
         NEW p \in Files, IsPrefix(c, p), IsPrefix(e, p)
  PROVE  c = e
<1>1. c \in Path /\ e \in Path /\ Len(c) = Len(e)
  BY ChildPaths
<1> QED
  BY <1>1, FilePaths, PrefixesEqual

\* Siblings have different names.
LEMMA SiblingNames ==
  ASSUME tree \in Trees, NEW q \in Path, NEW c \in Children(q), NEW e \in Children(q),
         Last(c) = Last(e)
  PROVE  c = e
<1>1. /\ c \in Path /\ c # <<>> /\ Len(c) = Len(q) + 1 /\ Front(c) = q
      /\ e \in Path /\ e # <<>> /\ Len(e) = Len(q) + 1 /\ Front(e) = q
  BY ChildPaths
<1>2. \A i \in 1 .. Len(c) - 1 : q[i] = c[i] /\ q[i] = e[i]
  BY <1>1, FrontOf
<1>3. c[Len(c)] = e[Len(c)]
  BY <1>1 DEF Last
<1>4. \A i \in 1 .. Len(c) : c[i] = e[i]
  <2>1. Len(c) \in Nat
    BY <1>1 DEF Path
  <2>2. \A i \in 1 .. Len(c) : i \in 1 .. Len(c) - 1 \/ i = Len(c)
    BY <2>1
  <2> QED
    BY <1>2, <1>3, <2>2
<1> QED
  BY <1>1, <1>4, SamePath

(***************************************************************************)
(* Sorted(p) lists the children of p, each once: the number of siblings    *)
(* that come before a child is different for every child.                  *)
(***************************************************************************)
LEMMA BeforeGrows ==
  ASSUME tree \in Trees, NEW p \in Path, NEW c \in Children(p), NEW e \in Children(p),
         Last(c) < Last(e)
  PROVE  Cardinality(Before(c)) < Cardinality(Before(e))
<1>1. Front(c) = p /\ Front(e) = p
  BY ChildPaths
<1>2. \A q \in Children(p) : Last(q) \in Nat
  BY ChildPaths, FrontOf
<1>3. c \notin Before(c) /\ c \in Before(e) /\ Before(c) \subseteq Before(e)
  BY <1>1, <1>2 DEF Before
<1>4. IsFiniteSet(Before(e)) /\ IsFiniteSet(Before(c))
  BY <1>1, TreeFinite, FS_Subset DEF Before
<1>5. Cardinality(Before(c)) <= Cardinality(Before(e))
  BY <1>3, <1>4, FS_Subset
<1>6. Cardinality(Before(c)) # Cardinality(Before(e))
  BY <1>3, <1>4, FS_Subset
<1> QED
  BY <1>4, <1>5, <1>6, FS_CardinalityType

LEMMA RankExists ==
  ASSUME tree \in Trees, NEW p \in Path
  PROVE  /\ Cardinality(Children(p)) \in Nat
         /\ \A c \in Children(p) :
               Cardinality(Before(c)) \in 0 .. Cardinality(Children(p)) - 1
         /\ \A c, e \in Children(p) : Cardinality(Before(c)) = Cardinality(Before(e)) => c = e
         /\ \A i \in 1 .. Cardinality(Children(p)) :
               \E c \in Children(p) : Cardinality(Before(c)) = i - 1
<1> DEFINE n == Cardinality(Children(p))
           rank == [c \in Children(p) |-> Cardinality(Before(c)) + 1]
<1>1. IsFiniteSet(Children(p)) /\ n \in Nat
  BY TreeFinite, FS_CardinalityType
<1>2. ASSUME NEW c \in Children(p) PROVE Cardinality(Before(c)) \in 0 .. n - 1
  <2>1. Front(c) = p /\ Last(c) \in Nat
    BY ChildPaths, FrontOf
  <2>2. Before(c) \in SUBSET Children(p) /\ c \notin Before(c)
    BY <2>1 DEF Before
  <2>3. IsFiniteSet(Before(c)) /\ Cardinality(Before(c)) <= n /\ Cardinality(Before(c)) # n
    BY <1>1, <2>2, FS_Subset
  <2> QED
    BY <1>1, <2>3, FS_CardinalityType
<1>3. ASSUME NEW c \in Children(p), NEW e \in Children(p),
             Cardinality(Before(c)) = Cardinality(Before(e))
      PROVE  c = e
  <2>1. Last(c) \in Nat /\ Last(e) \in Nat
    BY ChildPaths, FrontOf
  <2>2. ~ (Last(c) < Last(e)) /\ ~ (Last(e) < Last(c))
    BY <1>2, <1>3, BeforeGrows
  <2> QED
    BY <2>1, <2>2, SiblingNames
<1>4. rank \in Injection(Children(p), 1 .. n)
  <2>1. \A c \in Children(p) : rank[c] \in 1 .. n
    BY <1>1, <1>2
  <2>2. ASSUME NEW c \in Children(p), NEW e \in Children(p), rank[c] = rank[e] PROVE c = e
    <3>1. Cardinality(Before(c)) + 1 = Cardinality(Before(e)) + 1
      BY <2>2
    <3>2. Cardinality(Before(c)) = Cardinality(Before(e))
      BY <1>1, <1>2, <3>1
    <3> QED
      BY <1>3, <3>2
  <2> QED
    BY <2>1, <2>2 DEF Injection, IsInjective
<1>5. IsFiniteSet(1 .. n) /\ Cardinality(1 .. n) = n
  <2>1. 1 \in Int /\ n \in Int
    BY <1>1
  <2>2. IsFiniteSet(1 .. n) /\ Cardinality(1 .. n) = IF 1 > n THEN 0 ELSE n - 1 + 1
    BY <2>1, FS_Interval
  <2> QED
    BY <1>1, <2>2
<1>6. rank \in Surjection(Children(p), 1 .. n)
  BY <1>4, <1>5, FS_Injection
<1>7. ASSUME NEW i \in 1 .. n PROVE \E c \in Children(p) : Cardinality(Before(c)) = i - 1
  <2>1. PICK c \in Children(p) : rank[c] = i
    BY <1>6 DEF Surjection
  <2>2. Cardinality(Before(c)) + 1 = i
    BY <2>1
  <2> QED
    BY <1>1, <1>2, <2>2
<1> QED
  BY <1>1, <1>2, <1>3, <1>7

LEMMA SortedChildren ==
  ASSUME tree \in Trees, NEW p \in Path
  PROVE  /\ Sorted(p) \in Seq(Path)
         /\ \A i \in 1 .. Len(Sorted(p)) : Sorted(p)[i] \in Children(p)
         /\ \A c \in Children(p) : \E i \in 1 .. Len(Sorted(p)) : Sorted(p)[i] = c
         /\ \A i, j \in 1 .. Len(Sorted(p)) : Sorted(p)[i] = Sorted(p)[j] => i = j
<1> DEFINE n == Cardinality(Children(p))
<1>1. n \in Nat
  BY RankExists
<1>2. ASSUME NEW i \in 1 .. n
      PROVE  Sorted(p)[i] \in Children(p) /\ Cardinality(Before(Sorted(p)[i])) = i - 1
  <2>1. \E c \in Children(p) : Cardinality(Before(c)) = i - 1
    BY RankExists
  <2>2. Sorted(p)[i] = CHOOSE q \in Children(p) : Cardinality(Before(q)) = i - 1
    BY DEF Sorted
  <2> QED
    BY <2>1, <2>2
<1>3. Sorted(p) \in Seq(Path) /\ Len(Sorted(p)) = n
  <2>1. \A i \in 1 .. n : Sorted(p)[i] \in Path
    BY <1>2, ChildPaths
  <2>2. Sorted(p) = [i \in 1 .. n |-> Sorted(p)[i]]
    BY DEF Sorted
  <2>3. Sorted(p) \in [1 .. n -> Path]
    BY <2>1, <2>2
  <2> QED
    BY <1>1, <2>3
<1>4. ASSUME NEW c \in Children(p) PROVE \E i \in 1 .. n : Sorted(p)[i] = c
  <2>1. PICK i \in 1 .. n : Cardinality(Before(c)) = i - 1
    <3>1. Cardinality(Before(c)) \in 0 .. n - 1
      BY RankExists
    <3>2. Cardinality(Before(c)) + 1 \in 1 .. n /\ Cardinality(Before(c)) = (Cardinality(Before(c)) + 1) - 1
      BY <1>1, <3>1
    <3> QED
      BY <3>2
  <2> QED
    BY <1>2, <2>1, RankExists
<1>5. ASSUME NEW i \in 1 .. n, NEW j \in 1 .. n, Sorted(p)[i] = Sorted(p)[j] PROVE i = j
  <2>1. i - 1 = j - 1
    BY <1>2, <1>5
  <2> QED
    BY <1>1, <2>1
<1> QED
  BY <1>2, <1>3, <1>4, <1>5

-----------------------------------------------------------------------------
(* Bytes *)

LEMMA BytesFinite ==
  ASSUME tree \in Trees, NEW S \in SUBSET Files
  PROVE  IsFiniteSet(S) /\ IsFiniteSet(Bytes(S)) /\ SumOver(S) \in Nat
<1> DEFINE of == [p \in S |-> {p} \X (1 .. tree[p].size)]
           parts == {{p} \X (1 .. tree[p].size) : p \in S}
<1>1. IsFiniteSet(S)
  BY TreeFinite, FS_Subset
<1>2. of \in Surjection(S, parts)
  BY DEF Surjection
<1>3. IsFiniteSet(parts)
  BY <1>1, <1>2, FS_Surjection
<1>4. ASSUME NEW p \in S PROVE IsFiniteSet({p} \X (1 .. tree[p].size))
  <2>1. 1 \in Int /\ tree[p].size \in Int
    BY FilePaths
  <2>2. IsFiniteSet(1 .. tree[p].size)
    BY <2>1, FS_Interval
  <2> QED
    BY <2>2, FS_Singleton, FS_Product
<1>5. IsFiniteSet(UNION parts)
  BY <1>3, <1>4, FS_UNION
<1> QED
  BY <1>1, <1>5, FS_CardinalityType DEF Bytes, SumOver

LEMMA BytesOfOne ==
  ASSUME tree \in Trees, NEW p \in Files
  PROVE  SumOver({p}) = tree[p].size
<1>1. tree[p].size \in Nat
  BY FilePaths
<1>2. Bytes({p}) = {p} \X (1 .. tree[p].size)
  BY DEF Bytes
<1>3. IsFiniteSet(1 .. tree[p].size) /\ Cardinality(1 .. tree[p].size) = tree[p].size
  <2>1. 1 \in Int /\ tree[p].size \in Int
    BY <1>1
  <2>2. /\ IsFiniteSet(1 .. tree[p].size)
        /\ Cardinality(1 .. tree[p].size)
              = IF 1 > tree[p].size THEN 0 ELSE tree[p].size - 1 + 1
    BY <2>1, FS_Interval
  <2> QED
    BY <1>1, <2>2
<1>4. IsFiniteSet({p}) /\ Cardinality({p}) = 1
  BY FS_Singleton
<1>5. Cardinality({p} \X (1 .. tree[p].size)) = 1 * tree[p].size
  <2>1. PICK S, T : S = {p} /\ T = 1 .. tree[p].size
    OBVIOUS
  <2>2. /\ IsFiniteSet(S) /\ Cardinality(S) = 1
        /\ IsFiniteSet(T) /\ Cardinality(T) = tree[p].size
    BY <1>3, <1>4, <2>1
  <2>3. Cardinality(S \X T) = Cardinality(S) * Cardinality(T)
    BY <2>2, FS_Product, ZenonT(30)
  <2> QED
    BY <2>1, <2>2, <2>3
<1>6. 1 * tree[p].size = tree[p].size
  BY <1>1
<1>7. SumOver({p}) = Cardinality({p} \X (1 .. tree[p].size))
  BY <1>2 DEF SumOver
<1> QED
  BY <1>5, <1>6, <1>7

LEMMA Additive ==
  ASSUME tree \in Trees, NEW S \in SUBSET Files, NEW T \in SUBSET Files, S \cap T = {}
  PROVE  /\ Cardinality(S) \in Nat /\ Cardinality(T) \in Nat
         /\ Cardinality(S \cup T) = Cardinality(S) + Cardinality(T)
         /\ SumOver(S) \in Nat /\ SumOver(T) \in Nat
         /\ SumOver(S \cup T) = SumOver(S) + SumOver(T)
<1>1. /\ IsFiniteSet(S) /\ IsFiniteSet(Bytes(S)) /\ SumOver(S) \in Nat
      /\ IsFiniteSet(T) /\ IsFiniteSet(Bytes(T)) /\ SumOver(T) \in Nat
  BY BytesFinite
<1>2. Cardinality(S) \in Nat /\ Cardinality(T) \in Nat
  BY <1>1, FS_CardinalityType
<1>3. Cardinality(S \cup T) = Cardinality(S) + Cardinality(T) - 0
  BY <1>1, FS_Union, FS_EmptySet
<1>4. Bytes(S) \cap Bytes(T) = {}
  <2> SUFFICES ASSUME NEW b \in Bytes(S), b \in Bytes(T) PROVE FALSE
    OBVIOUS
  <2>1. PICK p \in S : b \in {p} \X (1 .. tree[p].size)
    BY DEF Bytes
  <2>2. PICK q \in T : b \in {q} \X (1 .. tree[q].size)
    BY DEF Bytes
  <2>3. b[1] = p /\ b[1] = q
    BY <2>1, <2>2
  <2> QED
    BY <2>1, <2>2, <2>3
<1>5. Bytes(S \cup T) = Bytes(S) \cup Bytes(T)
  BY DEF Bytes
<1>6. Cardinality(Bytes(S) \cup Bytes(T)) = Cardinality(Bytes(S)) + Cardinality(Bytes(T)) - 0
  BY <1>1, <1>4, FS_Union, FS_EmptySet
<1>7. SumOver(S \cup T) = SumOver(S) + SumOver(T) - 0
  BY <1>5, <1>6 DEF SumOver
<1> QED
  BY <1>1, <1>2, <1>3, <1>7

-----------------------------------------------------------------------------
(* Where a folder is *)

\* IsAt for a given set of folders, to speak of it before and after a step.
At(D, d, p) ==
    \E f \in [0 .. Len(p) -> D] :
        /\ f[0].parent = Base /\ f[0].name = RootName
        /\ \A i \in 1 .. Len(p) : f[i].parent = f[i - 1].id /\ f[i].name = p[i]
        /\ f[Len(p)].id = d

LEMMA AtRoot ==
  ASSUME NEW D, NEW x \in D, x.parent = Base, x.name = RootName
  PROVE  At(D, x.id, <<>>)
<1> DEFINE f == [i \in 0 .. 0 |-> x]
<1>1. Len(<<>>) = 0 /\ f \in [0 .. 0 -> D] /\ f[0] = x
  OBVIOUS
<1>2. \A i \in 1 .. 0 : f[i].parent = f[i - 1].id /\ f[i].name = <<>>[i]
  OBVIOUS
<1> HIDE DEF f
<1>3. /\ f \in [0 .. Len(<<>>) -> D] /\ f[0].parent = Base /\ f[0].name = RootName
      /\ \A i \in 1 .. Len(<<>>) : f[i].parent = f[i - 1].id /\ f[i].name = <<>>[i]
      /\ f[Len(<<>>)].id = x.id
  BY <1>1, <1>2
<1> QED
  BY <1>3 DEF At

LEMMA AtGrows ==
  ASSUME NEW D, NEW E, D \subseteq E, NEW d, NEW p, At(D, d, p)
  PROVE  At(E, d, p)
  BY DEF At

\* A folder that is somewhere is in the table.
LEMMA AtExists ==
  ASSUME NEW D, NEW d, NEW p \in Path, At(D, d, p)
  PROVE  \E x \in D : x.id = d
  BY DEF At, Path

LEMMA AtBelow ==
  ASSUME NEW D, NEW d, NEW q \in Path, q # <<>>, At(D, d, Front(q)),
         NEW x \in D, x.parent = d, x.name = Last(q)
  PROVE  At(D, x.id, q)
<1>1. PICK p \in Path : p = Front(q)
  BY FrontOf
<1>2. PICK n \in Nat : n = Len(p)
  BY DEF Path
<1>3. PICK f \in [0 .. n -> D] :
         /\ f[0].parent = Base /\ f[0].name = RootName
         /\ \A i \in 1 .. n : f[i].parent = f[i - 1].id /\ f[i].name = p[i]
         /\ f[n].id = d
  BY <1>1, <1>2 DEF At
<1>4. Len(q) = n + 1 /\ \A i \in 1 .. n : p[i] = q[i]
  <2>1. /\ Len(q) \in Nat \ {0} /\ Len(p) = Len(q) - 1
        /\ \A i \in 1 .. Len(q) - 1 : p[i] = q[i]
    BY <1>1, FrontOf
  <2>2. Len(q) - 1 = n
    BY <1>2, <2>1
  <2> QED
    BY <2>1, <2>2
<1> DEFINE g == [i \in 0 .. n + 1 |-> IF i = n + 1 THEN x ELSE f[i]]
<1>5. g \in [0 .. n + 1 -> D]
  BY <1>3
<1>6. g[0] = f[0] /\ g[n + 1] = x /\ \A i \in 0 .. n : g[i] = f[i]
  OBVIOUS
<1>7. ASSUME NEW i \in 1 .. n + 1 PROVE g[i].parent = g[i - 1].id /\ g[i].name = q[i]
  <2>1. CASE i = n + 1
    <3>1. g[i - 1] = f[n] /\ g[i] = x
      BY <2>1, <1>6
    <3>2. Last(q) = q[i]
      BY <1>4, <2>1 DEF Last
    <3> QED
      BY <1>3, <3>1, <3>2
  <2>2. CASE i # n + 1
    <3>1. i \in 1 .. n /\ i \in 0 .. n /\ i - 1 \in 0 .. n
      BY <2>2
    <3>2. g[i] = f[i] /\ g[i - 1] = f[i - 1]
      BY <3>1, <1>6
    <3> QED
      BY <1>3, <1>4, <3>1, <3>2
  <2> QED
    BY <2>1, <2>2
<1> HIDE DEF g
<1>8. /\ g \in [0 .. Len(q) -> D] /\ g[0].parent = Base /\ g[0].name = RootName
      /\ \A i \in 1 .. Len(q) : g[i].parent = g[i - 1].id /\ g[i].name = q[i]
      /\ g[Len(q)].id = x.id
  BY <1>3, <1>4, <1>5, <1>6, <1>7
<1> QED
  BY <1>8 DEF At

(***************************************************************************)
(* Where the Merkle hashes of a subtree and of the folder at its place     *)
(* agree, every file of the subtree is on the server: the folders that     *)
(* stand for the directories on its path form the chain that At asks for.  *)
(***************************************************************************)
LEMMA SameHashStored ==
  ASSUME tree \in Trees, NEW D, NEW s, s.dirs \subseteq D,
         NEW p \in Path, NEW d, At(D, d, p), SameHash(p, d, s),
         p \notin Files, NEW q \in Within(p)
  PROVE  \E y \in s.rows : /\ y.name = Last(q) /\ y.size = tree[q].size
                           /\ At(D, y.dir, Front(q))
<1>0. q \in Files /\ IsPrefix(p, q) /\ q \in DOMAIN tree /\ q \in Path /\ q # <<>> /\ q # p
  BY FilePaths DEF Within
<1>1. PICK f : /\ f[p] = d
               /\ \A e \in Directories(p) : \A c \in Children(e) :
                    IF tree[c].type = "file"
                    THEN \E y \in RowsIn(f[e], s) : y.name = Last(c) /\ y.size = tree[c].size
                    ELSE \E x \in DirsIn(f[e], s) : x.name = Last(c) /\ x.id = f[c]
  BY DEF SameHash
<1>2. PICK m \in Nat : m = Len(p)
  BY DEF Path
<1>3. PICK n \in Nat : n = Len(q) - 1
  BY <1>0, FrontOf
<1>4. m <= n /\ p = SubSeq(q, 1, m) /\ Len(q) = n + 1 /\ n \in 0 .. Len(q)
  <2>1. Len(p) \in 0 .. Len(q) /\ p = SubSeq(q, 1, Len(p)) /\ Len(q) \in Nat
    BY <1>0, PrefixIsInitial DEF Path
  <2>2. Len(p) # Len(q)
    BY <1>0, <2>1, WholeInitial
  <2> QED
    BY <1>2, <1>3, <2>1, <2>2
<1>5. PICK r \in Path : r = Front(q)
  BY <1>0, FrontOf
<1>6. Len(r) = n /\ r = SubSeq(q, 1, n) /\ \A i \in 1 .. n : r[i] = q[i]
  BY <1>0, <1>3, <1>5, FrontOf DEF Front
\* The directories between p and q.
<1>7. ASSUME NEW i \in m .. n PROVE SubSeq(q, 1, i) \in Directories(p)
  <2>0. i \in 0 .. Len(q)
    BY <1>4
  <2>1. CASE i = m
    BY <1>4, <2>1 DEF Directories
  <2>2. CASE i # m
    <3>1. i \in 1 .. Len(q) - 1
      BY <1>4, <2>2
    <3>2. SubSeq(q, 1, i) \in DOMAIN tree /\ tree[SubSeq(q, 1, i)].type = "directory"
      BY <1>0, <3>1, AboveIsDirectory
    <3>3. PICK e \in Path : e = SubSeq(q, 1, i)
      BY <1>0, <2>0, Initial
    <3>4. Len(e) = i /\ \A j \in 1 .. i : e[j] = q[j]
      BY <1>0, <2>0, <3>3, Initial
    <3>5. \A j \in 1 .. m : p[j] = q[j]
      BY <1>0, <1>2, PrefixOf
    <3>6. Len(p) <= Len(e) /\ \A j \in 1 .. Len(p) : p[j] = e[j]
      BY <1>2, <3>4, <3>5
    <3>7. IsPrefix(p, e)
      BY <3>6, PrefixOf
    <3> QED
      BY <3>2, <3>3, <3>7 DEF Directories
  <2> QED
    BY <2>1, <2>2
<1>8. ASSUME NEW i \in m + 1 .. n + 1
      PROVE  /\ SubSeq(q, 1, i - 1) \in Directories(p)
             /\ SubSeq(q, 1, i) \in Children(SubSeq(q, 1, i - 1))
             /\ Last(SubSeq(q, 1, i)) = q[i]
  <2>1. i \in 1 .. Len(q) /\ i \in 0 .. Len(q) /\ i - 1 \in 0 .. Len(q) /\ i - 1 \in m .. n
    BY <1>4
  <2>2. PICK e \in Path : e = SubSeq(q, 1, i)
    BY <1>0, <2>1, Initial
  <2>3. PICK g \in Path : g = SubSeq(q, 1, i - 1)
    BY <1>0, <2>1, Initial
  <2>4. Len(e) = i /\ Len(g) = i - 1 /\ Front(e) = g /\ Last(e) = q[i]
    BY <1>0, <2>1, <2>2, <2>3, Initial, InitialFront
  <2>5. e \in DOMAIN tree
    <3>1. CASE i = n + 1
      BY <1>0, <1>4, <2>2, <3>1, WholeInitial
    <3>2. CASE i # n + 1
      <4>1. i \in 1 .. Len(q) - 1
        BY <1>4, <2>1, <3>2
      <4> QED
        BY <1>0, <2>2, <4>1, AboveIsDirectory
    <3> QED
      BY <3>1, <3>2
  <2>6. Len(e) = Len(g) + 1
    BY <2>4
  <2>7. e \in Children(g)
    BY <2>4, <2>5, <2>6 DEF Children
  <2> QED
    BY <1>7, <2>1, <2>2, <2>3, <2>4, <2>7
<1>9. PICK h \in [0 .. m -> D] :
         /\ h[0].parent = Base /\ h[0].name = RootName
         /\ \A i \in 1 .. m : h[i].parent = h[i - 1].id /\ h[i].name = p[i]
         /\ h[m].id = d
  BY <1>2 DEF At
<1> DEFINE Link(i, x) == /\ x.parent = f[SubSeq(q, 1, i - 1)]
                         /\ x.name = q[i] /\ x.id = f[SubSeq(q, 1, i)]
           g == [i \in 0 .. n |-> IF i <= m THEN h[i] ELSE CHOOSE x \in D : Link(i, x)]
<1>10. ASSUME NEW i \in m + 1 .. n PROVE g[i] \in D /\ Link(i, g[i])
  <2>1. i \in m + 1 .. n + 1 /\ i \in 0 .. n /\ ~ (i <= m) /\ i \in 1 .. Len(q) - 1
    BY <1>4
  <2>2. tree[SubSeq(q, 1, i)].type = "directory"
    BY <1>0, <2>1, AboveIsDirectory
  <2>3. PICK x \in DirsIn(f[SubSeq(q, 1, i - 1)], s) : x.name = q[i] /\ x.id = f[SubSeq(q, 1, i)]
    BY <1>1, <1>8, <2>1, <2>2
  <2>4. x \in D /\ Link(i, x)
    BY <2>3 DEF DirsIn
  <2>5. g[i] = CHOOSE y \in D : Link(i, y)
    BY <2>1
  <2> HIDE DEF g, Link
  <2> QED
    BY <2>4, <2>5
<1>11. \A i \in 0 .. m : g[i] = h[i]
  BY <1>4
<1>12. \A i \in m .. n : g[i].id = f[SubSeq(q, 1, i)]
  <2> SUFFICES ASSUME NEW i \in m .. n PROVE g[i].id = f[SubSeq(q, 1, i)]
    OBVIOUS
  <2>1. CASE i = m
    <3>1. g[m] = h[m]
      BY <1>11
    <3> QED
      BY <1>1, <1>4, <1>9, <2>1, <3>1
  <2>2. CASE i # m
    <3>1. i \in m + 1 .. n
      BY <2>2
    <3> QED
      BY <1>10, <3>1
  <2> QED
    BY <2>1, <2>2
<1>13. g \in [0 .. n -> D]
  <2>1. \A i \in 0 .. n : g[i] \in D
    <3> SUFFICES ASSUME NEW i \in 0 .. n PROVE g[i] \in D
      OBVIOUS
    <3>1. CASE i <= m
      BY <1>9, <1>11, <3>1
    <3>2. CASE ~ (i <= m)
      <4>1. i \in m + 1 .. n
        BY <3>2
      <4> QED
        BY <1>10, <4>1
    <3> QED
      BY <3>1, <3>2
  <2> QED
    BY <2>1
<1>14. ASSUME NEW i \in 1 .. n PROVE g[i].parent = g[i - 1].id /\ g[i].name = r[i]
  <2>1. CASE i <= m
    <3>1. i \in 0 .. m /\ i - 1 \in 0 .. m /\ i \in 1 .. m
      BY <2>1
    <3>2. g[i] = h[i] /\ g[i - 1] = h[i - 1]
      BY <3>1, <1>11
    <3>3. p[i] = q[i]
      BY <1>0, <1>2, <3>1, PrefixOf
    <3> QED
      BY <1>6, <1>9, <3>1, <3>2, <3>3
  <2>2. CASE ~ (i <= m)
    <3>1. i \in m + 1 .. n /\ i - 1 \in m .. n
      BY <2>2
    <3>2. g[i].parent = f[SubSeq(q, 1, i - 1)] /\ g[i].name = q[i]
      BY <3>1, <1>10
    <3>3. g[i - 1].id = f[SubSeq(q, 1, i - 1)]
      BY <3>1, <1>12
    <3> QED
      BY <1>6, <3>2, <3>3
  <2> QED
    BY <2>1, <2>2
<1>15. g[n].id = f[r]
  <2>1. n \in m .. n
    BY <1>4
  <2> QED
    BY <1>6, <1>12, <2>1
<1>16. g[0] = h[0]
  BY <1>11
<1> HIDE DEF g
<1>17. /\ g \in [0 .. Len(r) -> D] /\ g[0].parent = Base /\ g[0].name = RootName
       /\ \A i \in 1 .. Len(r) : g[i].parent = g[i - 1].id /\ g[i].name = r[i]
       /\ g[Len(r)].id = f[r]
  BY <1>6, <1>9, <1>13, <1>14, <1>15, <1>16
<1>18. At(D, f[r], r)
  BY <1>17 DEF At
<1>19. q \in Children(r) /\ r \in Directories(p)
  <2>1. n + 1 \in m + 1 .. n + 1 /\ (n + 1) - 1 = n
    BY <1>4
  <2>2. SubSeq(q, 1, n + 1) = q
    BY <1>0, <1>4, WholeInitial
  <2> QED
    BY <1>6, <1>8, <2>1, <2>2
<1>20. tree[q].type = "file"
  BY <1>0 DEF Files
<1>21. PICK y \in RowsIn(f[r], s) : y.name = Last(q) /\ y.size = tree[q].size
  BY <1>1, <1>19, <1>20
<1> QED
  BY <1>5, <1>18, <1>21 DEF RowsIn

-----------------------------------------------------------------------------
(* The locals of a request *)

LEMMA TailOf ==
  ASSUME NEW s \in Seq(Path), s # << >>
  PROVE  /\ Head(s) \in Path /\ Head(s) = s[1] /\ Tail(s) \in Seq(Path)
         /\ Len(s) \in Nat \ {0} /\ Len(Tail(s)) = Len(s) - 1
         /\ \A i \in 1 .. Len(s) - 1 : Tail(s)[i] = s[i + 1] /\ i + 1 \in 1 .. Len(s)
  OBVIOUS

LEMMA Joined ==
  ASSUME NEW s \in Seq(Path), NEW t \in Seq(Path)
  PROVE  /\ s \o t \in Seq(Path) /\ Len(s) \in Nat /\ Len(t) \in Nat
         /\ Len(s \o t) = Len(s) + Len(t)
         /\ \A i \in 1 .. Len(s) : (s \o t)[i] = s[i]
         /\ \A i \in 1 .. Len(t) : (s \o t)[Len(s) + i] = t[i]
         /\ \A i \in 1 .. Len(s) + Len(t) :
               i \in 1 .. Len(s) \/ \E j \in 1 .. Len(t) : i = Len(s) + j
<1>1. s \o t \in Seq(Path) /\ Len(s) \in Nat /\ Len(t) \in Nat /\ Len(s \o t) = Len(s) + Len(t)
  OBVIOUS
<1>2. \A i \in 1 .. Len(s) : (s \o t)[i] = s[i]
  OBVIOUS
<1>3. \A i \in 1 .. Len(t) : (s \o t)[Len(s) + i] = t[i]
  OBVIOUS
<1>4. ASSUME NEW i \in 1 .. Len(s) + Len(t), i \notin 1 .. Len(s)
      PROVE  \E j \in 1 .. Len(t) : i = Len(s) + j
  <2>1. i - Len(s) \in 1 .. Len(t) /\ i = Len(s) + (i - Len(s))
    BY <1>1, <1>4
  <2> QED
    BY <2>1
<1> QED
  BY <1>1, <1>2, <1>3, <1>4

LEMMA NoLocType ==
  /\ NoLoc \in Loc /\ NoLoc.plan = {} /\ NoLoc.todo = << >> /\ NoLoc.found \in Found
  /\ NoLoc.found.dirs = {} /\ NoLoc.found.rows = {}
<1>1. << >> \in Places
  <2>1. << >> \in [{} -> Ids \cup {Top}]
    OBVIOUS
  <2> QED
    BY <2>1 DEF Places
<1>2. << >> \in Seq(Path)
  OBVIOUS
<1>3. [dirs |-> {}, rows |-> {}] \in Found
  BY DEF Found
<1>4. [synced |-> 0, resumable |-> 0, missing |-> 0, done |-> 0, left |-> 0] \in Summary
  BY DEF Summary
<1> QED
  BY <1>1, <1>2, <1>3, <1>4 DEF NoLoc, Loc

\* How the summary grows: a skipped subtree, a new and a resumed upload.
AddSkip(s, n, b) == [s EXCEPT !.synced = @ + n, !.done = @ + b]
AddUpload(s, b) == [s EXCEPT !.missing = @ + 1, !.left = @ + b]
AddResume(s, h, b) == [s EXCEPT !.resumable = @ + 1, !.done = @ + h, !.left = @ + b]
AddAction(l, a, t) == [l EXCEPT !.plan = l.plan \cup {a}, !.sum = t]

LEMMA SumSkip ==
  ASSUME NEW s \in Summary, NEW n \in Nat, NEW b \in Nat, NEW t,
         t = AddSkip(s, n, b)
  PROVE  /\ t \in Summary /\ t.synced = s.synced + n /\ t.resumable = s.resumable
         /\ t.missing = s.missing /\ t.done = s.done + b /\ t.left = s.left
<1>1. PICK u \in Nat : u = s.synced + n
  BY DEF Summary
<1>2. PICK v \in Nat : v = s.done + b
  BY DEF Summary
<1>3. t = [s EXCEPT !.synced = u, !.done = v]
  BY <1>1, <1>2 DEF Summary, AddSkip
<1>4. t \in Summary /\ t.synced = u /\ t.done = v
  BY <1>3 DEF Summary
<1> QED
  BY <1>1, <1>2, <1>3, <1>4 DEF Summary

LEMMA SumUpload ==
  ASSUME NEW s \in Summary, NEW b \in Nat, NEW t,
         t = AddUpload(s, b)
  PROVE  /\ t \in Summary /\ t.synced = s.synced /\ t.resumable = s.resumable
         /\ t.missing = s.missing + 1 /\ t.done = s.done /\ t.left = s.left + b
<1>1. PICK u \in Nat : u = s.missing + 1
  BY DEF Summary
<1>2. PICK v \in Nat : v = s.left + b
  BY DEF Summary
<1>3. t = [s EXCEPT !.missing = u, !.left = v]
  BY <1>1, <1>2 DEF Summary, AddUpload
<1>4. t \in Summary /\ t.missing = u /\ t.left = v
  BY <1>3 DEF Summary
<1> QED
  BY <1>1, <1>2, <1>3, <1>4 DEF Summary

LEMMA SumResume ==
  ASSUME NEW s \in Summary, NEW h \in Nat, NEW b \in Nat
  PROVE  \E t \in Summary :
            /\ t = AddResume(s, h, b) /\ t.synced = s.synced /\ t.resumable = s.resumable + 1
            /\ t.missing = s.missing /\ t.done = s.done + h /\ t.left = s.left + b
<1>1. PICK u \in Nat : u = s.resumable + 1
  BY DEF Summary
<1>2. PICK v \in Nat : v = s.done + h
  BY DEF Summary
<1>3. PICK w \in Nat : w = s.left + b
  BY DEF Summary
<1>4. PICK t : t = AddResume(s, h, b)
  OBVIOUS
<1>5. t = [s EXCEPT !.resumable = u, !.done = v, !.left = w]
  BY <1>1, <1>2, <1>3, <1>4 DEF Summary, AddResume
<1>6. t \in Summary /\ t.resumable = u /\ t.done = v /\ t.left = w
  BY <1>5 DEF Summary
<1>7. t.synced = s.synced /\ t.missing = s.missing
  BY <1>5 DEF Summary
<1> QED
  BY <1>1, <1>2, <1>3, <1>4, <1>6, <1>7

\* The other locals stay when an action is added to the plan.
LEMMA PlannedLoc ==
  ASSUME NEW l \in Loc, NEW a \in Action, NEW t \in Summary, NEW m,
         m = AddAction(l, a, t)
  PROVE  /\ m \in Loc /\ m.plan = l.plan \cup {a} /\ m.sum = t /\ m.found = l.found
         /\ m.place = l.place /\ m.todo = l.todo /\ m.root = l.root
  BY DEF Loc, AddAction

LEMMA SkipLoc ==
  ASSUME tree \in Trees, NEW l \in Loc, NEW p \in Path, NEW d \in Ids \cup {Top}, NEW m,
         m = Skip(l, p, d)
  PROVE  /\ m \in Loc /\ m.plan = l.plan \cup {Plan(p, "SKIP", d)}
         /\ m.found = l.found /\ m.place = l.place /\ m.todo = l.todo /\ m.root = l.root
         /\ m.sum.synced = l.sum.synced + Cardinality(Within(p))
         /\ m.sum.resumable = l.sum.resumable /\ m.sum.missing = l.sum.missing
         /\ m.sum.done = l.sum.done + SumOver(Within(p)) /\ m.sum.left = l.sum.left
<1>1. Within(p) \in SUBSET Files
  BY DEF Within
<1>2. PICK n \in Nat : n = Cardinality(Within(p))
  BY <1>1, BytesFinite, FS_CardinalityType
<1>3. PICK b \in Nat : b = SumOver(Within(p))
  BY <1>1, BytesFinite
<1>4. PICK a \in Action : a = Plan(p, "SKIP", d)
  BY DEF Plan, Action
<1>5. PICK s \in Summary : s = l.sum
  BY DEF Loc
<1>6. PICK t : t = AddSkip(s, n, b)
  OBVIOUS
<1>7. m = AddAction(l, a, t)
  BY <1>2, <1>3, <1>4, <1>5, <1>6 DEF Skip, Loc, Summary, AddSkip, AddAction
<1>8. /\ t \in Summary /\ t.synced = s.synced + n /\ t.resumable = s.resumable
      /\ t.missing = s.missing /\ t.done = s.done + b /\ t.left = s.left
  BY <1>6, SumSkip
<1>9. /\ m \in Loc /\ m.plan = l.plan \cup {a} /\ m.sum = t /\ m.found = l.found
      /\ m.place = l.place /\ m.todo = l.todo /\ m.root = l.root
  BY <1>7, <1>8, PlannedLoc
<1> QED
  BY <1>2, <1>3, <1>4, <1>5, <1>8, <1>9

LEMMA UploadLoc ==
  ASSUME tree \in Trees, NEW l \in Loc, NEW q \in Files, NEW d \in Ids \cup {Top}, NEW m,
         m = PlanUpload(l, q, d)
  PROVE  /\ m \in Loc /\ m.plan = l.plan \cup {Plan(q, "UPLOAD_NEW", d)}
         /\ m.found = l.found /\ m.place = l.place /\ m.todo = l.todo
         /\ m.sum.synced = l.sum.synced /\ m.sum.resumable = l.sum.resumable
         /\ m.sum.missing = l.sum.missing + 1 /\ m.sum.done = l.sum.done
         /\ m.sum.left = l.sum.left + tree[q].size
<1>1. PICK b \in Nat : b = tree[q].size
  BY FilePaths
<1>2. PICK a \in Action : a = Plan(q, "UPLOAD_NEW", d)
  BY FilePaths DEF Plan, Action
<1>3. PICK s \in Summary : s = l.sum
  BY DEF Loc
<1>4. PICK t : t = AddUpload(s, b)
  OBVIOUS
<1>5. m = AddAction(l, a, t)
  BY <1>1, <1>2, <1>3, <1>4 DEF PlanUpload, Loc, Summary, AddUpload, AddAction
<1>6. /\ t \in Summary /\ t.synced = s.synced /\ t.resumable = s.resumable
      /\ t.missing = s.missing + 1 /\ t.done = s.done /\ t.left = s.left + b
  BY <1>4, SumUpload
<1>7. /\ m \in Loc /\ m.plan = l.plan \cup {a} /\ m.sum = t /\ m.found = l.found
      /\ m.place = l.place /\ m.todo = l.todo
  BY <1>5, <1>6, PlannedLoc
<1> QED
  BY <1>1, <1>2, <1>3, <1>6, <1>7

LEMMA ResumeLoc ==
  ASSUME tree \in Trees, NEW l \in Loc, NEW q \in Files, NEW d \in Ids \cup {Top},
         NEW h \in Nat, NEW n \in Nat, n <= tree[q].size
  PROVE  \E m \in Loc :
            /\ m = PlanResume(l, q, d, h, n) /\ m.plan = l.plan \cup {Plan(q, "RESUME", d)}
            /\ m.found = l.found /\ m.place = l.place /\ m.todo = l.todo
            /\ m.sum.synced = l.sum.synced /\ m.sum.resumable = l.sum.resumable + 1
            /\ m.sum.missing = l.sum.missing /\ m.sum.done = l.sum.done + h
            /\ m.sum.left = l.sum.left + (tree[q].size - n)
<1>0. PICK m : m = PlanResume(l, q, d, h, n)
  OBVIOUS
<1>1. PICK b \in Nat : b = tree[q].size - n
  BY FilePaths
<1>2. PICK a \in Action : a = Plan(q, "RESUME", d)
  BY FilePaths DEF Plan, Action
<1>3. PICK s \in Summary : s = l.sum
  BY DEF Loc
<1>4. PICK t \in Summary :
         /\ t = AddResume(s, h, b) /\ t.synced = s.synced /\ t.resumable = s.resumable + 1
         /\ t.missing = s.missing /\ t.done = s.done + h /\ t.left = s.left + b
  BY SumResume
<1>5. m = AddAction(l, a, t)
  BY <1>0, <1>1, <1>2, <1>3, <1>4 DEF PlanResume, Loc, Summary, AddResume, AddAction
<1>6. /\ m \in Loc /\ m.plan = l.plan \cup {a} /\ m.sum = t /\ m.found = l.found
      /\ m.place = l.place /\ m.todo = l.todo
  BY <1>5, PlannedLoc
<1> QED
  BY <1>0, <1>1, <1>2, <1>3, <1>4, <1>6

\* What m has and l has not once the folder d of directory q was entered.
Entered(m, l, q, d) ==
    /\ m = Enter(l, q, d) /\ m.plan = l.plan /\ m.found = l.found /\ m.sum = l.sum
    /\ m.todo = Sorted(q) \o Tail(l.todo) /\ DOMAIN m.place = DOMAIN l.place \cup {q}
    /\ m.place[q] = d /\ \A p \in DOMAIN l.place \ {q} : m.place[p] = l.place[p]

LEMMA EnterLoc ==
  ASSUME tree \in Trees, NEW l \in Loc, l.todo # << >>, NEW q \in Path, NEW d \in Ids \cup {Top}
  PROVE  \E m \in Loc : Entered(m, l, q, d)
<1> DEFINE place == [p \in DOMAIN l.place \cup {q} |-> IF p = q THEN d ELSE l.place[p]]
<1>1. PICK D \in SUBSET Path : l.place \in [D -> Ids \cup {Top}]
  BY DEF Loc, Places
<1>2. D \cup {q} \in SUBSET Path /\ place \in [D \cup {q} -> Ids \cup {Top}]
  BY <1>1
<1>3. place \in Places
  BY <1>2 DEF Places
<1>4. Sorted(q) \o Tail(l.todo) \in Seq(Path)
  <2>1. l.todo \in Seq(Path)
    BY DEF Loc
  <2> QED
    BY <2>1, TailOf, SortedChildren, Joined
<1>5. Enter(l, q, d) = [l EXCEPT !.place = place, !.todo = Sorted(q) \o Tail(l.todo)]
  BY DEF Enter, Loc
<1>6. DOMAIN place = DOMAIN l.place \cup {q} /\ place[q] = d
      /\ \A p \in DOMAIN l.place \ {q} : place[p] = l.place[p]
  OBVIOUS
<1> HIDE DEF place
<1>7. PICK t \in Seq(Path) : t = Sorted(q) \o Tail(l.todo)
  BY <1>4
<1>8. PICK m : m = [l EXCEPT !.place = place, !.todo = t]
  OBVIOUS
<1>9. /\ m \in Loc /\ m.plan = l.plan /\ m.found = l.found /\ m.sum = l.sum
      /\ m.todo = t /\ m.place = place
  BY <1>3, <1>8 DEF Loc
<1>10. m = Enter(l, q, d)
  BY <1>5, <1>7, <1>8
<1> QED
  BY <1>6, <1>7, <1>9, <1>10 DEF Entered

-----------------------------------------------------------------------------
(* The walk: the next node is settled, or replaced by its children *)

LEMMA SettleCover ==
  ASSUME tree \in Trees, NEW l \in Loc, l.todo # << >>, CoverOK(l),
         NEW a, a.path = Head(l.todo),
         NEW m \in Loc, m.plan = l.plan \cup {a}, m.todo = Tail(l.todo)
  PROVE  /\ CoverOK(m)
         /\ Settled(m) = Settled(l) \cup Within(a.path)
         /\ Settled(l) \cap Within(a.path) = {}
<1>1. PICK n \in Nat \ {0} : n = Len(l.todo)
  BY TailOf DEF Loc
<1>2. /\ a.path = l.todo[1] /\ 1 \in 1 .. n /\ Len(m.todo) = n - 1
      /\ \A i \in 1 .. n - 1 : m.todo[i] = l.todo[i + 1] /\ i + 1 \in 1 .. n
  BY <1>1, TailOf DEF Loc
<1>3. ASSUME NEW p \in Files
      PROVE  /\ \/ \E b \in m.plan : IsPrefix(b.path, p)
                \/ \E i \in 1 .. n - 1 : IsPrefix(m.todo[i], p)
             /\ \A b, e \in m.plan : IsPrefix(b.path, p) /\ IsPrefix(e.path, p) => b = e
             /\ \A b \in m.plan, i \in 1 .. n - 1 :
                   ~ (IsPrefix(b.path, p) /\ IsPrefix(m.todo[i], p))
             /\ \A i, j \in 1 .. n - 1 :
                   IsPrefix(m.todo[i], p) /\ IsPrefix(m.todo[j], p) => i = j
             /\ \A b \in l.plan : ~ (IsPrefix(b.path, p) /\ IsPrefix(a.path, p))
  <2>1. /\ \/ \E b \in l.plan : IsPrefix(b.path, p)
           \/ \E i \in 1 .. n : IsPrefix(l.todo[i], p)
        /\ \A b, e \in l.plan : IsPrefix(b.path, p) /\ IsPrefix(e.path, p) => b = e
        /\ \A b \in l.plan, i \in 1 .. n : ~ (IsPrefix(b.path, p) /\ IsPrefix(l.todo[i], p))
        /\ \A i, j \in 1 .. n : IsPrefix(l.todo[i], p) /\ IsPrefix(l.todo[j], p) => i = j
    BY <1>1 DEF CoverOK
  <2>2. ASSUME NEW i \in 1 .. n, IsPrefix(l.todo[i], p)
        PROVE  \/ \E b \in m.plan : IsPrefix(b.path, p)
               \/ \E j \in 1 .. n - 1 : IsPrefix(m.todo[j], p)
    <3>1. CASE i = 1
      BY <1>2, <2>2, <3>1
    <3>2. CASE i # 1
      <4>1. i - 1 \in 1 .. n - 1 /\ (i - 1) + 1 = i
        BY <3>2
      <4>2. m.todo[i - 1] = l.todo[i]
        BY <1>2, <4>1
      <4> QED
        BY <2>2, <4>1, <4>2
    <3> QED
      BY <3>1, <3>2
  <2>3. \/ \E b \in m.plan : IsPrefix(b.path, p)
        \/ \E i \in 1 .. n - 1 : IsPrefix(m.todo[i], p)
    BY <2>1, <2>2
  <2>4. \A b \in l.plan : ~ (IsPrefix(b.path, p) /\ IsPrefix(a.path, p))
    BY <1>2, <2>1
  <2>5. \A b, e \in m.plan : IsPrefix(b.path, p) /\ IsPrefix(e.path, p) => b = e
    BY <2>1, <2>4
  <2>6. ASSUME NEW i \in 1 .. n - 1, IsPrefix(m.todo[i], p) PROVE ~ IsPrefix(a.path, p)
    <3>1. IsPrefix(l.todo[i + 1], p) /\ i + 1 \in 1 .. n /\ i + 1 # 1
      BY <1>2, <2>6
    <3> QED
      BY <1>2, <2>1, <3>1
  <2>7. \A b \in m.plan, i \in 1 .. n - 1 : ~ (IsPrefix(b.path, p) /\ IsPrefix(m.todo[i], p))
    BY <1>2, <2>1, <2>6
  <2>8. ASSUME NEW i \in 1 .. n - 1, NEW j \in 1 .. n - 1,
               IsPrefix(m.todo[i], p), IsPrefix(m.todo[j], p)
        PROVE  i = j
    <3>1. i + 1 = j + 1
      BY <1>2, <2>1, <2>8
    <3> QED
      BY <3>1
  <2> QED
    BY <2>3, <2>4, <2>5, <2>7, <2>8
<1>4. CoverOK(m)
  BY <1>2, <1>3 DEF CoverOK
<1>5. Settled(l) \cap Within(a.path) = {}
  BY <1>3 DEF Settled, Within
<1>6. Settled(m) = Settled(l) \cup Within(a.path)
  BY DEF Settled, Within
<1> QED
  BY <1>4, <1>5, <1>6

LEMMA ExpandCover ==
  ASSUME tree \in Trees, NEW l \in Loc, l.todo # << >>, CoverOK(l),
         NEW q \in Path, q = Head(l.todo), q \notin Files,
         NEW m \in Loc, m.plan = l.plan, m.todo = Sorted(q) \o Tail(l.todo)
  PROVE  CoverOK(m) /\ Settled(m) = Settled(l)
<1>1. PICK n \in Nat \ {0} : n = Len(l.todo)
  BY TailOf DEF Loc
<1>2. PICK t \in Seq(Path) : t = Tail(l.todo)
  BY TailOf DEF Loc
<1>3. /\ q = l.todo[1] /\ 1 \in 1 .. n /\ Len(t) = n - 1
      /\ \A i \in 1 .. n - 1 : t[i] = l.todo[i + 1] /\ i + 1 \in 1 .. n
  BY <1>1, <1>2, TailOf DEF Loc
<1>4. PICK s \in Seq(Path) : s = Sorted(q)
  BY SortedChildren
<1>5. PICK k \in Nat : k = Len(s)
  OBVIOUS
<1>6. /\ \A i \in 1 .. k : s[i] \in Children(q)
      /\ \A c \in Children(q) : \E i \in 1 .. k : s[i] = c
      /\ \A i, j \in 1 .. k : s[i] = s[j] => i = j
  <2>1. /\ \A i \in 1 .. Len(s) : s[i] \in Children(q)
        /\ \A c \in Children(q) : \E i \in 1 .. Len(s) : s[i] = c
        /\ \A i, j \in 1 .. Len(s) : s[i] = s[j] => i = j
    <3>1. /\ \A i \in 1 .. Len(Sorted(q)) : Sorted(q)[i] \in Children(q)
          /\ \A c \in Children(q) : \E i \in 1 .. Len(Sorted(q)) : Sorted(q)[i] = c
          /\ \A i, j \in 1 .. Len(Sorted(q)) : Sorted(q)[i] = Sorted(q)[j] => i = j
      BY SortedChildren
    <3> QED
      BY ONLY <1>4, <3>1, ZenonT(40)
  <2> QED
    BY <1>5, <2>1
<1>7. /\ m.todo = s \o t /\ Len(m.todo) = k + (n - 1)
      /\ \A i \in 1 .. k : m.todo[i] = s[i]
      /\ \A i \in 1 .. n - 1 : m.todo[k + i] = t[i]
      /\ \A i \in 1 .. k + (n - 1) : i \in 1 .. k \/ \E j \in 1 .. n - 1 : i = k + j
  <2>1. PICK u \in Seq(Path) : u = s \o t
    BY Joined
  <2>2. /\ Len(u) = Len(s) + Len(t)
        /\ \A i \in 1 .. Len(s) : u[i] = s[i]
        /\ \A i \in 1 .. Len(t) : u[Len(s) + i] = t[i]
        /\ \A i \in 1 .. Len(s) + Len(t) :
              i \in 1 .. Len(s) \/ \E j \in 1 .. Len(t) : i = Len(s) + j
    BY <2>1, Joined, SMTT(30)
  <2>3. m.todo = u
    BY <1>2, <1>4, <2>1
  <2>4. Len(t) = n - 1
    BY <1>3
  <2> QED
    BY <1>5, <2>1, <2>2, <2>3, <2>4
<1>8. ASSUME NEW p \in Files
      PROVE  /\ \/ \E b \in m.plan : IsPrefix(b.path, p)
                \/ \E i \in 1 .. k + (n - 1) : IsPrefix(m.todo[i], p)
             /\ \A b, e \in m.plan : IsPrefix(b.path, p) /\ IsPrefix(e.path, p) => b = e
             /\ \A b \in m.plan, i \in 1 .. k + (n - 1) :
                   ~ (IsPrefix(b.path, p) /\ IsPrefix(m.todo[i], p))
             /\ \A i, j \in 1 .. k + (n - 1) :
                   IsPrefix(m.todo[i], p) /\ IsPrefix(m.todo[j], p) => i = j
  <2>1. /\ \/ \E b \in l.plan : IsPrefix(b.path, p)
           \/ \E i \in 1 .. n : IsPrefix(l.todo[i], p)
        /\ \A b, e \in l.plan : IsPrefix(b.path, p) /\ IsPrefix(e.path, p) => b = e
        /\ \A b \in l.plan, i \in 1 .. n : ~ (IsPrefix(b.path, p) /\ IsPrefix(l.todo[i], p))
        /\ \A i, j \in 1 .. n : IsPrefix(l.todo[i], p) /\ IsPrefix(l.todo[j], p) => i = j
    BY <1>1 DEF CoverOK
  <2>2. IsPrefix(q, p) <=> \E c \in Children(q) : IsPrefix(c, p)
    BY WithinChildren
  <2>3. ASSUME NEW i \in 1 .. n, IsPrefix(l.todo[i], p)
        PROVE  \E j \in 1 .. k + (n - 1) : IsPrefix(m.todo[j], p)
    <3>1. CASE i = 1
      <4>1. PICK c \in Children(q) : IsPrefix(c, p)
        BY <1>3, <2>2, <2>3, <3>1
      <4>2. PICK j \in 1 .. k : s[j] = c
        BY <1>6
      <4>3. j \in 1 .. k + (n - 1)
        OBVIOUS
      <4>4. m.todo[j] = c
        BY <1>7, <4>2
      <4> QED
        BY <4>1, <4>3, <4>4
    <3>2. CASE i # 1
      <4>1. i - 1 \in 1 .. n - 1 /\ (i - 1) + 1 = i
        BY <3>2
      <4>2. t[i - 1] = l.todo[i]
        BY <1>3, <4>1
      <4>3. k + (i - 1) \in 1 .. k + (n - 1)
        BY <4>1
      <4>4. m.todo[k + (i - 1)] = l.todo[i]
        BY <1>7, <4>1, <4>2
      <4> QED
        BY <2>3, <4>3, <4>4
    <3> QED
      BY <3>1, <3>2
  \* What one of the new entries covers, an old one covered.
  <2>4. ASSUME NEW i \in 1 .. k, IsPrefix(m.todo[i], p) PROVE IsPrefix(l.todo[1], p)
    <3>1. s[i] \in Children(q) /\ IsPrefix(s[i], p)
      BY <1>6, <1>7, <2>4
    <3> QED
      BY <1>3, <2>2, <3>1
  <2>5. ASSUME NEW i \in 1 .. n - 1, IsPrefix(m.todo[k + i], p)
        PROVE  IsPrefix(l.todo[i + 1], p) /\ i + 1 \in 1 .. n /\ i + 1 # 1
    <3>1. m.todo[k + i] = t[i] /\ t[i] = l.todo[i + 1]
      BY <1>3, <1>7
    <3>2. i + 1 \in 1 .. n /\ i + 1 # 1
      OBVIOUS
    <3> QED
      BY <2>5, <3>1, <3>2
  <2>6. ASSUME NEW b \in m.plan, NEW i \in 1 .. k + (n - 1),
               IsPrefix(b.path, p), IsPrefix(m.todo[i], p)
        PROVE  FALSE
    <3>1. CASE i \in 1 .. k
      BY <1>3, <2>1, <2>4, <2>6, <3>1
    <3>2. ASSUME NEW j \in 1 .. n - 1, i = k + j PROVE FALSE
      BY <2>1, <2>5, <2>6, <3>2
    <3> QED
      BY <1>7, <3>1, <3>2
  <2>7. ASSUME NEW i \in 1 .. k + (n - 1), NEW j \in 1 .. k + (n - 1),
               IsPrefix(m.todo[i], p), IsPrefix(m.todo[j], p)
        PROVE  i = j
    <3>1. CASE i \in 1 .. k /\ j \in 1 .. k
      <4>1. s[i] \in Children(q) /\ s[j] \in Children(q) /\ IsPrefix(s[i], p) /\ IsPrefix(s[j], p)
        BY <1>6, <1>7, <2>7, <3>1
      <4>2. s[i] = s[j]
        BY <4>1, SiblingsApart
      <4> QED
        BY <1>6, <3>1, <4>2
    <3>2. ASSUME i \in 1 .. k, NEW h \in 1 .. n - 1, j = k + h PROVE FALSE
      BY <1>3, <2>1, <2>4, <2>5, <2>7, <3>2
    <3>3. ASSUME j \in 1 .. k, NEW h \in 1 .. n - 1, i = k + h PROVE FALSE
      BY <1>3, <2>1, <2>4, <2>5, <2>7, <3>3
    <3>4. ASSUME NEW g \in 1 .. n - 1, i = k + g, NEW h \in 1 .. n - 1, j = k + h PROVE i = j
      <4>1. g + 1 = h + 1
        BY <2>1, <2>5, <2>7, <3>4
      <4> QED
        BY <3>4, <4>1
    <3> QED
      BY <1>7, <3>1, <3>2, <3>3, <3>4
  <2> QED
    BY <2>1, <2>3, <2>6, <2>7
<1>9. CoverOK(m)
  BY <1>7, <1>8 DEF CoverOK
<1> QED
  BY <1>9 DEF Settled

-----------------------------------------------------------------------------
(* Steps of one client leave the others alone: the tables only grow *)

Grows == tree' = tree /\ dirs \subseteq dirs' /\ rows \subseteq rows' /\ (failed => failed')

LEMMA SameTree ==
  ASSUME tree' = tree
  PROVE  /\ Files' = Files
         /\ \A p : Within(p)' = Within(p)
         /\ \A l : TodoOK(l)' = TodoOK(l)
         /\ \A l : Settled(l)' = Settled(l)
         /\ \A l : CoverOK(l)' = CoverOK(l)
         /\ \A l : CountOK(l)' = CountOK(l)
<1>1. Files' = Files
  BY DEF Files
<1>2. \A p : Within(p)' = Within(p)
  BY <1>1 DEF Within
<1>3. \A l : TodoOK(l)' = TodoOK(l)
  BY DEF TodoOK
<1>4. \A l : Settled(l)' = Settled(l)
  BY <1>1 DEF Settled
<1>5. \A l : CoverOK(l)' = CoverOK(l)
  BY <1>1 DEF CoverOK
<1>6. \A l : CountOK(l)' = CountOK(l)
  <2>1. ASSUME NEW l PROVE SumOver(Settled(l))' = SumOver(Settled(l))
    BY <1>4 DEF SumOver, Bytes
  <2> QED
    BY <1>4, <2>1 DEF CountOK
<1> QED
  BY <1>1, <1>2, <1>3, <1>4, <1>5, <1>6

LEMMA AtIsAt ==
  ASSUME NEW d, NEW p
  PROVE  (IsAt(d, p) <=> At(dirs, d, p)) /\ (IsAt(d, p)' <=> At(dirs', d, p))
  BY DEF IsAt, At

LEMMA PlacesStay ==
  ASSUME Grows
  PROVE  /\ \A d, p : IsAt(d, p) => IsAt(d, p)'
         /\ \A p : OnServer(p) => OnServer(p)'
<1>1. ASSUME NEW d, NEW p, IsAt(d, p) PROVE IsAt(d, p)'
  BY <1>1, AtIsAt, AtGrows DEF Grows
<1>2. ASSUME NEW p, OnServer(p) PROVE OnServer(p)'
  <2>1. PICK r \in rows : r.name = Last(p) /\ r.size = tree[p].size /\ IsAt(r.dir, Front(p))
    BY <1>2 DEF OnServer
  <2>2. r \in rows' /\ tree' = tree
    BY DEF Grows
  <2>3. IsAt(r.dir, Front(p))'
    BY <1>1, <2>1
  <2> QED
    BY <2>1, <2>2, <2>3 DEF OnServer
<1> QED
  BY <1>1, <1>2

LEMMA FitsStays ==
  ASSUME Grows, NEW p, NEW l, Fits(p, l)
  PROVE  Fits(p, l)'
<1>1. p \in PCs /\ l \in Loc /\ FoundOK(l) /\ PlanOK(l)
  BY DEF Fits
<1>2. tree' = tree /\ Files' = Files /\ \A q : Within(q)' = Within(q)
  BY SameTree DEF Grows
<1>3. FoundOK(l)'
  BY <1>1 DEF FoundOK, Grows
<1>4. PlanOK(l)'
  BY <1>1, <1>2, PlacesStay DEF PlanOK, Grows
<1>5. p = "walk" => WalkOK(l)'
  <2> SUFFICES ASSUME p = "walk" PROVE WalkOK(l)'
    OBVIOUS
  <2>1. TodoOK(l) /\ PlaceOK(l) /\ CoverOK(l) /\ CountOK(l)
    BY DEF Fits, WalkOK
  <2>2. TodoOK(l)' /\ CoverOK(l)' /\ CountOK(l)'
    BY <1>2, <2>1, SameTree
  <2>3. PlaceOK(l)'
    BY <2>1, PlacesStay DEF PlaceOK, Grows, Barren
  <2> QED
    BY <2>2, <2>3 DEF WalkOK
<1>6. p = "planned" => ShownOK(l)' /\ l.todo = << >>
  BY PlacesStay DEF Fits, ShownOK, Grows
<1>7. p \in {"folders", "files"} => IsAt(l.root, <<>>)' /\ l.todo = << >>
  BY PlacesStay DEF Fits
<1>8. p = "synced" => \A q \in Files' : OnServer(q)'
  BY <1>2, PlacesStay DEF Fits, Grows
<1>9. p \in {"idle", "mkroot", "synced"} => l = NoLoc
  BY DEF Fits
<1> QED
  BY <1>1, <1>3, <1>4, <1>5, <1>6, <1>7, <1>8, <1>9 DEF Fits

LEMMA ClientMoves ==
  ASSUME Inv, NEW c \in Clients, Grows, Tables', NEW p, NEW l, Goto(c, p, l), Fits(p, l)'
  PROVE  Inv'
<1>1. p \in PCs /\ l \in Loc
  BY DEF Fits
<1>2. /\ pc' = [pc EXCEPT ![c] = p] /\ loc' = [loc EXCEPT ![c] = l]
      /\ pc \in [Clients -> PCs] /\ loc \in [Clients -> Loc]
  BY DEF Goto, Inv
<1>3. pc' \in [Clients -> PCs] /\ loc' \in [Clients -> Loc]
  BY <1>1, <1>2
<1>4. ASSUME NEW e \in Clients PROVE Fits(pc[e], loc[e])'
  <2>1. CASE e = c
    <3>1. pc'[e] = p /\ loc'[e] = l
      BY <1>2, <2>1
    <3> QED
      BY <3>1
  <2>2. CASE e # c
    <3>1. PICK q, k : q = pc[e] /\ k = loc[e]
      OBVIOUS
    <3>2. pc'[e] = q /\ loc'[e] = k
      BY <1>2, <2>2, <3>1
    <3>3. Fits(q, k)
      BY <3>1 DEF Inv
    <3>4. Fits(q, k)'
      BY <3>3, FitsStays
    <3> QED
      BY <3>2, <3>4
  <2> QED
    BY <2>1, <2>2
<1> QED
  BY <1>3, <1>4 DEF Inv

-----------------------------------------------------------------------------
(* The request up to the walk *)

LEMMA TablesKept ==
  ASSUME Tables, UNCHANGED <<tree, dirs, rows, sessions>>, failed' \in BOOLEAN, failed => failed'
  PROVE  Tables' /\ Grows
  BY DEF Tables, Grows

LEMMA NothingFits ==
  FoundOK(NoLoc) /\ PlanOK(NoLoc) /\ Fits("idle", NoLoc) /\ Fits("mkroot", NoLoc)
  BY NoLocType DEF FoundOK, PlanOK, Fits, PCs

\* A client that goes back to "idle", or on to "mkroot", forgets everything.
LEMMA BackToNothing ==
  ASSUME Inv, NEW c \in Clients, Grows, Tables', NEW p \in {"idle", "mkroot"}, Goto(c, p, NoLoc)
  PROVE  Inv'
<1>1. Fits(p, NoLoc)
  BY NothingFits
<1>2. Fits(p, NoLoc)'
  BY <1>1, FitsStays
<1> QED
  BY <1>2, ClientMoves

\* A folder that is somewhere has a generated id.
LEMMA AtIsId ==
  ASSUME Tables, NEW d, NEW p \in Path, IsAt(d, p)
  PROVE  d \in Ids /\ d \in {x.id : x \in dirs}
<1>1. PICK x \in dirs : x.id = d
  BY AtIsAt, AtExists
<1> QED
  BY <1>1 DEF Tables, Folder

LEMMA FindRootInv ==
  ASSUME Inv, NEW c \in Clients, FindRoot(c)
  PROVE  Inv'
<1>0. Tables /\ failed \in BOOLEAN
  BY DEF Inv, Tables
<1>1. Tables' /\ Grows
  BY <1>0, TablesKept DEF FindRoot, Fault
<1>2. ASSUME NEW x \in dirs, x.parent = Base, x.name = RootName,
             Goto(c, "folders", [NoLoc EXCEPT !.root = x.id])
      PROVE  Inv'
  <2>1. PICK i \in Ids : i = x.id
    BY <1>0 DEF Tables, Folder
  <2>2. PICK l : l = [NoLoc EXCEPT !.root = i]
    OBVIOUS
  <2>3. l \in Loc /\ l.found = NoLoc.found /\ l.plan = {} /\ l.todo = << >> /\ l.root = i
    BY <2>2, NoLocType DEF Loc
  <2>4. IsAt(i, <<>>)
    BY <1>2, <2>1, AtIsAt, AtRoot
  <2>5. IsAt(l.root, <<>>)'
    BY <1>1, <2>3, <2>4, PlacesStay
  <2>6. FoundOK(l)' /\ PlanOK(l)'
    BY <2>3, NoLocType DEF FoundOK, PlanOK
  <2>7. Fits("folders", l)'
    BY <2>3, <2>5, <2>6 DEF Fits, PCs
  <2>8. Goto(c, "folders", l)
    BY <1>2, <2>1, <2>2
  <2> QED
    BY <1>1, <2>7, <2>8, ClientMoves
<1>3. CASE Goto(c, "mkroot", NoLoc)
  BY <1>1, <1>3, BackToNothing
<1> QED
  BY <1>2, <1>3 DEF FindRoot

\* The locals at the beginning of the walk.
WalkLoc(root, d, s) ==
    [NoLoc EXCEPT !.root = root, !.found = s, !.todo = Sorted(<<>>), !.place = [p \in {<<>>} |-> d]]

LEMMA WalkLocOK ==
  ASSUME tree \in Trees, NEW root \in Ids \cup {Top}, NEW d \in Ids \cup {Top}, NEW s \in Found
  PROVE  \E l \in Loc :
            /\ l = WalkLoc(root, d, s) /\ l.found = s /\ l.plan = {} /\ DOMAIN l.place = {<<>>}
            /\ l.place[<<>>] = d /\ TodoOK(l) /\ CoverOK(l) /\ CountOK(l)
<1>0. PICK l : l = WalkLoc(root, d, s)
  OBVIOUS
<1>1. <<>> \in Path /\ <<>> \notin Files
  BY TreePaths DEF Path, Files
<1>2. PICK place \in Places : place = [p \in {<<>>} |-> d]
  <2>1. {<<>>} \in SUBSET Path /\ [p \in {<<>>} |-> d] \in [{<<>>} -> Ids \cup {Top}]
    BY <1>1
  <2> QED
    BY <2>1 DEF Places
<1>3. DOMAIN place = {<<>>} /\ place[<<>>] = d
  BY <1>2
<1>4. PICK t \in Seq(Path) : t = Sorted(<<>>)
  BY <1>1, SortedChildren
<1>5. l = [NoLoc EXCEPT !.root = root, !.found = s, !.todo = t, !.place = place]
  BY <1>0, <1>2, <1>4 DEF WalkLoc
<1>6. /\ l \in Loc /\ l.found = s /\ l.plan = {} /\ l.todo = t /\ l.place = place
      /\ l.sum = NoLoc.sum
  BY <1>5, NoLocType DEF Loc
<1>7. /\ \A i \in 1 .. Len(t) : t[i] \in Children(<<>>)
      /\ \A e \in Children(<<>>) : \E i \in 1 .. Len(t) : t[i] = e
      /\ \A i, j \in 1 .. Len(t) : t[i] = t[j] => i = j
  BY <1>1, <1>4, SortedChildren
<1>8. TodoOK(l)
  BY <1>1, <1>3, <1>6, <1>7, ChildPaths DEF TodoOK
<1>9. CoverOK(l)
  <2> SUFFICES ASSUME NEW p \in Files
               PROVE  /\ \E i \in 1 .. Len(t) : IsPrefix(t[i], p)
                      /\ \A i, j \in 1 .. Len(t) : IsPrefix(t[i], p) /\ IsPrefix(t[j], p) => i = j
    BY <1>6 DEF CoverOK
  <2>1. IsPrefix(<<>>, p)
    BY FilePaths, PrefixRefl
  <2>2. PICK e \in Children(<<>>) : IsPrefix(e, p)
    BY <1>1, <2>1, WithinChildren
  <2>3. \E i \in 1 .. Len(t) : IsPrefix(t[i], p)
    BY <1>7, <2>2
  <2>4. ASSUME NEW i \in 1 .. Len(t), NEW j \in 1 .. Len(t), IsPrefix(t[i], p), IsPrefix(t[j], p)
        PROVE  i = j
    <3>1. t[i] = t[j]
      BY <1>1, <1>7, <2>4, SiblingsApart
    <3> QED
      BY <1>7, <3>1
  <2> QED
    BY <2>3, <2>4
<1>10. CountOK(l)
  <2>1. Settled(l) = {}
    BY <1>6 DEF Settled
  <2>2. Bytes({}) = {}
    BY DEF Bytes
  <2>3. Cardinality(Settled(l)) = 0 /\ SumOver(Settled(l)) = 0
    BY <2>1, <2>2, FS_EmptySet DEF SumOver
  <2>4. /\ l.sum.synced = 0 /\ l.sum.resumable = 0 /\ l.sum.missing = 0
        /\ l.sum.done = 0 /\ l.sum.left = 0
    BY <1>6 DEF NoLoc
  <2> QED
    BY <2>3, <2>4 DEF CountOK
<1> QED
  BY <1>0, <1>3, <1>6, <1>8, <1>9, <1>10

LEMMA WalkBegins ==
  ASSUME Inv, NEW c \in Clients, Grows, Tables', NEW root \in Ids \cup {Top},
         NEW d \in Ids \cup {Top}, NEW s \in Found, Walk(c, root, d, s),
         s.dirs \subseteq dirs', s.rows \subseteq rows',
         IsAt(d, <<>>)' \/ Barren(d, s), ~ failed' => IsAt(d, <<>>)'
  PROVE  Inv'
<1>2. tree \in Trees /\ tree' = tree
  BY DEF Inv, Tables, Grows
<1>3. PICK l \in Loc :
         /\ l = WalkLoc(root, d, s) /\ l.found = s /\ l.plan = {} /\ DOMAIN l.place = {<<>>}
         /\ l.place[<<>>] = d /\ TodoOK(l) /\ CoverOK(l) /\ CountOK(l)
  BY <1>2, WalkLocOK, SMTT(30)
<1>4. TodoOK(l)' /\ CoverOK(l)' /\ CountOK(l)'
  BY <1>2, <1>3, SameTree
<1>5. PlaceOK(l)'
  BY <1>3 DEF PlaceOK, Barren
<1>6. FoundOK(l)' /\ PlanOK(l)'
  BY <1>3 DEF FoundOK, PlanOK
<1>7. Fits("walk", l)'
  BY <1>3, <1>4, <1>5, <1>6 DEF Fits, WalkOK, PCs
<1>8. Goto(c, "walk", l)
  BY <1>3 DEF Walk, WalkLoc
<1> QED
  BY <1>7, <1>8, ClientMoves

LEMMA MakeRootInv ==
  ASSUME Inv, NEW c \in Clients, MakeRoot(c)
  PROVE  Inv'
<1>0. Tables /\ failed \in BOOLEAN
  BY DEF Inv, Tables
<1>1. CASE Fault /\ Goto(c, "idle", NoLoc) /\ UNCHANGED dirs
  <2>1. Tables' /\ Grows
    BY <1>0, <1>1, TablesKept DEF MakeRoot, Fault
  <2> QED
    BY <1>1, <2>1, BackToNothing
<1>2. ASSUME NEW i \in FreeIds,
             dirs' = dirs \cup {[id |-> i, parent |-> Base, name |-> RootName]},
             Walk(c, i, i, NoLoc.found), UNCHANGED failed
      PROVE  Inv'
  <2>1. i \in Ids
    BY DEF FreeIds
  <2>2. PICK x : x = [id |-> i, parent |-> Base, name |-> RootName]
    OBVIOUS
  <2>3. x \in Folder /\ x.id = i /\ x.parent = Base /\ x.name = RootName /\ x \in dirs'
    BY <1>2, <2>1, <2>2 DEF Folder
  <2>4. dirs' = dirs \cup {x} /\ UNCHANGED <<tree, rows, sessions, failed>>
    BY <1>2, <2>2 DEF MakeRoot
  <2>5. Tables' /\ Grows
    BY <1>0, <2>3, <2>4 DEF Tables, Grows
  <2>6. IsAt(i, <<>>)'
    BY <2>3, AtIsAt, AtRoot
  <2>7. PICK s \in Found : s = NoLoc.found
    BY NoLocType
  <2>8. s.dirs \subseteq dirs' /\ s.rows \subseteq rows'
    BY <2>7, NoLocType
  <2>9. Walk(c, i, i, s)
    BY <1>2, <2>7
  <2> QED
    BY <2>1, <2>5, <2>6, <2>8, <2>9, WalkBegins
<1> QED
  BY <1>1, <1>2 DEF MakeRoot

LEMMA NoRemoteInv ==
  ASSUME Inv, NEW c \in Clients, NoRemote(c), UNCHANGED <<tree, dirs, rows, sessions>>
  PROVE  Inv'
<1>0. Tables /\ failed \in BOOLEAN
  BY DEF Inv, Tables
<1>1. Tables' /\ Grows /\ failed'
  BY <1>0, TablesKept DEF NoRemote, Fault
<1>2. PICK root \in Ids \cup {Top} : root = loc[c].root
  BY DEF Inv, Loc
<1>3. PICK s \in Found : s = NoLoc.found
  BY NoLocType
<1>4. Walk(c, root, Top, s)
  BY <1>2, <1>3 DEF NoRemote
<1>5. s.dirs = {} /\ s.rows = {} /\ Barren(Top, s)
  BY <1>3, NoLocType DEF Barren, DirsIn, RowsIn
<1>6. s.dirs \subseteq dirs' /\ s.rows \subseteq rows' /\ Top \in Ids \cup {Top}
  BY <1>5
<1> QED
  BY <1>1, <1>4, <1>5, <1>6, WalkBegins

LEMMA ReadFoldersInv ==
  ASSUME Inv, NEW c \in Clients, ReadFolders(c)
  PROVE  Inv'
<1>0. Tables /\ failed \in BOOLEAN
  BY DEF Inv, Tables
<1>1. CASE NoRemote(c)
  BY <1>1, NoRemoteInv DEF ReadFolders
<1>2. CASE Goto(c, "files", [loc[c] EXCEPT !.found.dirs = dirs]) /\ UNCHANGED failed
  <2>1. Tables' /\ Grows
    BY <1>0, <1>2, TablesKept DEF ReadFolders
  <2>2. PICK k \in Loc : k = loc[c]
    BY DEF Inv
  <2>3. Fits("folders", k)
    BY <2>2 DEF Inv, ReadFolders
  <2>4. PICK D \in SUBSET Folder : D = dirs
    BY <1>0 DEF Tables
  <2>5. PICK l : l = [k EXCEPT !.found.dirs = D]
    OBVIOUS
  <2>6. /\ l \in Loc /\ l.found.dirs = D /\ l.found.rows = k.found.rows /\ l.plan = k.plan
        /\ l.root = k.root /\ l.todo = k.todo
    BY <2>5 DEF Loc, Found
  <2>7. FoundOK(l) /\ PlanOK(l) /\ IsAt(l.root, <<>>) /\ l.todo = << >>
    BY <2>3, <2>4, <2>6 DEF Fits, FoundOK, PlanOK
  <2>8. Fits("files", l)
    BY <2>6, <2>7 DEF Fits, PCs
  <2>9. Fits("files", l)'
    BY <2>1, <2>8, FitsStays
  <2>10. Goto(c, "files", l)
    BY <1>2, <2>2, <2>4, <2>5
  <2> QED
    BY <2>1, <2>9, <2>10, ClientMoves
<1> QED
  BY <1>1, <1>2 DEF ReadFolders

\* A subtree whose hashes agree is stored.
LEMMA HashStored ==
  ASSUME Tables, NEW s, s.dirs \subseteq dirs, s.rows \subseteq rows, NEW p \in Path, p \notin Files,
         NEW d, IsAt(d, p), SameHash(p, d, s)
  PROVE  \A q \in Within(p) : OnServer(q)
<1> SUFFICES ASSUME NEW q \in Within(p) PROVE OnServer(q)
  OBVIOUS
<1>1. PICK D : D = dirs
  OBVIOUS
<1>2. tree \in Trees /\ At(D, d, p) /\ s.dirs \subseteq D
  BY <1>1, AtIsAt DEF Tables
<1>3. PICK y \in s.rows : y.name = Last(q) /\ y.size = tree[q].size /\ At(D, y.dir, Front(q))
  BY <1>2, SameHashStored
<1>4. IsAt(y.dir, Front(q))
  BY <1>1, <1>3, AtIsAt
<1> QED
  BY <1>3, <1>4 DEF OnServer

LEMMA ReadFilesInv ==
  ASSUME Inv, NEW c \in Clients, ReadFiles(c)
  PROVE  Inv'
<1>0. Tables /\ failed \in BOOLEAN /\ tree \in Trees
  BY DEF Inv, Tables
<1>1. CASE NoRemote(c)
  BY <1>1, NoRemoteInv DEF ReadFiles
<1>2. PICK k \in Loc : k = loc[c]
  BY DEF Inv
<1>3. PICK s : s = [dirs |-> k.found.dirs \cap dirs, rows |-> rows]
  OBVIOUS
<1>4. s \in Found /\ s.dirs \subseteq dirs /\ s.rows = rows
  BY <1>0, <1>3 DEF Tables, Found
<1>5. IsAt(k.root, <<>>)
  BY <1>2 DEF Inv, Fits, ReadFiles
<1>6. <<>> \in Path /\ <<>> \notin Files
  BY <1>0, TreePaths DEF Path, Files
<1>7. PICK d \in Ids : d = k.root
  BY <1>0, <1>5, <1>6, AtIsId
<1>8. CASE /\ IF SameHash(<<>>, d, s)
              THEN Goto(c, "walk", Skip([NoLoc EXCEPT !.root = d], <<>>, d))
              ELSE Walk(c, d, d, s)
           /\ UNCHANGED failed
  <2>1. Tables' /\ Grows
    BY <1>0, <1>8, TablesKept DEF ReadFiles
  <2>2. CASE ~ SameHash(<<>>, d, s)
    <3>1. Walk(c, d, d, s)
      BY <1>8, <2>2
    <3>2. IsAt(d, <<>>)'
      BY <1>5, <1>7, <2>1, PlacesStay
    <3>3. s.dirs \subseteq dirs' /\ s.rows \subseteq rows' /\ d \in Ids \cup {Top}
      BY <1>4, <2>1 DEF Grows
    <3> QED
      BY <1>4, <2>1, <3>1, <3>2, <3>3, WalkBegins
  <2>3. CASE SameHash(<<>>, d, s)
    <3>1. \A q \in Within(<<>>) : OnServer(q)
      BY <1>0, <1>4, <1>5, <1>6, <1>7, <2>3, HashStored
    <3>2. Within(<<>>) = Files
      BY <1>0, FilePaths, PrefixRefl DEF Within
    <3>3. PICK j \in Loc : j = [NoLoc EXCEPT !.root = d]
      BY NoLocType DEF Loc
    <3>4. /\ j.plan = {} /\ j.found = NoLoc.found /\ j.todo = << >> /\ j.place = << >>
          /\ j.sum = NoLoc.sum
      BY <3>3, NoLocType DEF Loc, NoLoc
    <3>5. PICK l : l = Skip(j, <<>>, d)
      OBVIOUS
    <3>6. /\ l \in Loc /\ l.plan = {Plan(<<>>, "SKIP", d)} /\ l.found = NoLoc.found
          /\ l.todo = << >> /\ l.place = << >>
          /\ l.sum.synced = j.sum.synced + Cardinality(Files)
          /\ l.sum.resumable = j.sum.resumable /\ l.sum.missing = j.sum.missing
          /\ l.sum.done = j.sum.done + SumOver(Files) /\ l.sum.left = j.sum.left
      BY <1>0, <1>6, <3>2, <3>4, <3>5, SkipLoc
    <3>7. PlanOK(l) /\ FoundOK(l)
      BY <3>1, <3>6, NoLocType DEF PlanOK, Plan, FoundOK
    <3>8. WalkOK(l)
      <4>1. TodoOK(l) /\ PlaceOK(l)
        BY <3>6 DEF TodoOK, PlaceOK
      <4>2. \A p \in Files : IsPrefix(<<>>, p)
        BY <1>0, FilePaths, PrefixRefl
      <4>3. CoverOK(l) /\ Settled(l) = Files
        BY <3>6, <4>2 DEF CoverOK, Settled, Plan
      <4>4. Cardinality(Files) \in Nat /\ SumOver(Files) \in Nat
        BY <1>0, BytesFinite, FS_CardinalityType
      <4>5. /\ j.sum.synced = 0 /\ j.sum.resumable = 0 /\ j.sum.missing = 0
            /\ j.sum.done = 0 /\ j.sum.left = 0
        BY <3>4 DEF NoLoc
      <4>6. CountOK(l)
        BY <3>6, <4>3, <4>4, <4>5 DEF CountOK
      <4> QED
        BY <4>1, <4>3, <4>6 DEF WalkOK
    <3>9. Fits("walk", l)
      BY <3>6, <3>7, <3>8 DEF Fits, PCs
    <3>10. Fits("walk", l)'
      BY <2>1, <3>9, FitsStays
    <3>11. Goto(c, "walk", l)
      BY <1>8, <2>3, <3>3, <3>5
    <3> QED
      BY <2>1, <3>10, <3>11, ClientMoves
  <2> QED
    BY <2>2, <2>3
<1> QED
  BY <1>1, <1>2, <1>3, <1>7, <1>8 DEF ReadFiles

-----------------------------------------------------------------------------
(* The walk *)

LEMMA CountGrows ==
  ASSUME tree \in Trees, NEW k \in Loc, NEW m \in Loc, CountOK(k), NEW W \in SUBSET Files,
         Settled(m) = Settled(k) \cup W, Settled(k) \cap W = {},
         m.sum.synced + m.sum.resumable + m.sum.missing
            = k.sum.synced + k.sum.resumable + k.sum.missing + Cardinality(W),
         m.sum.done + m.sum.left <= k.sum.done + k.sum.left + SumOver(W),
         m.sum.resumable = 0 =>
            k.sum.resumable = 0 /\ m.sum.done + m.sum.left = k.sum.done + k.sum.left + SumOver(W)
  PROVE  CountOK(m)
<1>1. Settled(k) \in SUBSET Files
  BY DEF Settled
<1>2. /\ Cardinality(Settled(m)) = Cardinality(Settled(k)) + Cardinality(W)
      /\ SumOver(Settled(m)) = SumOver(Settled(k)) + SumOver(W)
      /\ Cardinality(Settled(k)) \in Nat /\ Cardinality(W) \in Nat
      /\ SumOver(Settled(k)) \in Nat /\ SumOver(W) \in Nat
  BY <1>1, Additive
<1>3. /\ k.sum.synced \in Nat /\ k.sum.resumable \in Nat /\ k.sum.missing \in Nat
      /\ k.sum.done \in Nat /\ k.sum.left \in Nat /\ m.sum.done \in Nat /\ m.sum.left \in Nat
  BY DEF Loc, Summary
<1>4. /\ k.sum.synced + k.sum.resumable + k.sum.missing = Cardinality(Settled(k))
      /\ k.sum.done + k.sum.left <= SumOver(Settled(k))
      /\ k.sum.resumable = 0 => k.sum.done + k.sum.left = SumOver(Settled(k))
  BY DEF CountOK
<1>5. m.sum.synced + m.sum.resumable + m.sum.missing = Cardinality(Settled(m))
  BY <1>2, <1>4
<1>6. m.sum.done + m.sum.left <= SumOver(Settled(m))
  BY <1>2, <1>3, <1>4
<1>7. m.sum.resumable = 0 => m.sum.done + m.sum.left = SumOver(Settled(m))
  BY <1>2, <1>4
<1> QED
  BY <1>5, <1>6, <1>7 DEF CountOK

\* What is known of the node the walk visits next.
LEMMA NextNode ==
  ASSUME Inv, NEW c \in Clients, pc[c] = "walk", NEW k \in Loc, k = loc[c], k.todo # << >>,
         NEW q, q = Head(k.todo)
  PROVE  /\ Fits("walk", k) /\ FoundOK(k) /\ PlanOK(k)
         /\ TodoOK(k) /\ PlaceOK(k) /\ CoverOK(k) /\ CountOK(k)
         /\ q \in DOMAIN tree /\ q \in Path /\ q # <<>>
         /\ Front(q) \in DOMAIN k.place /\ Front(q) \in Path
         /\ k.place[Front(q)] \in Ids \cup {Top}
<1>1. Fits("walk", k)
  BY DEF Inv
<1>2. FoundOK(k) /\ PlanOK(k) /\ TodoOK(k) /\ PlaceOK(k) /\ CoverOK(k) /\ CountOK(k)
  BY <1>1 DEF Fits, WalkOK
<1>3. q = k.todo[1] /\ 1 \in 1 .. Len(k.todo)
  BY TailOf DEF Loc
<1>4. q \in DOMAIN tree /\ Front(q) \in DOMAIN k.place
  BY <1>2, <1>3 DEF TodoOK
<1>5. q \in Path /\ q # <<>> /\ Front(q) \in Path
  BY <1>4, TreePaths, FrontOf DEF Inv, Tables
<1>6. k.place[Front(q)] \in Ids \cup {Top}
  BY <1>4 DEF Loc, Places
<1> QED
  BY <1>1, <1>2, <1>4, <1>5, <1>6

\* The next node is settled by the action a.
LEMMA Settles ==
  ASSUME Inv, NEW c \in Clients, pc[c] = "walk", Tables', Grows,
         NEW k \in Loc, k = loc[c], k.todo # << >>,
         NEW a \in Action, a.path = Head(k.todo),
         NEW m \in Loc, m.plan = k.plan \cup {a}, m.todo = Tail(k.todo),
         m.found = k.found, m.place = k.place, CountOK(m), Goto(c, "walk", m),
         a.act = "SKIP" => \A p \in Within(a.path) : OnServer(p),
         a.act # "SKIP" => a.path \in Files /\ (~ failed => IsAt(a.dir, Front(a.path)))
  PROVE  Inv'
<1>1. /\ FoundOK(k) /\ PlanOK(k) /\ TodoOK(k) /\ PlaceOK(k) /\ CoverOK(k)
  BY NextNode
<1>2. tree \in Trees
  BY DEF Inv, Tables
<1>3. CoverOK(m)
  BY <1>1, <1>2, SettleCover
<1>4. PlanOK(m)
  BY <1>1 DEF PlanOK
<1>5. FoundOK(m) /\ PlaceOK(m)
  BY <1>1 DEF FoundOK, PlaceOK
<1>6. TodoOK(m)
  <2>1. /\ Len(k.todo) \in Nat \ {0} /\ Len(m.todo) = Len(k.todo) - 1
        /\ \A i \in 1 .. Len(k.todo) - 1 : m.todo[i] = k.todo[i + 1] /\ i + 1 \in 1 .. Len(k.todo)
    BY TailOf DEF Loc
  <2> QED
    BY <1>1, <2>1 DEF TodoOK
<1>7. Fits("walk", m)
  BY <1>3, <1>4, <1>5, <1>6 DEF Fits, WalkOK, PCs
<1>8. Fits("walk", m)'
  BY <1>7, FitsStays
<1> QED
  BY <1>8, ClientMoves

LEMMA Popped ==
  ASSUME NEW k \in Loc, k.todo # << >>
  PROVE  \E j \in Loc :
            /\ j = [k EXCEPT !.todo = Tail(@)] /\ j.todo = Tail(k.todo) /\ j.plan = k.plan
            /\ j.found = k.found /\ j.place = k.place /\ j.sum = k.sum /\ j.root = k.root
<1>1. PICK t \in Seq(Path) : t = Tail(k.todo)
  BY TailOf DEF Loc
<1>2. PICK j \in Loc : j = [k EXCEPT !.todo = t]
  BY DEF Loc
<1>3. /\ j.todo = t /\ j.plan = k.plan /\ j.found = k.found /\ j.place = k.place
      /\ j.sum = k.sum /\ j.root = k.root
  BY <1>2 DEF Loc
<1>4. j = [k EXCEPT !.todo = Tail(@)]
  BY <1>1, <1>2 DEF Loc
<1> QED
  BY <1>1, <1>3, <1>4

\* How the totals of a summary grow.
LEMMA SumsUp ==
  ASSUME NEW s \in Summary, NEW t \in Summary, NEW n \in Nat, NEW b \in Nat,
         t.synced = s.synced + n, t.resumable = s.resumable, t.missing = s.missing,
         t.done = s.done + b, t.left = s.left
  PROVE  /\ t.synced + t.resumable + t.missing = s.synced + s.resumable + s.missing + n
         /\ t.done + t.left = s.done + s.left + b
         /\ t.done + t.left <= s.done + s.left + b
<1>1. PICK s1 \in Nat, s2 \in Nat, s3 \in Nat, s4 \in Nat, s5 \in Nat :
         s1 = s.synced /\ s2 = s.resumable /\ s3 = s.missing /\ s4 = s.done /\ s5 = s.left
  BY DEF Summary
<1>2. /\ (s1 + n) + s2 + s3 = s1 + s2 + s3 + n
      /\ (s4 + b) + s5 = s4 + s5 + b
      /\ s4 + s5 + b <= s4 + s5 + b
  OBVIOUS
<1> QED
  BY <1>1, <1>2

\* The next node is skipped with all that is below it.
LEMMA SkipInv ==
  ASSUME Inv, NEW c \in Clients, pc[c] = "walk", Tables', Grows,
         NEW k \in Loc, k = loc[c], k.todo # << >>, NEW q, q = Head(k.todo),
         NEW j \in Loc, j.todo = Tail(k.todo), j.plan = k.plan, j.found = k.found,
         j.place = k.place, j.sum = k.sum,
         NEW d \in Ids \cup {Top}, NEW m, m = Skip(j, q, d), Goto(c, "walk", m),
         \A p \in Within(q) : OnServer(p)
  PROVE  Inv'
<1>1. tree \in Trees /\ q \in Path /\ CoverOK(k) /\ CountOK(k)
  BY NextNode DEF Inv, Tables
<1>2. PICK a \in Action : a = Plan(q, "SKIP", d)
  BY <1>1 DEF Plan, Action
<1>3. a.path = q /\ a.act = "SKIP"
  BY <1>2 DEF Plan
<1>4. /\ m \in Loc /\ m.plan = k.plan \cup {a} /\ m.found = k.found /\ m.place = k.place
      /\ m.todo = Tail(k.todo)
      /\ m.sum.synced = k.sum.synced + Cardinality(Within(q))
      /\ m.sum.resumable = k.sum.resumable /\ m.sum.missing = k.sum.missing
      /\ m.sum.done = k.sum.done + SumOver(Within(q)) /\ m.sum.left = k.sum.left
  BY <1>1, <1>2, SkipLoc
<1>5. Settled(m) = Settled(k) \cup Within(q) /\ Settled(k) \cap Within(q) = {}
  BY <1>1, <1>3, <1>4, SettleCover
<1>6. CountOK(m)
  <2>1. PICK W \in SUBSET Files : W = Within(q)
    BY DEF Within
  <2>2. PICK n \in Nat : n = Cardinality(W)
    BY <1>1, BytesFinite, FS_CardinalityType
  <2>3. PICK b \in Nat : b = SumOver(W)
    BY <1>1, BytesFinite
  <2>4. PICK s \in Summary, t \in Summary : s = k.sum /\ t = m.sum
    BY <1>4 DEF Loc
  <2>5. /\ t.synced = s.synced + n /\ t.resumable = s.resumable /\ t.missing = s.missing
        /\ t.done = s.done + b /\ t.left = s.left
    BY <1>4, <2>1, <2>2, <2>3, <2>4
  <2>6. /\ t.synced + t.resumable + t.missing = s.synced + s.resumable + s.missing + n
        /\ t.done + t.left = s.done + s.left + b
        /\ t.done + t.left <= s.done + s.left + b
    BY <2>5, SumsUp
  <2> QED
    BY <1>1, <1>4, <1>5, <2>1, <2>2, <2>3, <2>4, <2>6, CountGrows
<1> QED
  BY <1>2, <1>3, <1>4, <1>6, Settles

\* A file is all that is within it.
LEMMA WithinFile ==
  ASSUME tree \in Trees, NEW q \in Files
  PROVE  Within(q) = {q} /\ Cardinality({q}) = 1 /\ SumOver({q}) = tree[q].size
<1>1. IsPrefix(q, q)
  BY FilePaths, PrefixRefl
<1>2. \A p \in Files : IsPrefix(q, p) => p = q
  BY FileIsLeaf
<1>3. Within(q) = {q}
  BY <1>1, <1>2 DEF Within
<1> QED
  BY <1>3, FS_Singleton, BytesOfOne

\* How the totals of a summary grow when an upload is planned.
LEMMA UploadSumsUp ==
  ASSUME NEW s \in Summary, NEW t \in Summary, NEW b \in Nat,
         t.synced = s.synced, t.resumable = s.resumable, t.missing = s.missing + 1,
         t.done = s.done, t.left = s.left + b
  PROVE  /\ t.synced + t.resumable + t.missing = s.synced + s.resumable + s.missing + 1
         /\ t.done + t.left = s.done + s.left + b
         /\ t.done + t.left <= s.done + s.left + b
<1>1. PICK s1 \in Nat, s2 \in Nat, s3 \in Nat, s4 \in Nat, s5 \in Nat :
         s1 = s.synced /\ s2 = s.resumable /\ s3 = s.missing /\ s4 = s.done /\ s5 = s.left
  BY DEF Summary
<1>2. /\ s1 + s2 + (s3 + 1) = s1 + s2 + s3 + 1
      /\ s4 + (s5 + b) = s4 + s5 + b
      /\ s4 + s5 + b <= s4 + s5 + b
  OBVIOUS
<1> QED
  BY <1>1, <1>2

\* When one is resumed, h bytes were read first and n bytes, not fewer, later.
LEMMA ResumeSumsUp ==
  ASSUME NEW s \in Summary, NEW t \in Summary, NEW b \in Nat, NEW h \in Nat, NEW n \in Nat,
         h <= n, n <= b,
         t.synced = s.synced, t.resumable = s.resumable + 1, t.missing = s.missing,
         t.done = s.done + h, t.left = s.left + (b - n)
  PROVE  /\ t.synced + t.resumable + t.missing = s.synced + s.resumable + s.missing + 1
         /\ t.done + t.left <= s.done + s.left + b
         /\ t.resumable # 0
<1>1. PICK s1 \in Nat, s2 \in Nat, s3 \in Nat, s4 \in Nat, s5 \in Nat :
         s1 = s.synced /\ s2 = s.resumable /\ s3 = s.missing /\ s4 = s.done /\ s5 = s.left
  BY DEF Summary
<1>2. /\ s1 + (s2 + 1) + s3 = s1 + s2 + s3 + 1
      /\ (s4 + h) + (s5 + (b - n)) <= s4 + s5 + b
      /\ s2 + 1 # 0
  OBVIOUS
<1> QED
  BY <1>1, <1>2

\* The node visited next is a file, and the plan gets an upload of it.
LEMMA PlansUpload ==
  ASSUME Inv, NEW c \in Clients, pc[c] = "walk", Tables', Grows,
         NEW k \in Loc, k = loc[c], k.todo # << >>, NEW q \in Files, q = Head(k.todo),
         NEW d, d = k.place[Front(q)],
         NEW a \in Action, a.path = q, a.act # "SKIP", a.dir = d,
         NEW m \in Loc, m.plan = k.plan \cup {a}, m.todo = Tail(k.todo),
         m.found = k.found, m.place = k.place, Goto(c, "walk", m),
         m.sum.synced + m.sum.resumable + m.sum.missing
            = k.sum.synced + k.sum.resumable + k.sum.missing + 1,
         m.sum.done + m.sum.left <= k.sum.done + k.sum.left + tree[q].size,
         m.sum.resumable = 0 =>
            /\ k.sum.resumable = 0
            /\ m.sum.done + m.sum.left = k.sum.done + k.sum.left + tree[q].size
  PROVE  Inv'
<1>1. tree \in Trees /\ CoverOK(k) /\ CountOK(k) /\ PlaceOK(k) /\ Front(q) \in DOMAIN k.place
  BY NextNode DEF Inv, Tables
<1>2. Settled(m) = Settled(k) \cup Within(q) /\ Settled(k) \cap Within(q) = {}
  BY <1>1, SettleCover
<1>3. PICK W \in SUBSET Files : W = {q}
  OBVIOUS
<1>4. Within(q) = W /\ Cardinality(W) = 1 /\ SumOver(W) = tree[q].size
  BY <1>1, <1>3, WithinFile
<1>5. CountOK(m)
  BY <1>1, <1>2, <1>4, CountGrows
<1>6. ~ failed => IsAt(a.dir, Front(a.path))
  BY <1>1 DEF PlaceOK
<1> QED
  BY <1>5, <1>6, Settles

\* What is found under a name is a folder or a row of the directory's folder.
LEMMA NamedIs ==
  ASSUME NEW k \in Loc, NEW q, NEW r \in Named(k, q)
  PROVE  /\ IsDir(r) => /\ r \in k.found.dirs /\ r \in Folder
                        /\ r.parent = k.place[Front(q)] /\ r.name = Last(q)
         /\ ~ IsDir(r) => /\ r \in k.found.rows /\ r \in Row
                          /\ r.dir = k.place[Front(q)] /\ r.name = Last(q)
<1>1. k.found.dirs \subseteq Folder /\ k.found.rows \subseteq Row
  BY DEF Loc, Found
<1>2. \A x \in Folder : IsDir(x)
  BY DEF Folder, IsDir
<1>3. \A x \in Row : ~ IsDir(x)
  BY DEF Row, IsDir
<1>4. \/ r \in k.found.dirs /\ r.parent = k.place[Front(q)] /\ r.name = Last(q)
      \/ r \in k.found.rows /\ r.dir = k.place[Front(q)] /\ r.name = Last(q)
  BY DEF Named, DirsIn, RowsIn
<1> QED
  BY <1>1, <1>2, <1>3, <1>4

LEMMA WalkFileInv ==
  ASSUME Inv, NEW c \in Clients, loc[c].todo # << >>, WalkFile(c, Head(loc[c].todo))
  PROVE  Inv'
<1>1. PICK k \in Loc : k = loc[c]
  BY DEF Inv
<1>2. PICK q : q = Head(k.todo)
  OBVIOUS
<1>3. /\ Tables /\ tree \in Trees /\ pc[c] = "walk" /\ k.todo # << >>
      /\ UNCHANGED <<tree, dirs, rows, sessions, failed>> /\ tree[q].type = "file"
  BY <1>1, <1>2 DEF Inv, Tables, WalkFile
<1>4. Tables' /\ Grows
  BY <1>3, TablesKept DEF Tables
<1>5. /\ FoundOK(k) /\ PlaceOK(k) /\ q \in DOMAIN tree /\ q \in Path /\ q # <<>>
      /\ Front(q) \in DOMAIN k.place /\ k.place[Front(q)] \in Ids \cup {Top}
  BY <1>1, <1>2, <1>3, NextNode
<1>6. q \in Files /\ tree[q].size \in Nat
  BY <1>3, <1>5, FilePaths DEF Files
<1>7. PICK j \in Loc :
         /\ j = [k EXCEPT !.todo = Tail(@)] /\ j.todo = Tail(k.todo) /\ j.plan = k.plan
         /\ j.found = k.found /\ j.place = k.place /\ j.sum = k.sum /\ j.root = k.root
  BY <1>3, Popped
<1>8. PICK d \in Ids \cup {Top} : d = k.place[Front(q)]
  BY <1>5
<1>9. \/ \E r \in Named(j, q) : Stored(r, q) /\ Goto(c, "walk", Skip(j, q, d))
      \/ Active(d, q) = {} /\ Goto(c, "walk", PlanUpload(j, q, d))
      \/ \E s \in Active(d, q) : \E later \in s.have .. s.size :
            Goto(c, "walk", PlanResume(j, q, d, s.have, later))
  BY <1>1, <1>2, <1>7, <1>8 DEF WalkFile
<1>10. ASSUME NEW r \in Named(j, q), Stored(r, q), Goto(c, "walk", Skip(j, q, d))
       PROVE  Inv'
  <2>1. r \in k.found.rows /\ r.dir = d /\ r.name = Last(q) /\ r.size = tree[q].size
    BY <1>7, <1>8, <1>10, NamedIs DEF Stored
  <2>2. ~ Barren(d, k.found)
    BY <2>1 DEF Barren, RowsIn
  <2>3. IsAt(r.dir, Front(q))
    BY <1>5, <1>8, <2>1, <2>2 DEF PlaceOK
  <2>4. OnServer(q)
    BY <1>5, <2>1, <2>3 DEF OnServer, FoundOK
  <2>5. \A p \in Within(q) : OnServer(p)
    BY <1>3, <1>6, <2>4, WithinFile
  <2> QED
    BY <1>1, <1>2, <1>3, <1>4, <1>7, <1>10, <2>5, SkipInv
<1>11. ASSUME Goto(c, "walk", PlanUpload(j, q, d))
       PROVE  Inv'
  <2>1. PICK a \in Action : a = Plan(q, "UPLOAD_NEW", d)
    BY <1>5 DEF Plan, Action
  <2>2. a.path = q /\ a.act # "SKIP" /\ a.dir = d
    BY <2>1 DEF Plan
  <2>3. PICK m : m = PlanUpload(j, q, d)
    OBVIOUS
  <2>4. /\ m \in Loc /\ m.plan = k.plan \cup {a} /\ m.found = k.found /\ m.place = k.place
        /\ m.todo = Tail(k.todo)
        /\ m.sum.synced = k.sum.synced /\ m.sum.resumable = k.sum.resumable
        /\ m.sum.missing = k.sum.missing + 1 /\ m.sum.done = k.sum.done
        /\ m.sum.left = k.sum.left + tree[q].size
    <3>1. /\ m \in Loc /\ m.plan = j.plan \cup {Plan(q, "UPLOAD_NEW", d)} /\ m.found = j.found
          /\ m.place = j.place /\ m.todo = j.todo
          /\ m.sum.synced = j.sum.synced /\ m.sum.resumable = j.sum.resumable
          /\ m.sum.missing = j.sum.missing + 1 /\ m.sum.done = j.sum.done
          /\ m.sum.left = j.sum.left + tree[q].size
      BY <1>3, <1>6, <2>3, UploadLoc
    <3> QED
      BY <1>7, <2>1, <3>1
  <2>5. k.sum \in Summary /\ m.sum \in Summary
    BY <2>4 DEF Loc
  <2>6. /\ m.sum.synced + m.sum.resumable + m.sum.missing
              = k.sum.synced + k.sum.resumable + k.sum.missing + 1
        /\ m.sum.done + m.sum.left = k.sum.done + k.sum.left + tree[q].size
        /\ m.sum.done + m.sum.left <= k.sum.done + k.sum.left + tree[q].size
    BY <1>6, <2>4, <2>5, UploadSumsUp
  <2>7. Goto(c, "walk", m)
    BY <1>11, <2>3
  <2> QED
    BY <1>1, <1>2, <1>3, <1>4, <1>6, <1>8, <2>2, <2>4, <2>6, <2>7, PlansUpload
<1>12. ASSUME NEW s \in Active(d, q), NEW n \in s.have .. s.size,
              Goto(c, "walk", PlanResume(j, q, d, s.have, n))
       PROVE  Inv'
  <2>1. PICK a \in Action : a = Plan(q, "RESUME", d)
    BY <1>5 DEF Plan, Action
  <2>2. a.path = q /\ a.act # "SKIP" /\ a.dir = d
    BY <2>1 DEF Plan
  <2>3. s \in Session /\ s.size = tree[q].size
    BY <1>3 DEF Active, Tables
  <2>4. PICK h \in Nat : h = s.have
    BY <2>3 DEF Session
  <2>5. n \in Nat /\ h <= n /\ n <= tree[q].size
    BY <1>6, <2>3, <2>4
  <2>6. PICK m \in Loc :
           /\ m = PlanResume(j, q, d, h, n) /\ m.plan = j.plan \cup {Plan(q, "RESUME", d)}
           /\ m.found = j.found /\ m.place = j.place /\ m.todo = j.todo
           /\ m.sum.synced = j.sum.synced /\ m.sum.resumable = j.sum.resumable + 1
           /\ m.sum.missing = j.sum.missing /\ m.sum.done = j.sum.done + h
           /\ m.sum.left = j.sum.left + (tree[q].size - n)
    BY <1>3, <1>6, <2>5, ResumeLoc
  <2>7. /\ m \in Loc /\ m.plan = k.plan \cup {a} /\ m.found = k.found /\ m.place = k.place
        /\ m.todo = Tail(k.todo)
        /\ m.sum.synced = k.sum.synced /\ m.sum.resumable = k.sum.resumable + 1
        /\ m.sum.missing = k.sum.missing /\ m.sum.done = k.sum.done + h
        /\ m.sum.left = k.sum.left + (tree[q].size - n)
    BY <1>7, <2>1, <2>6
  <2>8. k.sum \in Summary /\ m.sum \in Summary
    BY <2>7 DEF Loc
  <2>9. /\ m.sum.synced + m.sum.resumable + m.sum.missing
              = k.sum.synced + k.sum.resumable + k.sum.missing + 1
        /\ m.sum.done + m.sum.left <= k.sum.done + k.sum.left + tree[q].size
        /\ m.sum.resumable # 0
    BY <1>6, <2>5, <2>7, <2>8, ResumeSumsUp
  <2>10. Goto(c, "walk", m)
    BY <1>12, <2>4, <2>6
  <2> QED
    BY <1>1, <1>2, <1>3, <1>4, <1>6, <1>8, <2>2, <2>7, <2>9, <2>10, PlansUpload
<1> QED
  BY <1>9, <1>10, <1>11, <1>12

\* The next node is a directory, and its children are visited instead, in folder d.
LEMMA Enters ==
  ASSUME Inv, NEW c \in Clients, pc[c] = "walk", Tables', Grows,
         NEW k \in Loc, k = loc[c], k.todo # << >>, NEW q, q = Head(k.todo), q \notin Files,
         NEW d \in Ids \cup {Top}, Goto(c, "walk", Enter(k, q, d)),
         IsAt(d, q)' \/ Barren(d, k.found), ~ failed' => IsAt(d, q)'
  PROVE  Inv'
<1>1. /\ Fits("walk", k) /\ TodoOK(k) /\ CoverOK(k) /\ CountOK(k)
      /\ q \in Path /\ tree \in Trees /\ tree' = tree
  BY NextNode DEF Inv, Tables, Grows
<1>2. PICK m \in Loc : Entered(m, k, q, d)
  BY <1>1, EnterLoc
<1>3. /\ m = Enter(k, q, d) /\ m.plan = k.plan /\ m.found = k.found /\ m.sum = k.sum
      /\ m.todo = Sorted(q) \o Tail(k.todo) /\ DOMAIN m.place = DOMAIN k.place \cup {q}
      /\ m.place[q] = d /\ \A p \in DOMAIN k.place \ {q} : m.place[p] = k.place[p]
  BY <1>2 DEF Entered
<1>4. CoverOK(m) /\ Settled(m) = Settled(k)
  BY <1>1, <1>3, ExpandCover
<1>5. CountOK(m)
  BY <1>1, <1>3, <1>4 DEF CountOK
<1>6. TodoOK(m)
  <2>1. PICK s \in Seq(Path), t \in Seq(Path) : s = Sorted(q) /\ t = Tail(k.todo)
    BY <1>1, SortedChildren, TailOf DEF Loc
  <2>2. \A i \in 1 .. Len(s) : s[i] \in DOMAIN tree /\ Front(s[i]) = q
    BY <1>1, <2>1, SortedChildren, ChildPaths
  <2>3. \A i \in 1 .. Len(t) : t[i] \in DOMAIN tree /\ Front(t[i]) \in DOMAIN k.place
    <3>1. /\ Len(k.todo) \in Nat \ {0} /\ Len(t) = Len(k.todo) - 1
          /\ \A i \in 1 .. Len(k.todo) - 1 : t[i] = k.todo[i + 1] /\ i + 1 \in 1 .. Len(k.todo)
      BY <2>1, TailOf DEF Loc
    <3> QED
      BY <1>1, <3>1 DEF TodoOK
  <2>4. m.todo = s \o t
    BY <1>3, <2>1
  <2>5. ASSUME NEW i \in 1 .. Len(m.todo)
        PROVE  m.todo[i] \in DOMAIN tree /\ Front(m.todo[i]) \in DOMAIN k.place \cup {q}
    <3>1. i \in 1 .. Len(s) + Len(t)
      BY <2>4, <2>5, Joined
    <3>2. CASE i \in 1 .. Len(s)
      BY <2>2, <2>4, <3>2, Joined
    <3>3. ASSUME NEW j \in 1 .. Len(t), i = Len(s) + j
          PROVE  m.todo[i] \in DOMAIN tree /\ Front(m.todo[i]) \in DOMAIN k.place
      <4>1. m.todo[i] = t[j]
        BY <2>4, <3>3, Joined
      <4> QED
        BY <2>3, <4>1
    <3> QED
      BY <3>1, <3>2, <3>3, Joined
  <2> QED
    BY <1>3, <2>5 DEF TodoOK
<1>7. FoundOK(k)' /\ PlanOK(k)' /\ PlaceOK(k)'
  BY <1>1, FitsStays DEF Fits, WalkOK
<1>8. FoundOK(m)' /\ PlanOK(m)'
  BY <1>3, <1>7 DEF FoundOK, PlanOK
<1>9. PlaceOK(m)'
  <2>1. ASSUME NEW p \in DOMAIN m.place
        PROVE  /\ IsAt(m.place[p], p)' \/ Barren(m.place[p], m.found)
               /\ ~ failed' => IsAt(m.place[p], p)'
    <3>1. CASE p = q
      BY <1>3, <3>1
    <3>2. CASE p # q
      <4>1. p \in DOMAIN k.place /\ m.place[p] = k.place[p]
        BY <1>3, <2>1, <3>2
      <4>2. /\ IsAt(k.place[p], p)' \/ Barren(k.place[p], k.found)
            /\ ~ failed' => IsAt(k.place[p], p)'
        BY <1>7, <4>1 DEF PlaceOK, Barren
      <4> QED
        BY <1>3, <4>1, <4>2
    <3> QED
      BY <3>1, <3>2
  <2> QED
    BY <2>1 DEF PlaceOK, Barren
<1>10. TodoOK(m)' /\ CoverOK(m)' /\ CountOK(m)'
  BY <1>1, <1>4, <1>5, <1>6, SameTree
<1>11. Fits("walk", m)'
  BY <1>3, <1>8, <1>9, <1>10 DEF Fits, WalkOK, PCs
<1> QED
  BY <1>3, <1>11, ClientMoves

\* Nothing was read under an id that has just been generated.
LEMMA FreshIsBarren ==
  ASSUME Tables, NEW k, FoundOK(k), NEW i \in FreeIds
  PROVE  Barren(i, k.found) /\ i \in Ids
<1>1. i \in Ids /\ i \notin {x.id : x \in dirs}
  BY DEF FreeIds
<1>2. i \notin {Base, Top}
  BY <1>1, ReconcileConstants
<1>3. \A x \in dirs : x.parent # i
  BY <1>1, <1>2 DEF Tables
<1>4. \A r \in rows : r.dir # i
  BY <1>1 DEF Tables
<1> QED
  BY <1>1, <1>3, <1>4 DEF FoundOK, Barren, DirsIn, RowsIn

LEMMA WalkDirInv ==
  ASSUME Inv, NEW c \in Clients, loc[c].todo # << >>, WalkDir(c, Head(loc[c].todo))
  PROVE  Inv'
<1>1. PICK k \in Loc : k = loc[c]
  BY DEF Inv
<1>2. PICK q : q = Head(k.todo)
  OBVIOUS
<1>3. /\ Tables /\ tree \in Trees /\ failed \in BOOLEAN /\ pc[c] = "walk" /\ k.todo # << >>
      /\ UNCHANGED <<tree, rows, sessions>> /\ tree[q].type = "directory"
  BY <1>1, <1>2 DEF Inv, Tables, WalkDir
<1>4. /\ FoundOK(k) /\ PlaceOK(k) /\ q \in DOMAIN tree /\ q \in Path /\ q # <<>>
      /\ Front(q) \in DOMAIN k.place /\ Front(q) \in Path
      /\ k.place[Front(q)] \in Ids \cup {Top}
  BY <1>1, <1>2, <1>3, NextNode
<1>5. q \notin Files
  BY <1>3 DEF Files
<1>6. PICK d \in Ids \cup {Top} : d = k.place[Front(q)]
  BY <1>4
<1>7. (IsAt(d, Front(q)) \/ Barren(d, k.found)) /\ (~ failed => IsAt(d, Front(q)))
  BY <1>4, <1>6 DEF PlaceOK
<1>8. \/ \E x \in Named(k, q) :
            /\ IsDir(x)
            /\ Goto(c, "walk", IF Prune(q, x.id, k.found)
                               THEN Skip([k EXCEPT !.todo = Tail(@)], q, x.id)
                               ELSE Enter(k, q, x.id))
            /\ UNCHANGED <<dirs, failed>>
      \/ \E i \in FreeIds :
            /\ \/ /\ dirs' = dirs \cup {x \in {[id |-> i, parent |-> d, name |-> Last(q)]} :
                                         ParentExists(x)}
                  /\ UNCHANGED failed
               \/ Fault /\ UNCHANGED dirs
            /\ Goto(c, "walk", Enter(k, q, i))
  BY <1>1, <1>2, <1>6 DEF WalkDir, Parent
<1>9. ASSUME NEW x \in Named(k, q), IsDir(x), UNCHANGED <<dirs, failed>>,
             Goto(c, "walk", IF Prune(q, x.id, k.found)
                             THEN Skip([k EXCEPT !.todo = Tail(@)], q, x.id)
                             ELSE Enter(k, q, x.id))
      PROVE  Inv'
  <2>1. x \in k.found.dirs /\ x \in Folder /\ x.parent = d /\ x.name = Last(q)
    BY <1>6, <1>9, NamedIs
  <2>2. PICK i \in Ids : i = x.id
    BY <2>1 DEF Folder
  <2>3. Tables' /\ Grows
    BY <1>3, <1>9, TablesKept
  <2>4. IsAt(d, Front(q)) /\ x \in dirs
    BY <1>4, <1>7, <2>1 DEF Barren, DirsIn, FoundOK
  <2>5. IsAt(i, q)
    BY <1>4, <2>1, <2>2, <2>4, AtIsAt, AtBelow
  <2>6. CASE SameHash(q, i, k.found)
    <3>1. \A p \in Within(q) : OnServer(p)
      BY <1>3, <1>4, <1>5, <2>5, <2>6, HashStored DEF FoundOK
    <3>2. PICK j \in Loc :
             /\ j = [k EXCEPT !.todo = Tail(@)] /\ j.todo = Tail(k.todo) /\ j.plan = k.plan
             /\ j.found = k.found /\ j.place = k.place /\ j.sum = k.sum /\ j.root = k.root
      BY <1>3, Popped
    <3>3. Goto(c, "walk", Skip(j, q, i))
      BY <1>9, <2>2, <2>6, <3>2 DEF Prune
    <3> QED
      BY <1>1, <1>2, <1>3, <2>3, <3>1, <3>2, <3>3, SkipInv
  <2>7. CASE ~ SameHash(q, i, k.found)
    <3>1. Goto(c, "walk", Enter(k, q, i))
      BY <1>9, <2>2, <2>7 DEF Prune
    <3>2. IsAt(i, q)'
      BY <2>3, <2>5, PlacesStay
    <3> QED
      BY <1>1, <1>2, <1>3, <1>5, <2>3, <3>1, <3>2, Enters
  <2> QED
    BY <2>6, <2>7
<1>10. ASSUME NEW i \in FreeIds, Goto(c, "walk", Enter(k, q, i)), Fault, UNCHANGED dirs
       PROVE  Inv'
  <2>1. Tables' /\ Grows /\ failed'
    BY <1>3, <1>10, TablesKept DEF Fault
  <2>2. Barren(i, k.found) /\ i \in Ids
    BY <1>3, <1>4, FreshIsBarren
  <2> QED
    BY <1>1, <1>2, <1>3, <1>5, <1>10, <2>1, <2>2, Enters
<1>11. ASSUME NEW i \in FreeIds, Goto(c, "walk", Enter(k, q, i)), UNCHANGED failed,
              dirs' = dirs \cup {x \in {[id |-> i, parent |-> d, name |-> Last(q)]} : ParentExists(x)}
       PROVE  Inv'
  <2>1. Barren(i, k.found) /\ i \in Ids
    BY <1>3, <1>4, FreshIsBarren
  <2>2. PICK x : x = [id |-> i, parent |-> d, name |-> Last(q)]
    OBVIOUS
  <2>3. x \in Folder /\ x.id = i /\ x.parent = d /\ x.name = Last(q)
    BY <1>4, <2>1, <2>2, FrontOf DEF Folder
  <2>4. dirs' = dirs \/ (dirs' = dirs \cup {x} /\ d \in {y.id : y \in dirs} \cup {Base, Top})
    BY <1>11, <2>2, <2>3 DEF ParentExists
  <2>5. Tables' /\ Grows
    <3>1. dirs \subseteq dirs' /\ dirs' \subseteq Folder
      BY <1>3, <2>3, <2>4 DEF Tables
    <3>2. ASSUME NEW z \in dirs' PROVE z.parent \in {y.id : y \in dirs'} \cup {Base, Top}
      BY <1>3, <2>3, <2>4, <3>1, <3>2 DEF Tables
    <3>3. \A r \in rows : r.dir \in {y.id : y \in dirs'}
      BY <1>3, <3>1 DEF Tables
    <3> QED
      BY <1>3, <1>11, <3>1, <3>2, <3>3 DEF Tables, Grows
  <2>6. ASSUME ~ failed' PROVE IsAt(i, q)'
    <3>1. IsAt(d, Front(q))
      BY <1>7, <1>11, <2>6
    <3>2. d \in {y.id : y \in dirs}
      BY <1>3, <1>4, <3>1, AtIsId
    <3>3. x \in dirs'
      BY <1>11, <2>2, <2>3, <3>2 DEF ParentExists
    <3>4. PICK D : D = dirs'
      OBVIOUS
    <3>5. At(D, d, Front(q))
      BY <2>5, <3>1, <3>4, AtIsAt, AtGrows DEF Grows
    <3>6. At(D, i, q)
      BY <1>4, <2>3, <3>3, <3>4, <3>5, AtBelow
    <3> QED
      BY <3>4, <3>6, AtIsAt
  <2> QED
    BY <1>1, <1>2, <1>3, <1>5, <1>11, <2>1, <2>5, <2>6, Enters
<1> QED
  BY <1>8, <1>9, <1>10, <1>11

LEMMA AnswerInv ==
  ASSUME Inv, NEW c \in Clients, Answer(c)
  PROVE  Inv'
<1>1. PICK k \in Loc : k = loc[c]
  BY DEF Inv
<1>2. /\ Tables /\ tree \in Trees /\ failed \in BOOLEAN /\ k.todo = << >>
      /\ UNCHANGED <<tree, dirs, rows, sessions, failed>>
  BY <1>1 DEF Inv, Tables, Answer
<1>3. Tables' /\ Grows
  BY <1>2, TablesKept
<1>4. FoundOK(k) /\ PlanOK(k) /\ CoverOK(k)
  BY <1>1 DEF Inv, Answer, Fits, WalkOK
<1>5. ASSUME Goto(c, "planned", [NoLoc EXCEPT !.root = k.root, !.plan = k.plan]) PROVE Inv'
  <2>1. PICK m : m = [NoLoc EXCEPT !.root = k.root, !.plan = k.plan]
    OBVIOUS
  <2>2. /\ m \in Loc /\ m.found = NoLoc.found /\ m.plan = k.plan /\ m.todo = << >>
        /\ m.shown = {}
    BY <2>1, NoLocType DEF Loc, NoLoc
  <2>3. FoundOK(m) /\ PlanOK(m) /\ ShownOK(m)
    BY <1>4, <2>2, NoLocType DEF FoundOK, PlanOK, ShownOK
  <2>4. Fits("planned", m)
    BY <2>2, <2>3 DEF Fits, PCs
  <2>5. Fits("planned", m)'
    BY <1>3, <2>4, FitsStays
  <2>6. Goto(c, "planned", m)
    BY <1>5, <2>1
  <2> QED
    BY <1>3, <2>5, <2>6, ClientMoves
\* Only the fast path plans for the whole tree, and it skips it.
<1>6. ASSUME RootSynced(k), Goto(c, "synced", NoLoc) PROVE Inv'
  <2>1. PICK a \in k.plan : a.path = <<>>
    BY <1>6 DEF RootSynced
  <2>2. <<>> \notin Files
    BY <1>2, FilePaths
  <2>3. \A p \in Within(<<>>) : OnServer(p)
    BY <1>4, <2>1, <2>2 DEF PlanOK
  <2>4. Within(<<>>) = Files
    BY <1>2, FilePaths, PrefixRefl DEF Within
  <2>5. Fits("synced", NoLoc)
    BY <2>3, <2>4, NothingFits, NoLocType DEF Fits, PCs
  <2>6. Fits("synced", NoLoc)'
    BY <1>3, <2>5, FitsStays
  <2> QED
    BY <1>3, <1>6, <2>6, ClientMoves
<1>7. ASSUME Goto(c, "idle", NoLoc) PROVE Inv'
  BY <1>3, <1>7, BackToNothing
<1> QED
  BY <1>1, <1>5, <1>6, <1>7 DEF Answer

-----------------------------------------------------------------------------
(* The page and its uploads *)

\* What is known of an upload that the page is about to make.
LEMMA OpenUpload ==
  ASSUME Inv, NEW c \in Clients, NEW k \in Loc, k = loc[c], pc[c] = "planned", NEW a \in Uploads(k)
  PROVE  /\ Tables /\ tree \in Trees /\ failed \in BOOLEAN
         /\ FoundOK(k) /\ PlanOK(k) /\ ShownOK(k) /\ k.todo = << >>
         /\ a \in k.plan /\ a.path \in Files /\ a.path \in Path /\ a.path # <<>>
         /\ Front(a.path) \in Path /\ Last(a.path) \in Nat
         /\ tree[a.path].size \in Nat /\ tree[a.path].hash \in STRING
         /\ ~ failed => IsAt(a.dir, Front(a.path)) /\ Target(k, a) = a.dir
<1>1. Fits("planned", k) /\ Tables /\ tree \in Trees /\ failed \in BOOLEAN
  BY DEF Inv, Tables
<1>2. FoundOK(k) /\ PlanOK(k) /\ ShownOK(k) /\ k.todo = << >>
  BY <1>1 DEF Fits
<1>3. a \in k.plan /\ a.act # "SKIP"
  BY DEF Uploads
<1>4. a.path \in Files /\ (~ failed => IsAt(a.dir, Front(a.path)))
  BY <1>2, <1>3 DEF PlanOK
<1>5. a.path \in Path /\ a.path # <<>> /\ tree[a.path].size \in Nat
  BY <1>1, <1>4, FilePaths
<1>6. tree[a.path].hash \in STRING
  BY <1>1, <1>4, TreesAreTrees DEF Files
<1>7. Front(a.path) \in Path /\ Last(a.path) \in Nat
  BY <1>5, FrontOf
<1>8. ASSUME ~ failed PROVE Target(k, a) = a.dir
  <2>1. a.dir \in Ids
    BY <1>1, <1>4, <1>7, <1>8, AtIsId
  <2> QED
    BY <2>1, ReconcileConstants DEF Target
<1> QED
  BY <1>1, <1>2, <1>3, <1>4, <1>5, <1>6, <1>7, <1>8

(***************************************************************************)
(* A transfer ends: its action is struck off the plan, and what the page   *)
(* marks completed is still stored, if this one is or was cancelled.       *)
(***************************************************************************)
LEMMA EndsInv ==
  ASSUME Inv, NEW c \in Clients, pc[c] = "planned", NEW k \in Loc, k = loc[c],
         NEW a \in Uploads(k), Grows, Tables',
         NEW how \in {"done", "error", "cancel"}, Ends(c, a, how),
         how = "done" /\ ~ failed' => OnServer(a.path)'
  PROVE  Inv'
<1>1. Fits("planned", k) /\ a.path \in Path /\ k.todo = << >>
  BY OpenUpload DEF Inv
<1>2. Fits("planned", k)'
  BY <1>1, FitsStays
<1>3. PICK P \in SUBSET Action : P = k.plan \ {a}
  BY DEF Loc
<1>4. PICK S : S = Completed(k, a.path, how)
  OBVIOUS
<1>5. S \subseteq k.shown \cup {[path |-> a.path, by |-> how]} /\ (how = "error" => S = k.shown)
  BY <1>4 DEF Completed
<1>6. S \in SUBSET Transfer
  <2>1. k.shown \subseteq Transfer
    BY DEF Loc
  <2>2. how # "error" => [path |-> a.path, by |-> how] \in Transfer
    BY <1>1 DEF Transfer
  <2> QED
    BY <1>5, <2>1, <2>2
<1>7. PICK m : m = [k EXCEPT !.plan = P, !.shown = S]
  OBVIOUS
<1>8. m \in Loc /\ m.plan = P /\ m.found = k.found /\ m.todo = << >> /\ m.shown = S
  BY <1>1, <1>6, <1>7 DEF Loc
<1>9. FoundOK(m)' /\ PlanOK(m)'
  BY <1>2, <1>3, <1>8 DEF Fits, FoundOK, PlanOK
<1>10. ShownOK(m)'
  <2> SUFFICES ASSUME ~ failed', NEW s \in S, s.by # "cancel" PROVE OnServer(s.path)'
    BY <1>8 DEF ShownOK
  <2>1. CASE s \in k.shown
    BY <1>2, <2>1 DEF Fits, ShownOK
  <2>2. CASE s \notin k.shown
    <3>1. s = [path |-> a.path, by |-> how] /\ how # "error"
      BY <1>5, <2>2
    <3>2. s.path = a.path /\ s.by = how
      BY <3>1
    <3>3. how = "done"
      BY <3>1, <3>2
    <3> QED
      BY <3>2, <3>3
  <2> QED
    BY <2>1, <2>2
<1>11. Fits("planned", m)'
  BY <1>8, <1>9, <1>10 DEF Fits, PCs
<1>12. Goto(c, "planned", m)
  BY <1>3, <1>4, <1>7 DEF Ends
<1> QED
  BY <1>11, <1>12, ClientMoves

LEMMA UploadInv ==
  ASSUME Inv, NEW c \in Clients, NEW a, Upload(c, a)
  PROVE  Inv'
<1>1. PICK k \in Loc : k = loc[c]
  BY DEF Inv
<1>2. pc[c] = "planned" /\ a \in Uploads(k) /\ UNCHANGED <<tree, dirs, failed>>
  BY <1>1 DEF Upload
<1>3. /\ Tables /\ tree \in Trees /\ failed \in BOOLEAN
      /\ FoundOK(k) /\ PlanOK(k) /\ ShownOK(k) /\ k.todo = << >>
      /\ a \in k.plan /\ a.path \in Files /\ a.path \in Path /\ a.path # <<>>
      /\ Front(a.path) \in Path /\ Last(a.path) \in Nat
      /\ tree[a.path].size \in Nat /\ tree[a.path].hash \in STRING
      /\ ~ failed => IsAt(a.dir, Front(a.path)) /\ Target(k, a) = a.dir
  BY <1>1, <1>2, OpenUpload
<1>4. PICK d : d = Target(k, a)
  OBVIOUS
<1>5. d \in Ids /\ d \in {x.id : x \in dirs}
  BY <1>1, <1>3, <1>4 DEF Upload, Tables, Folder
<1>6. PICK new : new = [dir |-> d, name |-> Last(a.path), size |-> tree[a.path].size,
                        hash |-> tree[a.path].hash, by |-> c]
  OBVIOUS
<1>7. new \in Row /\ new.dir = d /\ new.name = Last(a.path) /\ new.size = tree[a.path].size
  BY <1>3, <1>5, <1>6 DEF Row
<1>8. /\ rows' = rows \/ rows' = rows \cup {new}
      /\ \E r \in rows' : r.dir = d /\ r.name = Last(a.path) /\ r.size = tree[a.path].size
      /\ sessions' \subseteq sessions
  <2>1. /\ rows' = IF \E r \in rows : r.dir = d /\ r.name = Last(a.path) /\ r.size = tree[a.path].size
                   THEN rows ELSE rows \cup {new}
        /\ sessions' \subseteq sessions
    BY <1>1, <1>4, <1>6 DEF Upload
  <2> QED
    BY <1>7, <2>1
<1>9. Tables' /\ Grows
  <2>1. rows \subseteq rows' /\ rows' \subseteq Row /\ sessions' \subseteq Session
    BY <1>3, <1>7, <1>8 DEF Tables
  <2>2. \A r \in rows' : r.dir \in {y.id : y \in dirs}
    BY <1>3, <1>5, <1>7, <1>8 DEF Tables
  <2> QED
    BY <1>2, <1>3, <2>1, <2>2 DEF Tables, Grows
<1>10. ASSUME ~ failed' PROVE OnServer(a.path)'
  <2>1. IsAt(d, Front(a.path))
    BY <1>2, <1>3, <1>4, <1>10
  <2>2. IsAt(d, Front(a.path))'
    BY <1>9, <2>1, PlacesStay
  <2>3. PICK r \in rows' : r.dir = d /\ r.name = Last(a.path) /\ r.size = tree'[a.path].size
    BY <1>2, <1>8
  <2> QED
    BY <2>2, <2>3 DEF OnServer
<1>11. PICK how \in {"done", "error"} : Ends(c, a, how)
  BY DEF Upload
<1> QED
  BY <1>1, <1>2, <1>9, <1>10, <1>11, EndsInv

\* After a failed INSERT, now or before, nothing is claimed.
LEMMA InsertFailsInv ==
  ASSUME Inv, NEW c \in Clients, NEW a, InsertFails(c, a)
  PROVE  Inv'
<1>1. PICK k \in Loc : k = loc[c]
  BY DEF Inv
<1>2. pc[c] = "planned" /\ a \in Uploads(k) /\ UNCHANGED <<tree, dirs, rows>>
  BY <1>1 DEF InsertFails
<1>3. /\ Tables /\ failed \in BOOLEAN /\ Front(a.path) \in Path
      /\ ~ failed => IsAt(a.dir, Front(a.path)) /\ Target(k, a) = a.dir
  BY <1>1, <1>2, OpenUpload
<1>4. failed'
  <2>1. CASE Fault
    BY <2>1 DEF Fault
  <2>2. CASE Target(k, a) \notin {x.id : x \in dirs} /\ UNCHANGED failed
    BY <1>3, <2>2, AtIsId
  <2> QED
    BY <1>1, <2>1, <2>2 DEF InsertFails
<1>5. sessions' \subseteq sessions
  BY DEF InsertFails
<1>6. Tables' /\ Grows
  BY <1>2, <1>3, <1>4, <1>5 DEF Tables, Grows
<1>7. PICK how \in {"done", "error"} : Ends(c, a, how)
  BY DEF InsertFails
<1> QED
  BY <1>1, <1>2, <1>4, <1>6, <1>7, EndsInv

LEMMA UploadFailsInv ==
  ASSUME Inv, NEW c \in Clients, NEW a, UploadFails(c, a)
  PROVE  Inv'
<1>1. PICK k \in Loc : k = loc[c]
  BY DEF Inv
<1>2. pc[c] = "planned" /\ a \in Uploads(k) /\ UNCHANGED <<tree, dirs, rows, failed>>
  BY <1>1 DEF UploadFails
<1>3. /\ Tables /\ FoundOK(k) /\ PlanOK(k) /\ k.todo = << >>
      /\ a \in k.plan /\ Last(a.path) \in Nat /\ tree[a.path].size \in Nat
  BY <1>1, <1>2, OpenUpload
<1>4. PICK d : d = Target(k, a)
  OBVIOUS
<1>5. sessions' \subseteq Session
  <2>1. CASE UNCHANGED sessions
    BY <1>3, <2>1 DEF Tables
  <2>2. ASSUME d \in {x.id : x \in dirs}, NEW h \in Partial(tree[a.path].size),
               sessions' = (sessions \ Own(k, a))
                   \cup {[dir |-> d, name |-> Last(a.path), size |-> tree[a.path].size, have |-> h]}
        PROVE  sessions' \subseteq Session
    <3>1. d \in Ids
      BY <1>3, <2>2 DEF Tables, Folder
    <3>2. h \in Nat /\ h \in 1 .. tree[a.path].size - 1
      BY <1>3 DEF Partial
    <3>3. PICK s : s = [dir |-> d, name |-> Last(a.path), size |-> tree[a.path].size, have |-> h]
      OBVIOUS
    <3>4. s \in Session
      BY <1>3, <3>1, <3>2, <3>3 DEF Session
    <3> QED
      BY <1>3, <2>2, <3>3, <3>4 DEF Tables
  <2> QED
    BY <1>1, <1>4, <2>1, <2>2 DEF UploadFails
<1>6. Tables' /\ Grows
  BY <1>2, <1>3, <1>5 DEF Tables, Grows
<1>7. PICK how \in {"error", "cancel"} : Ends(c, a, how)
  BY DEF UploadFails
<1> QED
  BY <1>1, <1>2, <1>6, <1>7, EndsInv

LEMMA DoneInv ==
  ASSUME Inv, NEW c \in Clients, Done(c)
  PROVE  Inv'
<1>1. /\ Tables /\ failed \in BOOLEAN /\ Goto(c, "idle", NoLoc)
      /\ UNCHANGED <<tree, dirs, rows, sessions, failed>>
  BY DEF Inv, Tables, Done
<1>2. Tables' /\ Grows
  BY <1>1, TablesKept
<1> QED
  BY <1>1, <1>2, BackToNothing

LEMMA EditInv ==
  ASSUME Inv, Edit
  PROVE  Inv'
<1>1. Tables'
  BY DEF Inv, Tables, Edit
<1>2. ASSUME NEW c \in Clients PROVE loc'[c] = NoLoc /\ pc'[c] = "idle"
  BY DEF Inv, Edit, Fits
<1>3. loc' \in [Clients -> Loc] /\ pc' \in [Clients -> PCs]
  BY DEF Inv, Edit, PCs
<1>4. Fits("idle", NoLoc)'
  BY NoLocType DEF FoundOK, PlanOK, Fits, PCs
<1> QED
  BY <1>1, <1>2, <1>3, <1>4 DEF Inv

LEMMA OthersInv ==
  ASSUME Inv, Grows, Tables', UNCHANGED <<pc, loc>>
  PROVE  Inv'
<1>1. ASSUME NEW c \in Clients PROVE Fits(pc[c], loc[c])'
  <2>1. PICK p, l : p = pc[c] /\ l = loc[c]
    OBVIOUS
  <2>2. Fits(p, l)'
    BY <2>1, FitsStays DEF Inv
  <2> QED
    BY <2>1, <2>2
<1> QED
  BY <1>1 DEF Inv

-----------------------------------------------------------------------------
(* The invariant holds *)

LEMMA InvInit == Init => Inv
<1> SUFFICES ASSUME Init PROVE Inv
  OBVIOUS
<1>1. Tables
  BY DEF Init, Tables
<1>2. pc \in [Clients -> PCs] /\ loc \in [Clients -> Loc]
  BY NoLocType DEF Init, PCs
<1>3. \A c \in Clients : pc[c] = "idle" /\ loc[c] = NoLoc
  BY DEF Init
<1> QED
  BY <1>1, <1>2, <1>3, NothingFits DEF Inv

LEMMA ClientStepInv ==
  ASSUME Inv, NEW c \in Clients, ClientStep(c)
  PROVE  Inv'
<1>1. CASE FindRoot(c) \/ MakeRoot(c) \/ ReadFolders(c)
  BY <1>1, FindRootInv, MakeRootInv, ReadFoldersInv
<1>2. CASE ReadFiles(c) \/ Answer(c) \/ Done(c)
  BY <1>2, ReadFilesInv, AnswerInv, DoneInv
<1>3. CASE loc[c].todo # << >> /\ WalkDir(c, Head(loc[c].todo))
  BY <1>3, WalkDirInv
<1>4. CASE loc[c].todo # << >> /\ WalkFile(c, Head(loc[c].todo))
  BY <1>4, WalkFileInv
<1>5. CASE \E a \in loc[c].plan : Upload(c, a) \/ InsertFails(c, a) \/ UploadFails(c, a)
  BY <1>5, UploadInv, InsertFailsInv, UploadFailsInv
<1> QED
  BY <1>1, <1>2, <1>3, <1>4, <1>5 DEF ClientStep

LEMMA InvStep == Inv /\ [Next]_vars => Inv'
<1> SUFFICES ASSUME Inv, [Next]_vars PROVE Inv'
  OBVIOUS
<1>1. ASSUME NEW c \in Clients, ClientStep(c) PROVE Inv'
  BY <1>1, ClientStepInv
<1>2. CASE Edit
  BY <1>2, EditInv
<1>3. ASSUME NEW s \in sessions, Reap(s) PROVE Inv'
  <2>1. UNCHANGED <<tree, dirs, rows, pc, loc, failed>> /\ sessions' \subseteq sessions
    BY <1>3 DEF Reap
  <2>2. Tables' /\ Grows
    BY <2>1 DEF Inv, Tables, Grows
  <2> QED
    BY <2>1, <2>2, OthersInv
<1>4. CASE UNCHANGED vars
  <2>1. UNCHANGED <<tree, dirs, rows, sessions, pc, loc, failed>>
    BY <1>4 DEF vars
  <2>2. Tables' /\ Grows
    BY <2>1 DEF Inv, Tables, Grows
  <2> QED
    BY <2>1, <2>2, OthersInv
<1> QED
  BY <1>1, <1>2, <1>3, <1>4 DEF Next

LEMMA InvAlways == Spec => []Inv
  BY InvInit, InvStep, PTL DEF Spec

-----------------------------------------------------------------------------
(* The theorems *)

(***************************************************************************)
(* Type correctness: folders, rows and sessions name generated folders,    *)
(* what a request still has to visit are nodes of the client's tree.       *)
(***************************************************************************)
THEOREM TypeCorrect == Spec => []TypeOK
<1>1. Inv => TypeOK
  <2> SUFFICES ASSUME Inv PROVE TypeOK
    OBVIOUS
  <2>1. Tables
    BY DEF Inv
  <2>2. /\ tree \in Trees /\ failed \in BOOLEAN
        /\ \A x \in dirs : x.id \in Ids /\ x.parent \in Ids \cup {Base, Top}
        /\ \A r \in rows : r.dir \in Ids /\ r.by \in Clients
        /\ \A s \in sessions : s.dir \in Ids /\ s.have \in 1 .. (s.size - 1)
    BY <2>1 DEF Tables, Folder, Row, Session
  <2>3. pc \in [Clients -> {"idle", "mkroot", "folders", "files", "walk", "planned", "synced"}]
    BY DEF Inv, PCs
  <2>4. ASSUME NEW c \in Clients
        PROVE  ToSet(loc[c].todo) \subseteq DOMAIN tree /\ loc[c].root \in Ids \cup {Top}
    <3>1. PICK k \in Loc : k = loc[c]
      BY DEF Inv
    <3>2. k.root \in Ids \cup {Top} /\ k.todo \in Seq(Path)
      BY DEF Loc
    <3>3. TodoOK(k) \/ k.todo = << >>
      BY <3>1, NoLocType DEF Inv, Fits, WalkOK, PCs
    <3>4. \A i \in 1 .. Len(k.todo) : k.todo[i] \in DOMAIN tree
      BY <3>3 DEF TodoOK
    <3>5. ToSet(k.todo) \subseteq DOMAIN tree
      BY <3>2, <3>4 DEF ToSet
    <3> QED
      BY <3>1, <3>2, <3>5
  <2> QED
    BY <2>2, <2>3, <2>4 DEF TypeOK
<1> QED
  BY <1>1, InvAlways, PTL

(***************************************************************************)
(* When the walk is over, exactly one action settles each file and the     *)
(* summary is that of the whole tree (ReconcileTree, reconcileDirNodes).   *)
(***************************************************************************)
THEOREM CoversCorrect == Spec => []PlanCovers
<1>1. Inv => PlanCovers
  <2> SUFFICES ASSUME Inv, NEW c \in Clients, Complete(c)
               PROVE  LET s == loc[c].sum IN
                      /\ \A p \in Files : Cardinality({a \in loc[c].plan : IsPrefix(a.path, p)}) = 1
                      /\ s.synced + s.resumable + s.missing = Cardinality(Files)
                      /\ s.done + s.left <= SumOver(Files)
                      /\ s.resumable = 0 => s.done + s.left = SumOver(Files)
    BY DEF PlanCovers
  <2>1. PICK k \in Loc : k = loc[c]
    BY DEF Inv
  <2>2. k.todo = << >> /\ CoverOK(k) /\ CountOK(k)
    BY <2>1 DEF Complete, Inv, Fits, WalkOK
  <2>3. ASSUME NEW p \in Files PROVE Cardinality({a \in k.plan : IsPrefix(a.path, p)}) = 1
    <3>1. PICK a \in k.plan : IsPrefix(a.path, p)
      BY <2>2 DEF CoverOK
    <3>2. \A b \in k.plan : IsPrefix(b.path, p) => b = a
      BY <2>2, <3>1 DEF CoverOK
    <3>3. {b \in k.plan : IsPrefix(b.path, p)} = {a}
      BY <3>1, <3>2
    <3> QED
      BY <3>3, FS_Singleton
  <2>4. Settled(k) = Files
    BY <2>2 DEF Settled, CoverOK
  <2> QED
    BY <2>1, <2>2, <2>3, <2>4 DEF CountOK
<1> QED
  BY <1>1, InvAlways, PTL

(***************************************************************************)
(* A plan never skips a file the server does not have: the Merkle pruning  *)
(* of reconcileDirNodes, ReconcileTree's fast path and the comparison of   *)
(* single files are sound, whatever failed and whoever else reconciles.    *)
(***************************************************************************)
THEOREM SkipsCorrect == Spec => []SkipsAreStored
<1>1. Inv => SkipsAreStored
  BY DEF Inv, Fits, PlanOK, SkipsAreStored
<1> QED
  BY <1>1, InvAlways, PTL

(***************************************************************************)
(* As long as no statement has failed, the folder a planned upload goes to *)
(* is the one at its directory's path, several pages provisioning folders  *)
(* of the same names at the same time included.                            *)
(***************************************************************************)
THEOREM PlaceCorrect == Spec => []RightPlace
<1>1. Inv => RightPlace
  <2> SUFFICES ASSUME Inv, NEW c \in Clients, NEW a \in Uploads(loc[c]), ~ failed
               PROVE  IsAt(Target(loc[c], a), Front(a.path))
    BY DEF RightPlace
  <2>1. PICK k \in Loc : k = loc[c]
    BY DEF Inv
  <2>2. a \in k.plan /\ a.act # "SKIP" /\ PlanOK(k) /\ Tables /\ tree \in Trees
    BY <2>1 DEF Inv, Fits, Uploads, Tables
  <2>3. a.path \in Files /\ IsAt(a.dir, Front(a.path))
    BY <2>2 DEF PlanOK
  <2>4. Front(a.path) \in Path
    BY <2>2, <2>3, FilePaths, FrontOf
  <2>5. a.dir \in Ids
    BY <2>2, <2>3, <2>4, AtIsId
  <2>6. Target(k, a) = a.dir
    BY <2>5, ReconcileConstants DEF Target
  <2> QED
    BY <2>1, <2>3, <2>6
<1> QED
  BY <1>1, InvAlways, PTL

(***************************************************************************)
(* A page that shows the folder as synchronised has every file of its tree *)
(* on the server, whatever failed; a transfer it marks completed is there  *)
(* too, unless it was cancelled or a statement has failed (the folder      *)
(* upload of layout.templ, executeUpload).                                 *)
(***************************************************************************)
THEOREM ShownCorrect == Spec => []ShownIsStored
<1>1. Inv => ShownIsStored
  BY DEF Inv, Fits, ShownOK, ShownIsStored
<1> QED
  BY <1>1, InvAlways, PTL
=============================================================================
