------------------------------ MODULE Reconcile ------------------------------
(***************************************************************************)
(* Tree-differential reconciliation (POST /api/reconcile/tree-diff):       *)
(* internal/reconcile and its controller compare the tree of a folder the  *)
(* client wants to upload with what the database holds, create the folders *)
(* that are missing and answer with a plan, one action per file or per     *)
(* subtree that can be skipped.  The page then uploads what the plan names *)
(* (internal/ui/components/layout.templ).                                  *)
(*                                                                         *)
(* A client's tree is a function from paths (sequences of names, the root  *)
(* being <<>>) to nodes; names are numbers, for their order.  A Merkle     *)
(* hash is modelled by what it decides: two directories have the same hash *)
(* iff their entries agree in name, type, size and hash, all the way down. *)
(* The page's leaf hash is that of name and size; the server's is the      *)
(* plaintext_hash of the row, the hash of the content which the page sends *)
(* with /upload/init for files up to 100 MB, and the hash of name and size *)
(* ("ns") only where there is none.                                        *)
(***************************************************************************)
EXTENDS Naturals, Sequences, FiniteSets, SequencesExt

CONSTANTS
    Trees,      \* the trees a client may bring
    Ids,        \* folder ids that can be generated
    Clients,    \* pages reconciling the same folder
    RootName,   \* name of the client's folder
    Base,       \* target_folder_id, a folder that exists
    Top,        \* folder_id NULL, the empty string in the code
    Faults      \* TRUE: a query or an INSERT may fail

ASSUME ReconcileConstants ==
    /\ Base # Top
    /\ Ids \cap {Base, Top} = {}
    /\ Faults \in BOOLEAN

\* A tree is finite, and what lies above one of its nodes is a directory of it.
ASSUME TreesAreTrees ==
    \A t \in Trees :
        /\ IsFiniteSet(DOMAIN t)
        /\ \A p \in DOMAIN t :
              /\ p \in Seq(Nat) \ {<<>>}
              /\ t[p].type \in {"file", "directory"}
              /\ t[p].type = "file" => t[p].size \in Nat /\ t[p].hash \in STRING
              /\ \A n \in 1 .. Len(p) - 1 :
                    SubSeq(p, 1, n) \in DOMAIN t /\ t[SubSeq(p, 1, n)].type = "directory"

VARIABLES
    tree,       \* the client's tree
    dirs,       \* folders table: [id, parent, name]
    rows,       \* files table: [dir, name, size, hash, by], hash as BuildRemoteTree sees it
    sessions,   \* SessionManager.sessions, the unfinished ones: [dir, name, size, have]
    pc, loc,    \* where a client's request or its uploads stand
    failed      \* history: a statement has failed

vars == <<tree, dirs, rows, sessions, pc, loc, failed>>

Files == {p \in DOMAIN tree : tree[p].type = "file"}
Children(p) == {q \in DOMAIN tree : Len(q) = Len(p) + 1 /\ Front(q) = p}
Within(p) == {q \in Files : IsPrefix(p, q)}

\* p, the root of a tree or of a subtree, and the directories below it.
Directories(p) == {p} \cup {q \in DOMAIN tree : tree[q].type = "directory" /\ IsPrefix(p, q)}

\* ComputeDirectoryHash leaves the children sorted by name.
Before(q) == {r \in Children(Front(q)) : Last(r) < Last(q)}
Sorted(p) ==
    [i \in 1 .. Cardinality(Children(p)) |->
        CHOOSE q \in Children(p) : Cardinality(Before(q)) = i - 1]

\* The bytes of the files S, and their number.
Bytes(S) == UNION {{p} \X (1 .. tree[p].size) : p \in S}
SumOver(S) == Cardinality(Bytes(S))

NoLoc == [root |-> Top, found |-> [dirs |-> {}, rows |-> {}], place |-> << >>,
          todo |-> << >>, plan |-> {}, shown |-> {},
          sum |-> [synced |-> 0, resumable |-> 0, missing |-> 0, done |-> 0, left |-> 0]]

Init ==
    /\ tree \in Trees
    /\ dirs = {} /\ rows = {} /\ sessions = {} /\ failed = FALSE
    /\ pc = [c \in Clients |-> "idle"]
    /\ loc = [c \in Clients |-> NoLoc]

-----------------------------------------------------------------------------
(* The two trees *)

DirsIn(d, s) == {x \in s.dirs : x.parent = d}
RowsIn(d, s) == {r \in s.rows : r.dir = d}

(***************************************************************************)
(* ComputeDirectoryHash of p and of folder d, as read in s, are equal: a   *)
(* folder f[q] stands for every directory q from p down, d for p, and the  *)
(* entries of q and of f[q] agree.                                         *)
(***************************************************************************)
SameHash(p, d, s) ==
    \E f \in [Directories(p) -> {d} \cup {x.id : x \in s.dirs}] :
        /\ f[p] = d
        /\ \A q \in Directories(p) :
              /\ Cardinality(Children(q))
                    = Cardinality(DirsIn(f[q], s)) + Cardinality(RowsIn(f[q], s))
              /\ \A r \in Children(q) :
                    IF tree[r].type = "file"
                    THEN \E y \in RowsIn(f[q], s) :
                            y.name = Last(r) /\ y.size = tree[r].size /\ y.hash = "ns"
                    ELSE \E x \in DirsIn(f[q], s) : x.name = Last(r) /\ x.id = f[r]

\* Folder d is where path p belongs: a chain of folders leads to it from Base.
IsAt(d, p) ==
    \E f \in [0 .. Len(p) -> dirs] :
        /\ f[0].parent = Base /\ f[0].name = RootName
        /\ \A i \in 1 .. Len(p) : f[i].parent = f[i - 1].id /\ f[i].name = p[i]
        /\ f[Len(p)].id = d

\* File p is on the server, under its path and with its size.
OnServer(p) ==
    \E r \in rows : r.name = Last(p) /\ r.size = tree[p].size /\ IsAt(r.dir, Front(p))

-----------------------------------------------------------------------------
(* The request *)

Goto(c, p, l) ==
    /\ pc' = [pc EXCEPT ![c] = p]
    /\ loc' = [loc EXCEPT ![c] = l]

\* A statement fails, once in a behaviour.
Fault == Faults /\ ~ failed /\ failed' = TRUE

\* The walk starts in the folder d, with s as the remote tree.
Walk(c, root, d, s) ==
    Goto(c, "walk", [NoLoc EXCEPT !.root = root, !.found = s, !.todo = Sorted(<<>>),
                                  !.place = [p \in {<<>>} |-> d]])

\* SELECT id ... LIMIT 1; an error is taken for "no such folder".
FindRoot(c) ==
    /\ pc[c] \in {"idle", "synced"}
    /\ \/ \E x \in dirs :
             /\ x.parent = Base /\ x.name = RootName
             /\ Goto(c, "folders", [NoLoc EXCEPT !.root = x.id])
             /\ UNCHANGED failed
       \/ /\ ~ \E x \in dirs : x.parent = Base /\ x.name = RootName
          /\ Goto(c, "mkroot", NoLoc)
          /\ UNCHANGED failed
       \/ Fault /\ Goto(c, "mkroot", NoLoc)
    /\ UNCHANGED <<tree, dirs, rows, sessions>>

\* GenerateID never repeats itself, not even an id whose INSERT failed.
FreeIds ==
    Ids \ ({x.id : x \in dirs}
             \cup UNION {Range(loc[c].place) \cup {a.dir : a \in loc[c].plan} : c \in Clients})

MakeRoot(c) ==
    /\ pc[c] = "mkroot"
    /\ \/ \E i \in FreeIds :
             /\ dirs' = dirs \cup {[id |-> i, parent |-> Base, name |-> RootName]}
             /\ Walk(c, i, i, NoLoc.found)
             /\ UNCHANGED failed
       \/ Fault /\ Goto(c, "idle", NoLoc) /\ UNCHANGED dirs
    /\ UNCHANGED <<tree, rows, sessions>>

\* BuildRemoteTree failed: remoteTree is nil and the walk has no folder.
NoRemote(c) == Fault /\ Walk(c, loc[c].root, Top, NoLoc.found)

\* The first query of BuildRemoteTree; folders are not deleted here.
ReadFolders(c) ==
    /\ pc[c] = "folders"
    /\ \/ /\ Goto(c, "files", [loc[c] EXCEPT !.found.dirs = dirs])
          /\ UNCHANGED failed
       \/ NoRemote(c)
    /\ UNCHANGED <<tree, dirs, rows, sessions>>

Plan(p, act, d) == [path |-> p, act |-> act, dir |-> d]

\* Mutant: a subtree that was pruned is walked all the same.
BugSkip(l, p, d) ==
    [l EXCEPT !.plan = @ \cup {Plan(p, "SKIP", d)},
              !.sum.synced = @ + Cardinality(Within(p)),
              !.sum.done = @ + SumOver(Within(p)),
              !.place = [q \in DOMAIN @ \cup {p} |-> IF q = p THEN d ELSE @[q]],
              !.todo = Sorted(p) \o @]

\* The subtree p is synchronised.
Skip(l, p, d) ==
    [l EXCEPT !.plan = @ \cup {Plan(p, "SKIP", d)},
              !.sum.synced = @ + Cardinality(Within(p)),
              !.sum.done = @ + SumOver(Within(p))]

(***************************************************************************)
(* The files, and the folders again to attach them to their parents: one   *)
(* that came in between is not in folderMap.  Then the fast path: a plan   *)
(* of one action, for the whole tree, and nothing to walk.                 *)
(***************************************************************************)
ReadFiles(c) ==
    LET l == loc[c]
        s == [dirs |-> l.found.dirs \cap dirs, rows |-> rows]
    IN
    /\ pc[c] = "files"
    /\ \/ /\ IF SameHash(<<>>, l.root, s)
             THEN Goto(c, "walk", Skip([NoLoc EXCEPT !.root = l.root], <<>>, l.root))
             ELSE Walk(c, l.root, l.root, s)
          /\ UNCHANGED failed
       \/ NoRemote(c)
    /\ UNCHANGED <<tree, dirs, rows, sessions>>

\* Mutant: subdirectories are recognised by their name alone.
BugPrune(q, d, s) == TRUE

Prune(q, d, s) == SameHash(q, d, s)

Enter(l, q, d) ==
    [l EXCEPT !.place = [p \in DOMAIN @ \cup {q} |-> IF p = q THEN d ELSE @[p]],
              !.todo = Sorted(q) \o Tail(@)]

\* What rChildrenMap has under the name of q: any of the children with it.
Named(l, q) ==
    {x \in DirsIn(l.place[Front(q)], l.found) : x.name = Last(q)}
        \cup {r \in RowsIn(l.place[Front(q)], l.found) : r.name = Last(q)}

IsDir(n) == "id" \in DOMAIN n

\* Mutant: the new folder is created next to its parent.
BugParent(l, q) == Base

Parent(l, q) == l.place[Front(q)]

\* The foreign key folders.parent_id.
ParentExists(x) == x.parent \in {y.id : y \in dirs} \cup {Base, Top}

\* A subdirectory: pruned, entered, or created (an error is ignored) and entered.
WalkDir(c, q) ==
    LET l == loc[c] IN
    /\ pc[c] = "walk"
    /\ tree[q].type = "directory"
    /\ \/ \E x \in Named(l, q) :
             /\ IsDir(x)
             /\ Goto(c, "walk", IF Prune(q, x.id, l.found)
                                THEN Skip([l EXCEPT !.todo = Tail(@)], q, x.id)
                                ELSE Enter(l, q, x.id))
             /\ UNCHANGED <<dirs, failed>>
       \/ /\ Named(l, q) = {} \/ \E x \in Named(l, q) : ~ IsDir(x)
          /\ \E i \in FreeIds :
                /\ \/ /\ dirs' = dirs \cup {x \in {[id |-> i, parent |-> Parent(l, q), name |-> Last(q)]} :
                                             ParentExists(x)}
                      /\ UNCHANGED failed
                   \/ Fault /\ UNCHANGED dirs
                /\ Goto(c, "walk", Enter(l, q, i))
    /\ UNCHANGED <<tree, rows, sessions>>

\* FindActiveSession.
Active(d, q) ==
    {s \in sessions : s.dir = d /\ s.name = Last(q) /\ s.size = tree[q].size}

Stored(r, q) == ~ IsDir(r) /\ r.size = tree[q].size

(***************************************************************************)
(* Case C, or case B: UploadedSize is read without the session's lock, so  *)
(* the bytes left may be computed from a later value.                      *)
(***************************************************************************)
PlanUpload(l, q, d) ==
    [l EXCEPT !.plan = @ \cup {Plan(q, "UPLOAD_NEW", d)},
              !.sum.missing = @ + 1, !.sum.left = @ + tree[q].size]

PlanResume(l, q, d, have, later) ==
    [l EXCEPT !.plan = @ \cup {Plan(q, "RESUME", d)}, !.sum.resumable = @ + 1,
              !.sum.done = @ + have, !.sum.left = @ + (tree[q].size - later)]

WalkFile(c, q) ==
    LET l == [loc[c] EXCEPT !.todo = Tail(@)]
        d == l.place[Front(q)]
    IN
    /\ pc[c] = "walk"
    /\ tree[q].type = "file"
    /\ \/ \E r \in Named(l, q) :
             /\ Stored(r, q)
             /\ Goto(c, "walk", Skip(l, q, d))
       \/ /\ Named(l, q) = {} \/ \E r \in Named(l, q) : ~ Stored(r, q)
          /\ \/ /\ Active(d, q) = {}
                /\ Goto(c, "walk", PlanUpload(l, q, d))
             \/ \E s \in Active(d, q) : \E later \in s.have .. s.size :
                   Goto(c, "walk", PlanResume(l, q, d, s.have, later))
    /\ UNCHANGED <<tree, dirs, rows, sessions, failed>>

\* The fast path: plan.root_synced.
RootSynced(l) == \E a \in l.plan : a.path = <<>>

\* The plan is answered; the quota may refuse it, the answer may get lost.
Answer(c) ==
    LET l == loc[c] IN
    /\ pc[c] = "walk"
    /\ l.todo = << >>
    /\ \/ RootSynced(l) /\ Goto(c, "synced", NoLoc)
       \/ ~ RootSynced(l) /\ Goto(c, "planned", [NoLoc EXCEPT !.root = l.root, !.plan = l.plan])
       \/ Goto(c, "idle", NoLoc)
    /\ UNCHANGED <<tree, dirs, rows, sessions, failed>>

-----------------------------------------------------------------------------
(* The page and its uploads *)

\* action.target_folder_id || plan.root_folder_id
Target(l, a) == IF a.dir = Top THEN l.root ELSE a.dir

Uploads(l) == {a \in l.plan : a.act # "SKIP"}

\* Mutant: a failed transfer is marked completed, like a cancelled one.
BugCompleted(l, p, how) == l.shown \cup {[path |-> p, by |-> how]}

(***************************************************************************)
(* The transfers the page marks 'completed': one cancelled between two     *)
(* chunks leaves the loop and is marked like one that went through.        *)
(***************************************************************************)
Completed(l, p, how) ==
    IF how = "error" THEN l.shown ELSE l.shown \cup {[path |-> p, by |-> how]}

Ends(c, a, how) ==
    Goto(c, "planned", [loc[c] EXCEPT !.plan = @ \ {a}, !.shown = Completed(loc[c], a.path, how)])

\* The unfinished session of the upload a.
Own(l, a) ==
    {s \in sessions : s.dir = Target(l, a) /\ s.name = Last(a.path) /\ s.size = tree[a.path].size}

(***************************************************************************)
(* InitSession finds the file there already, or the upload runs to its     *)
(* INSERT.  An answer that is lost is made good by the next retry, which   *)
(* asks for the session's status; after eight the page gives up.           *)
(***************************************************************************)
Upload(c, a) ==
    LET l == loc[c]
        d == Target(l, a)
        n == tree[a.path]
    IN
    /\ pc[c] = "planned" /\ a \in Uploads(l)
    /\ d \in {x.id : x \in dirs}
    /\ rows' = IF \E r \in rows : r.dir = d /\ r.name = Last(a.path) /\ r.size = n.size
               THEN rows
               ELSE rows \cup {[dir |-> d, name |-> Last(a.path), size |-> n.size,
                                hash |-> n.hash, by |-> c]}
    /\ sessions' = sessions \ Own(l, a)
    /\ \E how \in {"done", "error"} : Ends(c, a, how)
    /\ UNCHANGED <<tree, dirs, failed>>

(***************************************************************************)
(* The last chunk is in, the move into the store or the INSERT fails, the  *)
(* latter for want of the folder too.  The page's retry finds the session  *)
(* completed or full, and takes that for success.                          *)
(***************************************************************************)
InsertFails(c, a) ==
    LET l == loc[c] IN
    /\ pc[c] = "planned" /\ a \in Uploads(l)
    /\ \/ Fault
       \/ Target(l, a) \notin {x.id : x \in dirs} /\ UNCHANGED failed
    /\ sessions' = sessions \ Own(l, a)
    /\ \E how \in {"done", "error"} : Ends(c, a, how)
    /\ UNCHANGED <<tree, dirs, rows>>

\* What an interrupted upload leaves: the last chunk deletes the session.
Partial(size) == 1 .. (size - 1)

\* An upload is refused, given up or cancelled before its last chunk.
UploadFails(c, a) ==
    LET l == loc[c]
        n == tree[a.path]
    IN
    /\ pc[c] = "planned" /\ a \in Uploads(l)
    /\ \/ UNCHANGED sessions
       \/ /\ Target(l, a) \in {x.id : x \in dirs}
          /\ \E have \in Partial(n.size) :
                sessions' = (sessions \ Own(l, a))
                    \cup {[dir |-> Target(l, a), name |-> Last(a.path), size |-> n.size, have |-> have]}
    /\ \E how \in {"error", "cancel"} : Ends(c, a, how)
    /\ UNCHANGED <<tree, dirs, rows, failed>>

\* The queue is empty: the page goes idle, however the uploads ended.
Done(c) ==
    /\ pc[c] = "planned"
    /\ Uploads(loc[c]) = {}
    /\ Goto(c, "idle", NoLoc)
    /\ UNCHANGED <<tree, dirs, rows, sessions, failed>>

\* The user changes the folder on the client; the pages reconcile again.
Edit ==
    /\ \A c \in Clients : pc[c] \in {"idle", "synced"}
    /\ tree' \in Trees \ {tree}
    /\ pc' = [c \in Clients |-> "idle"]
    /\ UNCHANGED <<dirs, rows, sessions, loc, failed>>

\* The reaper removes an upload session that was left alone for long.
Reap(s) ==
    /\ sessions' = sessions \ {s}
    /\ UNCHANGED <<tree, dirs, rows, pc, loc, failed>>

-----------------------------------------------------------------------------
ClientStep(c) ==
    \/ FindRoot(c) \/ MakeRoot(c) \/ ReadFolders(c) \/ ReadFiles(c) \/ Answer(c) \/ Done(c)
    \/ loc[c].todo # << >> /\ (WalkDir(c, Head(loc[c].todo)) \/ WalkFile(c, Head(loc[c].todo)))
    \/ \E a \in loc[c].plan : Upload(c, a) \/ InsertFails(c, a) \/ UploadFails(c, a)

Next ==
    \/ \E c \in Clients : ClientStep(c)
    \/ Edit
    \/ \E s \in sessions : Reap(s)

Spec == Init /\ [][Next]_vars

-----------------------------------------------------------------------------
\* Every variable has the shape its Go, SQL or JavaScript counterpart has.
TypeOK ==
    /\ tree \in Trees
    /\ \A x \in dirs : x.id \in Ids /\ x.parent \in Ids \cup {Base, Top}
    /\ \A r \in rows : r.dir \in Ids /\ r.by \in Clients
    /\ \A s \in sessions : s.dir \in Ids /\ s.have \in 1 .. (s.size - 1)
    /\ pc \in [Clients -> {"idle", "mkroot", "folders", "files", "walk", "planned", "synced"}]
    /\ \A c \in Clients : ToSet(loc[c].todo) \subseteq DOMAIN tree /\ loc[c].root \in Ids \cup {Top}
    /\ failed \in BOOLEAN

\* The end of the walk: the plan is complete.
Complete(c) == pc[c] = "walk" /\ loc[c].todo = << >>

(***************************************************************************)
(* Every file of the client's tree is settled by exactly one action of the *)
(* plan, its own or the one that skips a directory above it, and counted   *)
(* once in the summary.  The bytes counted as present and as remaining     *)
(* never exceed the tree; without resumed uploads, whose size may change   *)
(* while it is read, they are the tree.                                    *)
(***************************************************************************)
PlanCovers ==
    \A c \in Clients : Complete(c) =>
        LET s == loc[c].sum IN
        /\ \A p \in Files : Cardinality({a \in loc[c].plan : IsPrefix(a.path, p)}) = 1
        /\ s.synced + s.resumable + s.missing = Cardinality(Files)
        /\ s.done + s.left <= SumOver(Files)
        /\ s.resumable = 0 => s.done + s.left = SumOver(Files)

(***************************************************************************)
(* What a plan skips is stored: the server has a file of that size under   *)
(* the same path, whatever failed and whoever else reconciles.             *)
(***************************************************************************)
SkipsAreStored ==
    \A c \in Clients : \A a \in loc[c].plan :
        a.act = "SKIP" =>
            \A p \in Within(a.path) : OnServer(p)

(***************************************************************************)
(* Uploads go where they belong: the folder an action names exists under   *)
(* the path of the file's directory, whatever another client provisions at *)
(* the same time.  A failed query or INSERT is the only exception: files   *)
(* then go to a folder at the top, or to one that does not exist.          *)
(***************************************************************************)
RightPlace ==
    \A c \in Clients : \A a \in Uploads(loc[c]) :
        ~ failed => IsAt(Target(loc[c], a), Front(a.path))

(***************************************************************************)
(* What a page shows as being on the server is there, under its path and   *)
(* with its size: every file when it shows "synchronised", whatever failed *)
(* before, and each transfer it marks 'completed', after any number of     *)
(* interrupted uploads, lost answers and repeated reconciliations.  Of a   *)
(* transfer nothing is claimed if it was cancelled or a statement failed:  *)
(* both are marked 'completed' too.                                        *)
(***************************************************************************)
ShownIsStored ==
    \A c \in Clients :
        /\ pc[c] = "synced" => \A p \in Files : OnServer(p)
        /\ pc[c] = "planned" /\ ~ failed =>
              \A s \in loc[c].shown : s.by # "cancel" => OnServer(s.path)
=============================================================================
