---------------------------- MODULE UploadTable ----------------------------
(***************************************************************************)
(* What the owner of a drive is promised of uploads (UploadController and  *)
(* the files table): an upload is opened once, with a size; its file is    *)
(* recorded in one step, whole, and once; what is recorded stays as it is. *)
(* Chunks, retries, locks, temporary files and restarts are not seen here. *)
(* Nothing is promised of an upload once one of the causes has struck it,  *)
(* but the others are not affected by that.                                *)
(***************************************************************************)
EXTENDS Naturals

CONSTANT Sessions

VARIABLES
    open,       \* the uploads opened so far
    size,       \* the size each was opened with
    rows,       \* the files recorded: [sess, size, bytes, ...]
    cause       \* what has struck each upload

tvars == <<open, size, rows, cause>>

Init ==
    /\ open = {} /\ rows = {}
    /\ size = [s \in Sessions |-> 0]
    /\ cause = [s \in Sessions |-> {}]

Open(s) ==
    /\ s \notin open
    /\ open' = open \cup {s}
    /\ size'[s] \in Nat
    /\ size' = [size EXCEPT ![s] = size'[s]]
    /\ UNCHANGED <<rows, cause>>

\* The bytes of a file of n bytes, in their order.
Whole(n) == [i \in 1 .. n |-> i]

Sound(r, s) ==
    /\ r.size = size[s] /\ r.bytes = Whole(size[s])
    /\ ~ \E q \in rows : q.sess = s

Record(s) ==
    /\ s \in open
    /\ \E r \in rows' \ rows :
          /\ r.sess = s
          /\ rows' = rows \cup {r}
          /\ cause[s] = {} => Sound(r, s)
    /\ UNCHANGED <<open, size, cause>>

\* A crash may strike several uploads, but none that was not open.
Strike ==
    /\ cause' = [s \in Sessions |-> cause'[s]]
    /\ \A s \in Sessions :
          cause[s] \subseteq cause'[s] /\ (cause'[s] # cause[s] => s \in open)
    /\ UNCHANGED <<open, size, rows>>

Next == (\E s \in Sessions : Open(s) \/ Record(s)) \/ Strike

Spec == Init /\ [][Next]_tvars
=============================================================================
