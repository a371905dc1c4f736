------------------------ MODULE AcceleratedDownload ------------------------
(***************************************************************************)
(* Multi-connection downloads: PieceCoordinator and DownloadToFile of      *)
(* internal/download/accelerated.go with the bitset journal of state.go.   *)
(*                                                                         *)
(* A pool of workers takes pieces of the file from a shared table, fetches *)
(* them over HTTP and writes them at their offset.  A piece another worker *)
(* has had no data for is handed out a second time (hedging), a failed     *)
(* fetch puts the piece back, and a piece that has used up its attempts is *)
(* given up.  The caller waits for all workers and then decides.           *)
(*                                                                         *)
(* A piece is one unit of bytes.  Time is left out: any piece in flight    *)
(* may have been silent for longer than StallTimeout.                      *)
(***************************************************************************)
EXTENDS Integers, FiniteSets

CONSTANTS
    N,            \* totalPieces
    Workers,      \* the worker goroutines
    NoWorker,     \* WorkerID of a piece never handed out
    MaxRetries,   \* MaxRetriesPerBlock
    MaxFailures,  \* bound on failed fetches
    MayCancel     \* TRUE: the task's context may be cancelled

ASSUME AccelConstants ==
    /\ N \in Nat \ {0}
    /\ MaxRetries \in Nat \ {0}
    /\ MaxFailures \in Nat
    /\ MayCancel \in BOOLEAN
    /\ NoWorker \notin Workers

Pieces == 0 .. N - 1

VARIABLES
    pstatus,    \* Piece.Status
    owner,      \* Piece.WorkerID
    attempts,   \* Piece.Attempts
    completed,  \* PieceCoordinator.completed
    filled,     \* pieces whose bytes are all in the target file
    bits,       \* DownloadState's bitset
    saved,      \* the bitset in the state file
    wpc,        \* where each worker stands
    piece,      \* the piece it works on
    cancelled,  \* workerCtx is done
    result,     \* what DownloadToFile returns, "running" until then
    failures    \* failed fetches so far

coordVars == <<pstatus, owner, attempts, completed>>
stateVars == <<bits, saved>>
accelVars == <<coordVars, filled, stateVars, wpc, piece, cancelled, result, failures>>

(***************************************************************************)
(* DownloadToFile may be handed the target file and the state file of an   *)
(* earlier call: ApplyBitset marks its pieces completed, and they are in   *)
(* the file already.  executeDownload always hands it an empty file and no *)
(* state file, old = {}.                                                   *)
(***************************************************************************)
AccelInit ==
    \E old \in SUBSET Pieces :
        /\ pstatus = [p \in Pieces |-> IF p \in old THEN "completed" ELSE "pending"]
        /\ owner = [p \in Pieces |-> NoWorker]
        /\ attempts = [p \in Pieces |-> 0]
        /\ completed = Cardinality(old)
        /\ filled = old /\ bits = old /\ saved = old
        /\ wpc = [w \in Workers |-> "loop"]
        /\ piece = [w \in Workers |-> 0]
        /\ cancelled = FALSE
        /\ result = "running"
        /\ failures = 0

\* Mutant: the last piece is waited for twice.
BugNeverCompleted == completed > N

IsCompleted == completed >= N

-----------------------------------------------------------------------------
(* The worker loop *)

\* Stalled pieces that NextPiece may hand out a second time.
Stalled(w) ==
    {p \in Pieces : pstatus[p] = "inflight" /\ owner[p] # w /\ attempts[p] < MaxRetries}

Pending == {p \in Pieces : pstatus[p] = "pending"}

\* The pieces NextPiece(w) may return: the first pending one, else a stalled one.
Candidates(w) ==
    IF Pending # {} THEN {p \in Pending : \A q \in Pending : p <= q} ELSE Stalled(w)

WorkerTake(w) ==
    /\ wpc[w] = "loop"
    /\ ~ cancelled /\ ~ IsCompleted
    /\ \E p \in Candidates(w) :
          /\ pstatus' = [pstatus EXCEPT ![p] = "inflight"]
          /\ owner' = [owner EXCEPT ![p] = w]
          /\ attempts' = [attempts EXCEPT ![p] = @ + 1]
          /\ piece' = [piece EXCEPT ![w] = p]
    /\ wpc' = [wpc EXCEPT ![w] = "fetch"]
    /\ UNCHANGED <<completed, filled, stateVars, cancelled, result, failures>>

\* The context is done or all pieces are.
WorkerExit(w) ==
    /\ wpc[w] = "loop"
    /\ cancelled \/ IsCompleted
    /\ wpc' = [wpc EXCEPT ![w] = "gone"]
    /\ UNCHANGED <<coordVars, filled, stateVars, piece, cancelled, result, failures>>

\* Mutant: the length of the received piece is not compared with its range.
BugShortPiece(w) ==
    /\ wpc[w] = "fetch"
    /\ wpc' = [wpc EXCEPT ![w] = "mark"]
    /\ UNCHANGED <<coordVars, filled, stateVars, piece, cancelled, result, failures>>

\* downloadPiece writes the whole piece and returns nil.
FetchOK(w) ==
    /\ wpc[w] = "fetch"
    /\ filled' = filled \cup {piece[w]}
    /\ wpc' = [wpc EXCEPT ![w] = "mark"]
    /\ UNCHANGED <<coordVars, stateVars, piece, cancelled, result, failures>>

\* Mutant: a failed piece that was completed meanwhile is put back.
BugRequeue(p) ==
    pstatus' = [pstatus EXCEPT ![p] = IF attempts[p] >= MaxRetries THEN "failed" ELSE "pending"]

RequeuePiece(p) ==
    pstatus' = IF pstatus[p] = "completed" THEN pstatus
               ELSE [pstatus EXCEPT ![p] = IF attempts[p] >= MaxRetries
                                           THEN "failed" ELSE "pending"]

(***************************************************************************)
(* downloadPiece returns an error: refused, rate limited, broken off, or   *)
(* of the wrong length, possibly after its last byte was written.          *)
(***************************************************************************)
FetchFails(w) ==
    /\ wpc[w] = "fetch"
    /\ failures < MaxFailures
    /\ failures' = failures + 1
    /\ filled' \in {filled, filled \cup {piece[w]}}
    /\ RequeuePiece(piece[w])
    /\ wpc' = [wpc EXCEPT ![w] = "loop"]
    /\ UNCHANGED <<owner, attempts, completed, stateVars, piece, cancelled, result>>

\* downloadPiece returns context.Canceled: the worker leaves the piece as it is.
FetchCancelled(w) ==
    /\ wpc[w] = "fetch"
    /\ cancelled
    /\ wpc' = [wpc EXCEPT ![w] = "gone"]
    /\ UNCHANGED <<coordVars, filled, stateVars, piece, cancelled, result, failures>>

\* Mutant: a piece delivered by two workers is counted twice.
BugCountTwice(p) ==
    /\ pstatus' = [pstatus EXCEPT ![p] = "completed"]
    /\ completed' = completed + 1

MarkCompleted(p) ==
    IF pstatus[p] # "completed"
    THEN /\ pstatus' = [pstatus EXCEPT ![p] = "completed"]
         /\ completed' = completed + 1
    ELSE UNCHANGED <<pstatus, completed>>

WorkerMark(w) ==
    /\ wpc[w] = "mark"
    /\ MarkCompleted(piece[w])
    /\ wpc' = [wpc EXCEPT ![w] = "journal"]
    /\ UNCHANGED <<owner, attempts, filled, stateVars, piece, cancelled, result, failures>>

\* state.MarkBlockCompleted
WorkerJournal(w) ==
    /\ wpc[w] = "journal"
    /\ bits' = bits \cup {piece[w]}
    /\ wpc' = [wpc EXCEPT ![w] = "loop"]
    /\ UNCHANGED <<coordVars, filled, saved, piece, cancelled, result, failures>>

-----------------------------------------------------------------------------
(* The state saver, the caller, cancellation *)

\* stateTicker: state.Save; a temporary file and a rename.
SaveState ==
    /\ result = "running" /\ ~ cancelled
    /\ saved # bits
    /\ saved' = bits
    /\ UNCHANGED <<coordVars, filled, bits, wpc, piece, cancelled, result, failures>>

Cancel ==
    /\ MayCancel /\ ~ cancelled
    /\ cancelled' = TRUE
    /\ UNCHANGED <<coordVars, filled, stateVars, wpc, piece, result, failures>>

(***************************************************************************)
(* wg.Wait returns; the caller closes progressStop and decides.  errChan   *)
(* is never written.                                                       *)
(***************************************************************************)
AllGone == \A w \in Workers : wpc[w] = "gone"

Outcome == IF IsCompleted THEN "ok" ELSE IF cancelled THEN "cancelled" ELSE "incomplete"

Return ==
    /\ result = "running" /\ AllGone
    /\ result' = Outcome
    /\ saved' = IF Outcome = "incomplete" THEN saved ELSE bits
    /\ UNCHANGED <<coordVars, filled, bits, wpc, piece, cancelled, failures>>

-----------------------------------------------------------------------------
WorkerStep(w) ==
    \/ WorkerTake(w) \/ WorkerExit(w) \/ FetchOK(w) \/ FetchFails(w)
    \/ FetchCancelled(w) \/ WorkerMark(w) \/ WorkerJournal(w)

AccelNext == (\E w \in Workers : WorkerStep(w)) \/ Return \/ SaveState \/ Cancel

AccelSpec == AccelInit /\ [][AccelNext]_accelVars

(***************************************************************************)
(* Workers and the caller keep running, and every HTTP exchange ends one   *)
(* way or the other: the client has a timeout.                             *)
(***************************************************************************)
AccelFairSpec ==
    AccelSpec /\ (\A w \in Workers : WF_accelVars(WorkerStep(w))) /\ WF_accelVars(Return)

-----------------------------------------------------------------------------
DonePieces == {p \in Pieces : pstatus[p] = "completed"}

\* Every variable has the shape its Go counterpart has.
AccelTypeOK ==
    /\ pstatus \in [Pieces -> {"pending", "inflight", "completed", "failed"}]
    /\ owner \in [Pieces -> Workers \cup {NoWorker}]
    /\ attempts \in [Pieces -> Nat]
    /\ completed \in 0..N
    /\ filled \subseteq Pieces /\ bits \subseteq Pieces /\ saved \subseteq Pieces
    /\ wpc \in [Workers -> {"loop", "fetch", "mark", "journal", "gone"}]
    /\ piece \in [Workers -> Pieces]
    /\ cancelled \in BOOLEAN
    /\ result \in {"running", "ok", "cancelled", "incomplete"}
    /\ failures \in 0..MaxFailures

(***************************************************************************)
(* DownloadToFile reports success only for a file that has all its pieces, *)
(* however fetches were hedged, failed late or were cancelled meanwhile.   *)
(***************************************************************************)
SuccessIsWhole == result = "ok" => filled = Pieces

(***************************************************************************)
(* The journal on disk never claims a piece the file lacks, so a restart   *)
(* from it (LoadDownloadState, ApplyBitset) leaves no hole.                *)
(***************************************************************************)
JournalSound == saved \subseteq filled

(***************************************************************************)
(* The atomic counter that IsCompleted reads without the mutex is the      *)
(* number of completed pieces, also when a piece is delivered twice.       *)
(***************************************************************************)
CountExact == completed = Cardinality(DonePieces)

\* No piece is fetched more often than MaxRetriesPerBlock, hedging included.
AttemptsBounded == \A p \in Pieces : attempts[p] <= MaxRetries

(***************************************************************************)
(* A completed piece stays completed: the late failure of the worker that  *)
(* was overtaken (RequeuePiece) does not throw away the other's work.      *)
(***************************************************************************)
NeverUncompleted ==
    [][\A p \in Pieces : pstatus[p] = "completed" => pstatus'[p] = "completed"]_accelVars

(***************************************************************************)
(* DownloadToFile implements PieceFile: no late failure takes a completed  *)
(* piece back, the journal never runs ahead of the pieces, success is told *)
(* exactly if all are there, and the file is left alone afterwards.        *)
(***************************************************************************)
Target == INSTANCE PieceFile WITH done <- DonePieces

ImplementsFile == Target!Spec

(***************************************************************************)
(* DownloadToFile returns, also when hedged fetches, failures, requeued    *)
(* pieces and a cancellation meet; the one way not to is that a piece has  *)
(* used up its attempts and nobody ever cancels.                           *)
(***************************************************************************)
ReturnsUnlessGivenUp ==
    \/ <>(result # "running")
    \/ <>[](~ cancelled /\ \E p \in Pieces : pstatus[p] = "failed")
=============================================================================
