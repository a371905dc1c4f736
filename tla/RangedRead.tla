----------------------------- MODULE RangedRead -----------------------------
(***************************************************************************)
(* Serving a stored file or a part of it: DownloadFile and PreviewFile     *)
(* with parseRangeHeader and openContentReader of file_controller.go, on   *)
(* top of DecryptStream of internal/crypto/stream.go.                      *)
(*                                                                         *)
(* EncryptStream makes one frame of every Write, so a stored file is a     *)
(* sequence of chunks of any positive length.  SeekTo finds the chunk of a *)
(* plaintext offset by walking over the frame lengths; how it moves the    *)
(* underlying reader depends on what that reader can do.  The handlers     *)
(* always pass an *os.File; the other readers stand for other users of     *)
(* DecryptStream, who have one key.                                        *)
(*                                                                         *)
(* The bytes of the plaintext are numbered 1, 2, 3 ...  A chunk decrypts   *)
(* only under the key it was encrypted with.                               *)
(***************************************************************************)
EXTENDS Integers, Sequences, FiniteSets, FiniteSetsExt

CONSTANTS
    MaxChunks,   \* most chunks of a file
    MaxLen,      \* longest chunk
    MaxOffset,   \* largest number in a Range header
    BufSize,     \* length of the buffer io.CopyBuffer reads into
    Readers      \* what DecryptStream reads from: "file", "seeker", "stream"

ASSUME ReadConstants ==
    /\ MaxChunks \in Nat /\ MaxLen \in Nat \ {0} /\ MaxOffset \in Nat
    /\ BufSize \in Nat \ {0}
    /\ Readers \subseteq {"file", "seeker", "stream"}

None == -1   \* a number left out of a Range header
Bad  == -2   \* one that strconv.ParseInt refuses

VARIABLES
    ends,     \* the plaintext offset at which each stored chunk ends
    enc,      \* the key they are encrypted with: "active" or "legacy"; or none, for
              \*   a file whose first four bytes show that ("raw") or do not ("unclear")
    vault,    \* the file is in the vault
    src,      \* the reader under DecryptStream
    want,     \* the Range header
    pc,       \* where the handler stands
    key,      \* the key openContentReader is trying
    start,    \* first byte to send, counted from 0
    limit,    \* chunkLen
    status,   \* HTTP status, 0 before it is known
    at,       \* currentOffset
    disk,     \* the chunk diskPos points to
    pos,      \* the next chunk the reader returns
    buf,      \* DecryptStream.buf
    body      \* what has been sent

fileVars   == <<ends, enc, vault, src, want>>
answerVars == <<start, limit, status>>
vars == <<fileVars, answerVars, pc, key, at, disk, pos, buf, body>>

\* The bytes a+1 .. b.
Bytes(a, b) == [i \in 1..(b - a) |-> a + i]

\* Plaintext bytes before chunk i.
Before(i) == IF i = 1 THEN 0 ELSE ends[i - 1]

Total == Before(Len(ends) + 1)

\* The length of chunk i, as its frame states it, and its plaintext.
ChunkLen(i) == Before(i + 1) - Before(i)

Chunk(i) == Bytes(Before(i), Before(i + 1))

\* The files EncryptStream writes: any number of chunks, none of them empty.
Chunkings ==
    {e \in UNION {[1..n -> 1..(n * MaxLen)] : n \in 0..MaxChunks} :
        \A i \in DOMAIN e : /\ e[i] <= MaxLen + IF i = 1 THEN 0 ELSE e[i - 1]
                            /\ \A j \in 1..(i - 1) : e[j] < e[i]}

Init ==
    /\ ends \in Chunkings
    /\ vault \in BOOLEAN
    /\ src \in Readers
    /\ enc \in IF vault \/ src # "file" THEN {"active"} ELSE {"active", "legacy", "raw", "unclear"}
    /\ want \in [first : {None, Bad} \cup 0..MaxOffset, last : {None, Bad} \cup 0..MaxOffset]
    /\ pc = "parse" /\ key = "active"
    /\ start = 0 /\ limit = 0 /\ status = 0
    /\ at = 0 /\ disk = 1 /\ pos = 1
    /\ buf = <<>> /\ body = <<>>

-----------------------------------------------------------------------------
(* parseRangeHeader.  Both numbers missing stands for a request without a  *)
(* Range header, or with one that is not of the form bytes=a-b; "bytes=-"  *)
(* has a bad first number.                                                 *)

IsRange(w) == w.first # None \/ w.last # None

Satisfiable(w) ==
    /\ Bad \notin {w.first, w.last}
    /\ IF w.first = None THEN w.last > 0 /\ Total > 0
       ELSE w.first < Total /\ (w.last = None \/ w.last >= w.first)

RangeStart(w) ==
    IF w.first # None THEN w.first
    ELSE IF w.last > Total THEN 0 ELSE Total - w.last

RangeEnd(w) ==
    IF w.first = None \/ w.last = None \/ w.last >= Total THEN Total - 1 ELSE w.last

Parse ==
    /\ pc = "parse"
    /\ IF IsRange(want) /\ ~ Satisfiable(want)
       THEN /\ status' = 416 /\ pc' = "done"
            /\ UNCHANGED <<start, limit>>
       ELSE /\ status' = IF IsRange(want) THEN 206 ELSE 200
            /\ start' = IF IsRange(want) THEN RangeStart(want) ELSE 0
            /\ limit' = IF IsRange(want) THEN RangeEnd(want) - RangeStart(want) + 1 ELSE Total
            /\ pc' = "open"
    /\ UNCHANGED <<fileVars, key, at, disk, pos, buf, body>>

-----------------------------------------------------------------------------
(* openContentReader *)

\* The bytes on disk from the offset on, without decryption.
Plain == Bytes(start, Total)

\* The first four bytes are no chunk length: the file is sent as it is.
OpenRaw ==
    /\ pc = "open"
    /\ enc = "raw" /\ Total > 0
    /\ buf' = Plain
    /\ pos' = Len(ends) + 1
    /\ pc' = "read"
    /\ UNCHANGED <<fileVars, answerVars, key, at, disk, body>>

(***************************************************************************)
(* The key does not decrypt the file.  Outside the vault the legacy key is *)
(* tried next and then the bytes on disk; in the vault the request fails.  *)
(***************************************************************************)
KeyFails ==
    IF vault THEN /\ status' = 500 /\ pc' = "done"
                  /\ UNCHANGED <<key, pos, buf>>
    ELSE IF key = "active"
    THEN key' = "legacy" /\ pc' = "open" /\ pos' = 1 /\ UNCHANGED <<status, buf>>
    ELSE pc' = "read" /\ pos' = Len(ends) + 1 /\ buf' = Plain /\ UNCHANGED <<key, status>>

\* From the beginning: PreloadFirstChunk.
OpenWhole ==
    /\ pc = "open"
    /\ start = 0 /\ ~ (enc = "raw" /\ Total > 0)
    /\ IF ends # <<>> /\ key = enc
       THEN /\ buf' = Chunk(1) /\ pos' = 2 /\ pc' = "read"
            /\ UNCHANGED <<key, status>>
       ELSE KeyFails
    /\ UNCHANGED <<fileVars, start, limit, at, disk, body>>

(***************************************************************************)
(* SeekTo on a file that is not encrypted and yet not recognised: it has   *)
(* fewer than four bytes, or they read as a chunk length (an MP4 begins    *)
(* with the length of its first box).  The walk over what it takes for     *)
(* chunks fails at a read, a length or the tag of the target; or it comes  *)
(* out exactly at the offset, where nothing is decrypted and so nothing    *)
(* shows that this is no chunk.  It does not depend on the key.            *)
(***************************************************************************)
OpenUnclear ==
    /\ pc = "open"
    /\ start > 0 /\ enc = "unclear"
    /\ \/ KeyFails
       \/ key = "active" /\ pc' = "read" /\ pos' = 1 /\ UNCHANGED <<key, status, buf>>
    /\ UNCHANGED <<fileVars, start, limit, at, disk, body>>

\* From an offset: SeekTo.  Without a seeker the offset is read and discarded.
OpenSeek ==
    /\ pc = "open"
    /\ start > 0 /\ enc \in {"active", "legacy"}
    /\ buf' = <<>> /\ at' = 0 /\ disk' = 1 /\ pos' = 1
    /\ pc' = IF src = "stream" THEN "discard" ELSE "scan"
    /\ UNCHANGED <<fileVars, answerVars, key, body>>

\* The whole chunk lies before the offset.
SkipChunk(i) == at + ChunkLen(i) <= start

\* Mutant: the scan does not move on.
BugNoAdvance(i) == UNCHANGED <<at, disk>>

Advance(i) == at' = at + ChunkLen(i) /\ disk' = i + 1

\* A plain io.ReadSeeker moves with the scan, an io.ReaderAt stays where it is.
ScanSkip ==
    /\ pc = "scan"
    /\ at < start /\ SkipChunk(disk)
    /\ Advance(disk)
    /\ pos' = IF src = "seeker" THEN disk + 1 ELSE pos
    /\ UNCHANGED <<fileVars, answerVars, pc, key, buf, body>>

\* The offset lies in this chunk: it is decrypted and its head is dropped.
ScanHit ==
    /\ pc = "scan"
    /\ at < start /\ ~ SkipChunk(disk)
    /\ IF key = enc
       THEN /\ buf' = SubSeq(Chunk(disk), start - at + 1, ChunkLen(disk))
            /\ pos' = disk + 1 /\ pc' = "read"
            /\ UNCHANGED <<key, status>>
       ELSE KeyFails
    /\ UNCHANGED <<fileVars, start, limit, at, disk, body>>

\* The loop ends because the offset is reached.
ScanEnd ==
    /\ pc = "scan"
    /\ at >= start
    /\ pc' = "read"
    /\ UNCHANGED <<fileVars, answerVars, key, at, disk, pos, buf, body>>

-----------------------------------------------------------------------------
(* DecryptStream.Read *)

Least(a, b) == IF a < b THEN a ELSE b

\* What a Read finds: the rest of the last chunk, or the next chunk.
Available == IF buf # <<>> THEN buf ELSE Chunk(pos)

\* The reader is exhausted, or the next chunk does not decrypt.
AtEnd == buf = <<>> /\ pos > Len(ends)
Garbled == buf = <<>> /\ pos <= Len(ends) /\ key # enc

\* Mutant: the part of the chunk that does not fit is thrown away.
BugDropRest(n) == <<>>

Rest(n) == SubSeq(Available, n + 1, Len(Available))

Consume(n) ==
    /\ buf' = Rest(n)
    /\ pos' = IF buf = <<>> THEN pos + 1 ELSE pos

\* io.CopyN to io.Discard
Discard ==
    /\ pc = "discard"
    /\ IF at = start THEN pc' = "read" /\ UNCHANGED <<at, key, buf, pos, status>>
       ELSE IF AtEnd \/ Garbled THEN KeyFails /\ UNCHANGED at
       ELSE LET n == Least(start - at, Len(Available)) IN
            at' = at + n /\ Consume(n) /\ UNCHANGED <<pc, key, status>>
    /\ UNCHANGED <<fileVars, start, limit, disk, body>>

\* One round of io.CopyBuffer; a partial answer is limited to chunkLen bytes.
Send ==
    /\ pc = "read"
    /\ LET room == IF status = 206 THEN limit - Len(body) ELSE BufSize
           n    == Least(Least(BufSize, room), Len(Available))
       IN IF room = 0 \/ AtEnd \/ Garbled
          THEN pc' = "done" /\ UNCHANGED <<buf, pos, body>>
          ELSE body' = body \o SubSeq(Available, 1, n) /\ Consume(n) /\ UNCHANGED pc
    /\ UNCHANGED <<fileVars, answerVars, key, at, disk>>

\* The request has been answered.
Answered == pc = "done" /\ UNCHANGED vars

Next ==
    \/ Parse \/ OpenRaw \/ OpenWhole \/ OpenUnclear \/ OpenSeek
    \/ ScanSkip \/ ScanHit \/ ScanEnd \/ Discard \/ Send
    \/ Answered

\* The handler runs to its end: all of this is sequential code.
Spec == Init /\ [][Next]_vars /\ WF_vars(Next)

-----------------------------------------------------------------------------
\* Every variable has the shape its Go counterpart has.
TypeOK ==
    /\ pc \in {"parse", "open", "scan", "discard", "read", "done"}
    /\ key \in {"active", "legacy"}
    /\ status \in {0, 200, 206, 416, 500}
    /\ start \in 0..Total /\ limit \in 0..Total /\ at \in 0..Total
    /\ disk \in 1..(Len(ends) + 1) /\ pos \in 1..(Len(ends) + 1)
    /\ Len(buf) <= Total /\ Len(body) <= Total

(***************************************************************************)
(* Which bytes a Range header selects: the bytes of the file from first to *)
(* last, or the last ones, counted from 0; none if it cannot be read.      *)
(***************************************************************************)
Selected ==
    {i \in 0..(Total - 1) :
        /\ Bad \notin {want.first, want.last}
        /\ want.first # None => i >= want.first
        /\ want.first # None /\ want.last # None => i <= want.last
        /\ want.first = None /\ want.last # None => i >= Total - want.last}

\* The answer is complete and right.
Exact ==
    IF IsRange(want) /\ Selected = {} THEN status = 416
    ELSE /\ status = IF IsRange(want) THEN 206 ELSE 200
         /\ Len(body) = Cardinality(Selected)
         /\ \A j \in 1..Len(body) : body[j] = Min(Selected) + j

\* The offset is the beginning of a chunk other than the first.
OnBoundary == start > 0 /\ \E i \in 1..Len(ends) : start = Before(i)

EmptyInVault == vault /\ ends = <<>>

\* The case in which SeekTo leaves an *os.File at its beginning.
SeekStays == src = "file" /\ enc \in {"active", "legacy"} /\ OnBoundary

\* The case in which SeekTo may be content with a file that has no chunks.
Misread == enc = "unclear" /\ start > 0

(***************************************************************************)
(* DownloadFile and PreviewFile send exactly the bytes that were asked     *)
(* for, whatever the chunking of the stored file, the key it is under and  *)
(* the buffer length, and refuse with 416 exactly the ranges that select   *)
(* nothing.  Three cases are outside: nothing is claimed where SeekTo does *)
(* not do what its comment says (SeekStays; stream.go:184, "skips forward  *)
(* to the requested plaintext byte offset"); an empty file in the vault    *)
(* cannot be opened; and an unencrypted file that is not recognised may be *)
(* answered with nothing, but never with other bytes.                      *)
(***************************************************************************)
BodyIsRange ==
    pc = "done" /\ ~ EmptyInVault /\ ~ SeekStays =>
        Exact \/ (Misread /\ status = 206 /\ body = <<>>)

\* Every request is answered: the scan over the chunks ends.
EveryRequestAnswered == <>(pc = "done")
=============================================================================
