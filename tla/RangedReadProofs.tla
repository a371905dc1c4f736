-------------------------- MODULE RangedReadProofs --------------------------
(***************************************************************************)
(* Proofs about RangedRead, for files of any number and lengths of chunks, *)
(* any Range header, any reader and any length of the copy buffer.         *)
(***************************************************************************)
EXTENDS RangedRead, FiniteSetTheorems, SequenceTheorems, TLAPS

\* The stored file and the request.  Chunks end one after the other.
FileOK ==
    /\ ends \in Seq(Nat)
    /\ \A i \in 1..Len(ends) : ends[i] > 0 /\ \A j \in 1..(i - 1) : ends[j] < ends[i]
    /\ vault \in BOOLEAN /\ src \in {"file", "seeker", "stream"}
    /\ enc \in {"active", "legacy", "raw", "unclear"}
    /\ vault \/ src # "file" => enc = "active"
    /\ want \in [first : Nat \cup {None, Bad}, last : Nat \cup {None, Bad}]

\* What parseRangeHeader makes of the request.
Sought    == IF IsRange(want) THEN RangeStart(want) ELSE 0
SoughtLen == IF IsRange(want) THEN RangeEnd(want) - RangeStart(want) + 1 ELSE Total
Granted   == IsRange(want) => Satisfiable(want)

AnswerOK ==
    IF pc = "parse" THEN start = 0 /\ limit = 0 /\ status = 0 /\ key = "active"
    ELSE \/ pc = "done" /\ status = 416 /\ ~ Granted
         \/ /\ Granted /\ start = Sought /\ limit = SoughtLen
            /\ \/ status = IF IsRange(want) THEN 206 ELSE 200
               \/ pc = "done" /\ status = 500 /\ EmptyInVault

\* The legacy key is tried only where the active one was found not to fit.
KeyOK == key = "legacy" => (ends = <<>> \/ enc \in {"legacy", "unclear"}) /\ ~ SeekStays

\* The next byte DecryptStream.Read returns is byte c; buf ends with a chunk.
Cursor(c) ==
    /\ pos \in 1..(Len(ends) + 1)
    /\ c \in 0..Before(pos)
    /\ buf = Bytes(c, Before(pos))

\* The first byte that is really sent.
Base == IF SeekStays THEN 0 ELSE start

\* SeekTo was satisfied without a chunk that would have shown the wrong key.
WrongKey == SeekStays /\ enc = "legacy"

\* SeekTo was satisfied with a file the key does not open: nothing is sent.
Blind ==
    /\ WrongKey \/ Misread
    /\ body = <<>> /\ buf = <<>> /\ pos = 1 /\ key = "active"

\* What was sent is a run from Base up to the cursor.
Running ==
    /\ ~ WrongKey
    /\ \E n \in Nat :
          /\ body = Bytes(Base, Base + n) /\ Cursor(Base + n)
          /\ status = 206 => n <= limit
          /\ pos <= Len(ends) => key = enc

Sending == Blind \/ Running

\* The scan stands at the beginning of a chunk, not behind the offset.
Scanning ==
    /\ src # "stream" /\ enc \in {"active", "legacy"} /\ start > 0
    /\ disk \in 1..(Len(ends) + 1) /\ at = Before(disk) /\ at <= start
    /\ pos = IF src = "seeker" THEN disk ELSE 1

StageOK ==
    /\ pc \in {"parse", "open", "scan", "discard"} => body = <<>>
    /\ pc \in {"parse", "open", "scan"} => buf = <<>>
    /\ pc = "scan" => Scanning
    /\ pc = "discard" => src = "stream" /\ start > 0 /\ at <= start /\ Cursor(at)
    /\ pc = "read" => Sending
    /\ pc = "done" /\ status \in {416, 500} => body = <<>> /\ buf = <<>>
    /\ pc = "done" /\ status \notin {416, 500} =>
          \/ (WrongKey \/ Misread) /\ body = <<>>
          \/ ~ WrongKey /\ body = Bytes(Base, Base + limit)

ReadInv == FileOK /\ TypeOK /\ AnswerOK /\ KeyOK /\ StageOK

-----------------------------------------------------------------------------
(* Runs of bytes *)

LEMMA BytesType ==
  ASSUME NEW a \in Nat, NEW b \in Nat, a <= b
  PROVE  /\ Bytes(a, b) \in Seq(Nat) /\ Len(Bytes(a, b)) = b - a
         /\ \A i \in 1..(b - a) : Bytes(a, b)[i] = a + i
<1> DEFINE s == Bytes(a, b)
<1>1. b - a \in Nat /\ s \in [1..(b - a) -> Nat] /\ \A i \in 1..(b - a) : s[i] = a + i
  BY DEF Bytes
<1> HIDE DEF s
<1>2. s \in Seq(Nat)
  BY <1>1, SeqDef
<1>3. Len(s) = b - a
  BY <1>1, <1>2, LenProperties
<1> QED
  BY <1>1, <1>2, <1>3 DEF s

LEMMA BytesEmpty ==
  ASSUME NEW a \in Nat, NEW b \in Nat, a <= b
  PROVE  Bytes(a, b) = <<>> <=> a = b
<1>1. Bytes(a, b) \in Seq(Nat) /\ Len(Bytes(a, b)) = b - a
  BY BytesType
<1> QED
  BY <1>1, EmptySeq

\* The beginning and the rest of a run are runs.
LEMMA BytesHead ==
  ASSUME NEW a \in Nat, NEW b \in Nat, NEW n \in Nat, n <= b - a
  PROVE  SubSeq(Bytes(a, b), 1, n) = Bytes(a, a + n)
<1> DEFINE s == Bytes(a, b)
           t == Bytes(a, a + n)
           u == SubSeq(s, 1, n)
<1>1. s \in Seq(Nat) /\ Len(s) = b - a /\ \A i \in 1..(b - a) : s[i] = a + i
  <2>1. a <= b
    OBVIOUS
  <2> QED
    BY <2>1, BytesType
<1>2. t \in Seq(Nat) /\ Len(t) = n /\ \A i \in 1..(n) : t[i] = a + i
  <2>1. a + n \in Nat /\ a <= a + n /\ (a + n) - (a) = n
    OBVIOUS
  <2> QED
    BY <2>1, BytesType
<1>3. u \in Seq(Nat) /\ Len(u) = n /\ \A i \in 1..(n) : u[i] = a + i
  <2> HIDE DEF s
  <2> QED
    BY <1>1
<1> HIDE DEF s, t, u
<1>4. u = t
  BY <1>2, <1>3, SeqEqual
<1> QED
  BY <1>4 DEF s, t, u

LEMMA BytesRest ==
  ASSUME NEW a \in Nat, NEW b \in Nat, NEW n \in Nat, n <= b - a
  PROVE  SubSeq(Bytes(a, b), n + 1, b - a) = Bytes(a + n, b)
<1> DEFINE s == Bytes(a, b)
           t == Bytes(a + n, b)
           u == SubSeq(s, n + 1, b - a)
<1>1. s \in Seq(Nat) /\ Len(s) = b - a /\ \A i \in 1..(b - a) : s[i] = a + i
  <2>1. a <= b
    OBVIOUS
  <2> QED
    BY <2>1, BytesType
<1>2. t \in Seq(Nat) /\ Len(t) = b - a - n /\ \A i \in 1..(b - a - n) : t[i] = a + n + i
  <2>1. a + n \in Nat /\ a + n <= b /\ (b) - (a + n) = b - a - n
    OBVIOUS
  <2> QED
    BY <2>1, BytesType
<1>3. u \in Seq(Nat) /\ Len(u) = b - a - n /\ \A i \in 1..(b - a - n) : u[i] = a + n + i
  <2> HIDE DEF s
  <2> QED
    BY <1>1
<1> HIDE DEF s, t, u
<1>4. u = t
  BY <1>2, <1>3, SeqEqual
<1> QED
  BY <1>4 DEF s, t, u

\* Two adjacent runs make one.
LEMMA BytesJoin ==
  ASSUME NEW a \in Nat, NEW b \in Nat, NEW c \in Nat, a <= b, b <= c
  PROVE  Bytes(a, b) \o Bytes(b, c) = Bytes(a, c)
<1> DEFINE s == Bytes(a, b)
           t == Bytes(b, c)
           u == Bytes(a, c)
<1>1. s \in Seq(Nat) /\ Len(s) = b - a /\ \A i \in 1..(b - a) : s[i] = a + i
  BY BytesType
<1>2. t \in Seq(Nat) /\ Len(t) = c - b /\ \A i \in 1..(c - b) : t[i] = b + i
  BY BytesType
<1>3. u \in Seq(Nat) /\ Len(u) = c - a /\ \A i \in 1..(c - a) : u[i] = a + i
  BY BytesType
<1> HIDE DEF s, t, u
<1>4. s \o t \in Seq(Nat) /\ Len(s \o t) = c - a
  <2>1. s \o t \in Seq(Nat) /\ Len(s \o t) = Len(s) + Len(t)
    BY <1>1, <1>2, ConcatProperties
  <2> QED
    BY <1>1, <1>2, <2>1
<1>5. \A i \in 1..(c - a) : (s \o t)[i] = u[i]
  <2> SUFFICES ASSUME NEW i \in 1..(c - a)
               PROVE  (s \o t)[i] = u[i]
    OBVIOUS
  <2>0. i <= b - a \/ i > b - a
    OBVIOUS
  <2>1. CASE i <= b - a
    BY <2>1, <1>1, <1>2, <1>3
  <2>2. CASE i > b - a
    <3>1. (s \o t)[i] = t[i - (b - a)] /\ i - (b - a) \in 1..(c - b)
      BY <2>2, <1>1, <1>2, SMTT(30)
    <3> QED
      BY <3>1, <1>2, <1>3
  <2> QED
    BY <2>0, <2>1, <2>2, Zenon
<1> QED
  BY <1>3, <1>4, <1>5, SeqEqual DEF s, t, u

-----------------------------------------------------------------------------
(* The stored file and the requested range *)

LEMMA BeforeLaw ==
  ASSUME FileOK
  PROVE  /\ Len(ends) \in Nat /\ Total \in Nat /\ Before(1) = 0
         /\ \A i \in 1..(Len(ends) + 1) : Before(i) \in Nat /\ Before(i) <= Total
         /\ \A i, j \in 1..(Len(ends) + 1) : i < j => Before(i) < Before(j)
         /\ Total = 0 <=> ends = <<>>
         /\ ends = <<>> <=> Len(ends) = 0
<1>1. /\ Len(ends) \in Nat /\ \A i \in 1..Len(ends) : ends[i] \in Nat
      /\ \A i \in 1..Len(ends) : ends[i] > 0 /\ \A j \in 1..(i - 1) : ends[j] < ends[i]
      /\ ends = <<>> <=> Len(ends) = 0
  BY EmptySeq DEF FileOK
<1>2. \A i \in 1..(Len(ends) + 1) : i = 1 \/ i - 1 \in 1..Len(ends)
  BY <1>1
<1>3. \A i \in 1..(Len(ends) + 1) : Before(i) \in Nat
  BY <1>1, <1>2 DEF Before
<1>4. \A i, j \in 1..(Len(ends) + 1) : i < j => Before(i) < Before(j)
  <2> SUFFICES ASSUME NEW i \in 1..(Len(ends) + 1), NEW j \in 1..(Len(ends) + 1), i < j
               PROVE  Before(i) < Before(j)
    OBVIOUS
  <2>1. Before(j) = ends[j - 1] /\ j - 1 \in 1..Len(ends)
    BY <1>1 DEF Before
  <2>2. CASE i = 1
    BY <1>1, <2>1, <2>2 DEF Before
  <2>3. CASE i # 1
    <3>1. Before(i) = ends[i - 1] /\ i - 1 \in 1..((j - 1) - 1)
      BY <1>1, <2>1, <2>3 DEF Before
    <3> QED
      BY <1>1, <2>1, <3>1
  <2> QED
    BY <2>2, <2>3
<1>5. Total \in Nat /\ Before(1) = 0
  BY <1>1, <1>3 DEF Total, Before
<1>6. \A i \in 1..(Len(ends) + 1) : Before(i) <= Total
  <2> SUFFICES ASSUME NEW i \in 1..(Len(ends) + 1)
               PROVE  Before(i) <= Total
    OBVIOUS
  <2>1. i = Len(ends) + 1 \/ i < Len(ends) + 1
    BY <1>1
  <2>2. Len(ends) + 1 \in 1..(Len(ends) + 1)
    BY <1>1
  <2> QED
    BY <1>3, <1>4, <2>1, <2>2 DEF Total
<1>7. Total = 0 <=> Len(ends) = 0
  <2>1. CASE Len(ends) = 0
    BY <1>5, <2>1 DEF Total
  <2>2. CASE Len(ends) # 0
    <3>1. 1 < Len(ends) + 1 /\ 1 \in 1..(Len(ends) + 1) /\ Len(ends) + 1 \in 1..(Len(ends) + 1)
      BY <1>1, <2>2
    <3> QED
      BY <1>3, <1>4, <1>5, <2>2, <3>1 DEF Total
  <2> QED
    BY <2>1, <2>2
<1> QED
  BY <1>1, <1>3, <1>4, <1>5, <1>6, <1>7

\* parseRangeHeader grants the ranges that select something, and finds their ends.
LEMMA SoughtLaw ==
  ASSUME FileOK, Granted
  PROVE  /\ Sought \in Nat /\ SoughtLen \in Nat /\ Sought + SoughtLen <= Total
         /\ Sought > 0 => IsRange(want) /\ Sought < Total
         /\ ~ IsRange(want) => Sought = 0 /\ SoughtLen = Total
         /\ IsRange(want) => SoughtLen > 0
         /\ Selected = Sought..(Sought + SoughtLen - 1)
<1>1. Total \in Nat /\ want.first \in Nat \cup {None, Bad} /\ want.last \in Nat \cup {None, Bad} /\ None = -1 /\ Bad = -2
  BY BeforeLaw DEF FileOK, None, Bad
<1> DEFINE f == want.first
           l == want.last
<1>3. IsRange(want) <=> f # None \/ l # None
  BY DEF IsRange
<1>0. f # Bad /\ l # Bad
  <2>1. CASE f = None /\ l = None
    BY <1>1, <2>1
  <2>2. CASE ~ (f = None /\ l = None)
    BY <1>3, <2>2 DEF Granted, Satisfiable
  <2> QED
    BY <2>1, <2>2
<1>2. Selected = {i \in 0..(Total - 1) :
                    /\ f # None => i >= f
                    /\ f # None /\ l # None => i <= l
                    /\ f = None /\ l # None => i >= Total - l}
  BY <1>0 DEF Selected
<1>4. CASE f = None /\ l = None
  <2>1. Sought = 0 /\ SoughtLen = Total
    BY <1>3, <1>4 DEF Sought, SoughtLen
  <2> QED
    BY <1>0, <1>1, <1>2, <1>3, <1>4, <2>1
<1>5. CASE f = None /\ l # None
  <2>1. l > 0 /\ Total > 0
    BY <1>3, <1>5 DEF Granted, Satisfiable
  <2>2. /\ Sought = (IF l > Total THEN 0 ELSE Total - l)
        /\ SoughtLen = (Total - 1) - Sought + 1
    BY <1>3, <1>5 DEF Sought, SoughtLen, RangeStart, RangeEnd
  <2>3. CASE l > Total
    BY <1>0, <1>1, <1>2, <1>3, <1>5, <2>1, <2>2, <2>3
  <2>4. CASE ~ (l > Total)
    BY <1>0, <1>1, <1>2, <1>3, <1>5, <2>1, <2>2, <2>4
  <2> QED
    BY <2>3, <2>4
<1>6. CASE f # None
  <2>1. f < Total /\ (l = None \/ l >= f)
    BY <1>3, <1>6 DEF Granted, Satisfiable
  <2>2. /\ Sought = f
        /\ SoughtLen = (IF l = None \/ l >= Total THEN Total - 1 ELSE l) - f + 1
    BY <1>3, <1>6 DEF Sought, SoughtLen, RangeStart, RangeEnd
  <2>3. CASE l = None \/ l >= Total
    BY <1>0, <1>1, <1>2, <1>3, <1>6, <2>1, <2>2, <2>3
  <2>4. CASE ~ (l = None \/ l >= Total)
    BY <1>0, <1>1, <1>2, <1>3, <1>6, <2>1, <2>2, <2>4
  <2> QED
    BY <2>3, <2>4
<1> QED
  BY <1>4, <1>5, <1>6

\* A range that is refused selects nothing.
LEMMA RefusedLaw ==
  ASSUME FileOK, ~ Granted
  PROVE  IsRange(want) /\ Selected = {}
<1>1. Total \in Nat /\ want.first \in Nat \cup {None, Bad} /\ want.last \in Nat \cup {None, Bad} /\ None = -1 /\ Bad = -2
  BY BeforeLaw DEF FileOK, None, Bad
<1>2. IsRange(want) /\ ~ Satisfiable(want)
  BY DEF Granted
<1> QED
  BY <1>1, <1>2 DEF IsRange, Satisfiable, Selected

-----------------------------------------------------------------------------
(* What the steps leave alone, and what Read does to the cursor *)

LEMMA FileKept ==
  ASSUME FileOK, UNCHANGED fileVars
  PROVE  /\ FileOK' /\ ends' = ends /\ enc' = enc /\ vault' = vault /\ src' = src /\ want' = want
         /\ Total' = Total /\ \A i : Before(i)' = Before(i)
         /\ Sought' = Sought /\ SoughtLen' = SoughtLen
         /\ (Granted' <=> Granted) /\ (IsRange(want)' <=> IsRange(want))
         /\ (EmptyInVault' <=> EmptyInVault)
<1>1. ends' = ends /\ enc' = enc /\ vault' = vault /\ src' = src /\ want' = want
  BY DEF fileVars
<1>2. FileOK'
  BY <1>1 DEF FileOK
<1>3. \A i : Before(i)' = Before(i)
  BY <1>1 DEF Before
<1>4. Total' = Total
  BY <1>1, <1>3 DEF Total
<1>5. IsRange(want)' <=> IsRange(want)
  BY <1>1 DEF IsRange
<1>6. Satisfiable(want)' <=> Satisfiable(want)
  BY <1>1, <1>4 DEF Satisfiable
<1>7. RangeStart(want)' = RangeStart(want) /\ RangeEnd(want)' = RangeEnd(want)
  BY <1>1, <1>4 DEF RangeStart, RangeEnd
<1> QED
  BY <1>1, <1>2, <1>3, <1>4, <1>5, <1>6, <1>7 DEF Sought, SoughtLen, Granted, EmptyInVault

\* While the offset stays, so does the case it belongs to.
LEMMA BaseKept ==
  ASSUME FileOK, UNCHANGED fileVars, start' = start
  PROVE  /\ (SeekStays' <=> SeekStays) /\ Base' = Base /\ (WrongKey' <=> WrongKey)
         /\ (Misread' <=> Misread)
<1>1. OnBoundary' <=> OnBoundary
  BY FileKept DEF OnBoundary
<1>2. SeekStays' <=> SeekStays
  BY <1>1, FileKept DEF SeekStays
<1> QED
  BY <1>2, FileKept DEF Base, WrongKey, Misread

\* Read returns the bytes from the cursor to the end of a chunk, or the first
\* n of them, and moves the cursor behind what it returned.
LEMMA CursorMoves ==
  ASSUME FileOK, NEW c \in Nat, Cursor(c), ~ AtEnd
  PROVE  \E e \in Nat :
            /\ c < e /\ e <= Total
            /\ Available = Bytes(c, e) /\ Len(Available) = e - c
            /\ \A n \in 1..(e - c) :
                  /\ SubSeq(Available, 1, n) = Bytes(c, c + n)
                  /\ Consume(n) /\ UNCHANGED fileVars =>
                        Cursor(c + n)' /\ (pos' <= Len(ends') => pos <= Len(ends))
<1>1. /\ Len(ends) \in Nat /\ pos \in 1..(Len(ends) + 1)
      /\ Before(pos) \in Nat /\ c <= Before(pos) /\ buf = Bytes(c, Before(pos))
      /\ buf = <<>> <=> c = Before(pos)
  BY BeforeLaw, BytesEmpty DEF Cursor
<1>2. PICK e \in Nat, q \in 1..(Len(ends) + 1) :
         /\ Before(q) = e /\ c < e /\ e <= Total /\ Available = Bytes(c, e)
         /\ pos <= q /\ q = IF buf = <<>> THEN pos + 1 ELSE pos
  <2>1. CASE buf = <<>>
    <3>1. pos <= Len(ends) /\ pos + 1 \in 1..(Len(ends) + 1) /\ pos < pos + 1
      BY <1>1, <2>1 DEF AtEnd
    <3>2. Before(pos) < Before(pos + 1) /\ Before(pos + 1) \in Nat /\ Before(pos + 1) <= Total
      BY <1>1, <3>1, BeforeLaw
    <3>3. Available = Bytes(c, Before(pos + 1))
      BY <1>1, <2>1 DEF Available, Chunk
    <3> QED
      BY <1>1, <2>1, <3>1, <3>2, <3>3
  <2>2. CASE buf # <<>>
    <3>1. Available = buf /\ c < Before(pos) /\ Before(pos) <= Total
      BY <1>1, <2>2, BeforeLaw DEF Available
    <3> QED
      BY <1>1, <2>2, <3>1
  <2> QED
    BY <2>1, <2>2
<1>3. Len(Available) = e - c
  <2>1. c <= e
    BY <1>2
  <2>2. Len(Bytes(c, e)) = e - c
    BY <2>1, BytesType
  <2> QED
    BY <1>2, <2>2
<1>4. ASSUME NEW n \in 1..(e - c)
      PROVE  /\ SubSeq(Available, 1, n) = Bytes(c, c + n)
             /\ Consume(n) /\ UNCHANGED fileVars =>
                   Cursor(c + n)' /\ (pos' <= Len(ends') => pos <= Len(ends))
  <2>1. n \in Nat /\ n <= e - c /\ c + n \in 0..e
    BY <1>2
  <2>2. SubSeq(Bytes(c, e), 1, n) = Bytes(c, c + n)
    BY <2>1, BytesHead
  <2>3. SubSeq(Bytes(c, e), n + 1, e - c) = Bytes(c + n, e)
    BY <2>1, BytesRest
  <2>4. ASSUME Consume(n), UNCHANGED fileVars
        PROVE  Cursor(c + n)' /\ (pos' <= Len(ends') => pos <= Len(ends))
    <3>1. pos' = q /\ buf' = Bytes(c + n, e)
      BY <1>2, <1>3, <2>1, <2>3, <2>4 DEF Consume, Rest
    <3>2. ends' = ends /\ Before(q)' = e
      BY <1>2, <2>4, FileKept
    <3>3. Before(pos)' = e
      BY <3>1, <3>2 DEF Before
    <3>4. Cursor(c + n)'
      BY <1>2, <2>1, <3>1, <3>2, <3>3 DEF Cursor
    <3> QED
      BY <1>1, <1>2, <3>1, <3>2, <3>4
  <2> QED
    BY <1>2, <2>1, <2>2, <2>4
<1> QED
  BY <1>2, <1>3, <1>4

\* Where the handler is at work, the range was granted and the file is there.
LEMMA AtWork ==
  ASSUME ReadInv, pc \notin {"parse", "done"}
  PROVE  /\ Granted /\ start = Sought /\ limit = SoughtLen
         /\ start \in Nat /\ limit \in Nat /\ start + limit <= Total
         /\ status = IF IsRange(want) THEN 206 ELSE 200
         /\ start > 0 => start < Total /\ ends # <<>> /\ status = 206
         /\ status # 206 => start = 0 /\ limit = Total
         /\ status = 200 \/ (status = 206 /\ limit > 0)
<1>1. /\ Granted /\ start = Sought /\ limit = SoughtLen
      /\ status = IF IsRange(want) THEN 206 ELSE 200
  BY DEF ReadInv, AnswerOK
<1>2. FileOK
  BY DEF ReadInv
<1> QED
  BY <1>1, <1>2, SoughtLaw, BeforeLaw

-----------------------------------------------------------------------------
(* The steps *)

LEMMA InvInit == Init => ReadInv
<1> SUFFICES ASSUME Init PROVE ReadInv
  OBVIOUS
<1>1. FileOK
  <2>1. PICK n \in Nat : ends \in [1..n -> 1..(n * MaxLen)]
    BY ReadConstants DEF Init, Chunkings
  <2>2. n * MaxLen \in Nat
    BY ReadConstants
  <2>3. ends \in [1..n -> Nat] /\ \A i \in 1..n : ends[i] > 0
    BY <2>1, <2>2
  <2>4. ends \in Seq(Nat) /\ Len(ends) = n
    BY <2>3, SeqDef, LenProperties
  <2>5. \A i \in 1..n : \A j \in 1..(i - 1) : ends[j] < ends[i]
    BY <2>3 DEF Init, Chunkings
  <2>6. want \in [first : Nat \cup {None, Bad}, last : Nat \cup {None, Bad}]
    BY ReadConstants DEF Init
  <2> QED
    BY <2>3, <2>4, <2>5, <2>6, ReadConstants DEF Init, FileOK
<1>2. TypeOK
  BY <1>1, BeforeLaw, EmptySeq DEF Init, TypeOK
<1> QED
  BY <1>1, <1>2 DEF Init, ReadInv, AnswerOK, KeyOK, StageOK

LEMMA InvParse == ReadInv /\ Parse => ReadInv'
<1> SUFFICES ASSUME ReadInv, Parse PROVE ReadInv'
  OBVIOUS
<1>1. FileOK /\ UNCHANGED fileVars /\ pc = "parse" /\ key = "active" /\ body = <<>> /\ buf = <<>>
  BY DEF ReadInv, AnswerOK, StageOK, Parse
<1>2. UNCHANGED <<key, at, disk, pos, buf, body>>
  BY DEF Parse
<1>3. KeyOK'
  BY <1>1, <1>2 DEF KeyOK
<1>4. CASE Granted
  <2>1. /\ status' = (IF IsRange(want) THEN 206 ELSE 200) /\ start' = Sought /\ limit' = SoughtLen
        /\ pc' = "open"
    BY <1>4 DEF Parse, Granted, Sought, SoughtLen
  <2>2. AnswerOK'
    BY <1>1, <1>4, <2>1, FileKept DEF AnswerOK
  <2>3. start' \in 0..Total' /\ limit' \in 0..Total'
    BY <1>1, <1>4, <2>1, FileKept, SoughtLaw, BeforeLaw
  <2>4. TypeOK'
    BY <1>1, <1>2, <2>1, <2>3, FileKept DEF ReadInv, TypeOK
  <2> QED
    BY <1>1, <1>2, <1>3, <2>1, <2>2, <2>4, FileKept DEF ReadInv, StageOK
<1>5. CASE ~ Granted
  <2>1. status' = 416 /\ pc' = "done" /\ UNCHANGED <<start, limit>>
    BY <1>5 DEF Parse, Granted
  <2>2. AnswerOK'
    BY <1>1, <1>5, <2>1, FileKept DEF AnswerOK
  <2>3. TypeOK'
    BY <1>1, <1>2, <2>1, FileKept DEF ReadInv, TypeOK
  <2> QED
    BY <1>1, <1>2, <1>3, <2>1, <2>2, <2>3, FileKept DEF ReadInv, StageOK
<1> QED
  BY <1>4, <1>5

\* The cursor is at c before chunk q, whose predecessor ends behind it.
LEMMA CursorTo ==
  ASSUME FileOK, UNCHANGED fileVars, NEW c \in Nat, NEW q \in 1..(Len(ends) + 1),
         pos' = q, c <= Before(q), buf' = Bytes(c, Before(q))
  PROVE  Cursor(c)'
<1>1. ends' = ends /\ Before(q) \in Nat
  BY FileKept, BeforeLaw
<1>2. Before(pos)' = Before(q)
  BY <1>1 DEF Before
<1> QED
  BY <1>1, <1>2 DEF Cursor

\* What is left of a step of the handler that is at work: types and StageOK.
LEMMA Assemble ==
  ASSUME ReadInv, pc \notin {"parse", "done"}, UNCHANGED <<fileVars, start, limit>>,
         pc' \in {"open", "scan", "discard", "read", "done"},
         status' = status \/ (pc' = "done" /\ status' = 500 /\ EmptyInVault),
         key' \in {"active", "legacy"}, at' \in 0..Total,
         disk' \in 1..(Len(ends) + 1), pos' \in 1..(Len(ends) + 1),
         Len(buf') <= Total, Len(body') <= Total, KeyOK', StageOK'
  PROVE  ReadInv'
<1>1. FileOK /\ UNCHANGED fileVars /\ start' = start /\ limit' = limit
  BY DEF ReadInv
<1>2. AnswerOK'
  <2>1. Granted /\ start = Sought /\ limit = SoughtLen /\ status = IF IsRange(want) THEN 206 ELSE 200
    BY AtWork
  <2> QED
    BY <1>1, <2>1, FileKept DEF AnswerOK
<1>3. TypeOK'
  BY <1>1, FileKept, SMTT(30) DEF ReadInv, TypeOK
<1> QED
  BY <1>1, <1>2, <1>3, FileKept DEF ReadInv

\* The handler goes on to send: what is sent already ends at c.
LEMMA GoesOn ==
  ASSUME ReadInv, pc \notin {"parse", "done"}, UNCHANGED <<fileVars, answerVars>>,
         pc' = "read", key' \in {"active", "legacy"}, at' \in 0..Total,
         disk' \in 1..(Len(ends) + 1), KeyOK', ~ WrongKey,
         NEW b \in Nat, b = Base, NEW c \in Nat, b <= c, body' = Bytes(b, c), Cursor(c)',
         status = 206 => c - b <= limit, pos' <= Len(ends) => key' = enc
  PROVE  ReadInv'
<1>1. /\ FileOK /\ UNCHANGED fileVars /\ start' = start /\ limit' = limit /\ status' = status
  BY DEF ReadInv, answerVars
<1>2. PICK q \in 1..(Len(ends) + 1) :
         /\ pos' = q /\ Before(q) \in Nat /\ c <= Before(q) /\ Before(q) <= Total
         /\ buf' = Bytes(c, Before(q))
  <2>1. pos' \in 1..(Len(ends) + 1) /\ c \in 0..(Before(pos)') /\ buf' = Bytes(c, Before(pos)')
    BY <1>1, FileKept DEF Cursor, Bytes
  <2>2. PICK q \in 1..(Len(ends) + 1) : pos' = q
    BY <2>1
  <2>3. Before(pos)' = Before(q)
    BY <1>1, <2>2, FileKept DEF Before
  <2>4. Before(q) \in Nat /\ Before(q) <= Total
    BY <1>1, BeforeLaw
  <2> QED
    BY <2>1, <2>2, <2>3, <2>4
<1>3. Len(buf') <= Total
  <2>1. Len(buf') = Before(q) - c
    BY <1>2, BytesType
  <2> QED
    BY <1>1, <1>2, <2>1, BeforeLaw
<1>4. Len(body') <= Total
  <2>1. Len(body') = c - b
    BY BytesType
  <2> QED
    BY <1>1, <1>2, <2>1, BeforeLaw
<1>5. StageOK'
  <2>1. PICK n \in Nat : c = b + n /\ n = c - b
    OBVIOUS
  <2>2. Base' = b /\ ~ WrongKey'
    BY <1>1, BaseKept
  <2>3. Cursor(Base + n)' /\ body' = Bytes(Base', Base' + n)
    BY <2>1, <2>2 DEF Cursor, Bytes
  <2>4. Sending'
    BY <1>1, <2>1, <2>2, <2>3, FileKept DEF Sending, Running, Bytes
  <2> QED
    BY <2>4 DEF StageOK
<1> QED
  BY <1>1, <1>2, <1>3, <1>4, <1>5, Assemble

LEMMA KeyKept ==
  ASSUME ReadInv, UNCHANGED <<fileVars, start, key>>
  PROVE  KeyOK' /\ key' \in {"active", "legacy"}
  BY FileKept, BaseKept DEF ReadInv, KeyOK, TypeOK

\* The handler begins to send: nothing is sent yet.
LEMMA Begins ==
  ASSUME ReadInv, pc \in {"open", "scan", "discard"}, UNCHANGED <<fileVars, answerVars, body>>,
         pc' = "read", key' \in {"active", "legacy"}, at' \in 0..Total,
         disk' \in 1..(Len(ends) + 1), KeyOK', ~ WrongKey,
         NEW b \in Nat, b = Base, Cursor(b)',
         pos' <= Len(ends) => key' = enc
  PROVE  ReadInv'
<1>1. limit \in Nat /\ body = <<>>
  BY AtWork DEF ReadInv, StageOK
<1>2. body' = Bytes(b, b)
  BY <1>1, BytesEmpty
<1>3. b <= b /\ b - b <= limit
  BY <1>1
<1> QED
  BY <1>2, <1>3, GoesOn

LEMMA InvOpenRaw == ReadInv /\ OpenRaw => ReadInv'
<1> SUFFICES ASSUME ReadInv, OpenRaw PROVE ReadInv'
  OBVIOUS
<1>1. /\ FileOK /\ pc = "open" /\ enc = "raw" /\ pc' = "read"
      /\ UNCHANGED <<fileVars, answerVars, key, at, disk, body>>
      /\ buf' = Bytes(start, Total) /\ pos' = Len(ends) + 1
  BY DEF OpenRaw, ReadInv, Plain
<1>2. start \in Nat /\ start <= Total /\ Total \in Nat /\ Len(ends) \in Nat
  BY <1>1, AtWork, BeforeLaw
<1>3. PICK b \in Nat : ~ WrongKey /\ Base = b /\ b = start
  BY <1>1, <1>2 DEF WrongKey, SeekStays, Base
<1>4. KeyOK' /\ key' \in {"active", "legacy"}
  BY <1>1, KeyKept DEF answerVars
<1>5. Cursor(b)'
  <2>1. PICK q \in 1..(Len(ends) + 1) : q = Len(ends) + 1 /\ Before(q) = Total
    BY <1>2 DEF Total
  <2> QED
    BY <1>1, <1>2, <1>3, <2>1, CursorTo
<1>6. at' \in 0..Total /\ disk' \in 1..(Len(ends) + 1) /\ ~ (pos' <= Len(ends))
  BY <1>1, <1>2 DEF ReadInv, TypeOK
<1> QED
  BY <1>1, <1>3, <1>4, <1>5, <1>6, Begins

\* The types of what most steps leave alone.
LEMMA Lasting ==
  ASSUME ReadInv
  PROVE  /\ FileOK /\ Total \in Nat /\ Len(ends) \in Nat
         /\ at \in 0..Total /\ disk \in 1..(Len(ends) + 1) /\ pos \in 1..(Len(ends) + 1)
         /\ key \in {"active", "legacy"} /\ enc \in {"active", "legacy", "raw", "unclear"}
         /\ 1 \in 1..(Len(ends) + 1) /\ Len(<<>>) <= Total
  BY BeforeLaw, EmptySeq DEF ReadInv, TypeOK, FileOK

\* The active key does not fit, the legacy key will.
LEMMA Retries ==
  ASSUME ReadInv, pc \in {"open", "scan"}, UNCHANGED <<fileVars, answerVars, at, disk, buf, body>>,
         pc' = "open", key' = "legacy", pos' = 1,
         ends = <<>> \/ enc \in {"legacy", "unclear"}, ~ SeekStays
  PROVE  ReadInv'
<1>1. /\ UNCHANGED fileVars /\ start' = start /\ limit' = limit /\ status' = status
      /\ buf = <<>> /\ body = <<>>
  BY DEF answerVars, ReadInv, StageOK
<1>2. KeyOK'
  BY <1>1, Lasting, FileKept, BaseKept DEF KeyOK
<1>3. StageOK'
  BY <1>1 DEF StageOK
<1>4. Len(buf') <= Total /\ Len(body') <= Total
  BY <1>1, Lasting
<1> QED
  BY <1>1, <1>2, <1>3, <1>4, Lasting, Assemble

\* No key fits: the bytes on disk are sent.
LEMMA FallsBack ==
  ASSUME ReadInv, pc = "open", UNCHANGED <<fileVars, answerVars, key, at, disk, body>>,
         pc' = "read", pos' = Len(ends) + 1, buf' = Plain, key # "active"
  PROVE  ReadInv'
<1>1. FileOK /\ start \in Nat /\ start <= Total /\ Total \in Nat /\ Len(ends) \in Nat
  BY AtWork, Lasting
<1>2. PICK b \in Nat : ~ WrongKey /\ Base = b /\ b = start
  BY <1>1, Lasting DEF ReadInv, KeyOK, WrongKey, Base
<1>3. KeyOK' /\ key' \in {"active", "legacy"}
  BY KeyKept DEF answerVars
<1>4. Cursor(b)'
  <2>1. PICK q \in 1..(Len(ends) + 1) : q = Len(ends) + 1 /\ Before(q) = Total
    BY <1>1 DEF Total
  <2> QED
    BY <1>1, <1>2, <2>1, CursorTo DEF Plain
<1>5. at' \in 0..Total /\ disk' \in 1..(Len(ends) + 1) /\ ~ (pos' <= Len(ends))
  BY <1>1 DEF ReadInv, TypeOK
<1> QED
  BY <1>2, <1>3, <1>4, <1>5, Begins

LEMMA InvOpenWhole == ReadInv /\ OpenWhole => ReadInv'
<1> SUFFICES ASSUME ReadInv, OpenWhole PROVE ReadInv'
  OBVIOUS
<1>1. /\ FileOK /\ pc = "open" /\ start = 0 /\ ~ (enc = "raw" /\ Total > 0)
      /\ UNCHANGED <<fileVars, start, limit, at, disk, body>>
      /\ buf = <<>> /\ body = <<>>
  BY DEF OpenWhole, ReadInv, StageOK
<1>2. ~ SeekStays /\ ~ WrongKey /\ Base = 0
  BY <1>1 DEF WrongKey, SeekStays, OnBoundary, Base
<1>3. KeyOK
  BY DEF ReadInv
<1>4. CASE ends # <<>> /\ key = enc
  <2>1. buf' = Chunk(1) /\ pos' = 2 /\ pc' = "read" /\ UNCHANGED <<key, status>>
    BY <1>4 DEF OpenWhole
  <2>2. KeyOK' /\ key' \in {"active", "legacy"}
    BY <1>1, <2>1, KeyKept
  <2>3. PICK q \in 1..(Len(ends) + 1) : q = 2 /\ Before(q) \in Nat /\ 0 <= Before(q)
    BY <1>1, <1>4, BeforeLaw
  <2>4. buf' = Bytes(0, Before(q))
    BY <1>1, <2>1, <2>3, BeforeLaw DEF Chunk
  <2>5. Cursor(0)'
    BY <1>1, <2>1, <2>3, <2>4, CursorTo
  <2> QED
    BY <1>1, <1>2, <1>4, <2>1, <2>2, <2>5, Lasting, Begins DEF answerVars
<1>5. CASE ~ (ends # <<>> /\ key = enc)
  <2>1. KeyFails
    BY <1>5 DEF OpenWhole
  <2>2. CASE vault
    <3>1. status' = 500 /\ pc' = "done" /\ UNCHANGED <<key, pos, buf>>
      BY <2>1, <2>2 DEF KeyFails
    <3>2. EmptyInVault
      BY <1>1, <1>3, <1>5, <2>2, Lasting DEF EmptyInVault, FileOK, KeyOK
    <3>3. KeyOK' /\ key' \in {"active", "legacy"}
      BY <1>1, <3>1, KeyKept
    <3>4. StageOK'
      BY <1>1, <3>1 DEF StageOK
    <3>5. Len(buf') <= Total /\ Len(body') <= Total
      BY <1>1, <3>1, Lasting
    <3> QED
      BY <1>1, <3>1, <3>2, <3>3, <3>4, <3>5, Lasting, Assemble
  <2>3. CASE ~ vault /\ key = "active"
    <3>1. key' = "legacy" /\ pc' = "open" /\ pos' = 1 /\ UNCHANGED <<status, buf>>
      BY <2>1, <2>3 DEF KeyFails
    <3>2. ends = <<>> \/ enc \in {"legacy", "unclear"}
      <4>1. Total \in Nat /\ (Total = 0 <=> ends = <<>>) /\ enc \in {"active", "legacy", "raw", "unclear"}
        BY <1>1, BeforeLaw, Lasting
      <4> QED
        BY <1>1, <1>5, <2>3, <4>1
    <3> QED
      BY <1>1, <1>2, <2>1, <3>1, <3>2, Retries DEF answerVars
  <2>4. CASE ~ vault /\ key # "active"
    <3>1. pc' = "read" /\ pos' = Len(ends) + 1 /\ buf' = Plain /\ UNCHANGED <<key, status>>
      BY <2>1, <2>4 DEF KeyFails
    <3> QED
      BY <1>1, <2>4, <3>1, FallsBack DEF answerVars
  <2> QED
    BY <2>2, <2>3, <2>4
<1> QED
  BY <1>4, <1>5

LEMMA InvOpenUnclear == ReadInv /\ OpenUnclear => ReadInv'
<1> SUFFICES ASSUME ReadInv, OpenUnclear PROVE ReadInv'
  OBVIOUS
<1>1. /\ FileOK /\ pc = "open" /\ start > 0 /\ enc = "unclear"
      /\ UNCHANGED <<fileVars, start, limit, at, disk, body>>
      /\ buf = <<>> /\ body = <<>>
  BY DEF OpenUnclear, ReadInv, StageOK
<1>2. ~ vault /\ ~ SeekStays /\ Misread
  BY <1>1 DEF FileOK, SeekStays, Misread
<1>3. CASE KeyFails /\ key = "active"
  <2>1. key' = "legacy" /\ pc' = "open" /\ pos' = 1 /\ UNCHANGED <<status, buf>>
    BY <1>2, <1>3 DEF KeyFails
  <2> QED
    BY <1>1, <1>2, <2>1, Retries DEF answerVars
<1>4. CASE KeyFails /\ key # "active"
  <2>1. pc' = "read" /\ pos' = Len(ends) + 1 /\ buf' = Plain /\ UNCHANGED <<key, status>>
    BY <1>2, <1>4 DEF KeyFails
  <2> QED
    BY <1>1, <1>4, <2>1, FallsBack DEF answerVars
<1>5. CASE key = "active" /\ pc' = "read" /\ pos' = 1 /\ UNCHANGED <<key, status, buf>>
  <2>1. KeyOK' /\ key' \in {"active", "legacy"}
    BY <1>1, <1>5, KeyKept
  <2>2. Misread'
    BY <1>1, <1>2, BaseKept
  <2>3. Sending'
    BY <1>1, <1>5, <2>2 DEF Sending, Blind
  <2>4. StageOK'
    BY <1>1, <1>5, <2>3 DEF StageOK
  <2>5. Len(buf') <= Total /\ Len(body') <= Total
    BY <1>1, <1>5, Lasting
  <2> QED
    BY <1>1, <1>5, <2>1, <2>4, <2>5, Lasting, Assemble
<1> QED
  BY <1>3, <1>4, <1>5 DEF OpenUnclear

LEMMA InvOpenSeek == ReadInv /\ OpenSeek => ReadInv'
<1> SUFFICES ASSUME ReadInv, OpenSeek PROVE ReadInv'
  OBVIOUS
<1>1. /\ FileOK /\ pc = "open" /\ start > 0 /\ enc \in {"active", "legacy"} /\ body = <<>>
      /\ UNCHANGED <<fileVars, answerVars, key, body>>
      /\ buf' = <<>> /\ at' = 0 /\ disk' = 1 /\ pos' = 1
      /\ pc' = IF src = "stream" THEN "discard" ELSE "scan"
  BY DEF OpenSeek, ReadInv, StageOK
<1>2. start' = start /\ limit' = limit /\ status' = status
  BY <1>1 DEF answerVars
<1>3. KeyOK' /\ key' \in {"active", "legacy"}
  BY <1>1, <1>2, KeyKept
<1>4. Len(buf') <= Total /\ Len(body') <= Total /\ at' \in 0..Total
  BY <1>1, Lasting
<1>5. start \in Nat
  BY <1>1, AtWork
<1>6. CASE src = "stream"
  <2>1. PICK q \in 1..(Len(ends) + 1) : q = 1 /\ Before(q) = 0
    BY <1>1, BeforeLaw
  <2>2. buf' = Bytes(0, Before(q))
    BY <1>1, <2>1, BytesEmpty
  <2>3. Cursor(0)'
    BY <1>1, <2>1, <2>2, CursorTo
  <2>4. Cursor(at)'
    BY <1>1, <2>3 DEF Cursor
  <2>5. StageOK'
    BY <1>1, <1>2, <1>5, <1>6, <2>4, FileKept DEF StageOK
  <2> QED
    BY <1>1, <1>2, <1>3, <1>4, <1>6, <2>5, Lasting, Assemble
<1>7. CASE src # "stream"
  <2>1. Scanning'
    BY <1>1, <1>2, <1>5, <1>7, FileKept, BeforeLaw DEF Scanning, Before
  <2>2. StageOK'
    BY <1>1, <1>7, <2>1 DEF StageOK
  <2> QED
    BY <1>1, <1>2, <1>3, <1>4, <1>7, <2>2, Lasting, Assemble
<1> QED
  BY <1>6, <1>7

\* The scan is at a chunk: the offset lies before the end of the file.
LEMMA ScanPlace ==
  ASSUME ReadInv, pc = "scan"
  PROVE  /\ Scanning /\ FileOK /\ start \in Nat /\ start < Total /\ ends # <<>>
         /\ disk \in 1..Len(ends) /\ disk + 1 \in 1..(Len(ends) + 1)
         /\ at \in Nat /\ at = Before(disk) /\ Before(disk + 1) \in Nat /\ at < Before(disk + 1)
         /\ Before(disk + 1) <= Total /\ ChunkLen(disk) = Before(disk + 1) - at
         /\ buf = <<>> /\ body = <<>>
<1>1. Scanning /\ FileOK /\ buf = <<>> /\ body = <<>>
  BY DEF ReadInv, StageOK
<1>2. start \in Nat /\ start > 0 /\ start < Total /\ ends # <<>>
  BY <1>1, AtWork DEF Scanning
<1>3. /\ Len(ends) \in Nat /\ disk \in 1..(Len(ends) + 1) /\ at = Before(disk) /\ at <= start
      /\ at \in Nat /\ Total \in Nat /\ Total = Before(Len(ends) + 1)
  BY <1>1, BeforeLaw DEF Scanning, Total
<1>4. disk # Len(ends) + 1
  BY <1>2, <1>3
<1>5. disk \in 1..Len(ends) /\ disk + 1 \in 1..(Len(ends) + 1) /\ disk < disk + 1
  BY <1>3, <1>4
<1>6. Before(disk + 1) \in Nat /\ Before(disk) < Before(disk + 1) /\ Before(disk + 1) <= Total
  BY <1>1, <1>3, <1>5, BeforeLaw
<1> QED
  BY <1>1, <1>2, <1>3, <1>5, <1>6 DEF ChunkLen

LEMMA InvScanSkip == ReadInv /\ ScanSkip => ReadInv'
<1> SUFFICES ASSUME ReadInv, ScanSkip PROVE ReadInv'
  OBVIOUS
<1>1. /\ pc = "scan" /\ pc' = pc /\ at < start /\ at + ChunkLen(disk) <= start
      /\ at' = at + ChunkLen(disk) /\ disk' = disk + 1
      /\ pos' = (IF src = "seeker" THEN disk + 1 ELSE pos)
      /\ UNCHANGED <<fileVars, answerVars, key, buf, body>>
  BY DEF ScanSkip, SkipChunk, Advance
<1>2. start' = start /\ limit' = limit /\ status' = status
  BY <1>1 DEF answerVars
<1>3. KeyOK' /\ key' \in {"active", "legacy"}
  BY <1>1, <1>2, KeyKept
<1>4. at' = Before(disk + 1) /\ at' <= start /\ at' \in 0..Total /\ disk' \in 1..(Len(ends) + 1)
  BY <1>1, ScanPlace
<1>5. pos' \in 1..(Len(ends) + 1) /\ pos' = (IF src = "seeker" THEN disk' ELSE 1)
  BY <1>1, <1>4, ScanPlace, Lasting DEF Scanning
<1>6. Scanning'
  <2>1. Before(disk)' = Before(disk + 1)
    BY <1>1, ScanPlace, FileKept DEF Before
  <2> QED
    BY <1>1, <1>2, <1>4, <1>5, <2>1, ScanPlace, FileKept DEF Scanning
<1>7. StageOK'
  BY <1>1, <1>6, ScanPlace DEF StageOK
<1>8. Len(buf') <= Total /\ Len(body') <= Total
  BY <1>1, ScanPlace, Lasting
<1> QED
  BY <1>1, <1>2, <1>3, <1>4, <1>5, <1>7, <1>8, Assemble

LEMMA InvScanHit == ReadInv /\ ScanHit => ReadInv'
<1> SUFFICES ASSUME ReadInv, ScanHit PROVE ReadInv'
  OBVIOUS
<1>1. /\ pc = "scan" /\ at < start /\ ~ (at + ChunkLen(disk) <= start)
      /\ UNCHANGED <<fileVars, start, limit, at, disk, body>>
  BY DEF ScanHit, SkipChunk
<1>2. FileOK /\ start < Before(disk + 1) /\ start \in Nat
  BY <1>1, ScanPlace
<1>3. ~ SeekStays /\ ~ WrongKey /\ Base = start
  <2>1. ASSUME NEW i \in 1..Len(ends), start = Before(i)
        PROVE  FALSE
    <3>1. i \in 1..(Len(ends) + 1) /\ Len(ends) \in Nat /\ disk \in 1..(Len(ends) + 1) /\ Before(i) \in Nat
      BY <1>1, Lasting, BeforeLaw
    <3>2. i < disk \/ i = disk \/ i = disk + 1 \/ disk + 1 < i
      BY <3>1
    <3>3. CASE i < disk
      BY <1>1, <2>1, <3>1, <3>3, ScanPlace, BeforeLaw
    <3>4. CASE i = disk
      BY <1>1, <2>1, <3>4, ScanPlace
    <3>5. CASE i = disk + 1
      BY <1>2, <2>1, <3>5
    <3>6. CASE disk + 1 < i
      BY <1>1, <1>2, <2>1, <3>1, <3>6, ScanPlace, BeforeLaw
    <3> QED
      BY <3>2, <3>3, <3>4, <3>5, <3>6
  <2> QED
    BY <2>1 DEF SeekStays, OnBoundary, WrongKey, Base
<1>4. CASE key = enc
  <2>1. /\ buf' = SubSeq(Chunk(disk), start - at + 1, ChunkLen(disk))
        /\ pos' = disk + 1 /\ pc' = "read" /\ UNCHANGED <<key, status>>
    BY <1>4 DEF ScanHit
  <2>2. PICK b \in Nat, q \in 1..(Len(ends) + 1), a \in Nat, e \in Nat, n \in Nat :
           b = start /\ q = disk + 1 /\ a = at /\ e = Before(q) /\ n = start - at
    BY <1>1, ScanPlace
  <2>3. n <= e - a /\ a + n = b /\ b <= e
    <3>1. b < e /\ n = b - a
      BY <1>2, <2>2
    <3> QED
      BY <3>1
  <2>4. SubSeq(Bytes(a, e), n + 1, e - a) = Bytes(b, e)
    BY <2>3, BytesRest
  <2>5. buf' = Bytes(b, Before(q))
    BY <1>1, <2>1, <2>2, <2>4, ScanPlace DEF Chunk
  <2>6. Cursor(b)'
    BY <1>1, <1>2, <2>1, <2>2, <2>3, <2>5, CursorTo
  <2>7. KeyOK' /\ key' \in {"active", "legacy"}
    BY <1>1, <2>1, KeyKept
  <2> QED
    BY <1>1, <1>3, <1>4, <2>1, <2>2, <2>6, <2>7, Lasting, Begins DEF answerVars
<1>5. CASE key # enc
  <2>1. KeyFails
    BY <1>5 DEF ScanHit
  <2>2. /\ enc \in {"active", "legacy"} /\ ends # <<>> /\ (vault => enc = "active")
        /\ (key = "legacy" => ends = <<>> \/ enc \in {"legacy", "unclear"})
    BY <1>1, ScanPlace DEF Scanning, FileOK, KeyOK, ReadInv
  <2>3. key = "active" /\ enc = "legacy" /\ ~ vault
    BY <1>5, <2>2, Lasting
  <2>4. key' = "legacy" /\ pc' = "open" /\ pos' = 1 /\ UNCHANGED <<status, buf>>
    BY <2>1, <2>3 DEF KeyFails
  <2> QED
    BY <1>1, <1>3, <2>1, <2>3, <2>4, Retries DEF answerVars
<1> QED
  BY <1>4, <1>5

LEMMA InvScanEnd == ReadInv /\ ScanEnd => ReadInv'
<1> SUFFICES ASSUME ReadInv, ScanEnd PROVE ReadInv'
  OBVIOUS
<1>1. /\ pc = "scan" /\ at >= start /\ pc' = "read"
      /\ UNCHANGED <<fileVars, answerVars, key, at, disk, pos, buf, body>>
  BY DEF ScanEnd
<1>2. FileOK /\ at = start /\ start = Before(disk) /\ OnBoundary
  BY <1>1, ScanPlace DEF Scanning, OnBoundary
<1>3. start' = start /\ limit' = limit /\ status' = status
  BY <1>1 DEF answerVars
<1>4. KeyOK' /\ key' \in {"active", "legacy"} /\ KeyOK
  BY <1>1, <1>3, KeyKept DEF ReadInv
<1>5. CASE src = "file"
  <2>1. SeekStays /\ Base = 0 /\ key = "active" /\ pos = 1 /\ buf = <<>> /\ body = <<>>
    BY <1>1, <1>2, <1>4, <1>5, ScanPlace, Lasting DEF SeekStays, Scanning, Base, KeyOK
  <2>2. CASE enc = "legacy"
    <3>1. WrongKey'
      BY <1>2, <1>1, <1>3, <2>1, <2>2, BaseKept DEF WrongKey
    <3>2. StageOK'
      BY <1>1, <2>1, <3>1 DEF StageOK, Sending, Blind
    <3>3. Len(buf') <= Total /\ Len(body') <= Total
      BY <1>1, <2>1, Lasting
    <3> QED
      BY <1>1, <1>3, <1>4, <3>2, <3>3, Lasting, Assemble
  <2>3. CASE enc # "legacy"
    <3>1. ~ WrongKey /\ key' = enc
      BY <1>1, <2>1, <2>3, ScanPlace, Lasting DEF WrongKey, Scanning
    <3>2. PICK q \in 1..(Len(ends) + 1) : q = 1 /\ Before(q) = 0
      BY <1>2, BeforeLaw
    <3>3. buf' = Bytes(0, Before(q))
      BY <1>1, <2>1, <3>2, BytesEmpty
    <3>4. Cursor(0)'
      BY <1>1, <1>2, <2>1, <3>2, <3>3, CursorTo
    <3> QED
      BY <1>1, <1>4, <2>1, <3>1, <3>4, Lasting, Begins
  <2> QED
    BY <2>2, <2>3
<1>6. CASE src # "file"
  <2>1. src = "seeker" /\ enc = "active" /\ pos = disk /\ buf = <<>> /\ ends # <<>>
    BY <1>1, <1>6, ScanPlace DEF Scanning, FileOK
  <2>2. ~ WrongKey /\ key' = enc /\ Base = start
    BY <1>1, <1>4, <1>6, <2>1, Lasting DEF WrongKey, SeekStays, KeyOK, Base
  <2>3. PICK b \in Nat, q \in 1..(Len(ends) + 1) : b = start /\ q = disk /\ Before(q) = b
    BY <1>1, <1>2, ScanPlace, Lasting
  <2>4. buf' = Bytes(b, Before(q))
    BY <1>1, <2>1, <2>3, BytesEmpty
  <2>5. Cursor(b)'
    BY <1>1, <1>2, <2>1, <2>3, <2>4, CursorTo
  <2> QED
    BY <1>1, <1>4, <2>2, <2>3, <2>5, Lasting, Begins
<1> QED
  BY <1>5, <1>6

LEMMA LeastLaw ==
  ASSUME NEW a \in Nat, NEW b \in Nat
  PROVE  /\ Least(a, b) \in Nat /\ Least(a, b) <= a /\ Least(a, b) <= b
         /\ a > 0 /\ b > 0 => Least(a, b) > 0
  BY DEF Least

LEMMA InvDiscard == ReadInv /\ Discard => ReadInv'
<1> SUFFICES ASSUME ReadInv, Discard PROVE ReadInv'
  OBVIOUS
<1>1. /\ FileOK /\ pc = "discard" /\ UNCHANGED <<fileVars, start, limit, disk, body>>
      /\ src = "stream" /\ start > 0 /\ at <= start /\ Cursor(at) /\ body = <<>>
  BY DEF Discard, ReadInv, StageOK
<1>2. start \in Nat /\ start < Total /\ ends # <<>> /\ at \in Nat
  BY <1>1, AtWork, Lasting
<1>3. enc = "active" /\ key = enc /\ ~ SeekStays /\ ~ WrongKey /\ Base = start
  BY <1>1, <1>2, Lasting DEF FileOK, ReadInv, KeyOK, SeekStays, WrongKey, Base
<1>4. CASE at = start
  <2>1. pc' = "read" /\ UNCHANGED <<at, key, buf, pos, status>>
    BY <1>4 DEF Discard
  <2>2. KeyOK' /\ key' \in {"active", "legacy"}
    BY <1>1, <2>1, KeyKept
  <2>3. PICK b \in Nat : b = start /\ Cursor(b)
    BY <1>1, <1>2, <1>4
  <2>4. Cursor(b)'
    BY <1>1, <2>1, <2>3, FileKept DEF Cursor, Before, Bytes
  <2> QED
    BY <1>1, <1>3, <2>1, <2>2, <2>3, <2>4, Lasting, Begins DEF answerVars
<1>5. CASE at # start
  <2>1. PICK c \in Nat : c = at /\ Cursor(c)
    BY <1>1, <1>2
  <2>2. ~ AtEnd /\ ~ Garbled
    <3>1. pos \in 1..(Len(ends) + 1) /\ Before(pos) \in Nat /\ c <= Before(pos) /\ buf = Bytes(c, Before(pos))
      BY <1>1, <2>1, BeforeLaw DEF Cursor
    <3>2. ASSUME AtEnd PROVE FALSE
      <4>1. pos = Len(ends) + 1 /\ buf = <<>>
        BY <3>1, <3>2, Lasting DEF AtEnd
      <4>2. c = Before(pos)
        BY <3>1, <4>1, BytesEmpty
      <4>3. Before(pos) = Total
        BY <4>1 DEF Total
      <4> QED
        BY <1>1, <1>2, <2>1, <4>2, <4>3
    <3> QED
      BY <1>3, <3>2 DEF Garbled
  <2>3. PICK e \in Nat :
           /\ c < e /\ e <= Total /\ Len(Available) = e - c
           /\ \A n \in 1..(e - c) :
                 Consume(n) /\ UNCHANGED fileVars =>
                    Cursor(c + n)' /\ (pos' <= Len(ends') => pos <= Len(ends))
    BY <1>1, <2>1, <2>2, CursorMoves
  <2>4. PICK n \in 1..(e - c) : n = Least(start - at, Len(Available)) /\ c + n <= start
    <3>1. PICK m \in Nat, k \in Nat : m = start - at /\ m > 0 /\ k = e - c /\ k > 0
      BY <1>1, <1>2, <1>5, <2>3
    <3>2. Least(m, k) \in Nat /\ Least(m, k) <= m /\ Least(m, k) <= k /\ Least(m, k) > 0
      BY <3>1, LeastLaw
    <3> HIDE DEF Least
    <3>3. Least(start - at, Len(Available)) = Least(m, k)
      BY <2>3, <3>1
    <3> QED
      BY <1>2, <2>1, <3>1, <3>2, <3>3
  <2>5. at' = at + n /\ Consume(n) /\ UNCHANGED <<pc, key, status>>
    BY <1>5, <2>2, <2>4 DEF Discard
  <2>6. PICK d \in Nat : d = c + n /\ Cursor(d)' /\ d <= start /\ at' = d /\ n \in Nat
    BY <1>1, <2>1, <2>3, <2>4, <2>5
  <2>7. Cursor(at)' /\ at' <= start' /\ at' \in 0..Total
    BY <1>1, <1>2, <2>6, Lasting DEF Cursor
  <2>8. StageOK'
    BY <1>1, <2>5, <2>7, FileKept DEF StageOK
  <2>9. pos' \in 1..(Len(ends) + 1) /\ Len(buf') <= Total
    <3>1. PICK q \in 1..(Len(ends) + 1) : pos' = q /\ d \in 0..Before(q) /\ buf' = Bytes(d, Before(q))
      BY <1>1, <2>6, FileKept DEF Cursor, Before, Bytes
    <3>2. Before(q) \in Nat /\ Before(q) <= Total /\ d <= Before(q)
      BY <1>1, <3>1, BeforeLaw
    <3>3. Len(buf') = Before(q) - d
      BY <3>1, <3>2, BytesType
    <3> QED
      BY <3>1, <3>2, <3>3, Lasting
  <2>10. KeyOK' /\ key' \in {"active", "legacy"}
    BY <1>1, <2>5, KeyKept
  <2>11. Len(body') <= Total
    BY <1>1, Lasting
  <2> QED
    BY <1>1, <2>5, <2>7, <2>8, <2>9, <2>10, <2>11, Lasting, Assemble
<1> QED
  BY <1>4, <1>5

\* The answer is complete.
LEMMA Ends ==
  ASSUME ReadInv, pc = "read", pc' = "done",
         UNCHANGED <<fileVars, answerVars, key, at, disk, buf, pos, body>>,
         \/ Blind
         \/ ~ WrongKey /\ \E b \in Nat : b = Base /\ body = Bytes(b, b + limit)
  PROVE  ReadInv'
<1>1. FileOK /\ UNCHANGED fileVars /\ start' = start /\ limit' = limit /\ status' = status
  BY DEF ReadInv, answerVars
<1>2. KeyOK' /\ key' \in {"active", "legacy"}
  BY <1>1, KeyKept
<1>3. status' \notin {416, 500}
  BY <1>1, AtWork
<1>5. \/ (WrongKey' \/ Misread') /\ body' = <<>>
      \/ ~ WrongKey' /\ body' = Bytes(Base', Base' + limit')
  <2>1. CASE Blind
    BY <1>1, <2>1, BaseKept DEF Blind
  <2>2. CASE ~ Blind
    BY <1>1, <2>2, BaseKept DEF Bytes
  <2> QED
    BY <2>1, <2>2
<1>6. StageOK'
  BY <1>3, <1>5 DEF StageOK, Bytes
<1>7. Len(buf') <= Total /\ Len(body') <= Total
  BY DEF ReadInv, TypeOK
<1> QED
  BY <1>1, <1>2, <1>6, <1>7, Lasting, Assemble

LEMMA InvSend == ReadInv /\ Send => ReadInv'
<1> SUFFICES ASSUME ReadInv, Send PROVE ReadInv'
  OBVIOUS
<1> DEFINE room == IF status = 206 THEN limit - Len(body) ELSE BufSize
<1>1. /\ FileOK /\ pc = "read" /\ UNCHANGED <<fileVars, answerVars, key, at, disk>> /\ Sending
  BY DEF Send, ReadInv, StageOK
<1>2. /\ start \in Nat /\ limit \in Nat /\ start + limit <= Total /\ Total \in Nat
      /\ status # 206 => start = 0 /\ limit = Total
      /\ status = 200 \/ (status = 206 /\ limit > 0)
      /\ BufSize \in Nat \ {0}
  BY <1>1, AtWork, Lasting, ReadConstants
<1>3. CASE Blind
  <2>1. body = <<>> /\ buf = <<>> /\ pos = 1 /\ key = "active" /\ enc # "active" /\ start > 0
    BY <1>3 DEF Blind, WrongKey, Misread, SeekStays, OnBoundary
  <2>2. Garbled
    <3>1. Len(ends) \in Nat /\ Len(ends) # 0
      BY <1>1, <2>1, AtWork, BeforeLaw
    <3> QED
      BY <2>1, <3>1 DEF Garbled
  <2>3. pc' = "done" /\ UNCHANGED <<buf, pos, body>>
    BY <2>2 DEF Send
  <2> QED
    BY <1>1, <1>3, <2>3, Ends
<1>4. CASE Running
  <2>0. ~ WrongKey
    BY <1>4 DEF Running
  <2>1. PICK b \in Nat, k \in Nat :
           /\ b = Base /\ body = Bytes(b, b + k) /\ Cursor(b + k)
           /\ status = 206 => k <= limit
           /\ pos <= Len(ends) => key = enc
    <3>1. Base \in Nat
      BY <1>2 DEF Base
    <3> QED
      BY <1>4, <3>1 DEF Running
  <2>2. PICK c \in Nat : c = b + k /\ Cursor(c) /\ body = Bytes(b, c) /\ b <= c /\ Len(body) = k
    <3>1. PICK c \in Nat : c = b + k /\ b <= c /\ c - b = k
      OBVIOUS
    <3>2. Len(Bytes(b, c)) = k
      BY <3>1, BytesType
    <3> QED
      BY <2>1, <3>1, <3>2
  <2>3. room \in Nat /\ (room = 0 <=> status = 206 /\ k = limit) /\ (status = 206 => k + room = limit)
    BY <1>2, <2>1, <2>2
  <2>4. ~ Garbled
    BY <2>1 DEF Garbled
  <2>5. b + limit <= Total /\ (status # 206 => b = 0)
    BY <1>2, <2>1 DEF Base
  <2> HIDE DEF room
  <2>6. CASE room = 0 \/ AtEnd
    <3>1. pc' = "done" /\ UNCHANGED <<buf, pos, body>>
      BY <2>6 DEF Send, room
    <3>2. k = limit
      <4>1. CASE room = 0
        BY <2>3, <4>1
      <4>2. CASE room # 0 /\ AtEnd
        <5>1. /\ pos = Len(ends) + 1 /\ buf = <<>> /\ Before(pos) = Total
              /\ c <= Before(pos) /\ buf = Bytes(c, Before(pos))
          BY <2>2, <4>2, Lasting DEF AtEnd, Cursor, Total
        <5>2. c = Total
          BY <1>2, <5>1, BytesEmpty
        <5>3. CASE status = 206
          BY <1>2, <2>1, <2>2, <2>5, <5>2, <5>3
        <5>4. CASE status # 206
          BY <1>2, <2>2, <2>5, <5>2, <5>4
        <5> QED
          BY <5>3, <5>4
      <4> QED
        BY <2>6, <4>1, <4>2
    <3> QED
      BY <1>1, <2>0, <2>1, <3>1, <3>2, Ends
  <2>7. CASE ~ (room = 0 \/ AtEnd)
    <3>1. PICK e \in Nat :
             /\ c < e /\ e <= Total /\ Len(Available) = e - c
             /\ \A n \in 1..(e - c) :
                   /\ SubSeq(Available, 1, n) = Bytes(c, c + n)
                   /\ Consume(n) /\ UNCHANGED fileVars =>
                         Cursor(c + n)' /\ (pos' <= Len(ends') => pos <= Len(ends))
      BY <1>1, <2>2, <2>7, CursorMoves
    <3>2. PICK n \in 1..(e - c) : n = Least(Least(BufSize, room), Len(Available)) /\ n <= room
      <4>1. PICK k1 \in Nat : k1 = e - c /\ k1 > 0
        BY <3>1
      <4>2. PICK m \in Nat : m = Least(BufSize, room) /\ m > 0 /\ m <= room
        <5>1. PICK r \in Nat, z \in Nat : r = room /\ r > 0 /\ z = BufSize /\ z > 0
          BY <1>2, <2>3, <2>7
        <5>2. Least(z, r) \in Nat /\ Least(z, r) <= r /\ Least(z, r) > 0
          BY <5>1, LeastLaw
        <5> QED
          BY <5>1, <5>2
      <4>3. Least(m, k1) \in Nat /\ Least(m, k1) <= m /\ Least(m, k1) <= k1 /\ Least(m, k1) > 0
        BY <4>1, <4>2, LeastLaw
      <4>4. Least(Least(BufSize, room), Len(Available)) = Least(m, k1)
        BY <3>1, <4>1, <4>2
      <4> QED
        BY <2>3, <4>1, <4>2, <4>3, <4>4
    <3>3. body' = body \o SubSeq(Available, 1, n) /\ Consume(n) /\ UNCHANGED pc
      BY <2>4, <2>7, <3>2 DEF Send, room
    <3>4. PICK d \in Nat : d = c + n /\ c <= d /\ b <= d /\ Cursor(d)' /\ SubSeq(Available, 1, n) = Bytes(c, d)
      <4>1. SubSeq(Available, 1, n) = Bytes(c, c + n) /\ Cursor(c + n)'
        BY <1>1, <3>1, <3>2, <3>3
      <4>2. PICK d \in Nat : d = c + n /\ c <= d /\ b <= d
        BY <2>2
      <4> QED
        BY <4>1, <4>2
    <3>5. body' = Bytes(b, d)
      <4>1. Bytes(b, c) \o Bytes(c, d) = Bytes(b, d)
        <5>1. b <= c /\ c <= d
          BY <2>2, <3>4
        <5> QED
          BY <5>1, BytesJoin
      <4> QED
        BY <2>2, <3>3, <3>4, <4>1
    <3>6. status = 206 => d - b <= limit
      BY <1>2, <2>2, <2>3, <3>2, <3>4
    <3>7. pos' <= Len(ends) => key' = enc
      BY <1>1, <2>1, <3>1, <3>2, <3>3, FileKept
    <3>8. KeyOK' /\ key' \in {"active", "legacy"}
      BY <1>1, KeyKept DEF answerVars
    <3> QED
      BY <1>1, <2>0, <2>1, <3>3, <3>4, <3>5, <3>6, <3>7, <3>8, Lasting, GoesOn
  <2> QED
    BY <2>6, <2>7
<1> QED
  BY <1>1, <1>3, <1>4 DEF Sending

\* Every step of the handler preserves the invariant.
LEMMA InvStep == ReadInv /\ [Next]_vars => ReadInv'
<1> SUFFICES ASSUME ReadInv, [Next]_vars PROVE ReadInv'
  OBVIOUS
<1>1. CASE Parse
  BY <1>1, InvParse
<1>2. CASE OpenRaw
  BY <1>2, InvOpenRaw
<1>3. CASE OpenWhole
  BY <1>3, InvOpenWhole
<1>4. CASE OpenSeek
  BY <1>4, InvOpenSeek
<1>5. CASE ScanSkip
  BY <1>5, InvScanSkip
<1>6. CASE ScanHit
  BY <1>6, InvScanHit
<1>7. CASE ScanEnd
  BY <1>7, InvScanEnd
<1>8. CASE Discard
  BY <1>8, InvDiscard
<1>9. CASE Send
  BY <1>9, InvSend
<1>11. CASE OpenUnclear
  BY <1>11, InvOpenUnclear
<1>10. CASE UNCHANGED vars
  <2>1. /\ FileOK /\ UNCHANGED <<fileVars, answerVars, pc, key, at, disk, pos, buf, body>>
        /\ start' = start /\ limit' = limit /\ status' = status
    BY <1>10 DEF vars, answerVars, ReadInv
  <2>2. AnswerOK'
    BY <2>1, FileKept DEF ReadInv, AnswerOK
  <2>3. TypeOK'
    BY <2>1, FileKept DEF ReadInv, TypeOK
  <2>4. KeyOK'
    BY <2>1, KeyKept
  <2>5. \A c : Cursor(c)' <=> Cursor(c)
    BY <2>1, FileKept DEF Cursor, Before, Bytes
  <2>6. Scanning' <=> Scanning
    BY <2>1, FileKept DEF Scanning, Before
  <2>7. Sending' <=> Sending
    BY <2>1, FileKept, BaseKept DEF Sending, Blind, Running, Cursor, Before, Bytes
  <2>8. StageOK'
    BY <2>1, <2>6, <2>7, FileKept, BaseKept DEF ReadInv, StageOK, Cursor, Before, Bytes
  <2> QED
    BY <2>1, <2>2, <2>3, <2>4, <2>8, FileKept DEF ReadInv
<1> QED
  BY <1>1, <1>2, <1>3, <1>4, <1>5, <1>6, <1>7, <1>8, <1>9, <1>10, <1>11 DEF Next, Answered

LEMMA InvAlways == Spec => []ReadInv
<1>1. Init => ReadInv
  BY InvInit
<1>2. ReadInv /\ [Next]_vars => ReadInv'
  BY InvStep
<1> QED
  BY <1>1, <1>2, PTL DEF Spec

(***************************************************************************)
(* Every reachable state of a request is well formed, for any chunking of  *)
(* the file and any Range header: the scan of SeekTo never runs over the   *)
(* last chunk, and no more is sent than the file holds.                    *)
(***************************************************************************)
THEOREM TypeCorrect == Spec => []TypeOK
<1>1. ReadInv => TypeOK
  BY DEF ReadInv
<1> QED
  BY <1>1, InvAlways, PTL

-----------------------------------------------------------------------------
(* The answer *)

LEMMA DoneExact == ReadInv => BodyIsRange
<1> SUFFICES ASSUME ReadInv, pc = "done", ~ EmptyInVault, ~ SeekStays
             PROVE  Exact \/ (Misread /\ status = 206 /\ body = <<>>)
  BY DEF BodyIsRange
<1>1. FileOK
  BY DEF ReadInv
<1>2. CASE ~ Granted
  <2>1. status = 416 /\ IsRange(want) /\ Selected = {}
    BY <1>1, <1>2, RefusedLaw DEF ReadInv, AnswerOK
  <2> QED
    BY <2>1 DEF Exact
<1>3. CASE Granted
  <2>1. start = Sought /\ limit = SoughtLen /\ status = IF IsRange(want) THEN 206 ELSE 200
    BY <1>3 DEF ReadInv, AnswerOK
  <2>2. /\ start \in Nat /\ limit \in Nat /\ (start > 0 => IsRange(want))
        /\ IsRange(want) => limit > 0
        /\ Selected = start..(start + limit - 1)
    BY <1>1, <1>3, <2>1, SoughtLaw
  <2>3. Cardinality(Selected) = limit
    <3>1. Cardinality(start..(start + limit - 1)) =
             IF start > start + limit - 1 THEN 0 ELSE (start + limit - 1) - start + 1
      BY <2>2, FS_Interval
    <3> QED
      BY <2>2, <3>1
  <2>4. (Misread /\ body = <<>>) \/ body = Bytes(Base, Base + limit)
    BY <2>1 DEF ReadInv, StageOK, WrongKey
  <2>5. IsRange(want) => Selected # {}
    <3> SUFFICES ASSUME limit > 0 PROVE Selected # {}
      BY <2>2
    <3>1. start \in start..(start + limit - 1)
      BY <2>2
    <3> QED
      BY <2>2, <3>1
  <2>6. CASE Misread /\ body = <<>>
    BY <2>1, <2>2, <2>6 DEF Misread
  <2>7. CASE body = Bytes(Base, Base + limit)
    <3>1. body = Bytes(start, start + limit)
      BY <2>7 DEF Base
    <3>2. Len(body) = limit /\ \A j \in 1..limit : body[j] = start + j
      <4>1. PICK e \in Nat : e = start + limit /\ start <= e /\ e - start = limit
        BY <2>2
      <4>2. Len(Bytes(start, e)) = e - start /\ \A j \in 1..(e - start) : Bytes(start, e)[j] = start + j
        BY <2>2, <4>1, BytesType
      <4> QED
        BY <3>1, <4>1, <4>2
    <3>3. limit > 0 => Min(Selected) = start
      <4> SUFFICES ASSUME limit > 0 PROVE Min(Selected) = start
        OBVIOUS
      <4>1. start \in Selected /\ \A y \in Selected : start <= y /\ y \in Int
        BY <2>2
      <4>2. \A x \in Selected : (\A y \in Selected : x <= y) => x = start
        BY <2>2, <4>1
      <4> QED
        BY <4>1, <4>2 DEF Min
    <3>4. \A j \in 1..Len(body) : body[j] = Min(Selected) + j
      BY <2>2, <3>2, <3>3
    <3>5. Exact
      BY <2>1, <2>3, <2>5, <3>2, <3>4 DEF Exact
    <3> QED
      BY <3>5
  <2> QED
    BY <2>4, <2>6, <2>7
<1> QED
  BY <1>2, <1>3

(***************************************************************************)
(* DownloadFile and PreviewFile send exactly the bytes that were asked     *)
(* for, whatever the chunking of the stored file, the key, the reader, the *)
(* Range header and the buffer length, and refuse exactly the ranges that  *)
(* select nothing.  BodyIsRange names the cases outside: a boundary where  *)
(* SeekTo stays, an empty file in the vault, an unrecognised plain file.   *)
(***************************************************************************)
THEOREM BodyCorrect == Spec => []BodyIsRange
  BY DoneExact, InvAlways, PTL
=============================================================================
