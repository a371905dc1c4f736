------------------------- MODULE AuditLoggerProofs -------------------------
(***************************************************************************)
(* Proofs about AuditLogger, for any requests, workers and callers of      *)
(* Close, any capacity of the queue and any number of failures.  The       *)
(* argument follows each record: at any time it is in one place.           *)
(***************************************************************************)
EXTENDS AuditLogger, TLAPS

Distinct(s) == \A i, j \in DOMAIN s : s[i] = s[j] => i = j

\* The records of the queue, the sinks and the hands of the workers.
Q == ToSet(queue)
S == ToSet(sink)
F == ToSet(fallback)
Held(r) == \E w \in Workers : hand[w] = r

\* A record reaches the logger when its request is inside Log, and not before.
CallOK(r) ==
    /\ pc[r] # "ended" => r \notin Q \cup S \cup F /\ ~ Held(r)
    /\ pc[r] # "ended" /\ ~ (pc[r] = "log" /\ closed) => lost[r] = "no"
    /\ pc[r] = "ended" /\ lost[r] = "no" => r \in Q \cup S \cup F \/ Held(r)

\* A worker holds a record that is nowhere else, except that a Write which
\* failed late has left it in the sink.
HandOK(w) ==
    hand[w] # Nobody =>
        /\ hand[w] \notin Q \cup F
        /\ lost[hand[w]] = "no"
        /\ hand[w] \in S => wpc[w] = "route" /\ hand[w] \in torn

PlaceInv ==
    /\ Distinct(queue) /\ Distinct(sink) /\ Distinct(fallback)
    /\ torn \subseteq S /\ S \cap F \subseteq torn /\ Q \cap (S \cup F) = {}
    /\ \A r \in Q \cup S \cup F : lost[r] = "no"
    /\ \A r \in Requests : CallOK(r)
    /\ \A w \in Workers : HandOK(w)
    /\ \A v, w \in Workers : hand[v] = hand[w] /\ hand[w] # Nobody => v = w

\* A worker leaves when the queue is closed and empty, and its sink is closed
\* after that.
WorkerInv ==
    /\ \A w \in Workers :
          /\ wpc[w] = "route" => hand[w] # Nobody
          /\ wpc[w] = "done" => hand[w] = Nobody /\ (Async => closed /\ queue = <<>>)
    /\ closed => Async
    /\ Async /\ sinkClosed => \A w \in Workers : wpc[w] = "done"

\* Only a request that was inside Log when the queue was closed panics there.
AnswerInv ==
    \A r \in Requests :
        /\ answer[r] # handler[r] => closed /\ r \in inflight
        /\ closed /\ pc[r] \in {"send", "evict", "fallback"} => r \in inflight

AuditInv == TypeOK /\ PlaceInv /\ WorkerInv /\ AnswerInv

-----------------------------------------------------------------------------
(* Sequences without repetitions *)

LEMMA AppendSet ==
  ASSUME NEW R, NEW s \in Seq(R), NEW e \in R
  PROVE  /\ Append(s, e) \in Seq(R) /\ Len(Append(s, e)) = Len(s) + 1
         /\ ToSet(Append(s, e)) = ToSet(s) \cup {e}
         /\ Distinct(s) /\ e \notin ToSet(s) => Distinct(Append(s, e))
<1> DEFINE a == Append(s, e)
<1>1. /\ a \in Seq(R) /\ Len(s) \in Nat /\ Len(a) = Len(s) + 1 /\ a[Len(s) + 1] = e
      /\ \A i \in 1 .. Len(s) : a[i] = s[i]
      /\ DOMAIN s = 1 .. Len(s) /\ DOMAIN a = 1 .. Len(s) + 1
  OBVIOUS
<1> HIDE DEF a
<1>2. ToSet(a) = ToSet(s) \cup {e}
  <2>1. ToSet(a) = {a[i] : i \in 1 .. Len(s) + 1} /\ ToSet(s) = {s[i] : i \in 1 .. Len(s)}
    BY <1>1 DEF ToSet
  <2>2. \A i \in 1 .. Len(s) + 1 : i \in 1 .. Len(s) \/ i = Len(s) + 1
    BY <1>1
  <2>3. \A i \in 1 .. Len(s) : i \in 1 .. Len(s) + 1
    BY <1>1
  <2>4. Len(s) + 1 \in 1 .. Len(s) + 1
    BY <1>1
  <2> QED
    BY <1>1, <2>1, <2>2, <2>3, <2>4
<1>3. ASSUME Distinct(s), e \notin ToSet(s)
      PROVE  Distinct(a)
  <2>1. \A i \in 1 .. Len(s) : s[i] # e
    BY <1>1, <1>3 DEF ToSet
  <2>2. \A i \in 1 .. Len(s) + 1 : i \in 1 .. Len(s) \/ i = Len(s) + 1
    BY <1>1
  <2> QED
    BY <1>1, <1>3, <2>1, <2>2 DEF Distinct
<1> QED
  BY <1>1, <1>2, <1>3 DEF a

LEMMA TailSet ==
  ASSUME NEW R, NEW s \in Seq(R), s # <<>>, Distinct(s)
  PROVE  /\ Tail(s) \in Seq(R) /\ Len(Tail(s)) = Len(s) - 1
         /\ Head(s) \in ToSet(s) /\ Head(s) \in R
         /\ ToSet(Tail(s)) = ToSet(s) \ {Head(s)}
         /\ Distinct(Tail(s))
<1> DEFINE a == Tail(s)
           n == Len(s) - 1
<1>1. /\ a \in Seq(R) /\ n \in Nat /\ Len(s) = n + 1 /\ Len(a) = n /\ Head(s) = s[1]
      /\ \A i \in 1 .. n : a[i] = s[i + 1]
      /\ DOMAIN s = 1 .. n + 1 /\ DOMAIN a = 1 .. n /\ s[1] \in R
  OBVIOUS
<1> HIDE DEF a, n
<1>2. /\ \A i \in 1 .. n : i + 1 \in 1 .. n + 1 /\ i + 1 # 1
      /\ \A i \in 1 .. n + 1 : i = 1 \/ (i - 1 \in 1 .. n /\ (i - 1) + 1 = i)
      /\ 1 \in 1 .. n + 1
  BY <1>1
<1>3. ToSet(a) = {a[i] : i \in 1 .. n} /\ ToSet(s) = {s[i] : i \in 1 .. n + 1}
  BY <1>1 DEF ToSet
<1>4. ToSet(a) = ToSet(s) \ {s[1]}
  <2>1. \A i \in 1 .. n : a[i] # s[1]
    BY <1>1, <1>2 DEF Distinct
  <2>2. \A i \in 1 .. n : a[i] \in ToSet(s)
    BY <1>1, <1>2, <1>3
  <2>3. \A i \in 1 .. n + 1 : s[i] # s[1] => s[i] \in ToSet(a)
    <3> TAKE i \in 1 .. n + 1
    <3> HAVE s[i] # s[1]
    <3>1. i - 1 \in 1 .. n /\ a[i - 1] = s[i]
      BY <1>1, <1>2
    <3> QED
      BY <1>3, <3>1
  <2> QED
    BY <1>3, <2>1, <2>2, <2>3
<1>5. Distinct(a)
  <2> SUFFICES ASSUME NEW i \in 1 .. n, NEW j \in 1 .. n, a[i] = a[j]
               PROVE  i = j
    BY <1>1 DEF Distinct
  <2>1. i + 1 = j + 1
    BY <1>1, <1>2, SMTT(30) DEF Distinct
  <2> QED
    BY <2>1
<1>6. s[1] \in ToSet(s)
  BY <1>2, <1>3
<1> QED
  BY <1>1, <1>4, <1>5, <1>6 DEF a, n

LEMMA EmptySet ==
  ASSUME NEW R, NEW s \in Seq(R)
  PROVE  /\ s = <<>> => ToSet(s) = {} /\ Distinct(s)
         /\ ToSet(s) = {} => s = <<>>
         /\ ToSet(s) \subseteq R
<1>1. DOMAIN s = 1 .. Len(s) /\ Len(s) \in Nat /\ \A i \in 1 .. Len(s) : s[i] \in R
  OBVIOUS
<1>2. ToSet(s) = {s[i] : i \in 1 .. Len(s)}
  BY <1>1 DEF ToSet
<1>3. ToSet(s) = {} => Len(s) = 0
  <2>1. Len(s) # 0 => 1 \in 1 .. Len(s)
    BY <1>1
  <2> QED
    BY <1>2, <2>1
<1> QED
  BY <1>1, <1>2, <1>3 DEF Distinct

-----------------------------------------------------------------------------
(* Types *)

LEMMA AuditInit == Init => AuditInv
<1> SUFFICES ASSUME Init
             PROVE  AuditInv
  OBVIOUS
<1>1. TypeOK
  <2>1. faults \in 0 .. MaxFaults /\ Len(queue) <= BufferSize
    BY AuditConstants DEF Init
  <2>2. hand \in [Workers -> Requests \cup {Nobody}] /\ wpc \in [Workers -> {"run", "route", "done"}]
    BY DEF Init
  <2>3. closed \in BOOLEAN /\ sinkClosed \in BOOLEAN
    BY DEF Init
  <2>4. queue \in Seq(Requests) /\ sink \in Seq(Requests) /\ fallback \in Seq(Requests)
    BY DEF Init
  <2>5. /\ pc \in [Requests -> {"new", "log", "send", "evict", "fallback", "ended"}]
        /\ handler \in [Requests -> Outcomes] /\ answer \in [Requests -> Outcomes]
        /\ cpc \in [Closers -> {"idle", "wait", "returned"}]
    BY DEF Init, Outcomes
  <2>6. lost \in [Requests -> {"no", "unaudited", "write", "format", "refused", "panic", "context", "evicted"}]
    BY DEF Init
  <2> QED
    BY <2>1, <2>2, <2>3, <2>4, <2>5, <2>6 DEF Init, TypeOK
<1>2. Q = {} /\ S = {} /\ F = {} /\ Distinct(queue) /\ Distinct(sink) /\ Distinct(fallback)
  <2>1. <<>> \in Seq(Requests)
    OBVIOUS
  <2>2. ToSet(<<>>) = {} /\ Distinct(<<>>)
    BY <2>1, EmptySet
  <2> QED
    BY <2>2 DEF Init, Q, S, F
<1>3. PlaceInv
  BY <1>2, AuditConstants DEF Init, PlaceInv, CallOK, HandOK, Held
<1>4. WorkerInv
  BY DEF Init, WorkerInv
<1>5. AnswerInv
  BY DEF Init, AnswerInv
<1> QED
  BY <1>1, <1>3, <1>4, <1>5 DEF AuditInv

\* The records of the queue and the sinks are records.
LEMMA SetsOK ==
  ASSUME TypeOK
  PROVE  Q \subseteq Requests /\ S \subseteq Requests /\ F \subseteq Requests
  BY EmptySet DEF TypeOK, Q, S, F

Reasons == {"no", "unaudited", "write", "format", "refused", "panic", "context", "evicted"}

LEMMA GiveType ==
  ASSUME TypeOK, NEW r \in Requests, NEW why \in Reasons, Give(r, why)
  PROVE  lost' \in [Requests -> Reasons] /\ lost'[r] = why
         /\ \A q \in Requests \ {r} : lost'[q] = lost[q]
  BY DEF TypeOK, Give, Reasons

LEMMA GotoType ==
  ASSUME TypeOK, NEW r \in Requests,
         NEW l \in {"new", "log", "send", "evict", "fallback", "ended"},
         pc' = [pc EXCEPT ![r] = l]
  PROVE  /\ pc' \in [Requests -> {"new", "log", "send", "evict", "fallback", "ended"}]
         /\ pc'[r] = l /\ \A q \in Requests \ {r} : pc'[q] = pc[q]
  BY DEF TypeOK

LEMMA FaultType ==
  ASSUME TypeOK, Fault
  PROVE  faults' \in 0 .. MaxFaults
  BY AuditConstants DEF TypeOK, Fault

\* What a write to the main sink, successful or not, leaves in it.
LEMMA SinkLaw ==
  ASSUME TypeOK, PlaceInv, NEW r \in Requests, r \notin S, Writes(r) \/ WriteFails(r)
  PROVE  /\ sink' \in Seq(Requests) /\ faults' \in 0 .. MaxFaults /\ torn' \subseteq Requests
         /\ Distinct(sink')
         /\ \/ S' = S \cup {r} /\ torn' = torn /\ Writes(r)
            \/ S' = S \cup {r} /\ torn' = torn \cup {r} /\ WriteFails(r)
            \/ S' = S /\ torn' = torn /\ WriteFails(r)
<1>1. sink \in Seq(Requests) /\ Distinct(sink) /\ r \notin ToSet(sink)
  BY DEF TypeOK, PlaceInv, S
<1>2. faults' \in 0 .. MaxFaults
  BY FaultType DEF TypeOK, Writes, WriteFails
<1>3. CASE sink' = Append(sink, r)
  <2>1. sink' \in Seq(Requests) /\ ToSet(sink') = ToSet(sink) \cup {r} /\ Distinct(sink')
    BY <1>1, <1>3, AppendSet
  <2>2. S' = S \cup {r}
    BY <2>1 DEF S
  <2>3. \/ torn' = torn /\ Writes(r)
        \/ torn' = torn \cup {r} /\ WriteFails(r)
        \/ sink' = sink /\ torn' = torn /\ WriteFails(r)
    BY DEF Writes, WriteFails
  <2>4. torn' \subseteq Requests
    BY <2>3 DEF TypeOK
  <2>5. sink' = sink => FALSE
    BY <1>1, <2>1
  <2> QED
    BY <1>2, <2>1, <2>2, <2>3, <2>4, <2>5
<1>4. CASE sink' = sink /\ torn' = torn /\ WriteFails(r)
  BY <1>1, <1>2, <1>4 DEF S, TypeOK
<1> QED
  BY <1>3, <1>4 DEF Writes, WriteFails

\* The same for the fallback sink; a record that is given up is in no sink.
LEMMA FallbackLaw ==
  ASSUME TypeOK, PlaceInv, NEW r \in Requests, r \notin F, WriteFallback(r)
  PROVE  /\ fallback' \in Seq(Requests) /\ faults' \in 0 .. MaxFaults
         /\ lost' \in [Requests -> Reasons] /\ Distinct(fallback')
         /\ \/ F' = F \cup {r} /\ lost' = lost
            \/ F' = F /\ r \in torn /\ lost' = lost
            \/ F' = F /\ r \notin torn /\ lost' = [lost EXCEPT ![r] = "write"]
<1>1. fallback \in Seq(Requests) /\ Distinct(fallback) /\ r \notin ToSet(fallback)
  BY DEF TypeOK, PlaceInv, F
<1>2. faults' \in 0 .. MaxFaults
  BY FaultType DEF TypeOK, WriteFallback
<1>3. lost' \in [Requests -> Reasons]
  BY GiveType DEF TypeOK, WriteFallback, Reasons
<1>4. CASE fallback' = Append(fallback, r) /\ lost' = lost
  <2>1. fallback' \in Seq(Requests) /\ ToSet(fallback') = ToSet(fallback) \cup {r} /\ Distinct(fallback')
    BY <1>1, <1>4, AppendSet
  <2> QED
    BY <1>2, <1>3, <1>4, <2>1 DEF F
<1>5. CASE fallback' = fallback /\ (IF r \in torn THEN UNCHANGED lost ELSE Give(r, "write"))
  BY <1>1, <1>2, <1>3, <1>5 DEF F, Give
<1> QED
  BY <1>4, <1>5 DEF WriteFallback

-----------------------------------------------------------------------------
(* One lemma for each action *)

\* The parts of the state an action leaves alone.
LEMMA SetsKept ==
  /\ queue' = queue => Q' = Q /\ (Distinct(queue) => Distinct(queue'))
  /\ sink' = sink => S' = S /\ (Distinct(sink) => Distinct(sink'))
  /\ fallback' = fallback => F' = F /\ (Distinct(fallback) => Distinct(fallback'))
  /\ hand' = hand => \A r : Held(r)' <=> Held(r)
  BY DEF Q, S, F, Held

\* A request whose record is nowhere yet goes on, and no record moves.
LEMMA PlaceCall ==
  ASSUME TypeOK, PlaceInv, NEW r \in Requests, pc[r] # "ended",
         UNCHANGED <<queue, sink, fallback, hand, wpc, torn, closed>>,
         \A q \in Requests \ {r} : pc'[q] = pc[q] /\ lost'[q] = lost[q],
         pc'[r] = "ended" => lost'[r] # "no",
         pc'[r] # "ended" /\ ~ (pc'[r] = "log" /\ closed) => lost'[r] = "no"
  PROVE  PlaceInv'
<1>1. /\ Q' = Q /\ S' = S /\ F' = F
      /\ Distinct(queue') /\ Distinct(sink') /\ Distinct(fallback')
      /\ \A q : Held(q)' <=> Held(q)
  BY SetsKept DEF PlaceInv
<1>2. r \notin Q \cup S \cup F /\ ~ Held(r)
  BY DEF PlaceInv, CallOK
<1>3. Q \subseteq Requests /\ S \subseteq Requests /\ F \subseteq Requests
  BY SetsOK
<1>4. \A q \in Q \cup S \cup F : lost'[q] = "no"
  BY <1>2, <1>3 DEF PlaceInv
<1>5. ASSUME NEW q \in Requests
      PROVE  CallOK(q)'
  <2>1. CASE q = r
    BY <1>1, <1>2, <2>1 DEF CallOK
  <2>2. CASE q # r
    BY <1>1, <2>2 DEF PlaceInv, CallOK
  <2> QED
    BY <2>1, <2>2
<1>6. ASSUME NEW w \in Workers
      PROVE  HandOK(w)'
  <2> SUFFICES ASSUME hand[w] # Nobody
               PROVE  /\ hand[w] \notin Q \cup F
                      /\ lost'[hand[w]] = "no"
                      /\ hand[w] \in S => wpc[w] = "route" /\ hand[w] \in torn
    BY <1>1 DEF HandOK
  <2>1. hand[w] \in Requests /\ hand[w] # r
    BY <1>2 DEF TypeOK, Held
  <2> QED
    BY <2>1 DEF PlaceInv, HandOK
<1> QED
  BY <1>1, <1>4, <1>5, <1>6 DEF PlaceInv

LEMMA HandleStep ==
  ASSUME AuditInv, NEW r \in Requests, NEW kind \in Kinds, NEW outcome \in Outcomes,
         Handle(r, kind, outcome)
  PROVE  AuditInv'
<1> USE DEF AuditInv, workVars, sinkVars
<1>1. /\ pc[r] = "new" /\ UNCHANGED <<policy, queue, closed, hand, wpc, cpc, sink, fallback, sinkClosed, faults, torn, inflight>>
      /\ handler' = [handler EXCEPT ![r] = outcome]
      /\ answer' = [answer EXCEPT ![r] = outcome]
  BY DEF Handle
<1>2. /\ pc' \in [Requests -> {"new", "log", "send", "evict", "fallback", "ended"}]
      /\ \A q \in Requests \ {r} : pc'[q] = pc[q] /\ lost'[q] = lost[q]
      /\ lost' \in [Requests -> Reasons]
      /\ \/ pc'[r] = "ended" /\ lost'[r] = "unaudited"
         \/ pc'[r] = "log" /\ lost'[r] = lost[r]
  <2>1. CASE pc' = [pc EXCEPT ![r] = "ended"] /\ Give(r, "unaudited")
    BY <2>1, GotoType, GiveType DEF Reasons
  <2>2. CASE pc' = [pc EXCEPT ![r] = "log"] /\ UNCHANGED lost
    BY <2>2, GotoType DEF TypeOK, Reasons
  <2> QED
    BY <2>1, <2>2 DEF Handle
<1>3. TypeOK'
  BY <1>1, <1>2 DEF TypeOK, Reasons
<1>4. PlaceInv'
  <2>1. lost[r] = "no"
    BY <1>1 DEF PlaceInv, CallOK
  <2> QED
    BY <1>1, <1>2, <2>1, PlaceCall
<1>5. WorkerInv'
  BY <1>1 DEF WorkerInv, Async
<1>6. AnswerInv'
  BY <1>1, <1>2 DEF AnswerInv, TypeOK
<1> QED
  BY <1>3, <1>4, <1>5, <1>6

\* The steps of Log that move no record.
LEMMA LogStep ==
  ASSUME AuditInv, NEW r \in Requests,
         LogRefused(r) \/ LogEnters(r) \/ SendPanics(r) \/ ContextDone(r) \/ SendFull(r)
  PROVE  AuditInv'
<1> USE DEF AuditInv, workVars, sinkVars, histVars, Return, Goto
<1>1. /\ pc[r] \in {"log", "send"}
      /\ UNCHANGED <<policy, queue, closed, hand, wpc, cpc, sink, fallback, sinkClosed, faults, torn, inflight, handler>>
  BY DEF LogRefused, LogEnters, SendPanics, ContextDone, SendFull, Overflow
<1>2. \/ pc' = [pc EXCEPT ![r] = "ended"] /\ answer' = answer /\ Give(r, "refused")
      \/ pc' = [pc EXCEPT ![r] = "ended"] /\ answer' = answer /\ Give(r, "context")
      \/ pc' = [pc EXCEPT ![r] = "send"] /\ answer' = answer /\ lost' = lost /\ pc[r] = "log" /\ ~ closed
      \/ /\ pc' = [pc EXCEPT ![r] = "evict"] \/ pc' = [pc EXCEPT ![r] = "fallback"]
         /\ answer' = answer /\ lost' = lost /\ pc[r] = "send"
      \/ /\ pc' = [pc EXCEPT ![r] = "ended"] \/ pc' = [pc EXCEPT ![r] = "log"]
         /\ answer' = [answer EXCEPT ![r] = "panic"] /\ Give(r, "panic")
         /\ pc[r] = "send" /\ closed
  BY DEF LogRefused, LogEnters, SendPanics, ContextDone, SendFull, Overflow, Refuses
<1>3. /\ pc' \in [Requests -> {"new", "log", "send", "evict", "fallback", "ended"}]
      /\ \A q \in Requests \ {r} : pc'[q] = pc[q]
  BY <1>2, GotoType
<1>4. /\ lost' \in [Requests -> Reasons]
      /\ \A q \in Requests \ {r} : lost'[q] = lost[q]
  BY <1>2, GiveType DEF TypeOK, Reasons
<1>5. TypeOK'
  <2>1. answer' \in [Requests -> Outcomes]
    BY <1>2 DEF TypeOK, Outcomes
  <2> QED
    BY <1>1, <1>3, <1>4, <2>1 DEF TypeOK, Reasons
<1>6. PlaceInv'
  <2>1. pc'[r] = "ended" => lost'[r] # "no"
    BY <1>2, GotoType, GiveType DEF Reasons
  <2>2. pc'[r] # "ended" /\ ~ (pc'[r] = "log" /\ closed) => lost'[r] = "no"
    <3>1. pc[r] = "log" /\ ~ closed => lost[r] = "no"
      BY DEF PlaceInv, CallOK
    <3>2. pc[r] = "send" => lost[r] = "no"
      BY DEF PlaceInv, CallOK
    <3> QED
      BY <1>2, <3>1, <3>2, GotoType
  <2> QED
    BY <1>1, <1>3, <1>4, <2>1, <2>2, PlaceCall
<1>7. WorkerInv'
  BY <1>1 DEF WorkerInv, Async
<1>8. AnswerInv'
  <2> SUFFICES ASSUME NEW q \in Requests
               PROVE  /\ answer'[q] # handler[q] => closed /\ q \in inflight
                      /\ closed /\ pc'[q] \in {"send", "evict", "fallback"} => q \in inflight
    BY <1>1 DEF AnswerInv
  <2>1. CASE q = r
    BY <1>1, <1>2, <2>1, GotoType DEF AnswerInv, TypeOK
  <2>2. CASE q # r
    BY <1>2, <1>3, <2>2 DEF AnswerInv, TypeOK
  <2> QED
    BY <2>1, <2>2
<1> QED
  BY <1>5, <1>6, <1>7, <1>8

\* The record enters the queue ...
LEMMA SendStep ==
  ASSUME AuditInv, NEW r \in Requests, Send(r)
  PROVE  AuditInv'
<1> USE DEF AuditInv, workVars, sinkVars, histVars, Return
<1>1. /\ pc[r] = "send" /\ ~ closed /\ Len(queue) < BufferSize
      /\ queue' = Append(queue, r) /\ pc' = [pc EXCEPT ![r] = "ended"]
      /\ UNCHANGED <<policy, closed, hand, wpc, cpc, sink, fallback, sinkClosed, faults, lost, torn, inflight, handler, answer>>
  BY DEF Send, Room
<1>2. r \notin Q \cup S \cup F /\ ~ Held(r) /\ lost[r] = "no"
  BY <1>1 DEF PlaceInv, CallOK
<1>3. /\ queue' \in Seq(Requests) /\ Len(queue') = Len(queue) + 1
      /\ Q' = Q \cup {r} /\ Distinct(queue')
  <2>1. queue \in Seq(Requests) /\ Distinct(queue) /\ r \notin ToSet(queue)
    BY <1>2 DEF TypeOK, PlaceInv, Q
  <2> QED
    BY <1>1, <2>1, AppendSet DEF Q
<1>4. /\ pc' \in [Requests -> {"new", "log", "send", "evict", "fallback", "ended"}]
      /\ pc'[r] = "ended" /\ \A q \in Requests \ {r} : pc'[q] = pc[q]
  BY <1>1, GotoType
<1>5. TypeOK'
  <2>1. Len(queue') <= BufferSize
    BY <1>1, <1>3, AuditConstants DEF TypeOK
  <2> QED
    BY <1>1, <1>3, <1>4, <2>1 DEF TypeOK
<1>6. PlaceInv'
  <2>1. /\ S' = S /\ F' = F /\ Distinct(sink') /\ Distinct(fallback')
        /\ \A q : Held(q)' <=> Held(q)
    BY <1>1, SetsKept DEF PlaceInv
  <2>2. ASSUME NEW q \in Requests
        PROVE  CallOK(q)'
    <3>1. CASE q = r
      BY <1>2, <1>3, <1>4, <3>1 DEF CallOK
    <3>2. CASE q # r
      BY <1>1, <1>3, <1>4, <2>1, <3>2 DEF PlaceInv, CallOK
    <3> QED
      BY <3>1, <3>2
  <2>3. ASSUME NEW w \in Workers
        PROVE  HandOK(w)'
    BY <1>1, <1>2, <1>3, <2>1 DEF PlaceInv, HandOK, Held
  <2>4. \A q \in Q' \cup S' \cup F' : lost'[q] = "no"
    BY <1>1, <1>2, <1>3, <2>1 DEF PlaceInv
  <2>5. torn' \subseteq S' /\ S' \cap F' \subseteq torn' /\ Q' \cap (S' \cup F') = {}
    BY <1>1, <1>2, <1>3, <2>1 DEF PlaceInv
  <2> QED
    BY <1>1, <1>3, <2>1, <2>2, <2>3, <2>4, <2>5 DEF PlaceInv
<1>7. WorkerInv'
  BY <1>1 DEF WorkerInv, Async
<1>8. AnswerInv'
  BY <1>1, <1>4 DEF AnswerInv
<1> QED
  BY <1>5, <1>6, <1>7, <1>8

\* The oldest record of the queue, if there is one, leaves it.
LEMMA HeadLaw ==
  ASSUME AuditInv, queue # <<>>, queue' = Tail(queue)
  PROVE  /\ queue' \in Seq(Requests) /\ Len(queue') <= BufferSize /\ Distinct(queue')
         /\ Head(queue) \in Q /\ Head(queue) \in Requests /\ Q' = Q \ {Head(queue)}
<1>1. queue \in Seq(Requests) /\ Distinct(queue) /\ Len(queue) \in Nat /\ Len(queue) <= BufferSize
  BY DEF AuditInv, TypeOK, PlaceInv
<1>2. /\ queue' \in Seq(Requests) /\ Len(queue') = Len(queue) - 1 /\ Distinct(queue')
      /\ Head(queue) \in ToSet(queue) /\ Head(queue) \in Requests
      /\ ToSet(queue') = ToSet(queue) \ {Head(queue)}
  BY <1>1, TailSet
<1>3. Len(queue') <= BufferSize
  BY <1>1, <1>2, AuditConstants
<1> QED
  BY <1>2, <1>3 DEF Q

\* ... and PolicyDropOldest takes another one out.
LEMMA EvictStep ==
  ASSUME AuditInv, NEW r \in Requests, Evict(r)
  PROVE  AuditInv'
<1> USE DEF AuditInv, workVars, sinkVars, Goto
<1>1. /\ pc[r] = "evict" /\ pc' = [pc EXCEPT ![r] = "send"]
      /\ UNCHANGED <<policy, closed, hand, wpc, cpc, sink, fallback, sinkClosed, faults, torn, inflight, handler, answer>>
  BY DEF Evict
<1>2. /\ pc' \in [Requests -> {"new", "log", "send", "evict", "fallback", "ended"}]
      /\ pc'[r] = "send" /\ \A q \in Requests \ {r} : pc'[q] = pc[q]
  BY <1>1, GotoType
<1>3. lost[r] = "no" /\ r \notin Q
  BY <1>1 DEF PlaceInv, CallOK
<1>4. AnswerInv'
  BY <1>1, <1>2 DEF AnswerInv
<1>5. CASE queue = <<>>
  <2>1. queue' = queue /\ lost' = lost
    BY <1>5 DEF Evict
  <2>2. PlaceInv'
    BY <1>1, <1>2, <1>3, <2>1, PlaceCall
  <2>3. TypeOK'
    BY <1>1, <1>2, <2>1 DEF TypeOK
  <2>4. WorkerInv'
    BY <1>1, <2>1 DEF WorkerInv, Async
  <2> QED
    BY <1>4, <2>2, <2>3, <2>4
<1>6. CASE queue # <<>>
  <2> DEFINE h == Head(queue)
  <2>1. queue' = Tail(queue) /\ Give(h, "evicted")
    BY <1>6 DEF Evict
  <2>2. /\ queue' \in Seq(Requests) /\ Len(queue') <= BufferSize /\ Distinct(queue')
        /\ h \in Q /\ h \in Requests /\ Q' = Q \ {h}
    BY <1>6, <2>1, HeadLaw
  <2> HIDE DEF h
  <2>3. /\ lost' \in [Requests -> Reasons] /\ lost'[h] = "evicted"
        /\ \A q \in Requests \ {h} : lost'[q] = lost[q]
    BY <2>1, <2>2, GiveType DEF Reasons
  <2>4. /\ S' = S /\ F' = F /\ Distinct(sink') /\ Distinct(fallback')
        /\ \A q : Held(q)' <=> Held(q)
    BY <1>1, SetsKept DEF PlaceInv
  <2>5. h \notin S \cup F /\ ~ Held(h) /\ h # r /\ pc[h] = "ended"
    <3>1. pc[h] = "ended"
      BY <2>2 DEF PlaceInv, CallOK
    <3>2. ~ Held(h)
      BY <2>2, AuditConstants DEF PlaceInv, HandOK, Held
    <3> QED
      BY <1>1, <2>2, <3>1, <3>2 DEF PlaceInv
  <2>6. PlaceInv'
    <3>1. ASSUME NEW q \in Requests
          PROVE  CallOK(q)'
      <4>1. CASE q = r
        BY <1>1, <1>2, <1>3, <2>2, <2>3, <2>4, <2>5, <4>1 DEF PlaceInv, CallOK
      <4>2. CASE q = h
        BY <1>2, <2>2, <2>3, <2>5, <4>2 DEF CallOK
      <4>3. CASE q # r /\ q # h
        BY <1>1, <1>2, <2>2, <2>3, <2>4, <4>3 DEF PlaceInv, CallOK
      <4> QED
        BY <4>1, <4>2, <4>3
    <3>2. ASSUME NEW w \in Workers
          PROVE  HandOK(w)'
      <4>1. hand[w] # Nobody => hand[w] \in Requests /\ hand[w] # h
        BY <2>5 DEF TypeOK, Held
      <4> QED
        BY <1>1, <2>2, <2>3, <2>4, <4>1 DEF PlaceInv, HandOK
    <3>3. \A q \in Q' \cup S' \cup F' : lost'[q] = "no"
      BY <2>2, <2>3, <2>4, <2>5, SetsOK DEF PlaceInv
    <3>4. torn' \subseteq S' /\ S' \cap F' \subseteq torn' /\ Q' \cap (S' \cup F') = {}
      BY <1>1, <2>2, <2>4 DEF PlaceInv
    <3> QED
      BY <1>1, <2>2, <2>4, <3>1, <3>2, <3>3, <3>4 DEF PlaceInv
  <2>7. TypeOK'
    BY <1>1, <1>2, <2>2, <2>3 DEF TypeOK, Reasons
  <2>8. WorkerInv'
    BY <1>1, <1>6 DEF WorkerInv, Async
  <2> QED
    BY <1>4, <2>6, <2>7, <2>8
<1> QED
  BY <1>5, <1>6

\* A record enters one of the sinks on the goroutine of its request.
LEMMA PlaceWrite ==
  ASSUME TypeOK, PlaceInv, NEW r \in Requests, pc[r] # "ended", lost[r] = "no",
         pc'[r] = "ended", \A q \in Requests \ {r} : pc'[q] = pc[q],
         UNCHANGED <<queue, hand, wpc, closed, lost>>,
         Distinct(sink'), Distinct(fallback'),
         \/ S' = S \cup {r} /\ F' = F /\ (torn' = torn \/ torn' = torn \cup {r})
         \/ S' = S /\ F' = F \cup {r} /\ torn' = torn
  PROVE  PlaceInv'
<1>1. Q' = Q /\ Distinct(queue') /\ \A q : Held(q)' <=> Held(q)
  BY SetsKept DEF PlaceInv
<1>2. r \notin Q \cup S \cup F /\ ~ Held(r)
  BY DEF PlaceInv, CallOK
<1>3. ASSUME NEW q \in Requests
      PROVE  CallOK(q)'
  <2>1. CASE q = r
    BY <2>1 DEF CallOK
  <2>2. CASE q # r
    BY <1>1, <2>2 DEF PlaceInv, CallOK
  <2> QED
    BY <2>1, <2>2
<1>4. ASSUME NEW w \in Workers
      PROVE  HandOK(w)'
  <2>1. hand[w] # r
    BY <1>2 DEF Held
  <2> QED
    BY <1>1, <2>1 DEF PlaceInv, HandOK
<1>5. \A q \in Q' \cup S' \cup F' : lost'[q] = "no"
  BY <1>1 DEF PlaceInv
<1>6. torn' \subseteq S' /\ S' \cap F' \subseteq torn' /\ Q' \cap (S' \cup F') = {}
  BY <1>1, <1>2 DEF PlaceInv
<1> QED
  BY <1>1, <1>3, <1>4, <1>5, <1>6 DEF PlaceInv

LEMMA LogSyncStep ==
  ASSUME AuditInv, NEW r \in Requests, LogSync(r)
  PROVE  AuditInv'
<1> USE DEF AuditInv, workVars, Return
<1>1. /\ pc[r] = "log" /\ ~ Async /\ pc' = [pc EXCEPT ![r] = "ended"]
      /\ UNCHANGED <<policy, queue, closed, hand, wpc, cpc, fallback, sinkClosed, inflight, handler, answer>>
  BY DEF LogSync
<1>2. /\ pc' \in [Requests -> {"new", "log", "send", "evict", "fallback", "ended"}]
      /\ pc'[r] = "ended" /\ \A q \in Requests \ {r} : pc'[q] = pc[q]
  BY <1>1, GotoType
<1>3. r \notin Q \cup S \cup F /\ ~ Held(r) /\ lost[r] = "no"
  BY <1>1 DEF PlaceInv, CallOK, WorkerInv
<1>4. WorkerInv'
  BY <1>1 DEF WorkerInv, Async
<1>5. AnswerInv'
  BY <1>1, <1>2 DEF AnswerInv
<1>6. r \notin torn
  BY <1>3 DEF PlaceInv
<1>7. CASE \/ Writes(r) /\ UNCHANGED lost
           \/ WriteFails(r) /\ (IF r \in torn' THEN UNCHANGED lost ELSE Give(r, "write"))
  <2>1. /\ sink' \in Seq(Requests) /\ faults' \in 0 .. MaxFaults /\ torn' \subseteq Requests
        /\ Distinct(sink')
        /\ \/ S' = S \cup {r} /\ (torn' = torn \/ torn' = torn \cup {r}) /\ lost' = lost
           \/ sink' = sink /\ torn' = torn /\ Give(r, "write")
    <3>1. /\ sink' \in Seq(Requests) /\ faults' \in 0 .. MaxFaults /\ torn' \subseteq Requests
          /\ Distinct(sink')
          /\ \/ S' = S \cup {r} /\ torn' = torn /\ Writes(r)
             \/ S' = S \cup {r} /\ torn' = torn \cup {r} /\ WriteFails(r)
             \/ S' = S /\ torn' = torn /\ WriteFails(r)
      BY <1>3, <1>7, SinkLaw
    <3> QED
      BY <1>3, <1>6, <1>7, <3>1 DEF Writes, WriteFails, S
  <2>2. CASE S' = S \cup {r} /\ (torn' = torn \/ torn' = torn \cup {r}) /\ lost' = lost
    <3>1. F' = F /\ Distinct(fallback')
      BY <1>1, SetsKept DEF PlaceInv
    <3>2. PlaceInv'
      BY <1>1, <1>2, <1>3, <2>1, <2>2, <3>1, PlaceWrite
    <3>3. TypeOK'
      BY <1>1, <1>2, <2>1, <2>2 DEF TypeOK
    <3> QED
      BY <1>4, <1>5, <3>2, <3>3
  <2>3. CASE sink' = sink /\ torn' = torn /\ Give(r, "write")
    <3>1. /\ lost' \in [Requests -> Reasons] /\ lost'[r] = "write"
          /\ \A q \in Requests \ {r} : lost'[q] = lost[q]
      BY <2>3, GiveType DEF Reasons
    <3>2. PlaceInv'
      BY <1>1, <1>2, <2>3, <3>1, PlaceCall
    <3>3. TypeOK'
      BY <1>1, <1>2, <2>1, <2>3, <3>1 DEF TypeOK, Reasons
    <3> QED
      BY <1>4, <1>5, <3>2, <3>3
  <2> QED
    BY <2>1, <2>2, <2>3
<1>8. CASE Fault /\ Give(r, "format") /\ UNCHANGED <<sink, torn>>
  <2>1. /\ lost' \in [Requests -> Reasons] /\ lost'[r] = "format"
        /\ \A q \in Requests \ {r} : lost'[q] = lost[q]
    BY <1>8, GiveType DEF Reasons
  <2>2. PlaceInv'
    BY <1>1, <1>2, <1>8, <2>1, PlaceCall
  <2>3. TypeOK'
    BY <1>1, <1>2, <1>8, <2>1, FaultType DEF TypeOK, Reasons
  <2> QED
    BY <1>4, <1>5, <2>2, <2>3
<1> QED
  BY <1>7, <1>8 DEF LogSync

LEMMA FallBackStep ==
  ASSUME AuditInv, NEW r \in Requests, FallBack(r)
  PROVE  AuditInv'
<1> USE DEF AuditInv, workVars, Return
<1>1. /\ pc[r] = "fallback" /\ pc' = [pc EXCEPT ![r] = "ended"]
      /\ UNCHANGED <<policy, queue, closed, hand, wpc, cpc, sink, sinkClosed, torn, inflight, handler, answer>>
  BY DEF FallBack
<1>2. /\ pc' \in [Requests -> {"new", "log", "send", "evict", "fallback", "ended"}]
      /\ pc'[r] = "ended" /\ \A q \in Requests \ {r} : pc'[q] = pc[q]
  BY <1>1, GotoType
<1>3. r \notin Q \cup S \cup F /\ r \notin torn /\ lost[r] = "no"
  BY <1>1 DEF PlaceInv, CallOK
<1>4. WorkerInv'
  BY <1>1 DEF WorkerInv, Async
<1>5. AnswerInv'
  BY <1>1, <1>2 DEF AnswerInv
<1>6. /\ fallback' \in Seq(Requests) /\ faults' \in 0 .. MaxFaults
      /\ \/ F' = F \cup {r} /\ Distinct(fallback') /\ lost' = lost
         \/ fallback' = fallback /\ (Give(r, "write") \/ Give(r, "format"))
  <2>1. CASE WriteFallback(r)
    BY <1>3, <2>1, FallbackLaw DEF WriteFallback
  <2>2. CASE Fault /\ Give(r, "format") /\ UNCHANGED fallback
    BY <2>2, FaultType DEF TypeOK
  <2> QED
    BY <2>1, <2>2 DEF FallBack
<1>7. CASE F' = F \cup {r} /\ Distinct(fallback') /\ lost' = lost
  <2>1. S' = S /\ Distinct(sink')
    BY <1>1, SetsKept DEF PlaceInv
  <2>2. PlaceInv'
    BY <1>1, <1>2, <1>3, <1>7, <2>1, PlaceWrite
  <2>3. TypeOK'
    BY <1>1, <1>2, <1>6, <1>7 DEF TypeOK
  <2> QED
    BY <1>4, <1>5, <2>2, <2>3
<1>8. CASE fallback' = fallback /\ (Give(r, "write") \/ Give(r, "format"))
  <2>1. /\ lost' \in [Requests -> Reasons] /\ lost'[r] \in {"write", "format"}
        /\ \A q \in Requests \ {r} : lost'[q] = lost[q]
    BY <1>8, GiveType DEF Reasons
  <2>2. PlaceInv'
    BY <1>1, <1>2, <1>8, <2>1, PlaceCall
  <2>3. TypeOK'
    BY <1>1, <1>2, <1>6, <1>8, <2>1 DEF TypeOK, Reasons
  <2> QED
    BY <1>4, <1>5, <2>2, <2>3
<1> QED
  BY <1>6, <1>7, <1>8

-----------------------------------------------------------------------------
(* The workers *)

\* Nothing a worker does changes where the requests are.
LEMMA AnswerKeptByWorkers ==
  ASSUME AnswerInv, UNCHANGED <<pc, handler, answer, closed, inflight>>
  PROVE  AnswerInv'
  BY DEF AnswerInv

LEMMA ReceiveStep ==
  ASSUME AuditInv, NEW w \in Workers, Receive(w)
  PROVE  AuditInv'
<1> USE DEF AuditInv, reqVars, sinkVars, histVars
<1> DEFINE h == Head(queue)
<1>1. /\ wpc[w] = "run" /\ hand[w] = Nobody /\ queue # <<>> /\ queue' = Tail(queue)
      /\ hand' = [hand EXCEPT ![w] = h]
      /\ UNCHANGED <<policy, closed, pc, handler, answer, wpc, cpc, sink, fallback, sinkClosed, faults, lost, torn, inflight>>
  BY DEF Receive
<1>2. /\ queue' \in Seq(Requests) /\ Len(queue') <= BufferSize /\ Distinct(queue')
      /\ h \in Q /\ h \in Requests /\ Q' = Q \ {h}
  BY <1>1, HeadLaw
<1> HIDE DEF h
<1>3. hand' \in [Workers -> Requests \cup {Nobody}] /\ hand'[w] = h
      /\ \A v \in Workers \ {w} : hand'[v] = hand[v]
  BY <1>1, <1>2 DEF TypeOK
<1>4. TypeOK'
  BY <1>1, <1>2, <1>3 DEF TypeOK
<1>5. S' = S /\ F' = F /\ Distinct(sink') /\ Distinct(fallback')
  BY <1>1, SetsKept DEF PlaceInv
<1>6. h # Nobody /\ h \notin S \cup F /\ lost[h] = "no" /\ \A v \in Workers : hand[v] # h
  BY <1>2, AuditConstants DEF PlaceInv, HandOK
<1>7. \A q \in Requests : Held(q)' <=> Held(q) \/ q = h
  BY <1>1, <1>3, AuditConstants DEF Held
<1>8. PlaceInv'
  <2>1. ASSUME NEW q \in Requests
        PROVE  CallOK(q)'
    BY <1>1, <1>2, <1>5, <1>7 DEF PlaceInv, CallOK
  <2>2. ASSUME NEW v \in Workers
        PROVE  HandOK(v)'
    <3>1. CASE v = w
      BY <1>1, <1>2, <1>3, <1>5, <1>6, <3>1 DEF HandOK
    <3>2. CASE v # w
      BY <1>1, <1>2, <1>3, <1>5, <3>2 DEF PlaceInv, HandOK
    <3> QED
      BY <3>1, <3>2
  <2>3. \A u, v \in Workers : hand'[u] = hand'[v] /\ hand'[v] # Nobody => u = v
    BY <1>3, <1>6 DEF PlaceInv
  <2>4. \A q \in Q' \cup S' \cup F' : lost'[q] = "no"
    BY <1>1, <1>2, <1>5 DEF PlaceInv
  <2>5. torn' \subseteq S' /\ S' \cap F' \subseteq torn' /\ Q' \cap (S' \cup F') = {}
    BY <1>1, <1>2, <1>5 DEF PlaceInv
  <2> QED
    BY <1>2, <1>5, <2>1, <2>2, <2>3, <2>4, <2>5 DEF PlaceInv
<1>9. WorkerInv'
  BY <1>1, <1>3 DEF WorkerInv, Async
<1> QED
  BY <1>1, <1>4, <1>8, <1>9, AnswerKeptByWorkers

\* A worker is done with its record: written, or given up.
LEMMA PlaceDone ==
  ASSUME TypeOK, PlaceInv, NEW w \in Workers, NEW h \in Requests, h = hand[w],
         hand' = [hand EXCEPT ![w] = Nobody],
         \A v \in Workers \ {w} : wpc'[v] = wpc[v],
         UNCHANGED <<queue, pc, closed, torn>>,
         Distinct(sink'), Distinct(fallback'),
         \/ S' = S \cup {h} /\ F' = F /\ h \notin S /\ lost' = lost
         \/ S' = S /\ F' = F \cup {h} /\ lost' = lost
         \/ S' = S /\ F' = F /\ h \in S /\ lost' = lost
         \/ S' = S /\ F' = F /\ h \notin S /\ \E why \in Reasons \ {"no"} : Give(h, why)
  PROVE  PlaceInv'
<1>1. /\ hand'[w] = Nobody /\ \A v \in Workers \ {w} : hand'[v] = hand[v]
      /\ h # Nobody /\ \A v \in Workers \ {w} : hand[v] # h
  BY AuditConstants DEF TypeOK, PlaceInv
<1>2. \A q \in Requests : Held(q)' <=> Held(q) /\ q # h
  BY <1>1, AuditConstants DEF Held
<1>3. h \notin Q \cup F /\ lost[h] = "no" /\ pc[h] = "ended" /\ (h \in S => h \in torn)
  BY <1>1 DEF PlaceInv, HandOK, CallOK, Held
<1>4. Q' = Q /\ Distinct(queue')
  BY SetsKept DEF PlaceInv
<1>5. /\ \A q \in Requests \ {h} : lost'[q] = lost[q]
      /\ lost'[h] = "no" <=> h \in S' \cup F'
  BY <1>3, GiveType
<1>6. ASSUME NEW q \in Requests
      PROVE  CallOK(q)'
  <2>1. CASE q = h
    BY <1>3, <1>5, <2>1 DEF CallOK
  <2>2. CASE q # h
    BY <1>2, <1>4, <1>5, <2>2 DEF PlaceInv, CallOK
  <2> QED
    BY <2>1, <2>2
<1>7. ASSUME NEW v \in Workers
      PROVE  HandOK(v)'
  <2>1. CASE v = w
    BY <1>1, <2>1 DEF HandOK
  <2>2. CASE v # w
    <3>1. hand'[v] = hand[v] /\ wpc'[v] = wpc[v] /\ hand[v] # h /\ hand[v] \in Requests \cup {Nobody}
      BY <1>1, <2>2 DEF TypeOK
    <3> QED
      BY <1>4, <1>5, <3>1 DEF PlaceInv, HandOK
  <2> QED
    BY <2>1, <2>2
<1>8. \A u, v \in Workers : hand'[u] = hand'[v] /\ hand'[v] # Nobody => u = v
  BY <1>1 DEF PlaceInv
<1>9. \A q \in Q' \cup S' \cup F' : lost'[q] = "no"
  BY <1>3, <1>4, <1>5, SetsOK DEF PlaceInv
<1>10. torn' \subseteq S' /\ S' \cap F' \subseteq torn' /\ Q' \cap (S' \cup F') = {}
  BY <1>3, <1>4 DEF PlaceInv
<1> QED
  BY <1>4, <1>6, <1>7, <1>8, <1>9, <1>10 DEF PlaceInv

LEMMA WriteStep ==
  ASSUME AuditInv, NEW w \in Workers, Write(w)
  PROVE  AuditInv'
<1> USE DEF AuditInv, reqVars
<1>1. /\ wpc[w] = "run" /\ hand[w] # Nobody
      /\ UNCHANGED <<policy, queue, closed, pc, handler, answer, cpc, fallback, sinkClosed, lost, inflight>>
  BY DEF Write
<1>2. PICK h \in Requests : h = hand[w]
  BY <1>1 DEF TypeOK
<1>3. h \notin S /\ h \notin Q \cup F
  BY <1>1, <1>2 DEF PlaceInv, HandOK
<1>4. F' = F /\ Distinct(fallback') /\ Q' = Q /\ Distinct(queue')
  BY <1>1, SetsKept DEF PlaceInv
<1>5. \/ Writes(h) /\ hand' = [hand EXCEPT ![w] = Nobody] /\ wpc' = wpc
      \/ WriteFails(h) /\ wpc' = [wpc EXCEPT ![w] = "route"] /\ hand' = hand
  BY <1>2 DEF Write, AfterWrite
<1>6. /\ sink' \in Seq(Requests) /\ faults' \in 0 .. MaxFaults /\ torn' \subseteq Requests
      /\ Distinct(sink')
      /\ \/ S' = S \cup {h} /\ torn' = torn /\ Writes(h)
         \/ S' = S \cup {h} /\ torn' = torn \cup {h} /\ WriteFails(h)
         \/ S' = S /\ torn' = torn /\ WriteFails(h)
  BY <1>3, <1>5, SinkLaw
<1>7. TypeOK'
  <2>1. hand' \in [Workers -> Requests \cup {Nobody}] /\ wpc' \in [Workers -> {"run", "route", "done"}]
    BY <1>5 DEF TypeOK
  <2> QED
    BY <1>1, <1>6, <2>1 DEF TypeOK
<1>8. WorkerInv'
  BY <1>1, <1>2, <1>5 DEF WorkerInv, Async, TypeOK
<1>9. PlaceInv'
  <2>1. CASE Writes(h) /\ hand' = [hand EXCEPT ![w] = Nobody] /\ wpc' = wpc
    <3>1. S' = S \cup {h} /\ torn' = torn
      <4>1. sink \in Seq(Requests) /\ sink' = Append(sink, h) /\ torn' = torn
        BY <2>1 DEF TypeOK, Writes
      <4> QED
        BY <4>1, AppendSet DEF S
    <3> QED
      BY <1>1, <1>2, <1>3, <1>4, <1>6, <2>1, <3>1, PlaceDone
  <2>2. CASE WriteFails(h) /\ wpc' = [wpc EXCEPT ![w] = "route"] /\ hand' = hand
    <3>1. \/ S' = S \cup {h} /\ torn' = torn \cup {h}
          \/ S' = S /\ torn' = torn
      BY <1>3, <1>6, <2>2 DEF Writes, WriteFails, S
    <3>2. wpc'[w] = "route" /\ \A v \in Workers \ {w} : wpc'[v] = wpc[v]
      BY <2>2 DEF TypeOK
    <3>3. lost[h] = "no" /\ pc[h] = "ended" /\ Held(h)
      BY <1>1, <1>2 DEF PlaceInv, HandOK, CallOK, Held
    <3>4. \A q : Held(q)' <=> Held(q)
      BY <2>2, SetsKept
    <3>5. ASSUME NEW q \in Requests
          PROVE  CallOK(q)'
      BY <1>1, <1>4, <3>1, <3>3, <3>4 DEF PlaceInv, CallOK
    <3>6. ASSUME NEW v \in Workers
          PROVE  HandOK(v)'
      <4>1. CASE v = w
        BY <1>1, <1>2, <1>3, <1>4, <2>2, <3>1, <3>2, <3>3, <4>1 DEF HandOK
      <4>2. CASE v # w
        <5>1. hand[v] # h
          BY <1>1, <1>2, <4>2 DEF PlaceInv
        <5> QED
          BY <1>1, <1>4, <2>2, <3>1, <3>2, <4>2, <5>1 DEF PlaceInv, HandOK
      <4> QED
        BY <4>1, <4>2
    <3>7. \A q \in Q' \cup S' \cup F' : lost'[q] = "no"
      BY <1>1, <1>4, <3>1, <3>3 DEF PlaceInv
    <3>8. torn' \subseteq S' /\ S' \cap F' \subseteq torn' /\ Q' \cap (S' \cup F') = {}
      BY <1>3, <1>4, <3>1 DEF PlaceInv
    <3> QED
      BY <1>4, <1>6, <2>2, <3>5, <3>6, <3>7, <3>8 DEF PlaceInv
  <2> QED
    BY <1>5, <2>1, <2>2
<1> QED
  BY <1>1, <1>7, <1>8, <1>9, AnswerKeptByWorkers

LEMMA UnformattedStep ==
  ASSUME AuditInv, NEW w \in Workers, Unformatted(w)
  PROVE  AuditInv'
<1> USE DEF AuditInv, reqVars, sinkVars
<1>1. /\ wpc[w] = "run" /\ hand[w] # Nobody /\ Fault /\ hand' = [hand EXCEPT ![w] = Nobody]
      /\ UNCHANGED <<policy, queue, closed, pc, handler, answer, wpc, cpc, sink, fallback, sinkClosed, torn, inflight>>
  BY DEF Unformatted
<1>2. PICK h \in Requests : h = hand[w]
  BY <1>1 DEF TypeOK
<1>3. Give(h, "format") /\ h \notin S
  BY <1>1, <1>2 DEF Unformatted, PlaceInv, HandOK
<1>4. S' = S /\ F' = F /\ Distinct(sink') /\ Distinct(fallback')
  BY <1>1, SetsKept DEF PlaceInv
<1>5. PlaceInv'
  <2>1. \E why \in Reasons \ {"no"} : Give(h, why)
    BY <1>3 DEF Reasons
  <2> QED
    BY <1>1, <1>2, <1>3, <1>4, <2>1, PlaceDone
<1>6. TypeOK'
  <2>1. lost' \in [Requests -> Reasons]
    BY <1>3, GiveType DEF Reasons
  <2>2. hand' \in [Workers -> Requests \cup {Nobody}]
    BY <1>1 DEF TypeOK
  <2> QED
    BY <1>1, <2>1, <2>2, FaultType DEF TypeOK, Reasons
<1>7. WorkerInv'
  BY <1>1 DEF WorkerInv, Async, TypeOK
<1> QED
  BY <1>1, <1>5, <1>6, <1>7, AnswerKeptByWorkers

LEMMA RouteStep ==
  ASSUME AuditInv, NEW w \in Workers, Route(w)
  PROVE  AuditInv'
<1> USE DEF AuditInv, reqVars
<1>1. /\ wpc[w] = "route" /\ hand' = [hand EXCEPT ![w] = Nobody] /\ wpc' = [wpc EXCEPT ![w] = "run"]
      /\ UNCHANGED <<policy, queue, closed, pc, handler, answer, cpc, sink, sinkClosed, torn, inflight>>
  BY DEF Route
<1>2. PICK h \in Requests : h = hand[w]
  BY <1>1 DEF TypeOK, WorkerInv
<1>3. h \notin F /\ (h \in torn <=> h \in S) /\ WriteFallback(h)
  BY <1>1, <1>2, AuditConstants DEF Route, PlaceInv, HandOK
<1>4. /\ fallback' \in Seq(Requests) /\ faults' \in 0 .. MaxFaults
      /\ lost' \in [Requests -> Reasons] /\ Distinct(fallback')
      /\ \/ F' = F \cup {h} /\ lost' = lost
         \/ F' = F /\ h \in torn /\ lost' = lost
         \/ F' = F /\ h \notin torn /\ lost' = [lost EXCEPT ![h] = "write"]
  BY <1>3, FallbackLaw
<1>5. S' = S /\ Distinct(sink')
  BY <1>1, SetsKept DEF PlaceInv
<1>6. hand' \in [Workers -> Requests \cup {Nobody}] /\ wpc' \in [Workers -> {"run", "route", "done"}]
  BY <1>1 DEF TypeOK
<1>7. PlaceInv'
  <2>1. \A v \in Workers \ {w} : wpc'[v] = wpc[v]
    BY <1>1 DEF TypeOK
  <2>2. \/ F' = F \cup {h} /\ lost' = lost
        \/ F' = F /\ h \in S /\ lost' = lost
        \/ F' = F /\ h \notin S /\ \E why \in Reasons \ {"no"} : Give(h, why)
    BY <1>3, <1>4 DEF Give, Reasons
  <2> QED
    BY <1>1, <1>2, <1>4, <1>5, <2>1, <2>2, PlaceDone
<1>8. TypeOK'
  BY <1>1, <1>4, <1>6 DEF TypeOK, Reasons
<1>9. WorkerInv'
  BY <1>1 DEF WorkerInv, Async, TypeOK
<1> QED
  BY <1>1, <1>7, <1>8, <1>9, AnswerKeptByWorkers

\* The steps after which every record is where it was.
LEMMA PlaceKept ==
  ASSUME PlaceInv, UNCHANGED <<queue, sink, fallback, hand, pc, lost, torn>>,
         closed' = closed \/ closed' = TRUE,
         \A w \in Workers : wpc'[w] = wpc[w] \/ hand[w] = Nobody
  PROVE  PlaceInv'
<1>1. /\ Q' = Q /\ S' = S /\ F' = F
      /\ Distinct(queue') /\ Distinct(sink') /\ Distinct(fallback')
      /\ \A q : Held(q)' <=> Held(q)
  BY SetsKept DEF PlaceInv
<1>2. \A r \in Requests : CallOK(r)'
  BY <1>1 DEF PlaceInv, CallOK
<1>3. \A w \in Workers : HandOK(w)'
  BY <1>1 DEF PlaceInv, HandOK
<1> QED
  BY <1>1, <1>2, <1>3 DEF PlaceInv

LEMMA ExitStep ==
  ASSUME AuditInv, NEW w \in Workers, Exit(w)
  PROVE  AuditInv'
<1> USE DEF AuditInv, reqVars, sinkVars, histVars
<1>1. /\ wpc[w] = "run" /\ hand[w] = Nobody /\ closed /\ queue = <<>>
      /\ wpc' = [wpc EXCEPT ![w] = "done"]
      /\ UNCHANGED <<policy, queue, closed, pc, handler, answer, hand, cpc, sink, fallback, sinkClosed, faults, lost, torn, inflight>>
  BY DEF Exit, Drained
<1>2. wpc' \in [Workers -> {"run", "route", "done"}]
      /\ wpc'[w] = "done" /\ \A v \in Workers \ {w} : wpc'[v] = wpc[v]
  BY <1>1 DEF TypeOK
<1>3. TypeOK'
  BY <1>1, <1>2 DEF TypeOK
<1>4. PlaceInv'
  BY <1>1, <1>2, PlaceKept
<1>5. WorkerInv'
  BY <1>1, <1>2 DEF WorkerInv, Async
<1> QED
  BY <1>1, <1>3, <1>4, <1>5, AnswerKeptByWorkers

-----------------------------------------------------------------------------
(* Close *)

LEMMA CloseStep ==
  ASSUME AuditInv, NEW k \in Closers,
         Close(k) \/ CloseSinks(k) \/ CloseAgain(k) \/ CloseSync(k)
  PROVE  AuditInv'
<1> USE DEF AuditInv, reqVars, workVars, sinkVars, histVars
<1>1. /\ UNCHANGED <<policy, queue, pc, handler, answer, hand, wpc, sink, fallback, faults, lost, torn>>
      /\ cpc' \in [Closers -> {"idle", "wait", "returned"}]
  BY DEF Close, CloseSinks, CloseAgain, CloseSync, TypeOK
<1>2. \/ closed' = TRUE /\ ~ closed /\ Async /\ inflight' = Inside /\ sinkClosed' = sinkClosed
      \/ /\ closed' = closed /\ inflight' = inflight
         /\ \/ sinkClosed' = sinkClosed
            \/ sinkClosed' = TRUE /\ (Async => WaitOver)
  BY DEF Close, CloseSinks, CloseAgain, CloseSync
<1>3. TypeOK'
  <2>1. closed' \in BOOLEAN /\ sinkClosed' \in BOOLEAN
    BY <1>2 DEF TypeOK
  <2>2. inflight' \subseteq Requests
    BY <1>2 DEF TypeOK, Inside
  <2> QED
    BY <1>1, <2>1, <2>2 DEF TypeOK
<1>4. PlaceInv'
  BY <1>1, <1>2, PlaceKept
<1>5. WorkerInv'
  BY <1>1, <1>2 DEF WorkerInv, Async, WaitOver
<1>6. AnswerInv'
  BY <1>1, <1>2 DEF AnswerInv, Inside
<1> QED
  BY <1>3, <1>4, <1>5, <1>6

-----------------------------------------------------------------------------
LEMMA AuditNext ==
  ASSUME AuditInv, [Next]_vars
  PROVE  AuditInv'
<1>1. ASSUME NEW r \in Requests, Logging(r) \/ ContextDone(r)
      PROVE  AuditInv'
  BY <1>1, LogSyncStep, LogStep, SendStep, EvictStep, FallBackStep DEF Logging
<1>2. ASSUME NEW w \in Workers, Working(w)
      PROVE  AuditInv'
  BY <1>2, ReceiveStep, WriteStep, UnformattedStep, RouteStep, ExitStep DEF Working
<1>3. CASE UNCHANGED vars
  <2>1. UNCHANGED <<policy, queue, closed, pc, handler, answer, hand, wpc, cpc, sink, fallback, sinkClosed, faults, lost, torn, inflight>>
    BY <1>3 DEF vars, reqVars, workVars, sinkVars, histVars
  <2>2. PlaceInv'
    BY <2>1, PlaceKept DEF AuditInv
  <2>3. AnswerInv'
    BY <2>1, AnswerKeptByWorkers DEF AuditInv
  <2>4. TypeOK'
    BY <2>1 DEF AuditInv, TypeOK
  <2>5. WorkerInv'
    BY <2>1 DEF AuditInv, WorkerInv, Async
  <2> QED
    BY <2>2, <2>3, <2>4, <2>5 DEF AuditInv
<1> QED
  BY <1>1, <1>2, <1>3, HandleStep, CloseStep DEF Next

LEMMA InvCorrect == Spec => []AuditInv
  BY AuditInit, AuditNext, PTL DEF Spec

(***************************************************************************)
(* Every variable keeps its shape; the queue is never over its capacity.   *)
(***************************************************************************)
THEOREM TypeCorrect == Spec => []TypeOK
<1>1. AuditInv => TypeOK
  BY DEF AuditInv
<1> QED
  BY <1>1, InvCorrect, PTL

-----------------------------------------------------------------------------
(* Why a record is lost *)

\* What is true of the logger when a record is given up, as Explained says.
Cause(why) ==
    /\ why = "evicted" => policy = "drop_oldest"
    /\ why = "context" => policy = "block"
    /\ why \in {"refused", "panic"} => closed
    /\ why = "write" => faults > 0 \/ (policy = "sync" /\ sinkClosed)
    /\ why = "format" => faults > 0

\* Nothing that explains a loss is ever undone.
Later ==
    /\ policy' = policy
    /\ closed => closed'
    /\ sinkClosed => sinkClosed'
    /\ faults > 0 => faults' > 0

LEMMA GivenUp ==
  ASSUME TypeOK, \A x \in Requests : Explained(x), Later,
         UNCHANGED lost \/ \E x \in Requests, why \in Reasons : Give(x, why) /\ Cause(why)'
  PROVE  \A x \in Requests : Explained(x)'
<1> SUFFICES ASSUME NEW y \in Requests PROVE Explained(y)'
  OBVIOUS
<1>1. CASE lost'[y] = lost[y]
  <2>1. Explained(y)
    OBVIOUS
  <2> QED
    BY <1>1, <2>1 DEF Explained, Later
<1>2. ASSUME NEW x \in Requests, NEW why \in Reasons, Give(x, why), Cause(why)', lost'[y] # lost[y]
      PROVE  Explained(y)'
  <2>1. y = x
    BY <1>2, GiveType
  <2>2. lost'[y] = why
    BY <1>2, <2>1, GiveType
  <2> QED
    BY <1>2, <2>2 DEF Explained, Cause
<1> QED
  BY <1>1, <1>2

LEMMA FaultGrows ==
  ASSUME TypeOK
  PROVE  /\ Fault => faults' > 0
         /\ faults > 0 /\ (Fault \/ UNCHANGED faults) => faults' > 0
  BY AuditConstants DEF TypeOK, Fault

LEMMA LogExplained ==
  ASSUME TypeOK, \A x \in Requests : Explained(x), NEW r \in Requests, Logging(r) \/ ContextDone(r),
         pc[r] = "evict" => policy = "drop_oldest"
  PROVE  \A x \in Requests : Explained(x)'
<1>1. CASE LogSync(r)
  <2>1. /\ UNCHANGED <<policy, closed, sinkClosed>> /\ policy = "sync"
        /\ Fault \/ UNCHANGED faults
    BY <1>1 DEF LogSync, Async, Writes, WriteFails
  <2>2. Later
    BY <2>1, FaultGrows DEF Later
  <2>3. UNCHANGED lost \/ (Give(r, "write") /\ (Fault \/ sinkClosed)) \/ (Give(r, "format") /\ Fault)
    BY <1>1 DEF LogSync, WriteFails
  <2>4. "write" \in Reasons /\ "format" \in Reasons
    BY DEF Reasons
  <2>5. /\ Fault \/ sinkClosed => Cause("write")'
        /\ Fault => Cause("format")'
    BY <2>1, FaultGrows DEF Cause
  <2> QED
    BY <2>2, <2>3, <2>4, <2>5, GivenUp
<1>2. CASE LogRefused(r) \/ SendPanics(r)
  <2>1. /\ UNCHANGED <<policy, closed, sinkClosed, faults>> /\ closed
        /\ Give(r, "refused") \/ Give(r, "panic")
    BY <1>2 DEF LogRefused, SendPanics, Refuses, sinkVars
  <2>2. Later /\ Cause("refused")' /\ Cause("panic")' /\ "refused" \in Reasons /\ "panic" \in Reasons
    BY <2>1 DEF Later, Cause, Reasons
  <2> QED
    BY <2>1, <2>2, GivenUp
<1>3. CASE LogEnters(r) \/ Send(r) \/ SendFull(r)
  <2>1. UNCHANGED <<policy, closed, sinkClosed, faults, lost>>
    BY <1>3 DEF LogEnters, Send, SendFull, sinkVars, histVars
  <2> QED
    BY <2>1, GivenUp DEF Later
<1>4. CASE Evict(r)
  <2>1. /\ UNCHANGED <<policy, closed, sinkClosed, faults>>
        /\ UNCHANGED lost \/ (queue # <<>> /\ Give(Head(queue), "evicted"))
    BY <1>4 DEF Evict, sinkVars
  <2>2. queue # <<>> => Head(queue) \in Requests
    BY DEF TypeOK
  <2>3. Later /\ "evicted" \in Reasons
    BY <2>1 DEF Later, Reasons
  <2>4. Cause("evicted")'
    BY <1>4, <2>1 DEF Cause, Evict
  <2> QED
    BY <2>1, <2>2, <2>3, <2>4, GivenUp
<1>5. CASE FallBack(r)
  <2>1. /\ UNCHANGED <<policy, closed, sinkClosed>>
        /\ \/ UNCHANGED <<faults, lost>>
           \/ Fault /\ (UNCHANGED lost \/ Give(r, "write") \/ Give(r, "format"))
    BY <1>5 DEF FallBack, WriteFallback
  <2>2. Later /\ "write" \in Reasons /\ "format" \in Reasons
    BY <2>1, FaultGrows DEF Later, Reasons
  <2>3. Fault => Cause("write")' /\ Cause("format")'
    BY FaultGrows DEF Cause
  <2> QED
    BY <2>1, <2>2, <2>3, GivenUp
<1>6. CASE ContextDone(r)
  <2>1. /\ UNCHANGED <<policy, closed, sinkClosed, faults>> /\ policy = "block"
        /\ Give(r, "context")
    BY <1>6 DEF ContextDone, sinkVars
  <2>2. Later /\ Cause("context")' /\ "context" \in Reasons
    BY <2>1 DEF Later, Cause, Reasons
  <2> QED
    BY <2>1, <2>2, GivenUp
<1> QED
  BY <1>1, <1>2, <1>3, <1>4, <1>5, <1>6 DEF Logging

LEMMA WorkExplained ==
  ASSUME TypeOK, WorkerInv, \A x \in Requests : Explained(x), NEW w \in Workers, Working(w)
  PROVE  \A x \in Requests : Explained(x)'
<1>1. CASE Receive(w) \/ Exit(w)
  <2>1. UNCHANGED <<policy, closed, sinkClosed, faults, lost>>
    BY <1>1 DEF Receive, Exit, sinkVars, histVars
  <2> QED
    BY <2>1, GivenUp DEF Later
<1>2. CASE Write(w)
  <2>1. UNCHANGED <<policy, closed, sinkClosed, lost>> /\ (Fault \/ UNCHANGED faults)
    BY <1>2 DEF Write, Writes, WriteFails
  <2> QED
    BY <2>1, FaultGrows, GivenUp DEF Later
<1>3. CASE Unformatted(w) \/ Route(w)
  <2>1. /\ UNCHANGED <<policy, closed, sinkClosed>>
        /\ \/ UNCHANGED <<faults, lost>>
           \/ Fault /\ (UNCHANGED lost \/ Give(hand[w], "write") \/ Give(hand[w], "format"))
    BY <1>3 DEF Unformatted, Route, WriteFallback, sinkVars
  <2>2. Later /\ "write" \in Reasons /\ "format" \in Reasons
    BY <2>1, FaultGrows DEF Later, Reasons
  <2>3. Fault => Cause("write")' /\ Cause("format")'
    BY FaultGrows DEF Cause
  <2>4. hand[w] \in Requests
    BY <1>3 DEF Unformatted, Route, WorkerInv, TypeOK
  <2> QED
    BY <2>1, <2>2, <2>3, <2>4, GivenUp
<1> QED
  BY <1>1, <1>2, <1>3 DEF Working

\* Only PolicyDropOldest evicts.
LEMMA OnlyDropOldest == Spec => [](\A x \in Requests : pc[x] = "evict" => policy = "drop_oldest")
<1> DEFINE D == \A x \in Requests : pc[x] = "evict" => policy = "drop_oldest"
<1>1. Init => D
  BY DEF Init
<1>2. ASSUME TypeOK, D, [Next]_vars
      PROVE  D'
  <2>1. ASSUME NEW r \in Requests, policy' = policy, NEW l, pc' = [pc EXCEPT ![r] = l],
               l = "evict" => policy = "drop_oldest"
        PROVE  D'
    BY <1>2, <2>1 DEF TypeOK
  <2>2. ASSUME NEW r \in Requests, NEW kind \in Kinds, NEW outcome \in Outcomes,
               Handle(r, kind, outcome)
        PROVE  D'
    BY <2>1, <2>2 DEF Handle
  <2>3. ASSUME NEW r \in Requests, Logging(r) \/ ContextDone(r)
        PROVE  D'
    <3>1. CASE LogSync(r) \/ LogRefused(r) \/ LogEnters(r) \/ Send(r) \/ Evict(r) \/ FallBack(r) \/ ContextDone(r)
      BY <2>1, <3>1 DEF LogSync, LogRefused, LogEnters, Send, Evict, FallBack, ContextDone, Return, Goto
    <3>2. CASE SendPanics(r)
      BY <2>1, <3>2 DEF SendPanics
    <3>3. CASE SendFull(r)
      BY <2>1, <3>3 DEF SendFull, Overflow, Goto
    <3> QED
      BY <2>3, <3>1, <3>2, <3>3 DEF Logging
  <2>4. ASSUME NEW w \in Workers, Working(w) PROVE D'
    BY <1>2, <2>4 DEF Working, Receive, Write, Unformatted, Route, Exit, reqVars
  <2>5. ASSUME NEW k \in Closers, Close(k) \/ CloseSinks(k) \/ CloseAgain(k) \/ CloseSync(k)
        PROVE  D'
    BY <1>2, <2>5 DEF Close, CloseSinks, CloseAgain, CloseSync, reqVars
  <2>6. CASE UNCHANGED vars
    BY <1>2, <2>6 DEF vars, reqVars
  <2> QED
    BY <1>2, <2>2, <2>3, <2>4, <2>5, <2>6 DEF Next
<1>3. AuditInv => TypeOK
  BY DEF AuditInv
<1> QED
  BY <1>1, <1>2, <1>3, InvCorrect, PTL DEF Spec

Losses == \A x \in Requests : Explained(x)

LEMMA AllExplained == Spec => []Losses
<1> DEFINE E == Losses
           D == \A x \in Requests : pc[x] = "evict" => policy = "drop_oldest"
<1>1. Init => E
  BY DEF Init, Explained, Losses
<1>2. ASSUME TypeOK, WorkerInv, D, E, [Next]_vars
      PROVE  E'
  <2>1. ASSUME NEW r \in Requests, NEW kind \in Kinds, NEW outcome \in Outcomes,
               Handle(r, kind, outcome)
        PROVE  E'
    <3>1. /\ UNCHANGED <<policy, closed, sinkClosed, faults>>
          /\ UNCHANGED lost \/ Give(r, "unaudited")
      BY <2>1 DEF Handle, sinkVars
    <3>2. Later /\ Cause("unaudited")' /\ "unaudited" \in Reasons
      BY <3>1 DEF Later, Cause, Reasons
    <3> QED
      BY <1>2, <3>1, <3>2, GivenUp DEF Losses
  <2>2. ASSUME NEW r \in Requests, Logging(r) \/ ContextDone(r) PROVE E'
    BY <1>2, <2>2, LogExplained DEF Losses
  <2>3. ASSUME NEW w \in Workers, Working(w) PROVE E'
    BY <1>2, <2>3, WorkExplained DEF Losses
  <2>4. ASSUME NEW k \in Closers, Close(k) \/ CloseSinks(k) \/ CloseAgain(k) \/ CloseSync(k)
        PROVE  E'
    <3>1. UNCHANGED <<policy, faults, lost>> /\ (closed => closed') /\ (sinkClosed => sinkClosed')
      BY <2>4 DEF Close, CloseSinks, CloseAgain, CloseSync, sinkVars, histVars
    <3> QED
      BY <1>2, <3>1, GivenUp DEF Later, Losses
  <2>5. CASE UNCHANGED vars
    <3>1. UNCHANGED <<policy, closed, sinkClosed, faults, lost>>
      BY <2>5 DEF vars, sinkVars, histVars
    <3> QED
      BY <1>2, <3>1, GivenUp DEF Later, Losses
  <2> QED
    BY <1>2, <2>1, <2>2, <2>3, <2>4, <2>5 DEF Next
<1>3. AuditInv => TypeOK /\ WorkerInv
  BY DEF AuditInv
<1> QED
  BY <1>1, <1>2, <1>3, InvCorrect, OnlyDropOldest, PTL DEF Spec

(***************************************************************************)
(* A request that is over has its record in a sink or on the way to one,   *)
(* exactly unless the code gave it up, under every overflow policy and     *)
(* whichever of the formatter's and the sinks' calls fail.  It gives it up *)
(* by eviction under PolicyDropOldest, at the end of the request's context *)
(* under PolicyBlock, and otherwise only after a Close or a failure.       *)
(***************************************************************************)
THEOREM AccountedCorrect == Spec => []Accounted
<1>1. ASSUME AuditInv, Losses
      PROVE  Accounted
  <2> SUFFICES ASSUME NEW r \in Requests, pc[r] = "ended"
               PROVE  lost[r] = "no" <=> r \in Q \cup S \cup F \/ Held(r)
    BY <1>1 DEF Accounted, Losses, Written, Pending, Q, S, F, Held
  <2>1. r # Nobody
    BY AuditConstants
  <2>2. Held(r) => lost[r] = "no"
    BY <1>1, <2>1 DEF AuditInv, PlaceInv, HandOK, Held
  <2> QED
    BY <1>1, <2>2 DEF AuditInv, PlaceInv, CallOK
<1> QED
  BY <1>1, InvCorrect, AllExplained, PTL

(***************************************************************************)
(* Once the Close that closed the queue has closed the sinks, the queue is *)
(* empty, every worker has left with empty hands, and every record that    *)
(* was not given up is in a sink.                                          *)
(***************************************************************************)
THEOREM DrainCorrect == Spec => []DrainedAtClose
<1>1. ASSUME AuditInv, Async, sinkClosed
      PROVE  /\ queue = <<>>
             /\ \A w \in Workers : wpc[w] = "done" /\ hand[w] = Nobody
             /\ \A r \in Requests : pc[r] = "ended" /\ lost[r] = "no" => r \in Written
  <2>1. \A w \in Workers : wpc[w] = "done" /\ hand[w] = Nobody /\ queue = <<>>
    BY <1>1 DEF AuditInv, WorkerInv
  <2>2. queue = <<>>
    BY <2>1, AuditConstants
  <2>3. Q = {}
    BY <1>1, <2>2, EmptySet DEF AuditInv, TypeOK, Q
  <2>4. \A r \in Requests : ~ Held(r)
    BY <2>1, AuditConstants DEF Held
  <2> QED
    BY <1>1, <2>1, <2>2, <2>3, <2>4 DEF AuditInv, PlaceInv, CallOK, Written, S, F
<1>2. AuditInv => DrainedAtClose
  BY <1>1 DEF DrainedAtClose
<1> QED
  BY <1>2, InvCorrect, PTL

(***************************************************************************)
(* No record is written twice, neither by the deferred second Log nor by   *)
(* the fallback route; only a Write that failed late leaves it in both     *)
(* sinks.                                                                  *)
(***************************************************************************)
THEOREM OnceCorrect == Spec => []RecordedOnce
<1>1. AuditInv => RecordedOnce
  BY DEF AuditInv, PlaceInv, RecordedOnce, Distinct, S, F
<1> QED
  BY <1>1, InvCorrect, PTL

(***************************************************************************)
(* The audit changes what a request answers only for the requests that     *)
(* were inside Log when Close closed the queue.                            *)
(***************************************************************************)
THEOREM AnswerCorrect == Spec => []AnswerKept
<1>1. AuditInv => AnswerKept
  BY DEF AuditInv, AnswerInv, AnswerKept
<1> QED
  BY <1>1, InvCorrect, PTL
=============================================================================
