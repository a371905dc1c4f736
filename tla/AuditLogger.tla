---------------------------- MODULE AuditLogger ----------------------------
(***************************************************************************)
(* security/audit: the audit middleware, the synchronous and the           *)
(* asynchronous logger with its queue, workers and overflow policies, and  *)
(* the sinks they write to.  A record is named by the request it is about. *)
(*                                                                         *)
(* AsyncLogger.Log reads `closed` under closeMu and releases the lock      *)
(* before it sends, so the check and the send are two steps, as are a full *)
(* queue's discovery and what the policy then does about it.  The main     *)
(* sink is a FileSink, the fallback sink writes to stderr, which its Close *)
(* leaves open.  Who calls Close is the application, at any time.          *)
(***************************************************************************)
EXTENDS Naturals, Sequences, SequencesExt, FiniteSets

CONSTANTS
    Requests,     \* requests passing the middleware
    Workers,      \* AsyncConfig.Workers goroutines
    Closers,      \* goroutines that call Close
    BufferSize,   \* AsyncConfig.BufferSize
    Policies,     \* the loggers that may be configured: "sync" is a SyncLogger,
                  \* the others an AsyncLogger with that OverflowPolicy
    Nobody,       \* no record
    MaxFaults     \* bound: failures of the formatter and of the sinks

ASSUME AuditConstants ==
    /\ BufferSize \in Nat \ {0} /\ Workers # {}   \* NewAsyncLogger replaces the others
    /\ Policies \subseteq {"sync", "block", "drop_oldest", "fallback"}
    /\ Nobody \notin Requests
    /\ MaxFaults \in Nat

VARIABLES
    policy,
    queue,        \* the channel's buffer
    closed,       \* AsyncLogger.closed, and the channel is closed
    pc,           \* where each request is
    handler,      \* what its handler did: "return", with or without an error, or "panic"
    answer,       \* what left the middleware
    hand,         \* the record a worker has received
    wpc,          \* "run", "route" (the sink failed) or "done" (wg.Done)
    cpc,          \* a caller of Close: "idle", "wait" or "returned"
    sink,         \* the records of the main sink
    fallback,     \* the records of the fallback sink
    sinkClosed,
    faults,
    lost,         \* history: why a record is nowhere, "no" if it is not lost
    torn,         \* history: records that were written before Write failed
    inflight      \* history: requests inside Log when Close closed the queue

reqVars  == <<pc, handler, answer>>
workVars == <<hand, wpc>>
sinkVars == <<sink, fallback, sinkClosed>>
histVars == <<lost, torn, inflight>>
vars == <<policy, queue, closed, reqVars, workVars, cpc, sinkVars, faults, histVars>>

Async == policy # "sync"

Init ==
    /\ policy \in Policies
    /\ queue = <<>>
    /\ closed = FALSE
    /\ pc = [r \in Requests |-> "new"]
    /\ handler = [r \in Requests |-> "return"]
    /\ answer = [r \in Requests |-> "return"]
    /\ hand = [w \in Workers |-> Nobody]
    /\ wpc = [w \in Workers |-> IF Async THEN "run" ELSE "done"]
    /\ cpc = [k \in Closers |-> "idle"]
    /\ sink = <<>>
    /\ fallback = <<>>
    /\ sinkClosed = FALSE
    /\ faults = 0
    /\ lost = [r \in Requests |-> "no"]
    /\ torn = {}
    /\ inflight = {}

-----------------------------------------------------------------------------
(* Formatting and writing, the steps that may fail *)

Fault == faults < MaxFaults /\ faults' = faults + 1

\* FileSink.Write appends the record, or fails: before the write, or, with
\* syncOnWrite, in the Sync after it.  A closed file refuses.
Writes(r) == ~ sinkClosed /\ sink' = Append(sink, r) /\ UNCHANGED <<faults, torn>>

WriteFails(r) ==
    \/ sinkClosed /\ UNCHANGED <<sink, faults, torn>>
    \/ Fault /\ UNCHANGED <<sink, torn>>
    \/ ~ sinkClosed /\ Fault /\ sink' = Append(sink, r) /\ torn' = torn \cup {r}

\* The record r is given up, for the reason given.
Give(r, why) == lost' = [lost EXCEPT ![r] = why]

\* WriterSink.Write of the fallback sink; its error goes no further.
WriteFallback(r) ==
    \/ fallback' = Append(fallback, r) /\ UNCHANGED <<faults, lost>>
    \/ Fault /\ UNCHANGED fallback /\ (IF r \in torn THEN UNCHANGED lost ELSE Give(r, "write"))

-----------------------------------------------------------------------------
(* The middleware *)

\* A probe, a plain read that succeeds, and a request that changes something
\* or ends with a status of 400 or above.
Kinds == {"probe", "plain", "notable"}
Outcomes == {"return", "panic"}

\* DefaultAuditSkipper: health probes, metrics and static files.
Skipper(kind) == kind = "probe"

\* DefaultAuditPolicy; a panic counts as status 500.
Policy(kind, outcome) == kind = "notable" \/ outcome = "panic"

\* The handler chain runs; the record is complete when it is over, or in the
\* deferred function when it has panicked.
Handle(r, kind, outcome) ==
    /\ pc[r] = "new"
    /\ handler' = [handler EXCEPT ![r] = outcome]
    /\ answer' = [answer EXCEPT ![r] = outcome]
    /\ IF Skipper(kind) \/ ~ Policy(kind, outcome)
       THEN pc' = [pc EXCEPT ![r] = "ended"] /\ Give(r, "unaudited")
       ELSE pc' = [pc EXCEPT ![r] = "log"] /\ UNCHANGED lost
    /\ UNCHANGED <<policy, queue, closed, workVars, cpc, sinkVars, faults, torn, inflight>>

\* Log returns; the middleware drops its error and returns what the handler
\* returned, or panics again.
Return(r) == pc' = [pc EXCEPT ![r] = "ended"] /\ UNCHANGED <<handler, answer>>

Goto(r, l) == pc' = [pc EXCEPT ![r] = l] /\ UNCHANGED <<handler, answer>>

-----------------------------------------------------------------------------
(* SyncLogger.Log: nothing tells it that the logger is closed *)

LogSync(r) ==
    /\ pc[r] = "log" /\ ~ Async
    /\ Return(r)
    /\ \/ Writes(r) /\ UNCHANGED lost
       \/ WriteFails(r) /\ (IF r \in torn' THEN UNCHANGED lost ELSE Give(r, "write"))
       \/ Fault /\ Give(r, "format") /\ UNCHANGED <<sink, torn>>
    /\ UNCHANGED <<policy, queue, closed, workVars, cpc, fallback, sinkClosed, inflight>>

-----------------------------------------------------------------------------
(* AsyncLogger.Log *)

\* Mutant: Log does not ask whether the logger is closed.
BugRefuses == FALSE

Refuses == closed

LogRefused(r) ==
    /\ pc[r] = "log" /\ Async /\ Refuses
    /\ Return(r)
    /\ Give(r, "refused")
    /\ UNCHANGED <<policy, queue, closed, workVars, cpc, sinkVars, faults, torn, inflight>>

LogEnters(r) ==
    /\ pc[r] = "log" /\ Async /\ ~ Refuses
    /\ Goto(r, "send")
    /\ UNCHANGED <<policy, queue, closed, workVars, cpc, sinkVars, faults, histVars>>

Room == Len(queue) < BufferSize

Send(r) ==
    /\ pc[r] = "send" /\ ~ closed /\ Room
    /\ queue' = Append(queue, r)
    /\ Return(r)
    /\ UNCHANGED <<policy, closed, workVars, cpc, sinkVars, faults, histVars>>

\* Sending on a closed channel panics, also for a sender that was waiting.
\* The deferred function logs once more unless it is itself what panics.
SendPanics(r) ==
    /\ pc[r] = "send" /\ closed
    /\ answer' = [answer EXCEPT ![r] = "panic"]
    /\ pc' = [pc EXCEPT ![r] = IF answer[r] = "panic" THEN "ended" ELSE "log"]
    /\ Give(r, "panic")
    /\ UNCHANGED <<policy, queue, closed, handler, workVars, cpc, sinkVars, faults, torn, inflight>>

\* PolicyBlock waits for room or for the end of the request's context.
ContextDone(r) ==
    /\ pc[r] = "send" /\ policy = "block"
    /\ Return(r)
    /\ Give(r, "context")
    /\ UNCHANGED <<policy, queue, closed, workVars, cpc, sinkVars, faults, torn, inflight>>

\* Mutant: a full queue is the end of it, as for an event nobody needs.
BugOverflow(r) == policy # "block" /\ Return(r)

\* The default branch of the other policies' select.
Overflow(r) ==
    \/ policy = "drop_oldest" /\ Goto(r, "evict")
    \/ policy = "fallback" /\ Goto(r, "fallback")

SendFull(r) ==
    /\ pc[r] = "send" /\ ~ closed /\ ~ Room
    /\ Overflow(r)
    /\ UNCHANGED <<policy, queue, closed, workVars, cpc, sinkVars, faults, histVars>>

\* PolicyDropOldest takes one record out, whether the queue is still full or
\* not, and tries again.
Evict(r) ==
    /\ pc[r] = "evict"
    /\ Goto(r, "send")
    /\ IF queue = <<>> THEN UNCHANGED <<queue, lost>>
       ELSE queue' = Tail(queue) /\ Give(Head(queue), "evicted")
    /\ UNCHANGED <<policy, closed, workVars, cpc, sinkVars, faults, torn, inflight>>

\* PolicyFallback writes on the caller's goroutine.
FallBack(r) ==
    /\ pc[r] = "fallback"
    /\ Return(r)
    /\ \/ WriteFallback(r)
       \/ Fault /\ Give(r, "format") /\ UNCHANGED fallback
    /\ UNCHANGED <<policy, queue, closed, workVars, cpc, sink, sinkClosed, torn, inflight>>

-----------------------------------------------------------------------------
(* The workers *)

Receive(w) ==
    /\ wpc[w] = "run" /\ hand[w] = Nobody /\ queue # <<>>
    /\ hand' = [hand EXCEPT ![w] = Head(queue)]
    /\ queue' = Tail(queue)
    /\ UNCHANGED <<policy, closed, reqVars, wpc, cpc, sinkVars, faults, histVars>>

\* Mutant: the fallback sink is written to whatever the first one answered.
BugAfterWrite(w, ok) == wpc' = [wpc EXCEPT ![w] = "route"] /\ UNCHANGED hand

\* After a Write the worker goes on with the next record, or routes this one.
AfterWrite(w, ok) ==
    IF ok THEN hand' = [hand EXCEPT ![w] = Nobody] /\ UNCHANGED wpc
    ELSE wpc' = [wpc EXCEPT ![w] = "route"] /\ UNCHANGED hand

Write(w) ==
    /\ wpc[w] = "run" /\ hand[w] # Nobody
    /\ \/ Writes(hand[w]) /\ AfterWrite(w, TRUE)
       \/ WriteFails(hand[w]) /\ AfterWrite(w, FALSE)
    /\ UNCHANGED <<policy, queue, closed, reqVars, cpc, fallback, sinkClosed, lost, inflight>>

Unformatted(w) ==
    /\ wpc[w] = "run" /\ hand[w] # Nobody
    /\ Fault
    /\ Give(hand[w], "format")
    /\ hand' = [hand EXCEPT ![w] = Nobody]
    /\ UNCHANGED <<policy, queue, closed, reqVars, wpc, cpc, sinkVars, torn, inflight>>

Route(w) ==
    /\ wpc[w] = "route"
    /\ WriteFallback(hand[w])
    /\ hand' = [hand EXCEPT ![w] = Nobody]
    /\ wpc' = [wpc EXCEPT ![w] = "run"]
    /\ UNCHANGED <<policy, queue, closed, reqVars, cpc, sink, sinkClosed, torn, inflight>>

\* Mutant: a worker leaves as soon as the logger is closed.
BugDrained == closed

\* `range` over a closed channel ends when its buffer is empty.
Drained == closed /\ queue = <<>>

Exit(w) ==
    /\ wpc[w] = "run" /\ hand[w] = Nobody /\ Drained
    /\ wpc' = [wpc EXCEPT ![w] = "done"]
    /\ UNCHANGED <<policy, queue, closed, reqVars, hand, cpc, sinkVars, faults, histVars>>

-----------------------------------------------------------------------------
(* Close *)

Inside == {r \in Requests : pc[r] \in {"send", "evict", "fallback"}}

Close(k) ==
    /\ cpc[k] = "idle" /\ Async /\ ~ closed
    /\ closed' = TRUE
    /\ inflight' = Inside
    /\ cpc' = [cpc EXCEPT ![k] = "wait"]
    /\ UNCHANGED <<policy, queue, reqVars, workVars, sinkVars, faults, lost, torn>>

\* Mutant: wg.Add counts one worker too many, and Wait never ends.
BugWaitOver == FALSE

WaitOver == \A w \in Workers : wpc[w] = "done"

\* wg.Wait, then Flush and Close of the sinks.
CloseSinks(k) ==
    /\ cpc[k] = "wait" /\ WaitOver
    /\ sinkClosed' = TRUE
    /\ cpc' = [cpc EXCEPT ![k] = "returned"]
    /\ UNCHANGED <<policy, queue, closed, reqVars, workVars, sink, fallback, faults, histVars>>

\* A second call returns at once, drained or not.
CloseAgain(k) ==
    /\ cpc[k] = "idle" /\ Async /\ closed
    /\ cpc' = [cpc EXCEPT ![k] = "returned"]
    /\ UNCHANGED <<policy, queue, closed, reqVars, workVars, sinkVars, faults, histVars>>

\* SyncLogger.Close.
CloseSync(k) ==
    /\ cpc[k] = "idle" /\ ~ Async
    /\ sinkClosed' = TRUE
    /\ cpc' = [cpc EXCEPT ![k] = "returned"]
    /\ UNCHANGED <<policy, queue, closed, reqVars, workVars, sink, fallback, faults, histVars>>

-----------------------------------------------------------------------------
Logging(r) ==
    \/ LogSync(r) \/ LogRefused(r) \/ LogEnters(r)
    \/ Send(r) \/ SendPanics(r) \/ SendFull(r) \/ Evict(r) \/ FallBack(r)

Working(w) == Receive(w) \/ Write(w) \/ Unformatted(w) \/ Route(w) \/ Exit(w)

Next ==
    \/ \E r \in Requests, kind \in Kinds, outcome \in Outcomes : Handle(r, kind, outcome)
    \/ \E r \in Requests : Logging(r) \/ ContextDone(r)
    \/ \E w \in Workers : Working(w)
    \/ \E k \in Closers : Close(k) \/ CloseSinks(k) \/ CloseAgain(k) \/ CloseSync(k)

\* Goroutines that can run do; nothing makes a request arrive, a context end
\* or the application call Close.  Sinks answer: files and stderr do, and the
\* HTTP client of a webhook gives up after five seconds.
Fairness ==
    /\ \A r \in Requests : WF_vars(Logging(r))
    /\ \A w \in Workers : WF_vars(Working(w))
    /\ \A k \in Closers : WF_vars(CloseSinks(k))

Spec == Init /\ [][Next]_vars /\ Fairness

-----------------------------------------------------------------------------
(* Properties *)

\* Type correctness; the channel never holds more than its capacity.
TypeOK ==
    /\ policy \in Policies
    /\ queue \in Seq(Requests) /\ Len(queue) <= BufferSize
    /\ closed \in BOOLEAN /\ sinkClosed \in BOOLEAN
    /\ pc \in [Requests -> {"new", "log", "send", "evict", "fallback", "ended"}]
    /\ handler \in [Requests -> Outcomes] /\ answer \in [Requests -> Outcomes]
    /\ hand \in [Workers -> Requests \cup {Nobody}]
    /\ wpc \in [Workers -> {"run", "route", "done"}]
    /\ cpc \in [Closers -> {"idle", "wait", "returned"}]
    /\ sink \in Seq(Requests) /\ fallback \in Seq(Requests)
    /\ faults \in 0 .. MaxFaults
    /\ lost \in [Requests -> {"no", "unaudited", "write", "format", "refused", "panic", "context", "evicted"}]
    /\ torn \subseteq Requests /\ inflight \subseteq Requests

Written == ToSet(sink) \cup ToSet(fallback)
Pending == ToSet(queue) \cup {hand[w] : w \in Workers}

\* What can cost a record: eviction the one policy, the end of the request's
\* context another, a closed logger or a failing step any of them.
Explained(r) ==
    /\ lost[r] = "evicted" => policy = "drop_oldest"
    /\ lost[r] = "context" => policy = "block"
    /\ lost[r] \in {"refused", "panic"} => closed
    /\ lost[r] = "write" => faults > 0 \/ (policy = "sync" /\ sinkClosed)
    /\ lost[r] = "format" => faults > 0

\* A request that is over has its record in a sink or on the way to one,
\* exactly unless the code itself gave it up, for a reason its policy allows;
\* what is reported as lost is not written later.  "context" and "panic" are
\* such reasons under PolicyBlock too (logger.go:187-191), whose comment does
\* not know them: this is what the code keeps, not what logger.go:80 says.
Accounted ==
    \A r \in Requests :
        /\ pc[r] = "ended" => (lost[r] = "no" <=> r \in Written \cup Pending)
        /\ Explained(r)

\* "Close gracefully drains remaining items in the queue" (logger.go:227):
\* once the Close that closed the queue has returned, no record is pending and
\* no worker is left to write to the closed sink.
DrainedAtClose ==
    Async /\ sinkClosed =>
        /\ queue = <<>>
        /\ \A w \in Workers : wpc[w] = "done" /\ hand[w] = Nobody
        /\ \A r \in Requests : pc[r] = "ended" /\ lost[r] = "no" => r \in Written

\* No record is written twice, although the deferred function may log it a
\* second time and a failed Write is routed to the fallback sink; only a Write
\* that failed after its bytes were in the file leaves the record in both.
RecordedOnce ==
    /\ \A i, j \in DOMAIN sink : sink[i] = sink[j] => i = j
    /\ \A i, j \in DOMAIN fallback : fallback[i] = fallback[j] => i = j
    /\ ToSet(sink) \cap ToSet(fallback) \subseteq torn

\* The audit does not change what a request answers (middleware.go:282 drops
\* the error of Log), except for the requests that were inside Log when the
\* queue was closed: those panic.
AnswerKept ==
    \A r \in Requests : pc[r] = "ended" /\ answer[r] # handler[r] => r \in inflight

\* No request waits in Log for ever, whatever the policy and whatever fails,
\* and the Close that closed the queue returns.
CallsReturn ==
    /\ \A r \in Requests : pc[r] = "log" ~> pc[r] = "ended"
    /\ \A k \in Closers : cpc[k] = "wait" ~> cpc[k] = "returned"
=============================================================================
