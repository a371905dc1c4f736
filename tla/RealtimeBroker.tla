--------------------------- MODULE RealtimeBroker ---------------------------
(***************************************************************************)
(* realtime/broker.go: the in-memory publish/subscribe broker, with the    *)
(* loops of its Server-Sent Events and WebSocket handlers (realtime/sse.go *)
(* and websocket.go) and the way the server uses them (cmd/hornetz/main.go *)
(* mounts the SSE handler; uploads and download tasks publish).            *)
(*                                                                         *)
(* The critical sections of Subscribe, unsubscribe and Publish do not      *)
(* block and are one step each.  Publish sends after it has released the   *)
(* lock, one channel of its snapshot at a time, and never waits.           *)
(***************************************************************************)
EXTENDS Naturals, Sequences, FiniteSets

CONSTANTS
    Publishers,   \* goroutines that call Publish
    Streams,      \* pages served by AuthorizedSSEHandler
    Sockets,      \* pages served by WebSocketHandler
    Topics,
    Private,      \* topics "nest:user_<id>"
    UserTopic,    \* UserTopic[c]: the one of them that belongs to c's user
    NoTopic,
    BufSize,      \* capacity of a subscriber's channel, 64 in the code
    MaxEvents     \* bound: calls of Publish

Pages == Streams \cup Sockets

ASSUME BrokerConstants ==
    /\ Streams \cap Sockets = {}
    /\ Private \subseteq Topics
    /\ UserTopic \in [Pages -> Private]
    /\ NoTopic \notin Topics
    /\ BufSize \in Nat \ {0}
    /\ MaxEvents \in Nat

VARIABLES
    subscribers,  \* MemoryBroker.subscribers: topic -> set of channels
    chan,         \* chan[c]: the buffered channel of page c
    todo,         \* todo[p]: channels of Publish's snapshot still to be tried
    conn,         \* the handler of page c: "none", "loop", "leaving" or "gone"
    topic,        \* the topic it asked for
    up,           \* pages whose client is still there
    published,    \* history: the topics of p's events
    seen,         \* what has been written to the client of page c
    owed          \* history: events published while page c was connected,
                  \* neither shown to it nor skipped because it was slow

connVars == <<conn, topic, up>>
histVars == <<published, owed>>
vars == <<subscribers, chan, todo, connVars, seen, histVars>>

Init ==
    /\ subscribers = [t \in {} |-> {}]
    /\ chan = [c \in Pages |-> <<>>]
    /\ todo = [p \in Publishers |-> {}]
    /\ conn = [c \in Pages |-> "none"]
    /\ topic = [c \in Pages |-> NoTopic]
    /\ up = Pages
    /\ published = [p \in Publishers |-> <<>>]
    /\ seen = [c \in Pages |-> <<>>]
    /\ owed = [c \in Pages |-> {}]

-----------------------------------------------------------------------------
(* Subscribing *)

Listening(t) == IF t \in DOMAIN subscribers THEN subscribers[t] ELSE {}

\* The map with the channels S under t; a topic nobody listens to has no entry.
WithTopic(t, S) ==
    [u \in IF S = {} THEN DOMAIN subscribers \ {t} ELSE DOMAIN subscribers \cup {t} |->
        IF u = t THEN S ELSE subscribers[u]]

\* sseAuthorizer; the WebSocket handler asks nobody.
Authorized(c, t) == c \in Streams /\ t \in Private => t = UserTopic[c]

\* The topics a request may name; an empty one is refused.
Asked == Topics

\* The handler starts and subscribes.
Subscribe(c, t) ==
    /\ conn[c] = "none"
    /\ Authorized(c, t)
    /\ subscribers' = WithTopic(t, Listening(t) \cup {c})
    /\ conn' = [conn EXCEPT ![c] = "loop"]
    /\ topic' = [topic EXCEPT ![c] = t]
    /\ UNCHANGED <<chan, todo, up, seen, histVars>>

\* Mutant: the last line of unsubscribe removes the topic whoever listens.
BugRemaining(c) == {}

Remaining(c) == Listening(topic[c]) \ {c}

\* The deferred unsubscribe of a handler that returns; the channel stays open.
Unsubscribe(c) ==
    /\ conn[c] = "leaving"
    /\ subscribers' = WithTopic(topic[c], Remaining(c))
    /\ conn' = [conn EXCEPT ![c] = "gone"]
    /\ UNCHANGED <<chan, todo, topic, up, seen, histVars>>

-----------------------------------------------------------------------------
(* Publishing *)

\* The event p is publishing.
Current(p) == <<p, Len(published[p])>>

Calls == UNION {{p} \X (1 .. Len(published[p])) : p \in Publishers}

\* The snapshot of the channels of t; with nobody listening Publish returns.
Publish(p, t) ==
    /\ todo[p] = {}
    /\ Cardinality(Calls) < MaxEvents
    /\ published' = [published EXCEPT ![p] = Append(@, t)]
    /\ todo' = [todo EXCEPT ![p] = Listening(t)]
    /\ owed' = [c \in Pages |->
                  IF conn[c] = "loop" /\ c \in up /\ topic[c] = t
                  THEN owed[c] \cup {<<p, Len(published[p]) + 1>>} ELSE owed[c]]
    /\ UNCHANGED <<subscribers, chan, connVars, seen>>

\* Mutant: a plain send, which waits for room.
BugMaySend(c) == Len(chan[c]) < BufSize

\* The select has a default: Publish always goes on.
MaySend(c) == TRUE

\* Mutant: one slot too few, the last event fitting in is skipped.
BugRoom(c) == Len(chan[c]) + 1 < BufSize

Room(c) == Len(chan[c]) < BufSize

\* Mutant: the page is to see the newest event first.
BugQueued(c, e) == <<e>> \o chan[c]

Queued(c, e) == Append(chan[c], e)

Send(p, c) ==
    /\ c \in todo[p]
    /\ MaySend(c)
    /\ todo' = [todo EXCEPT ![p] = @ \ {c}]
    /\ \/ /\ Room(c)
          /\ chan' = [chan EXCEPT ![c] = Queued(c, Current(p))]
          /\ UNCHANGED owed
       \/ /\ ~ Room(c)
          /\ owed' = [owed EXCEPT ![c] = IF Len(chan[c]) = BufSize THEN @ \ {Current(p)} ELSE @]
          /\ UNCHANGED chan
    /\ UNCHANGED <<subscribers, connVars, seen, published>>

-----------------------------------------------------------------------------
(* The loop of a handler *)

\* An event is taken from the channel and written; the client is there.
Receive(c) ==
    /\ conn[c] = "loop"
    /\ c \in up
    /\ chan[c] # <<>>
    /\ seen' = [seen EXCEPT ![c] = Append(@, Head(chan[c]))]
    /\ chan' = [chan EXCEPT ![c] = Tail(@)]
    /\ owed' = [owed EXCEPT ![c] = @ \ {Head(chan[c])}]
    /\ UNCHANGED <<subscribers, todo, connVars, published>>

\* The client is not: the write fails, or is lost on the way.
ReceiveLost(c) ==
    /\ conn[c] = "loop"
    /\ c \notin up
    /\ chan[c] # <<>>
    /\ chan' = [chan EXCEPT ![c] = Tail(@)]
    /\ \E next \in {"loop", "leaving"} : conn' = [conn EXCEPT ![c] = next]
    /\ UNCHANGED <<subscribers, todo, topic, up, seen, histVars>>

Disconnect(c) ==
    /\ conn[c] = "loop"
    /\ c \in up
    /\ up' = up \ {c}
    /\ owed' = [owed EXCEPT ![c] = {}]
    /\ UNCHANGED <<subscribers, chan, todo, conn, topic, seen, published>>

\* Mutant: the tickers' writes ignore their errors.
BugTick(c) == FALSE

\* A keepalive or ping is written to a client that has gone and fails.
Tick(c) ==
    /\ conn[c] = "loop"
    /\ c \notin up
    /\ conn' = [conn EXCEPT ![c] = "leaving"]
    /\ UNCHANGED <<subscribers, chan, todo, topic, up, seen, histVars>>

\* ctx.Done: the server cancels the context of a stream, not of a socket.
ContextDone(c) == c \in Streams /\ Tick(c)

-----------------------------------------------------------------------------
PublisherStep(p) == \E c \in Pages : Send(p, c)
PageStep(c) == Receive(c) \/ ReceiveLost(c) \/ Tick(c) \/ ContextDone(c) \/ Unsubscribe(c)

Next ==
    \/ \E p \in Publishers : PublisherStep(p) \/ \E t \in Topics : Publish(p, t)
    \/ \E c \in Pages : PageStep(c) \/ Disconnect(c) \/ \E t \in Asked : Subscribe(c, t)

(***************************************************************************)
(* A Publish that has begun is scheduled until it returns.  A page's       *)
(* handler may stall in a write for as long as its client is slow, but its *)
(* tickers go off, so a client that has gone is noticed, and a handler     *)
(* that returns runs its deferred calls.                                   *)
(***************************************************************************)
Fairness ==
    /\ \A p \in Publishers : WF_vars(PublisherStep(p))
    /\ \A c \in Pages : WF_vars(Tick(c)) /\ WF_vars(Unsubscribe(c))

Spec == Init /\ [][Next]_vars /\ Fairness

-----------------------------------------------------------------------------
Events == Publishers \X (Nat \ {0})

\* Every variable has the shape its Go counterpart has.
TypeOK ==
    /\ DOMAIN subscribers \subseteq Topics
    /\ \A t \in DOMAIN subscribers : subscribers[t] \in SUBSET Pages
    /\ chan \in [Pages -> Seq(Events)]
    /\ todo \in [Publishers -> SUBSET Pages]
    /\ conn \in [Pages -> {"none", "loop", "leaving", "gone"}]
    /\ topic \in [Pages -> Topics \cup {NoTopic}]
    /\ up \subseteq Pages
    /\ published \in [Publishers -> Seq(Topics)]
    /\ seen \in [Pages -> Seq(Events)]
    /\ owed \in [Pages -> SUBSET Events]

(***************************************************************************)
(* The map of subscribers holds exactly the handlers that run, each under  *)
(* its own topic, and no empty topic, whatever other pages come and go;    *)
(* and no page of the SSE handler is under another user's topic, so that,  *)
(* with ImplementsStream, it is shown none of that user's events.          *)
(***************************************************************************)
Registered ==
    /\ \A t \in DOMAIN subscribers : subscribers[t] # {}
    /\ \A c \in Pages, t \in Topics :
          c \in Listening(t) <=> conn[c] \in {"loop", "leaving"} /\ topic[c] = t
    /\ \A c \in Streams : \A t \in Private \ {UserTopic[c]} : c \notin Listening(t)

(***************************************************************************)
(* No event is lost silently: one that was published while a page was      *)
(* connected is shown to it unless BufSize events were waiting; until then *)
(* it is in the page's channel or in the hands of its publisher.           *)
(***************************************************************************)
NoSilentLoss ==
    \A c \in Pages : \A e \in owed[c] :
        \/ \E i \in 1 .. Len(chan[c]) : chan[c][i] = e
        \/ c \in todo[e[1]] /\ e = Current(e[1])

(***************************************************************************)
(* The broker and its handlers implement the lossy ordered stream of       *)
(* EventStream: no duplicates, no event of another topic, and the events   *)
(* of one publisher in order, although Publish sends without the lock.     *)
(***************************************************************************)
Stream == INSTANCE EventStream
            WITH Publishers <- Publishers, Pages <- Pages, Topics <- Topics,
                 NoTopic <- NoTopic, published <- published, topic <- topic, seen <- seen

ImplementsStream == Stream!Spec

\* Publish returns, however slow the pages are: no handler has to receive.
PublishReturns == \A p \in Publishers : todo[p] # {} ~> todo[p] = {}

\* The subscription of a client that has gone is removed, even if nothing is
\* published to it any more.
GoneIsUnsubscribed ==
    \A c \in Pages : c \notin up ~> \A t \in DOMAIN subscribers : c \notin subscribers[t]
=============================================================================
