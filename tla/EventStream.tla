---------------------------- MODULE EventStream ----------------------------
(***************************************************************************)
(* What a page that subscribes to a topic is promised (the contract behind *)
(* EventBroker in realtime/broker.go and its SSE and WebSocket handlers):  *)
(* a lossy stream.  An event may be skipped, but a page is shown only      *)
(* events of its topic, each at most once, and the events of one publisher *)
(* in the order in which they were published.  Nothing is promised about   *)
(* the order of events of different publishers.                            *)
(***************************************************************************)
EXTENDS Naturals, Sequences

CONSTANTS Publishers, Pages, Topics, NoTopic

VARIABLES
    published,   \* published[p]: the topics of p's events, in order
    topic,       \* topic[c]: what page c subscribed to, or NoTopic
    seen         \* seen[c]: the events shown to c, as <<publisher, number>>

evars == <<published, topic, seen>>

Init ==
    /\ published = [p \in Publishers |-> <<>>]
    /\ topic = [c \in Pages |-> NoTopic]
    /\ seen = [c \in Pages |-> <<>>]

Emit(p, t) ==
    /\ published' = [published EXCEPT ![p] = Append(@, t)]
    /\ UNCHANGED <<topic, seen>>

Open(c, t) ==
    /\ topic[c] = NoTopic
    /\ topic' = [topic EXCEPT ![c] = t]
    /\ UNCHANGED <<published, seen>>

Show(c, p, n) ==
    /\ n \in 1 .. Len(published[p])
    /\ published[p][n] = topic[c]
    /\ \A i \in 1 .. Len(seen[c]) : seen[c][i][1] = p => seen[c][i][2] < n
    /\ seen' = [seen EXCEPT ![c] = Append(@, <<p, n>>)]
    /\ UNCHANGED <<published, topic>>

Next ==
    \/ \E p \in Publishers, t \in Topics : Emit(p, t)
    \/ \E c \in Pages, t \in Topics : Open(c, t)
    \/ \E c \in Pages, p \in Publishers : \E n \in 1 .. Len(published[p]) : Show(c, p, n)

Spec == Init /\ [][Next]_evars
=============================================================================
