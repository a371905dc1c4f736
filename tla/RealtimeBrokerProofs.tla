------------------------ MODULE RealtimeBrokerProofs ------------------------
(***************************************************************************)
(* Proofs about RealtimeBroker, for any pages, publishers and topics and   *)
(* any capacity of the channels: the map of subscribers, the events that   *)
(* are owed, and the step-by-step refinement of EventStream.               *)
(***************************************************************************)
EXTENDS RealtimeBroker, TLAPS

\* e is an event that was published, to the topic of page c.
Sent(e, c) ==
    /\ e[2] \in 1 .. Len(published[e[1]])
    /\ published[e[1]][e[2]] = topic[c]

\* Every event of e's publisher in s is older than e.
Older(s, e) == \A i \in 1 .. Len(s) : s[i][1] = e[1] => s[i][2] < e[2]

(***************************************************************************)
(* What is on its way to a page was published to its topic and is newer    *)
(* than what was sent before it: in the channel ...                        *)
(***************************************************************************)
ChanOK(c) ==
    \A i \in 1 .. Len(chan[c]) :
        /\ Sent(chan[c][i], c)
        /\ Older(seen[c], chan[c][i])
        /\ \A j \in 1 .. i - 1 : chan[c][j][1] = chan[c][i][1] => chan[c][j][2] < chan[c][i][2]

\* ... and in the hands of a publisher, whose event is its newest.
HandOK(p, c) ==
    c \in todo[p] =>
        Sent(Current(p), c) /\ Older(seen[c], Current(p)) /\ Older(chan[c], Current(p))

\* What was shown had been published.
SeenOK(c) == \A i \in 1 .. Len(seen[c]) : seen[c][i][2] <= Len(published[seen[c][i][1]])

\* A page has a topic from the moment it subscribes.
TopicOK(c) == conn[c] = "none" <=> topic[c] = NoTopic

\* The map of subscribers, ...
MapInv == TypeOK /\ Registered /\ \A c \in Pages : TopicOK(c)

\* ... and the events.
StreamInv ==
    /\ \A c \in Pages : ChanOK(c) /\ SeenOK(c)
    /\ \A p \in Publishers, c \in Pages : HandOK(p, c)

\* No channel is over its capacity, and a client that has gone is owed nothing.
OwedInv ==
    /\ NoSilentLoss
    /\ \A c \in Pages : Len(chan[c]) <= BufSize /\ (c \notin up => owed[c] = {})

-----------------------------------------------------------------------------
(* Sequences *)

LEMMA AppendLaw ==
  ASSUME NEW S, NEW s \in Seq(S), NEW e \in S
  PROVE  /\ Append(s, e) \in Seq(S) /\ Len(Append(s, e)) = Len(s) + 1
         /\ \A i \in 1 .. Len(s) : Append(s, e)[i] = s[i]
         /\ Append(s, e)[Len(s) + 1] = e
  OBVIOUS

LEMMA TailLaw ==
  ASSUME NEW S, NEW s \in Seq(S), s # <<>>
  PROVE  /\ Len(s) \in Nat \ {0} /\ Head(s) = s[1] /\ Head(s) \in S
         /\ Tail(s) \in Seq(S) /\ Len(Tail(s)) = Len(s) - 1
         /\ \A i \in 1 .. Len(s) - 1 : Tail(s)[i] = s[i + 1]
  OBVIOUS

-----------------------------------------------------------------------------
(* The map of subscribers *)

\* What WithTopic does to the sets of channels, and that it leaves no empty one.
LEMMA WithTopicLaw ==
  ASSUME NEW t \in Topics, NEW S \in SUBSET Pages, subscribers' = WithTopic(t, S),
         DOMAIN subscribers \subseteq Topics,
         \A u \in DOMAIN subscribers : subscribers[u] \in SUBSET Pages,
         \A u \in DOMAIN subscribers : subscribers[u] # {}
  PROVE  /\ \A u \in Topics : Listening(u)' = IF u = t THEN S ELSE Listening(u)
         /\ DOMAIN subscribers' \subseteq Topics
         /\ \A u \in DOMAIN subscribers' : subscribers'[u] \in SUBSET Pages
         /\ \A u \in DOMAIN subscribers' : subscribers'[u] # {}
<1>1. CASE S = {}
  <2>1. subscribers' = [u \in DOMAIN subscribers \ {t} |-> IF u = t THEN S ELSE subscribers[u]]
    BY <1>1 DEF WithTopic
  <2> QED
    BY <1>1, <2>1 DEF Listening
<1>2. CASE S # {}
  <2>1. subscribers' = [u \in DOMAIN subscribers \cup {t} |-> IF u = t THEN S ELSE subscribers[u]]
    BY <1>2 DEF WithTopic
  <2> QED
    BY <1>2, <2>1 DEF Listening
<1> QED
  BY <1>1, <1>2

LEMMA ListeningType ==
  ASSUME TypeOK, NEW t \in Topics
  PROVE  Listening(t) \in SUBSET Pages
  BY DEF TypeOK, Listening

LEMMA CurrentType ==
  ASSUME TypeOK, NEW p \in Publishers, published[p] # <<>>
  PROVE  Current(p) \in Events
  BY DEF TypeOK, Current, Events

LEMMA MapInit == Init => MapInv
  BY BrokerConstants DEF Init, MapInv, TypeOK, Registered, TopicOK, Listening, Pages

\* A step that neither touches the map nor starts or ends a handler keeps Registered.
LEMMA RegisteredKept ==
  ASSUME MapInv, subscribers' = subscribers, topic' = topic,
         \A c \in Pages : conn'[c] = conn[c] \/ (conn[c] = "loop" /\ conn'[c] = "leaving")
  PROVE  Registered' /\ \A c \in Pages : TopicOK(c)'
<1>1. \A t : Listening(t)' = Listening(t)
  BY DEF Listening
<1> QED
  BY <1>1 DEF MapInv, Registered, TopicOK

LEMMA MapSubscribe ==
  ASSUME MapInv, NEW c \in Pages, NEW t \in Topics, Subscribe(c, t)
  PROVE  MapInv'
<1> DEFINE S == Listening(t) \cup {c}
<1>1. S \in SUBSET Pages
  BY ListeningType DEF MapInv
<1>2. /\ \A u \in Topics : Listening(u)' = IF u = t THEN S ELSE Listening(u)
      /\ DOMAIN subscribers' \subseteq Topics
      /\ \A u \in DOMAIN subscribers' : subscribers'[u] \in SUBSET Pages
      /\ \A u \in DOMAIN subscribers' : subscribers'[u] # {}
  <2> HIDE DEF S
  <2>1. subscribers' = WithTopic(t, S)
    BY DEF Subscribe, S
  <2>2. /\ DOMAIN subscribers \subseteq Topics
        /\ \A u \in DOMAIN subscribers : subscribers[u] \in SUBSET Pages /\ subscribers[u] # {}
    BY DEF MapInv, TypeOK, Registered
  <2>3. S \in SUBSET Pages
    BY <1>1
  <2> QED
    BY <2>1, <2>2, <2>3, WithTopicLaw
<1>3. TypeOK'
  BY <1>2 DEF MapInv, TypeOK, Subscribe, histVars
<1>4. /\ conn' = [conn EXCEPT ![c] = "loop"] /\ topic' = [topic EXCEPT ![c] = t]
      /\ conn[c] = "none" /\ (c \in Streams /\ t \in Private => t = UserTopic[c])
  BY DEF Subscribe, Authorized
<1>5. \A d \in Pages, u \in Topics :
        d \in Listening(u)' <=> conn'[d] \in {"loop", "leaving"} /\ topic'[d] = u
  <2> SUFFICES ASSUME NEW d \in Pages, NEW u \in Topics
               PROVE  d \in Listening(u)' <=> conn'[d] \in {"loop", "leaving"} /\ topic'[d] = u
    OBVIOUS
  <2>1. d \in Listening(u) <=> conn[d] \in {"loop", "leaving"} /\ topic[d] = u
    BY DEF MapInv, Registered
  <2>2. CASE d = c
    <3>1. conn'[d] = "loop" /\ topic'[d] = t /\ d \notin Listening(u)
      BY <1>4, <2>1, <2>2 DEF MapInv, TypeOK
    <3> QED
      BY <1>2, <2>2, <3>1
  <2>3. CASE d # c
    <3>1. conn'[d] = conn[d] /\ topic'[d] = topic[d]
      BY <1>4, <2>3 DEF MapInv, TypeOK
    <3> QED
      BY <1>2, <2>1, <2>3, <3>1
  <2> QED
    BY <2>2, <2>3
<1>6. \A d \in Streams : \A u \in Private \ {UserTopic[d]} : d \notin Listening(u)'
  BY <1>2, <1>4, BrokerConstants DEF MapInv, Registered
<1>7. Registered'
  BY <1>2, <1>5, <1>6 DEF Registered
<1>8. \A d \in Pages : TopicOK(d)'
  BY <1>4, BrokerConstants DEF MapInv, TypeOK, TopicOK
<1> QED
  BY <1>3, <1>7, <1>8 DEF MapInv

LEMMA MapUnsubscribe ==
  ASSUME MapInv, NEW c \in Pages, Unsubscribe(c)
  PROVE  MapInv'
<1> DEFINE S == Remaining(c)
<1>0. conn[c] = "leaving" /\ topic[c] \in Topics
  BY DEF MapInv, TypeOK, TopicOK, Unsubscribe
<1> PICK t \in Topics : t = topic[c]
  BY <1>0
<1>1. t = topic[c] /\ conn[c] = "leaving"
  BY <1>0
<1>2. S = Listening(t) \ {c} /\ S \in SUBSET Pages
  BY <1>1, ListeningType DEF MapInv, Remaining
<1>3. /\ \A u \in Topics : Listening(u)' = IF u = t THEN S ELSE Listening(u)
      /\ DOMAIN subscribers' \subseteq Topics
      /\ \A u \in DOMAIN subscribers' : subscribers'[u] \in SUBSET Pages
      /\ \A u \in DOMAIN subscribers' : subscribers'[u] # {}
  <2>1. subscribers' = WithTopic(t, S)
    BY DEF Unsubscribe
  <2> HIDE DEF S
  <2>2. /\ DOMAIN subscribers \subseteq Topics
        /\ \A u \in DOMAIN subscribers : subscribers[u] \in SUBSET Pages /\ subscribers[u] # {}
    BY DEF MapInv, TypeOK, Registered
  <2>3. S \in SUBSET Pages
    BY <1>2
  <2> QED
    BY <2>1, <2>2, <2>3, WithTopicLaw
<1>4. TypeOK'
  BY <1>3 DEF MapInv, TypeOK, Unsubscribe, histVars
<1>5. conn' = [conn EXCEPT ![c] = "gone"] /\ topic' = topic
  BY DEF Unsubscribe
<1>6. \A d \in Pages, u \in Topics :
        d \in Listening(u)' <=> conn'[d] \in {"loop", "leaving"} /\ topic'[d] = u
  <2> SUFFICES ASSUME NEW d \in Pages, NEW u \in Topics
               PROVE  d \in Listening(u)' <=> conn'[d] \in {"loop", "leaving"} /\ topic'[d] = u
    OBVIOUS
  <2>1. d \in Listening(u) <=> conn[d] \in {"loop", "leaving"} /\ topic[d] = u
    BY DEF MapInv, Registered
  <2>2. conn'[d] = IF d = c THEN "gone" ELSE conn[d]
    BY <1>5 DEF MapInv, TypeOK
  <2> QED
    BY <1>1, <1>2, <1>3, <1>5, <2>1, <2>2
<1>7. \A d \in Streams : \A u \in Private \ {UserTopic[d]} : d \notin Listening(u)'
  BY <1>2, <1>3, BrokerConstants DEF MapInv, Registered
<1>8. Registered'
  BY <1>3, <1>6, <1>7 DEF Registered
<1>9. \A d \in Pages : TopicOK(d)'
  BY <1>1, <1>5 DEF MapInv, TypeOK, TopicOK
<1> QED
  BY <1>4, <1>8, <1>9 DEF MapInv

\* The other actions: none of them touches the map.
LEMMA MapPublish ==
  ASSUME MapInv, NEW p \in Publishers, NEW t \in Topics, Publish(p, t)
  PROVE  MapInv'
<1> USE DEF Publish, connVars
<1>0. subscribers' = subscribers /\ topic' = topic /\ conn' = conn
  OBVIOUS
<1>1. Registered' /\ \A c \in Pages : TopicOK(c)'
  BY ONLY MapInv, <1>0, RegisteredKept
<1>2. published' \in [Publishers -> Seq(Topics)]
  BY AppendLaw DEF MapInv, TypeOK
<1>3. todo' \in [Publishers -> SUBSET Pages]
  BY ListeningType DEF MapInv, TypeOK
<1>4. <<p, Len(published[p]) + 1>> \in Events
  BY DEF MapInv, TypeOK, Events
<1>5. owed' \in [Pages -> SUBSET Events]
  BY <1>4 DEF MapInv, TypeOK
<1> QED
  BY <1>1, <1>2, <1>3, <1>5 DEF MapInv, TypeOK

LEMMA MapSend ==
  ASSUME MapInv, NEW p \in Publishers, NEW c \in Pages, Send(p, c), published[p] # <<>>
  PROVE  MapInv'
<1> USE DEF Send, connVars
<1>0. subscribers' = subscribers /\ topic' = topic /\ conn' = conn
  OBVIOUS
<1>1. Registered' /\ \A d \in Pages : TopicOK(d)'
  BY ONLY MapInv, <1>0, RegisteredKept
<1>2. todo' \in [Publishers -> SUBSET Pages]
  BY DEF MapInv, TypeOK
<1>3. Current(p) \in Events
  BY CurrentType DEF MapInv
<1>4. chan' \in [Pages -> Seq(Events)]
  <2>1. chan \in [Pages -> Seq(Events)]
    BY DEF MapInv, TypeOK
  <2>2. Append(chan[c], Current(p)) \in Seq(Events)
    BY ONLY <1>3, <2>1, AppendLaw
  <2> QED
    BY <2>1, <2>2 DEF Queued
<1>5. owed' \in [Pages -> SUBSET Events]
  BY ZenonT(40) DEF MapInv, TypeOK
<1> QED
  BY <1>1, <1>2, <1>4, <1>5 DEF MapInv, TypeOK

LEMMA MapReceive ==
  ASSUME MapInv, NEW c \in Pages, Receive(c)
  PROVE  MapInv'
<1> USE DEF Receive, connVars
<1>0. subscribers' = subscribers /\ topic' = topic /\ conn' = conn
  OBVIOUS
<1>1. Registered' /\ \A d \in Pages : TopicOK(d)'
  BY ONLY MapInv, <1>0, RegisteredKept
<1>2. Head(chan[c]) \in Events /\ Tail(chan[c]) \in Seq(Events)
  BY TailLaw DEF MapInv, TypeOK
<1>3. seen' \in [Pages -> Seq(Events)] /\ chan' \in [Pages -> Seq(Events)]
  BY <1>2, AppendLaw DEF MapInv, TypeOK
<1>4. owed' \in [Pages -> SUBSET Events]
  BY DEF MapInv, TypeOK
<1> QED
  BY <1>1, <1>3, <1>4 DEF MapInv, TypeOK

LEMMA MapLeave ==
  ASSUME MapInv, NEW c \in Pages, ReceiveLost(c) \/ Disconnect(c) \/ Tick(c)
  PROVE  MapInv'
<1> USE DEF ReceiveLost, Disconnect, Tick, histVars
<1>1. \A d \in Pages : conn'[d] = conn[d] \/ (conn[d] = "loop" /\ conn'[d] = "leaving")
  <2>1. conn \in [Pages -> {"none", "loop", "leaving", "gone"}]
    BY DEF MapInv, TypeOK
  <2>2. \/ conn' = conn
        \/ conn[c] = "loop" /\ conn' = [conn EXCEPT ![c] = "leaving"]
        \/ conn[c] = "loop" /\ conn' = [conn EXCEPT ![c] = "loop"]
    OBVIOUS
  <2> QED
    BY ONLY <2>1, <2>2
<1>2. Registered' /\ \A d \in Pages : TopicOK(d)'
  <2>1. subscribers' = subscribers /\ topic' = topic
    OBVIOUS
  <2> QED
    BY ONLY MapInv, <1>1, <2>1, RegisteredKept
<1>3. chan' \in [Pages -> Seq(Events)]
  <2>1. chan \in [Pages -> Seq(Events)]
    BY DEF MapInv, TypeOK
  <2>2. chan[c] # <<>> => Tail(chan[c]) \in Seq(Events)
    BY ONLY <2>1, TailLaw, c \in Pages
  <2>3. chan' = chan \/ (chan[c] # <<>> /\ chan' = [chan EXCEPT ![c] = Tail(@)])
    OBVIOUS
  <2> QED
    BY ONLY <2>1, <2>2, <2>3
<1>4. conn' \in [Pages -> {"none", "loop", "leaving", "gone"}]
  BY DEF MapInv, TypeOK
<1>5. up' \subseteq Pages /\ owed' \in [Pages -> SUBSET Events]
  BY DEF MapInv, TypeOK
<1> QED
  BY <1>2, <1>3, <1>4, <1>5 DEF MapInv, TypeOK

\* An event in hand has been published.
LEMMA InHand ==
  ASSUME StreamInv, MapInv, NEW p \in Publishers, NEW c \in todo[p]
  PROVE  published[p] # <<>> /\ Len(published[p]) \in Nat \ {0}
<1>1. c \in Pages /\ published[p] \in Seq(Topics)
  BY DEF MapInv, TypeOK
<1>2. Len(published[p]) \in 1 .. Len(published[p])
  BY <1>1 DEF StreamInv, HandOK, Sent, Current
<1> QED
  BY <1>1, <1>2

LEMMA MapNext ==
  ASSUME MapInv, StreamInv, [Next]_vars
  PROVE  MapInv'
<1>1. ASSUME NEW p \in Publishers, NEW c \in Pages, Send(p, c)
      PROVE  MapInv'
  <2>1. published[p] # <<>>
    BY <1>1, InHand DEF Send
  <2> QED
    BY <1>1, <2>1, MapSend
<1>2. ASSUME NEW p \in Publishers, NEW t \in Topics, Publish(p, t)
      PROVE  MapInv'
  BY <1>2, MapPublish
<1>3. ASSUME NEW c \in Pages, PageStep(c) \/ Disconnect(c)
      PROVE  MapInv'
  BY <1>3, MapReceive, MapLeave, MapUnsubscribe DEF PageStep, ContextDone
<1>4. ASSUME NEW c \in Pages, NEW t \in Topics, Subscribe(c, t)
      PROVE  MapInv'
  BY <1>4, MapSubscribe
<1>5. CASE UNCHANGED vars
  <2>1. subscribers' = subscribers /\ topic' = topic /\ conn' = conn
    BY <1>5 DEF vars, connVars
  <2>2. Registered' /\ \A d \in Pages : TopicOK(d)'
    BY ONLY MapInv, <2>1, RegisteredKept
  <2> QED
    BY <1>5, <2>2 DEF MapInv, TypeOK, vars, connVars, histVars
<1> QED
  BY <1>1, <1>2, <1>3, <1>4, <1>5 DEF Next, PublisherStep, Asked

-----------------------------------------------------------------------------
(* The events on their way *)

LEMMA EventFields ==
  ASSUME NEW e \in Events
  PROVE  e = <<e[1], e[2]>> /\ e[1] \in Publishers /\ e[2] \in Nat \ {0}
  BY DEF Events

\* The sequences of a page.
LEMMA SeenEvents ==
  ASSUME MapInv, NEW c \in Pages
  PROVE  /\ seen[c] \in Seq(Events) /\ chan[c] \in Seq(Events)
         /\ Len(seen[c]) \in Nat /\ Len(chan[c]) \in Nat
         /\ \A i \in 1 .. Len(seen[c]) : seen[c][i] \in Events
         /\ \A i \in 1 .. Len(chan[c]) : chan[c][i] \in Events
  BY DEF MapInv, TypeOK

LEMMA StreamInit == Init => StreamInv
  BY DEF Init, StreamInv, ChanOK, SeenOK, HandOK

\* Publishing more keeps what had been sent.
LEMMA SentKept ==
  ASSUME MapInv, NEW p \in Publishers, NEW t \in Topics,
         published' = [published EXCEPT ![p] = Append(@, t)], UNCHANGED topic,
         NEW e \in Events, NEW c \in Pages, Sent(e, c)
  PROVE  Sent(e, c)'
<1>1. published[p] \in Seq(Topics) /\ e[1] \in Publishers
  BY DEF MapInv, TypeOK, Events
<1>2. published'[e[1]] = IF e[1] = p THEN Append(published[p], t) ELSE published[e[1]]
  BY <1>1 DEF MapInv, TypeOK
<1>3. CASE e[1] = p
  BY <1>1, <1>2, <1>3, AppendLaw DEF Sent
<1>4. CASE e[1] # p
  BY <1>2, <1>4 DEF Sent
<1> QED
  BY <1>3, <1>4

LEMMA StreamPublish ==
  ASSUME MapInv, StreamInv, NEW p \in Publishers, NEW t \in Topics, Publish(p, t)
  PROVE  StreamInv'
<1>0. /\ todo[p] = {} /\ todo' = [todo EXCEPT ![p] = Listening(t)]
      /\ published' = [published EXCEPT ![p] = Append(@, t)]
      /\ UNCHANGED <<topic, chan, seen>>
  BY DEF Publish, connVars
<1>1. /\ published[p] \in Seq(Topics) /\ Len(published[p]) \in Nat
      /\ Len(published'[p]) = Len(published[p]) + 1
      /\ published'[p][Len(published[p]) + 1] = t
      /\ \A q \in Publishers \ {p} : published'[q] = published[q]
      /\ \A q \in Publishers : Len(published[q]) <= Len(published'[q])
  <2>1. published \in [Publishers -> Seq(Topics)]
    BY DEF MapInv, TypeOK
  <2>2. published'[p] = Append(published[p], t)
    BY <1>0, <2>1
  <2>3. \A q \in Publishers \ {p} : published'[q] = published[q]
    BY <1>0, <2>1
  <2> QED
    BY <2>1, <2>2, <2>3, AppendLaw
<1>2. ASSUME NEW c \in Pages
      PROVE  ChanOK(c)'
  <2>1. \A i \in 1 .. Len(chan[c]) : chan[c][i] \in Events
    BY DEF MapInv, TypeOK
  <2>2. \A i \in 1 .. Len(chan[c]) : Sent(chan[c][i], c)'
    BY <1>0, <2>1, SentKept DEF StreamInv, ChanOK
  <2> QED
    BY <1>0, <2>2 DEF StreamInv, ChanOK, Older, Sent
<1>3. ASSUME NEW c \in Pages
      PROVE  SeenOK(c)'
  <2> SUFFICES ASSUME NEW i \in 1 .. Len(seen[c])
               PROVE  seen[c][i][2] <= Len(published'[seen[c][i][1]])
    BY <1>0 DEF SeenOK
  <2>1. seen[c][i] \in Events /\ seen[c][i][2] <= Len(published[seen[c][i][1]])
    BY SeenEvents DEF StreamInv, SeenOK
  <2>2. PICK q \in Publishers, n \in Nat : seen[c][i] = <<q, n>>
    BY <2>1 DEF Events
  <2>3. published[q] \in Seq(Topics) /\ Len(published[q]) <= Len(published'[q])
    BY <1>1 DEF MapInv, TypeOK
  <2>4. Len(published'[q]) \in Nat
    BY <1>1, <2>3
  <2> QED
    BY <2>1, <2>2, <2>3, <2>4
<1>4. ASSUME NEW q \in Publishers, NEW c \in Pages
      PROVE  HandOK(q, c)'
  <2>1. CASE q # p
    <3>1. todo'[q] = todo[q] /\ published'[q] = published[q]
      BY <1>0, <1>1, <2>1 DEF MapInv, TypeOK
    <3> QED
      BY <1>0, <3>1 DEF StreamInv, HandOK, Sent, Older, Current
  <2>2. CASE q = p
    <3> DEFINE n == Len(published[p]) + 1
    <3> SUFFICES ASSUME c \in Listening(t)
                 PROVE  (Sent(Current(p), c) /\ Older(seen[c], Current(p)) /\ Older(chan[c], Current(p)))'
      BY <1>0, <2>2 DEF HandOK, MapInv, TypeOK
    <3>1. topic[c] = t /\ Current(p)' = <<p, n>>
      BY <1>1 DEF MapInv, Registered, Current
    <3>2. Sent(Current(p), c)'
      BY <1>0, <1>1, <3>1 DEF Sent
    <3>3. Older(seen[c], Current(p))'
      <4> SUFFICES ASSUME NEW i \in 1 .. Len(seen[c]), seen[c][i][1] = p
                   PROVE  seen[c][i][2] < n
        BY <1>0, <3>1 DEF Older
      <4>1. seen[c][i][2] \in Nat /\ seen[c][i][2] <= Len(published[p])
        BY SeenEvents, EventFields DEF StreamInv, SeenOK
      <4> QED
        BY <1>1, <4>1
    <3>4. Older(chan[c], Current(p))'
      <4> SUFFICES ASSUME NEW i \in 1 .. Len(chan[c]), chan[c][i][1] = p
                   PROVE  chan[c][i][2] < n
        BY <1>0, <3>1 DEF Older
      <4>1. chan[c][i][2] \in 1 .. Len(published[p])
        BY DEF StreamInv, ChanOK, Sent
      <4> QED
        BY <1>1, <4>1
    <3> QED
      BY <3>2, <3>3, <3>4
  <2> QED
    BY <2>1, <2>2
<1> QED
  BY <1>2, <1>3, <1>4 DEF StreamInv

\* A page that has not subscribed has nothing on its way to it.
LEMMA NothingYet ==
  ASSUME MapInv, StreamInv, NEW c \in Pages, conn[c] = "none"
  PROVE  chan[c] = <<>> /\ \A p \in Publishers : c \notin todo[p]
<1>1. topic[c] \notin Topics
  BY BrokerConstants DEF MapInv, TopicOK
<1>2. \A e \in Events : Sent(e, c) => topic[c] \in Topics
  <2> SUFFICES ASSUME NEW e \in Events, Sent(e, c)
               PROVE  topic[c] \in Topics
    OBVIOUS
  <2>1. e[1] \in Publishers /\ published[e[1]] \in Seq(Topics)
    BY EventFields DEF MapInv, TypeOK
  <2> QED
    BY <2>1 DEF Sent
<1>3. Len(chan[c]) = 0
  <2> SUFFICES ASSUME Len(chan[c]) # 0
               PROVE  FALSE
    OBVIOUS
  <2>1. chan[c][1] \in Events /\ Sent(chan[c][1], c)
    BY SeenEvents DEF StreamInv, ChanOK
  <2> QED
    BY <1>1, <1>2, <2>1
<1>4. \A p \in Publishers : c \notin todo[p]
  <2> SUFFICES ASSUME NEW p \in Publishers, c \in todo[p]
               PROVE  FALSE
    OBVIOUS
  <2>1. Current(p) \in Events /\ Sent(Current(p), c)
    BY InHand, CurrentType DEF MapInv, StreamInv, HandOK
  <2> QED
    BY <1>1, <1>2, <2>1
<1> QED
  BY <1>3, <1>4, SeenEvents

LEMMA StreamSubscribe ==
  ASSUME MapInv, StreamInv, NEW c \in Pages, NEW t \in Topics, Subscribe(c, t)
  PROVE  StreamInv'
<1>1. /\ conn[c] = "none" /\ topic' = [topic EXCEPT ![c] = t]
      /\ UNCHANGED <<chan, todo, seen, published>>
  BY DEF Subscribe, histVars
<1>2. chan[c] = <<>> /\ \A p \in Publishers : c \notin todo[p]
  BY <1>1, NothingYet
<1>3. \A d \in Pages \ {c} : topic'[d] = topic[d]
  BY <1>1 DEF MapInv, TypeOK
<1>4. ASSUME NEW d \in Pages
      PROVE  ChanOK(d)' /\ SeenOK(d)' /\ \A p \in Publishers : HandOK(p, d)'
  <2>1. SeenOK(d)'
    BY <1>1 DEF StreamInv, SeenOK
  <2>2. CASE d = c
    BY <1>1, <1>2, <2>1, <2>2 DEF ChanOK, HandOK
  <2>3. CASE d # c
    BY <1>1, <1>3, <2>1, <2>3 DEF StreamInv, ChanOK, HandOK, Sent, Older, Current
  <2> QED
    BY <2>2, <2>3
<1> QED
  BY <1>4 DEF StreamInv

LEMMA StreamSend ==
  ASSUME MapInv, StreamInv, NEW p \in Publishers, NEW c \in Pages, Send(p, c)
  PROVE  StreamInv'
<1> DEFINE e == Current(p)
<1>1. /\ c \in todo[p] /\ UNCHANGED <<topic, seen, published>>
      /\ chan' = chan \/ chan' = [chan EXCEPT ![c] = Append(@, e)]
      /\ todo' = [todo EXCEPT ![p] = todo[p] \ {c}]
  BY DEF Send, Queued, connVars
<1>2. Current(p)' = e /\ e = <<p, Len(published[p])>> /\ e \in Events
  BY <1>1, InHand, CurrentType DEF Current, MapInv
<1>3. Sent(e, c) /\ Older(seen[c], e) /\ Older(chan[c], e)
  BY <1>1 DEF StreamInv, HandOK
<1>4. \A q \in Publishers : todo'[q] \subseteq todo[q] /\ (q = p => c \notin todo'[q])
  BY <1>1 DEF MapInv, TypeOK
<1>5. ASSUME NEW d \in Pages
      PROVE  chan'[d] = chan[d] \/ (d = c /\ chan'[d] = Append(chan[c], e))
  BY <1>1 DEF MapInv, TypeOK
<1> HIDE DEF e
<1>6. ASSUME NEW d \in Pages
      PROVE  ChanOK(d)' /\ SeenOK(d)' /\ \A q \in Publishers : HandOK(q, d)'
  <2>1. SeenOK(d)'
    BY <1>1 DEF StreamInv, SeenOK
  <2>2. CASE chan'[d] = chan[d]
    <3>1. ChanOK(d)'
      BY <1>1, <2>2, ZenonT(40) DEF StreamInv, ChanOK, Sent, Older
    <3>2. \A q \in Publishers : HandOK(q, d)'
      BY <1>1, <1>4, <2>2 DEF StreamInv, HandOK, Sent, Older, Current
    <3> QED
      BY <2>1, <3>1, <3>2
  <2>3. CASE d = c /\ chan'[d] = Append(chan[c], e)
    <3> DEFINE s == chan[c]
               n == Len(chan[c])
    <3>1. /\ s \in Seq(Events) /\ n \in Nat /\ Len(chan'[c]) = n + 1 /\ chan'[c][n + 1] = e
          /\ \A i \in 1 .. n : chan'[c][i] = s[i]
      BY <1>2, <2>3, SeenEvents, AppendLaw
    <3>2. ChanOK(c)'
      <4> SUFFICES ASSUME NEW i \in 1 .. n + 1
                   PROVE  /\ Sent(chan'[c][i], c)
                          /\ Older(seen[c], chan'[c][i])
                          /\ \A j \in 1 .. i - 1 : chan'[c][j][1] = chan'[c][i][1] =>
                                                      chan'[c][j][2] < chan'[c][i][2]
        BY <1>1, <3>1 DEF ChanOK, Sent, Older
      <4>1. CASE i = n + 1
        <5>1. chan'[c][i] = e /\ \A j \in 1 .. i - 1 : j \in 1 .. n /\ chan'[c][j] = s[j]
          BY <3>1, <4>1
        <5>2. \A j \in 1 .. n : s[j][1] = e[1] => s[j][2] < e[2]
          BY <1>3 DEF Older
        <5> QED
          BY <1>3, <5>1, <5>2
      <4>2. CASE i \in 1 .. n
        <5>1. \A j \in 1 .. i - 1 : chan'[c][j] = s[j]
          BY <3>1, <4>2
        <5> QED
          BY <3>1, <4>2, <5>1 DEF StreamInv, ChanOK
      <4> QED
        BY <3>1, <4>1, <4>2
    <3>3. ASSUME NEW q \in Publishers, c \in todo'[q]
          PROVE  (Sent(Current(q), c) /\ Older(seen[c], Current(q)) /\ Older(chan[c], Current(q)))'
      <4>1. q # p /\ c \in todo[q] /\ Current(q)' = Current(q)
        BY <1>1, <1>4, <3>3 DEF Current
      <4>2. Sent(Current(q), c) /\ Older(seen[c], Current(q)) /\ Older(chan[c], Current(q))
        BY <4>1 DEF StreamInv, HandOK
      <4>3. Older(chan'[c], Current(q))
        <5>1. e[1] # Current(q)[1]
          BY <1>2, <4>1 DEF Current
        <5>2. \A i \in 1 .. n : s[i][1] = Current(q)[1] => s[i][2] < Current(q)[2]
          BY <4>2 DEF Older
        <5>3. \A i \in 1 .. n + 1 : (i \in 1 .. n /\ chan'[c][i] = s[i]) \/ chan'[c][i] = e
          BY <3>1
        <5> QED
          BY <3>1, <5>1, <5>2, <5>3 DEF Older
      <4> QED
        BY <1>1, <4>1, <4>2, <4>3 DEF Sent, Older
    <3> QED
      BY <2>1, <2>3, <3>2, <3>3 DEF HandOK
  <2> QED
    BY <1>5, <2>2, <2>3
<1> QED
  BY <1>6 DEF StreamInv

\* The handler takes the oldest event of its channel, and writes it or not.
LEMMA StreamTake ==
  ASSUME MapInv, StreamInv, NEW c \in Pages, chan[c] # <<>>,
         chan' = [chan EXCEPT ![c] = Tail(@)],
         \/ seen' = [seen EXCEPT ![c] = Append(@, Head(chan[c]))]
         \/ seen' = seen,
         UNCHANGED <<todo, topic, published>>
  PROVE  StreamInv'
<1> DEFINE s == chan[c]
           h == Head(chan[c])
           n == Len(chan[c])
           m == Len(seen[c])
<1>1. /\ n \in Nat \ {0} /\ h = s[1] /\ h \in Events
      /\ Len(chan'[c]) = n - 1 /\ \A i \in 1 .. n - 1 : chan'[c][i] = s[i + 1]
  <2>1. s \in Seq(Events) /\ chan'[c] = Tail(s)
    BY DEF MapInv, TypeOK
  <2> QED
    BY <2>1, TailLaw
<1>2. /\ m \in Nat
      /\ \A i \in 1 .. Len(seen'[c]) : (i \in 1 .. m /\ seen'[c][i] = seen[c][i]) \/ seen'[c][i] = h
  <2>1. seen[c] \in Seq(Events) /\ (seen'[c] = seen[c] \/ seen'[c] = Append(seen[c], h))
    BY DEF MapInv, TypeOK
  <2>2. CASE seen'[c] = seen[c]
    BY <2>1, <2>2
  <2>3. CASE seen'[c] = Append(seen[c], h)
    <3>1. /\ Len(seen'[c]) = m + 1 /\ seen'[c][m + 1] = h
          /\ \A i \in 1 .. m : seen'[c][i] = seen[c][i]
      BY <1>1, <2>1, <2>3, AppendLaw
    <3> QED
      BY <2>1, <3>1
  <2> QED
    BY <2>1, <2>2, <2>3
<1>3. \A d \in Pages \ {c} : chan'[d] = chan[d] /\ seen'[d] = seen[d]
  BY DEF MapInv, TypeOK
<1>4. ASSUME NEW e, Older(seen[c], e), h[1] = e[1] => h[2] < e[2]
      PROVE  Older(seen'[c], e)
  BY <1>2, <1>4 DEF Older
<1>5. ChanOK(c)'
  <2> SUFFICES ASSUME NEW i \in 1 .. n - 1
               PROVE  /\ Sent(chan'[c][i], c)
                      /\ Older(seen'[c], chan'[c][i])
                      /\ \A j \in 1 .. i - 1 : chan'[c][j][1] = chan'[c][i][1] =>
                                                  chan'[c][j][2] < chan'[c][i][2]
    BY <1>1 DEF ChanOK, Sent, Older
  <2>1. i + 1 \in 1 .. n /\ chan'[c][i] = s[i + 1] /\ 1 \in 1 .. (i + 1) - 1
    BY <1>1
  <2>2. /\ Sent(s[i + 1], c) /\ Older(seen[c], s[i + 1])
        /\ \A j \in 1 .. (i + 1) - 1 : s[j][1] = s[i + 1][1] => s[j][2] < s[i + 1][2]
    BY <2>1 DEF StreamInv, ChanOK
  <2>3. Older(seen'[c], s[i + 1])
    BY <1>1, <1>4, <2>1, <2>2
  <2>4. \A j \in 1 .. i - 1 : j + 1 \in 1 .. (i + 1) - 1 /\ chan'[c][j] = s[j + 1]
    BY <1>1
  <2> QED
    BY <2>1, <2>2, <2>3, <2>4
<1>6. SeenOK(c)'
  <2>1. h[2] <= Len(published[h[1]])
    <3>1. Sent(h, c)
      BY <1>1 DEF StreamInv, ChanOK
    <3>2. h[1] \in Publishers /\ published[h[1]] \in Seq(Topics)
      BY <1>1, EventFields DEF MapInv, TypeOK
    <3> QED
      BY <3>1, <3>2 DEF Sent
  <2> QED
    BY <1>2, <2>1 DEF StreamInv, SeenOK
<1>7. ASSUME NEW p \in Publishers
      PROVE  HandOK(p, c)'
  <2> SUFFICES ASSUME c \in todo[p]
               PROVE  Sent(Current(p), c)' /\ Older(seen'[c], Current(p)) /\ Older(chan'[c], Current(p))
    BY DEF HandOK, Current, Older
  <2>1. Sent(Current(p), c) /\ Older(seen[c], Current(p)) /\ Older(chan[c], Current(p))
    BY DEF StreamInv, HandOK
  <2>2. Sent(Current(p), c)'
    BY <2>1 DEF Sent, Current
  <2>3. \A i \in 1 .. n : s[i][1] = Current(p)[1] => s[i][2] < Current(p)[2]
    BY <2>1 DEF Older
  <2>4. Older(seen'[c], Current(p))
    BY <1>1, <1>4, <2>1, <2>3
  <2>5. Older(chan'[c], Current(p))
    <3>1. \A i \in 1 .. n - 1 : i + 1 \in 1 .. n /\ chan'[c][i] = s[i + 1]
      BY <1>1
    <3> QED
      BY <1>1, <2>3, <3>1 DEF Older
  <2> QED
    BY <2>2, <2>4, <2>5
<1>8. ASSUME NEW d \in Pages \ {c}
      PROVE  ChanOK(d)' /\ SeenOK(d)' /\ \A p \in Publishers : HandOK(p, d)'
  <2>1. chan'[d] = chan[d] /\ seen'[d] = seen[d] /\ d \in Pages
    BY <1>3
  <2>2. ChanOK(d)'
    <3>1. ChanOK(d) /\ topic' = topic /\ published' = published
      BY <2>1 DEF StreamInv
    <3> QED
      BY ONLY <2>1, <3>1 DEF ChanOK, Sent, Older
  <2>3. SeenOK(d)'
    BY <2>1 DEF StreamInv, SeenOK
  <2>4. \A p \in Publishers : HandOK(p, d)'
    BY <2>1 DEF StreamInv, HandOK, Sent, Older, Current
  <2> QED
    BY <2>2, <2>3, <2>4
<1> QED
  BY <1>5, <1>6, <1>7, <1>8 DEF StreamInv

LEMMA StreamKept ==
  ASSUME StreamInv, UNCHANGED <<chan, seen, todo, topic, published>>
  PROVE  StreamInv'
  BY DEF StreamInv, ChanOK, SeenOK, HandOK, Sent, Older, Current

LEMMA StreamNext ==
  ASSUME MapInv, StreamInv, [Next]_vars
  PROVE  StreamInv'
<1>1. ASSUME NEW p \in Publishers, NEW c \in Pages, Send(p, c)
      PROVE  StreamInv'
  BY <1>1, StreamSend
<1>2. ASSUME NEW p \in Publishers, NEW t \in Topics, Publish(p, t)
      PROVE  StreamInv'
  BY <1>2, StreamPublish
<1>3. ASSUME NEW c \in Pages, Receive(c)
      PROVE  StreamInv'
  BY <1>3, StreamTake DEF Receive, connVars
<1>4. ASSUME NEW c \in Pages, ReceiveLost(c)
      PROVE  StreamInv'
  BY <1>4, StreamTake DEF ReceiveLost, histVars
<1>5. ASSUME NEW c \in Pages, Tick(c) \/ ContextDone(c) \/ Unsubscribe(c) \/ Disconnect(c)
      PROVE  StreamInv'
  BY <1>5, StreamKept DEF Tick, ContextDone, Unsubscribe, Disconnect, histVars
<1>6. ASSUME NEW c \in Pages, NEW t \in Topics, Subscribe(c, t)
      PROVE  StreamInv'
  BY <1>6, StreamSubscribe
<1>7. CASE UNCHANGED vars
  BY <1>7, StreamKept DEF vars, connVars, histVars
<1> QED
  BY <1>1, <1>2, <1>3, <1>4, <1>5, <1>6, <1>7 DEF Next, PublisherStep, PageStep, Asked

-----------------------------------------------------------------------------
(* The events that are owed *)

\* e is in the channel of page c, or its publisher is about to try it.
Coming(e, c) ==
    \/ \E i \in 1 .. Len(chan[c]) : chan[c][i] = e
    \/ c \in todo[e[1]] /\ e = Current(e[1])

LEMMA OwedInit == Init => OwedInv
  BY BrokerConstants DEF Init, OwedInv, NoSilentLoss

LEMMA OwedPublish ==
  ASSUME MapInv, OwedInv, NEW p \in Publishers, NEW t \in Topics, Publish(p, t)
  PROVE  OwedInv'
<1>1. /\ todo[p] = {} /\ todo' = [todo EXCEPT ![p] = Listening(t)]
      /\ published' = [published EXCEPT ![p] = Append(@, t)]
      /\ owed' = [c \in Pages |->
                    IF conn[c] = "loop" /\ c \in up /\ topic[c] = t
                    THEN owed[c] \cup {<<p, Len(published[p]) + 1>>} ELSE owed[c]]
      /\ UNCHANGED <<chan, up>>
  BY DEF Publish, connVars
<1>2. /\ todo'[p] = Listening(t) /\ \A q \in Publishers \ {p} : todo'[q] = todo[q]
      /\ Current(p)' = <<p, Len(published[p]) + 1>>
      /\ \A q \in Publishers \ {p} : Current(q)' = Current(q)
  BY <1>1, AppendLaw DEF MapInv, TypeOK, Current
<1>3. ASSUME NEW c \in Pages, NEW e \in owed'[c]
      PROVE  Coming(e, c)'
  <2>1. CASE e \in owed[c]
    <3>1. Coming(e, c) /\ e[1] \in Publishers
      BY <2>1, EventFields DEF OwedInv, NoSilentLoss, Coming, MapInv, TypeOK
    <3>2. CASE e[1] = p
      BY <1>1, <3>1, <3>2 DEF Coming
    <3>3. CASE e[1] # p
      BY <1>1, <1>2, <3>1, <3>3 DEF Coming
    <3> QED
      BY <3>2, <3>3
  <2>2. CASE e \notin owed[c]
    <3>1. conn[c] = "loop" /\ topic[c] = t /\ e = <<p, Len(published[p]) + 1>>
      BY <1>1, <1>3, <2>2
    <3>2. c \in Listening(t)
      BY <3>1 DEF MapInv, Registered
    <3> QED
      BY <1>2, <3>1, <3>2 DEF Coming
  <2> QED
    BY <2>1, <2>2
<1>4. \A c \in Pages : Len(chan'[c]) <= BufSize /\ (c \notin up' => owed'[c] = {})
  BY <1>1 DEF OwedInv
<1> QED
  BY <1>3, <1>4 DEF OwedInv, NoSilentLoss, Coming

LEMMA OwedSend ==
  ASSUME MapInv, StreamInv, OwedInv, NEW p \in Publishers, NEW c \in Pages, Send(p, c)
  PROVE  OwedInv'
<1>1. /\ todo' = [todo EXCEPT ![p] = todo[p] \ {c}]
      /\ UNCHANGED <<published, up>>
  BY DEF Send, Queued, connVars
<1>2. /\ \A q \in Publishers : Current(q)' = Current(q)
      /\ \A q \in Publishers, d \in Pages : d \in todo[q] /\ ~ (q = p /\ d = c) => d \in todo'[q]
  BY <1>1 DEF MapInv, TypeOK, Current
<1>3. /\ chan[c] \in Seq(Events) /\ Len(chan[c]) \in Nat /\ Len(chan[c]) <= BufSize
      /\ Current(p) \in Events /\ Current(p)[1] = p
  BY SeenEvents, InHand, CurrentType DEF OwedInv, MapInv, Send, Current
<1>4. \A d \in Pages : \A e \in owed[d] : Coming(e, d) /\ e[1] \in Publishers
  BY EventFields DEF OwedInv, NoSilentLoss, Coming, MapInv, TypeOK
<1>5. CASE Room(c)
  <2>1. chan' = [chan EXCEPT ![c] = Append(@, Current(p))] /\ owed' = owed
    BY <1>5 DEF Send, Queued
  <2>2. /\ chan'[c] = Append(chan[c], Current(p))
        /\ \A d \in Pages \ {c} : chan'[d] = chan[d]
    BY <2>1 DEF MapInv, TypeOK
  <2>3. /\ Len(chan'[c]) = Len(chan[c]) + 1 /\ chan'[c][Len(chan[c]) + 1] = Current(p)
        /\ \A i \in 1 .. Len(chan[c]) : chan'[c][i] = chan[c][i]
    BY <1>3, <2>2, AppendLaw
  <2>4. ASSUME NEW d \in Pages, NEW e \in owed[d]
        PROVE  Coming(e, d)'
    <3>1. CASE \E i \in 1 .. Len(chan[d]) : chan[d][i] = e
      BY <1>3, <2>2, <2>3, <3>1, SMTT(30) DEF Coming
    <3>2. CASE d \in todo[e[1]] /\ e = Current(e[1])
      <4>1. CASE e[1] = p /\ d = c
        BY <1>3, <2>3, <3>2, <4>1 DEF Coming
      <4>2. CASE ~ (e[1] = p /\ d = c)
        BY <1>2, <1>4, <3>2, <4>2 DEF Coming
      <4> QED
        BY <4>1, <4>2
    <3> QED
      BY <1>4, <3>1, <3>2 DEF Coming
  <2>5. \A d \in Pages : Len(chan'[d]) <= BufSize
    BY <1>3, <1>5, <2>2, <2>3, BrokerConstants DEF OwedInv, Room
  <2> QED
    BY <1>1, <2>1, <2>4, <2>5 DEF OwedInv, NoSilentLoss, Coming
<1>6. CASE ~ Room(c)
  <2>1. chan' = chan /\ owed' = [owed EXCEPT ![c] = @ \ {Current(p)}]
    BY <1>3, <1>6, BrokerConstants DEF Send, Queued, Room
  <2>2. \A d \in Pages : owed'[d] \subseteq owed[d] /\ (d = c => Current(p) \notin owed'[d])
    BY <2>1 DEF MapInv, TypeOK
  <2>3. ASSUME NEW d \in Pages, NEW e \in owed'[d]
        PROVE  Coming(e, d)'
    <3>1. e \in owed[d] /\ Coming(e, d) /\ ~ (e = Current(p) /\ d = c)
      BY <1>4, <2>2
    <3> QED
      BY <1>2, <1>4, <2>1, <3>1 DEF Coming
  <2>4. \A d \in Pages : Len(chan'[d]) <= BufSize /\ (d \notin up' => owed'[d] = {})
    BY <1>1, <2>1, <2>2 DEF OwedInv
  <2> QED
    BY <2>3, <2>4 DEF OwedInv, NoSilentLoss, Coming
<1> QED
  BY <1>5, <1>6

\* The handler takes the oldest event: shown, it is not owed any more, and a
\* client that has gone is owed nothing.
LEMMA OwedTake ==
  ASSUME MapInv, OwedInv, NEW c \in Pages, Receive(c) \/ ReceiveLost(c)
  PROVE  OwedInv'
<1>1. /\ chan[c] # <<>> /\ chan' = [chan EXCEPT ![c] = Tail(@)]
      /\ UNCHANGED <<todo, up, published>>
  BY DEF Receive, ReceiveLost, connVars, histVars
<1>2. \A d \in Pages : owed'[d] \subseteq owed[d] /\ (d = c => Head(chan[c]) \notin owed'[d])
  <2>1. CASE Receive(c)
    BY <2>1 DEF Receive, MapInv, TypeOK
  <2>2. CASE ReceiveLost(c)
    BY <2>2 DEF ReceiveLost, histVars, OwedInv
  <2> QED
    BY <2>1, <2>2
<1>3. /\ chan'[c] = Tail(chan[c])
      /\ \A d \in Pages \ {c} : chan'[d] = chan[d]
  BY <1>1 DEF MapInv, TypeOK
<1>4. /\ Len(chan[c]) \in Nat \ {0} /\ Head(chan[c]) = chan[c][1]
      /\ Len(chan'[c]) = Len(chan[c]) - 1
      /\ \A i \in 1 .. Len(chan[c]) - 1 : chan'[c][i] = chan[c][i + 1]
  <2>1. PICK s \in Seq(Events) : s = chan[c] /\ s # <<>>
    BY <1>1, SeenEvents
  <2>2. chan'[c] = Tail(s)
    BY <1>3, <2>1
  <2> QED
    BY ONLY <2>1, <2>2, TailLaw
<1>5. ASSUME NEW d \in Pages, NEW e \in owed'[d]
      PROVE  Coming(e, d)'
  <2>1. e \in owed[d] /\ Coming(e, d)
    BY <1>2 DEF OwedInv, NoSilentLoss, Coming
  <2>2. CASE \E i \in 1 .. Len(chan[d]) : chan[d][i] = e
    <3>1. CASE d = c
      <4>1. PICK i \in 1 .. Len(chan[c]) : chan[c][i] = e
        BY <2>2, <3>1
      <4>2. i - 1 \in 1 .. Len(chan[c]) - 1
        BY <1>2, <1>4, <3>1, <4>1
      <4>3. chan'[c][i - 1] = e /\ i - 1 \in 1 .. Len(chan'[c])
        BY <1>4, <4>1, <4>2
      <4> QED
        BY <3>1, <4>3 DEF Coming
    <3>2. CASE d # c
      BY <1>3, <2>2, <3>2 DEF Coming
    <3> QED
      BY <3>1, <3>2
  <2>3. CASE d \in todo[e[1]] /\ e = Current(e[1])
    BY <1>1, <2>3 DEF Coming, Current
  <2> QED
    BY <2>1, <2>2, <2>3 DEF Coming
<1>6. \A d \in Pages : Len(chan'[d]) <= BufSize /\ (d \notin up' => owed'[d] = {})
  BY <1>1, <1>2, <1>3, <1>4, BrokerConstants, SMTT(30) DEF OwedInv
<1> QED
  BY <1>5, <1>6 DEF OwedInv, NoSilentLoss, Coming

LEMMA OwedKept ==
  ASSUME OwedInv, UNCHANGED <<chan, todo, published>>, MapInv,
         \/ UNCHANGED <<owed, up>>
         \/ \E c \in Pages : up' = up \ {c} /\ owed' = [owed EXCEPT ![c] = {}]
  PROVE  OwedInv'
<1>1. \A d \in Pages : owed'[d] \subseteq owed[d] /\ (d \notin up' => owed'[d] = {})
  BY DEF OwedInv, MapInv, TypeOK
<1> QED
  BY <1>1 DEF OwedInv, NoSilentLoss, Current

LEMMA OwedNext ==
  ASSUME MapInv, StreamInv, OwedInv, [Next]_vars
  PROVE  OwedInv'
<1>1. ASSUME NEW p \in Publishers, NEW c \in Pages, Send(p, c)
      PROVE  OwedInv'
  BY <1>1, OwedSend
<1>2. ASSUME NEW p \in Publishers, NEW t \in Topics, Publish(p, t)
      PROVE  OwedInv'
  BY <1>2, OwedPublish
<1>3. ASSUME NEW c \in Pages, Receive(c) \/ ReceiveLost(c)
      PROVE  OwedInv'
  BY <1>3, OwedTake
<1>4. ASSUME NEW c \in Pages, Tick(c) \/ ContextDone(c) \/ Unsubscribe(c) \/ Disconnect(c)
      PROVE  OwedInv'
  BY <1>4, OwedKept DEF Tick, ContextDone, Unsubscribe, Disconnect, histVars
<1>5. ASSUME NEW c \in Pages, NEW t \in Topics, Subscribe(c, t)
      PROVE  OwedInv'
  BY <1>5, OwedKept DEF Subscribe, histVars
<1>6. CASE UNCHANGED vars
  BY <1>6, OwedKept DEF vars, connVars, histVars
<1> QED
  BY <1>1, <1>2, <1>3, <1>4, <1>5, <1>6 DEF Next, PublisherStep, PageStep, Asked

-----------------------------------------------------------------------------
BrokerInv == MapInv /\ StreamInv /\ OwedInv

LEMMA InvCorrect == Spec => []BrokerInv
<1>1. Init => BrokerInv
  BY MapInit, StreamInit, OwedInit DEF BrokerInv
<1>2. BrokerInv /\ [Next]_vars => BrokerInv'
  BY MapNext, StreamNext, OwedNext DEF BrokerInv
<1> QED
  BY <1>1, <1>2, PTL DEF Spec

(***************************************************************************)
(* Every variable keeps its shape, for any number of pages, publishers and *)
(* events: in particular the map holds sets of channels under real topics. *)
(***************************************************************************)
THEOREM TypeCorrect == Spec => []TypeOK
<1>1. BrokerInv => TypeOK
  BY DEF BrokerInv, MapInv
<1> QED
  BY <1>1, InvCorrect, PTL

(***************************************************************************)
(* Subscribe and the deferred unsubscribe keep the map exact: it holds the *)
(* handlers that run, each under its own topic, and no stream is under     *)
(* another user's private topic, whatever other pages do in between.       *)
(***************************************************************************)
THEOREM RegisteredCorrect == Spec => []Registered
<1>1. BrokerInv => Registered
  BY DEF BrokerInv, MapInv
<1> QED
  BY <1>1, InvCorrect, PTL

(***************************************************************************)
(* Publish sends after it has released the lock, and still loses nothing   *)
(* silently: an event published while a page is connected is in its        *)
(* channel or in hand until it is shown, unless the channel was full.      *)
(***************************************************************************)
THEOREM LossCorrect == Spec => []NoSilentLoss
<1>1. BrokerInv => NoSilentLoss
  BY DEF BrokerInv, OwedInv
<1> QED
  BY <1>1, InvCorrect, PTL

-----------------------------------------------------------------------------
(* The refinement, one step for each action *)

LEMMA StreamStep ==
  ASSUME BrokerInv, [Next]_vars
  PROVE  [Stream!Next]_(Stream!evars)
<1> USE DEF Stream!evars
<1>1. ASSUME NEW p \in Publishers, NEW t \in Topics, Publish(p, t)
      PROVE  Stream!Next
  BY <1>1 DEF Publish, connVars, Stream!Next, Stream!Emit
<1>2. ASSUME NEW c \in Pages, NEW t \in Topics, Subscribe(c, t)
      PROVE  Stream!Next
  <2>1. topic[c] = NoTopic
    BY <1>2 DEF Subscribe, BrokerInv, MapInv, TopicOK
  <2> QED
    BY <1>2, <2>1 DEF Subscribe, histVars, Stream!Next, Stream!Open
<1>3. ASSUME NEW c \in Pages, Receive(c)
      PROVE  Stream!Next
  <2> DEFINE h == Head(chan[c])
  <2>1. h = chan[c][1] /\ h \in Events /\ 1 \in 1 .. Len(chan[c])
    BY <1>3, SeenEvents, TailLaw DEF Receive, BrokerInv
  <2>2. Sent(h, c) /\ Older(seen[c], h)
    BY <2>1 DEF BrokerInv, StreamInv, ChanOK
  <2>3. PICK p \in Publishers, n \in Nat : h = <<p, n>>
    BY <2>1 DEF Events
  <2>4. n \in 1 .. Len(published[p]) /\ published[p][n] = topic[c]
    BY <2>2, <2>3 DEF Sent
  <2>5. \A i \in 1 .. Len(seen[c]) : seen[c][i][1] = p => seen[c][i][2] < n
    BY <2>2, <2>3 DEF Older
  <2>6. seen' = [seen EXCEPT ![c] = Append(@, <<p, n>>)] /\ UNCHANGED <<published, topic>>
    BY <1>3, <2>3 DEF Receive, connVars
  <2>7. Stream!Show(c, p, n)
    BY <2>4, <2>5, <2>6 DEF Stream!Show
  <2> QED
    BY <2>4, <2>7 DEF Stream!Next
<1>4. ASSUME NEW c \in Pages,
             ReceiveLost(c) \/ Tick(c) \/ ContextDone(c) \/ Unsubscribe(c) \/ Disconnect(c)
      PROVE  UNCHANGED Stream!evars
  BY <1>4 DEF ReceiveLost, Tick, ContextDone, Unsubscribe, Disconnect, histVars
<1>5. ASSUME NEW p \in Publishers, NEW c \in Pages, Send(p, c)
      PROVE  UNCHANGED Stream!evars
  BY <1>5 DEF Send, connVars
<1>6. CASE UNCHANGED vars
  BY <1>6 DEF vars, connVars, histVars
<1> QED
  BY <1>1, <1>2, <1>3, <1>4, <1>5, <1>6 DEF Next, PublisherStep, PageStep, Asked

(***************************************************************************)
(* The broker and its handlers implement EventStream: a page is shown only *)
(* events of its topic, each at most once, and those of one publisher in   *)
(* order, although Publish sends to the channels without the lock and      *)
(* drops what does not fit.                                                *)
(***************************************************************************)
THEOREM StreamCorrect == Spec => ImplementsStream
<1>1. Init => Stream!Init
  BY DEF Init, Stream!Init
<1>2. BrokerInv /\ [Next]_vars => [Stream!Next]_(Stream!evars)
  BY StreamStep
<1> QED
  BY <1>1, <1>2, InvCorrect, PTL DEF Spec, ImplementsStream, Stream!Spec
=============================================================================
