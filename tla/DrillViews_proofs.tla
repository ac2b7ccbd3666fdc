--------------------------- MODULE DrillViews_proofs ---------------------------
(***************************************************************************)
(* Proofs about DrillViews and about the EventHub it is composed with, for *)
(* any sets of drills and streams, any channel capacity, any page limits   *)
(* and any number of events.  Drills may be an infinite set: what keeps    *)
(* the counting of rows meaningful is that rows are inserted one at a time.*)
(***************************************************************************)
EXTENDS DrillViews, FiniteSetTheorems, SequenceTheorems, TLAPS

Events == Drills \X Nat

HubTypeOK ==
  /\ subscribers \in [Drills -> SUBSET Streams]
  /\ count \in [Drills -> Nat]
  /\ drill \in [Streams -> Drills]
  /\ chan \in [Streams -> Seq(Events)]
  /\ open \in [Streams -> BOOLEAN]
  /\ pc \in [Streams -> {"new", "loop", "leaving", "done"}]
  /\ sent \in [Streams -> Seq(Events)]
  /\ panics = 0

\* A stream in the hub's map is there under its own drill, its channel is open
\* and its handler has not run the deferred unsubscribe.
MapInv ==
  \A d \in Drills : \A s \in subscribers[d] :
    drill[s] = d /\ open[s] /\ pc[s] \in {"loop", "leaving"}

\* Events of drill d, in the order of their numbers, none above n.
InOrderUpTo(q, d, n) ==
  \A i, j \in 1..Len(q) :
    /\ q[i][1] = d
    /\ q[i][2] <= n
    /\ i < j => q[i][2] < q[j][2]

OrderInv == \A s \in Streams : InOrderUpTo(Delivered(s), drill[s], count[drill[s]])

HubInv == HubTypeOK /\ MapInv /\ OrderInv

-----------------------------------------------------------------------------
(***************************************************************************)
(* Sequences.                                                              *)
(***************************************************************************)
\* Handing the first event of a channel on leaves what was delivered the same.
LEMMA HandOn ==
  ASSUME NEW S, NEW a \in Seq(S), NEW b \in Seq(S), b # <<>>
  PROVE  Append(a, Head(b)) \o Tail(b) = a \o b
<1> DEFINE c == Append(a, Head(b))
           t == Tail(b)
           l == c \o t
           r == a \o b
<1>1. Len(a) \in Nat /\ Len(b) \in Nat \ {0} /\ Head(b) \in S /\ Head(b) = b[1]
  BY HeadTailProperties, EmptySeq, LenProperties
<1>2. /\ t \in Seq(S) /\ Len(t) = Len(b) - 1
      /\ \A i \in 1..Len(t) : t[i] = b[i + 1]
  BY HeadTailProperties
<1>3. /\ c \in Seq(S) /\ Len(c) = Len(a) + 1
      /\ \A i \in 1..Len(a) : c[i] = a[i]
      /\ c[Len(a) + 1] = b[1]
  BY <1>1
<1> HIDE DEF c, t
<1>4. /\ l \in Seq(S) /\ Len(l) = Len(c) + Len(t)
      /\ \A i \in 1..Len(c) + Len(t) : l[i] = IF i <= Len(c) THEN c[i] ELSE t[i - Len(c)]
  BY <1>2, <1>3, ConcatProperties
<1>5. /\ r \in Seq(S) /\ Len(r) = Len(a) + Len(b)
      /\ \A i \in 1..Len(a) + Len(b) : r[i] = IF i <= Len(a) THEN a[i] ELSE b[i - Len(a)]
  BY ConcatProperties
<1> HIDE DEF l, r
<1>6. Len(l) = Len(r)
  BY <1>1, <1>2, <1>3, <1>4, <1>5
<1>7. ASSUME NEW i \in 1..Len(l) PROVE l[i] = r[i]
  <2>0. i \in 1..Len(a) + Len(b) /\ i \in 1..Len(c) + Len(t)
    BY <1>4, <1>5, <1>6
  <2>1. CASE i <= Len(a)
    <3>1. i \in 1..Len(a) /\ i <= Len(c)
      BY <1>1, <1>3, <2>0, <2>1
    <3> QED
      BY <1>3, <1>4, <1>5, <2>0, <3>1, <2>1
  <2>2. CASE i = Len(a) + 1
    <3>1. i <= Len(c) /\ ~(i <= Len(a)) /\ i - Len(a) = 1
      BY <1>1, <1>3, <2>2
    <3>2. l[i] = c[i] /\ r[i] = b[1]
      BY <1>4, <1>5, <2>0, <3>1
    <3> QED
      BY <1>3, <2>2, <3>2
  <2>3. CASE i > Len(a) + 1
    <3>1. /\ ~(i <= Len(c)) /\ ~(i <= Len(a))
          /\ i - Len(c) \in 1..Len(t) /\ (i - Len(c)) + 1 = i - Len(a)
      BY <1>1, <1>2, <1>3, <2>0, <2>3
    <3>2. l[i] = t[i - Len(c)] /\ r[i] = b[i - Len(a)]
      BY <1>4, <1>5, <2>0, <3>1
    <3>3. t[i - Len(c)] = b[(i - Len(c)) + 1]
      BY <1>2, <3>1
    <3> QED
      BY <3>1, <3>2, <3>3
  <2> QED
    BY <1>1, <2>0, <2>1, <2>2, <2>3
<1>8. l = r
  BY <1>4, <1>5, <1>6, <1>7, SeqEqual
<1> QED
  BY <1>8 DEF l, r, c, t

\* An event sent to a channel is the last of what is delivered.
LEMMA SendLast ==
  ASSUME NEW S, NEW a \in Seq(S), NEW b \in Seq(S), NEW e \in S
  PROVE  /\ a \o Append(b, e) \in Seq(S)
         /\ Len(a \o Append(b, e)) = Len(a \o b) + 1
         /\ \A i \in 1..Len(a \o b) : (a \o Append(b, e))[i] = (a \o b)[i]
         /\ (a \o Append(b, e))[Len(a \o b) + 1] = e
<1>1. /\ Append(b, e) \in Seq(S)
      /\ Len(Append(b, e)) = Len(b) + 1
      /\ \A i \in 1..(Len(b) + 1) : Append(b, e)[i] = IF i <= Len(b) THEN b[i] ELSE e
      /\ Len(a) \in Nat /\ Len(b) \in Nat
  BY LenProperties
<1>2. \A x, y \in Seq(S) :
        /\ x \o y \in Seq(S)
        /\ Len(x \o y) = Len(x) + Len(y)
        /\ \A i \in 1 .. Len(x) + Len(y) :
             (x \o y)[i] = IF i <= Len(x) THEN x[i] ELSE y[i - Len(x)]
  BY ConcatProperties
<1>3. /\ Len(a \o b) = Len(a) + Len(b)
      /\ \A i \in 1 .. Len(a) + Len(b) :
           (a \o b)[i] = IF i <= Len(a) THEN a[i] ELSE b[i - Len(a)]
  BY <1>2
<1>4. /\ a \o Append(b, e) \in Seq(S)
      /\ Len(a \o Append(b, e)) = Len(a) + Len(b) + 1
      /\ \A i \in 1 .. Len(a) + Len(b) + 1 :
           (a \o Append(b, e))[i] =
             IF i <= Len(a) THEN a[i] ELSE Append(b, e)[i - Len(a)]
  <2> DEFINE c == Append(b, e)
  <2>1. c \in Seq(S) /\ Len(c) = Len(b) + 1
    BY <1>1
  <2> HIDE DEF c
  <2>2. /\ a \o c \in Seq(S)
        /\ Len(a \o c) = Len(a) + Len(c)
        /\ \A i \in 1 .. Len(a) + Len(c) :
             (a \o c)[i] = IF i <= Len(a) THEN a[i] ELSE c[i - Len(a)]
    BY <1>2, <2>1
  <2>3. Len(a) + Len(c) = Len(a) + Len(b) + 1
    BY <1>1, <2>1
  <2> QED
    BY <2>2, <2>3 DEF c
<1> QED
  BY <1>1, <1>3, <1>4

\* So an event numbered above all the others keeps them in order.
LEMMA SendInOrder ==
  ASSUME NEW a \in Seq(Events), NEW b \in Seq(Events), NEW d \in Drills, NEW n \in Nat,
         InOrderUpTo(a \o b, d, n)
  PROVE  InOrderUpTo(a \o Append(b, <<d, n + 1>>), d, n + 1)
<1> DEFINE q == a \o b
           r == a \o Append(b, <<d, n + 1>>)
<1>1. q \in Seq(Events) /\ Len(q) \in Nat /\ \A i \in 1..Len(q) : q[i] \in Events
  BY ConcatProperties, LenProperties, ElementOfSeq
<1>2. /\ Len(r) = Len(q) + 1
      /\ \A i \in 1..Len(q) : r[i] = q[i]
      /\ r[Len(q) + 1] = <<d, n + 1>>
  BY SendLast DEF Events
<1>3. InOrderUpTo(q, d, n)
  OBVIOUS
<1> HIDE DEF q, r
<1>4. \A i \in 1..Len(q) : q[i][2] \in Nat
  BY <1>1 DEF Events
<1>5. ASSUME NEW i \in 1..Len(r)
      PROVE  r[i][1] = d /\ r[i][2] \in Nat /\ r[i][2] <= n + 1 /\ (i <= Len(q) => r[i][2] <= n)
  BY <1>1, <1>2, <1>3, <1>4 DEF InOrderUpTo
<1>6. ASSUME NEW i \in 1..Len(r), NEW j \in 1..Len(r), i < j PROVE r[i][2] < r[j][2]
  <2>1. CASE j \in 1..Len(q)
    <3>1. i \in 1..Len(q)
      BY <1>1, <1>6, <2>1
    <3> QED
      BY <1>2, <1>3, <1>6, <2>1, <3>1 DEF InOrderUpTo
  <2>2. CASE j = Len(q) + 1
    <3>1. i \in 1..Len(q) /\ r[j][2] = n + 1
      BY <1>1, <1>2, <1>6, <2>2
    <3>2. r[i][2] \in Nat /\ r[i][2] <= n
      BY <1>5, <3>1
    <3> QED
      BY <3>1, <3>2
  <2> QED
    BY <1>1, <1>2, <2>1, <2>2
<1>7. InOrderUpTo(r, d, n + 1)
  BY <1>5, <1>6 DEF InOrderUpTo
<1> QED
  BY <1>7 DEF r

-----------------------------------------------------------------------------
(***************************************************************************)
(* The hub: no panic, and events in order.                                 *)
(***************************************************************************)
LEMMA HubInit == Init => HubInv
<1> SUFFICES ASSUME Init PROVE HubInv
  OBVIOUS
<1>1. HubTypeOK /\ MapInv
  BY EmptySeq DEF Init, HubTypeOK, MapInv
<1>2. \A s \in Streams : Len(Delivered(s)) = 0
  BY EmptySeq, ConcatEmptySeq DEF Init, Delivered
<1> QED
  BY <1>1, <1>2 DEF HubInv, OrderInv, InOrderUpTo

\* A registered stream's channel is open.
LEMMA RegisteredIsOpen ==
  ASSUME HubTypeOK, MapInv, NEW s \in Registered
  PROVE  s \in Streams /\ s \in subscribers[drill[s]] /\ open[s]
BY DEF HubTypeOK, MapInv, Registered

LEMMA PublishKeepsHub ==
  ASSUME HubInv, NEW d \in Drills, Publish(d)
  PROVE  HubInv'
<1> USE DEF HubInv
<1>1. panics' = 0
  BY DEF HubTypeOK, MapInv, Publish, Receivers
<1>2. count[d] \in Nat /\ count' = [count EXCEPT ![d] = count[d] + 1]
      /\ <<d, count[d] + 1>> \in Events
  BY DEF HubTypeOK, Publish, Events
<1>3. HubTypeOK'
  <2>1. \A s \in Streams : chan'[s] \in Seq(Events)
    BY <1>2 DEF HubTypeOK, Publish
  <2> QED
    BY <1>1, <1>2, <2>1 DEF HubTypeOK, Publish
<1>4. MapInv'
  BY DEF MapInv, Publish
<1>5. ASSUME NEW s \in Streams
      PROVE  InOrderUpTo(Delivered(s), drill[s], count[drill[s]])'
  <2> DEFINE a == sent[s]
             b == chan[s]
  <2>0. /\ a \in Seq(Events) /\ b \in Seq(Events) /\ drill[s] \in Drills
        /\ count[drill[s]] \in Nat
        /\ InOrderUpTo(a \o b, drill[s], count[drill[s]])
        /\ sent'[s] = a /\ drill'[s] = drill[s]
    BY DEF HubTypeOK, OrderInv, Delivered, Publish
  <2>1. CASE s \in Receivers(d) /\ open[s] /\ HasRoom(s)
    <3>1. drill[s] = d /\ chan'[s] = Append(b, <<d, count[d] + 1>>)
          /\ count'[drill[s]] = count[d] + 1
      BY <1>2, <2>1 DEF Publish, MapInv, Receivers, HubTypeOK
    <3>2. InOrderUpTo(a \o Append(b, <<d, count[d] + 1>>), d, count[d] + 1)
      BY <1>2, <2>0, <3>1, SendInOrder
    <3> QED
      BY <2>0, <3>1, <3>2 DEF Delivered, InOrderUpTo
  <2>2. CASE ~(s \in Receivers(d) /\ open[s] /\ HasRoom(s))
    <3>1. chan'[s] = b /\ count'[drill[s]] \in Nat /\ count[drill[s]] <= count'[drill[s]]
      BY <1>2, <2>0, <2>2 DEF Publish, HubTypeOK
    <3> DEFINE q == a \o b
    <3>2. q \in Seq(Events) /\ InOrderUpTo(q, drill[s], count[drill[s]])
      BY <2>0, ConcatProperties
    <3>3. InOrderUpTo(q, drill[s], count'[drill[s]])
      <4> HIDE DEF q
      <4>1. \A i \in 1..Len(q) : q[i][2] \in Nat
        BY <3>2, ElementOfSeq DEF Events
      <4> QED
        BY <2>0, <3>1, <3>2, <4>1 DEF InOrderUpTo
    <3> QED
      BY <2>0, <3>1, <3>3 DEF Delivered, InOrderUpTo
  <2> QED
    BY <2>1, <2>2
<1> QED
  BY <1>3, <1>4, <1>5 DEF OrderInv

LEMMA ReceiveKeepsHub ==
  ASSUME HubInv, NEW s \in Streams, Receive(s)
  PROVE  HubInv'
<1> USE DEF HubInv
<1>1. chan[s] \in Seq(Events) /\ sent[s] \in Seq(Events) /\ chan[s] # <<>>
  BY DEF HubTypeOK, Receive
<1>2. Head(chan[s]) \in Events /\ Tail(chan[s]) \in Seq(Events)
  BY <1>1, HeadTailProperties
<1>3. HubTypeOK' /\ MapInv'
  BY <1>1, <1>2 DEF HubTypeOK, MapInv, Receive
<1>4. ASSUME NEW t \in Streams PROVE Delivered(t)' = Delivered(t)
  <2>1. CASE t = s
    <3>1. sent'[s] = Append(sent[s], Head(chan[s])) /\ chan'[s] = Tail(chan[s])
      BY DEF Receive, HubTypeOK
    <3> QED
      BY <1>1, <2>1, <3>1, HandOn DEF Delivered
  <2>2. CASE t # s
    BY <2>2 DEF Delivered, Receive, HubTypeOK
  <2> QED
    BY <2>1, <2>2
<1>5. UNCHANGED <<drill, count>>
  BY DEF Receive
<1> QED
  BY <1>3, <1>4, <1>5 DEF OrderInv, InOrderUpTo

\* The steps that neither send nor hand on an event leave the order alone.
LEMMA QuietKeepsOrder ==
  ASSUME OrderInv, UNCHANGED <<sent, chan, drill, count>>
  PROVE  OrderInv'
<1>1. \A s \in Streams : Delivered(s)' = Delivered(s)
  BY DEF Delivered
<1> QED
  BY <1>1 DEF OrderInv, InOrderUpTo

LEMMA HubNext == HubInv /\ [Next]_vars => HubInv'
<1> SUFFICES ASSUME HubInv, [Next]_vars PROVE HubInv'
  OBVIOUS
<1>t. HubTypeOK /\ MapInv /\ OrderInv
  BY DEF HubInv
<1>1. ASSUME NEW s \in Streams, Subscribe(s) PROVE HubInv'
  <2>1. HubTypeOK'
    BY <1>1, <1>t DEF HubTypeOK, Subscribe
  <2>2. MapInv'
    BY <1>1, <1>t DEF HubTypeOK, MapInv, Subscribe
  <2>3. OrderInv'
    BY <1>1, <1>t, QuietKeepsOrder DEF Subscribe
  <2> QED
    BY <2>1, <2>2, <2>3 DEF HubInv
<1>2. ASSUME NEW s \in Streams, ClientGone(s) \/ SeeClosed(s) PROVE HubInv'
  <2>1. /\ pc[s] = "loop"
        /\ pc' = [pc EXCEPT ![s] = "leaving"]
        /\ UNCHANGED <<subscribers, count, drill, chan, open, sent, panics>>
    BY <1>2 DEF ClientGone, SeeClosed
  <2>2. HubTypeOK'
    BY <1>t, <2>1 DEF HubTypeOK
  <2>3. MapInv'
    BY <1>t, <2>1 DEF HubTypeOK, MapInv
  <2>4. OrderInv'
    BY <1>t, <2>1, QuietKeepsOrder
  <2> QED
    BY <2>2, <2>3, <2>4 DEF HubInv
<1>3. ASSUME NEW s \in Streams, unsubscribe(s) PROVE HubInv'
  <2>1. CASE s \in subscribers[drill[s]]
    <3>1. open[s] /\ panics' = 0
      BY <1>3, <1>t, <2>1 DEF HubTypeOK, MapInv, unsubscribe
    <3>2. /\ subscribers' = [subscribers EXCEPT ![drill[s]] = @ \ {s}]
          /\ open' = [open EXCEPT ![s] = FALSE]
          /\ pc' = [pc EXCEPT ![s] = "done"]
          /\ UNCHANGED <<count, drill, chan, sent>>
      BY <1>3, <2>1 DEF unsubscribe
    <3>3. HubTypeOK'
      BY <1>t, <3>1, <3>2 DEF HubTypeOK
    <3>4. MapInv'
      BY <1>t, <3>2 DEF HubTypeOK, MapInv
    <3> QED
      BY <1>t, <3>2, <3>3, <3>4, QuietKeepsOrder DEF HubInv
  <2>2. CASE s \notin subscribers[drill[s]]
    <3>1. /\ pc' = [pc EXCEPT ![s] = "done"]
          /\ UNCHANGED <<subscribers, open, panics, count, drill, chan, sent>>
      BY <1>3, <2>2 DEF unsubscribe
    <3>2. HubTypeOK'
      BY <1>t, <3>1 DEF HubTypeOK
    <3>3. MapInv'
      BY <1>t, <2>2, <3>1 DEF HubTypeOK, MapInv
    <3> QED
      BY <1>t, <3>1, <3>2, <3>3, QuietKeepsOrder DEF HubInv
  <2> QED
    BY <2>1, <2>2
<1>4. ASSUME NEW s \in Streams, Receive(s) PROVE HubInv'
  BY <1>4, ReceiveKeepsHub
<1>5. ASSUME NEW d \in Drills, Publish(d) PROVE HubInv'
  BY <1>5, PublishKeepsHub
<1>6. CASE Close
  <2>1. panics' = 0
    BY <1>6, <1>t, RegisteredIsOpen DEF Close, HubTypeOK
  <2>2. HubTypeOK' /\ MapInv'
    BY <1>6, <1>t, <2>1 DEF HubTypeOK, MapInv, Close
  <2>3. OrderInv'
    BY <1>6, <1>t, QuietKeepsOrder DEF Close
  <2> QED
    BY <2>2, <2>3 DEF HubInv
<1>7. CASE UNCHANGED vars
  BY <1>7, <1>t, QuietKeepsOrder DEF HubInv, HubTypeOK, MapInv, vars
<1> QED
  BY <1>1, <1>2, <1>3, <1>4, <1>5, <1>6, <1>7 DEF Next, Handler

\* Neither a leaving client, nor a publishing worker, nor the hub's Close sends
\* on a closed channel or closes one twice, in any order and for any number of
\* them.
THEOREM HubNeverPanics == Spec => []NoPanic
<1>1. HubInv => NoPanic
  BY DEF HubInv, HubTypeOK, NoPanic
<1> QED
  BY HubInit, HubNext, <1>1, PTL DEF Spec

\* A stream passes on events of its own drill only, each once and in order,
\* however many were dropped because its channel was full.
THEOREM EventsArriveInOrder == Spec => []InOrder
<1>1. HubInv => InOrder
  <2> SUFFICES ASSUME HubInv, NEW s \in Streams
               PROVE  \A i, j \in DOMAIN Delivered(s) :
                        /\ Delivered(s)[i][1] = drill[s]
                        /\ i < j => Delivered(s)[i][2] < Delivered(s)[j][2]
    BY DEF InOrder
  <2>1. Delivered(s) \in Seq(Events)
    BY ConcatProperties DEF HubInv, HubTypeOK, Delivered
  <2>2. DOMAIN Delivered(s) = 1..Len(Delivered(s))
    BY <2>1, LenProperties
  <2> QED
    BY <2>2 DEF HubInv, OrderInv, InOrderUpTo
<1> QED
  BY HubInit, HubNext, <1>1, PTL DEF Spec

-----------------------------------------------------------------------------
(***************************************************************************)
(* The composition: rows, pages and lists take no step of the hub that the *)
(* hub alone could not take.                                               *)
(***************************************************************************)
LEMMA ViewsStepsHub == [ViewsNext]_viewVars => [Next]_vars
<1> SUFFICES ASSUME [ViewsNext]_viewVars PROVE [Next]_vars
  OBVIOUS
<1>1. CASE Tick \/ List
  BY <1>1 DEF Tick, List, StartPaging, ReadPage
<1>2. ASSUME NEW d \in Drills, Write(d) PROVE UNCHANGED vars
  BY <1>2 DEF Write, Insert, CommitInsert, CancelRow
<1>3. ASSUME NEW d \in Drills, Work(d) PROVE Publish(d) \/ UNCHANGED vars
  BY <1>3 DEF Work, WorkerStep, WorkerEnd, Announce
<1>4. ASSUME NEW s \in Streams, Page(s)
      PROVE  Subscribe(s) \/ ClientGone(s) \/ Handler(s) \/ UNCHANGED vars
  BY <1>4 DEF Page, Admit, Connect, Notify, Read, HubStep, Handler
<1>5. CASE HubStep(Close)
  BY <1>5 DEF HubStep, Next
<1>6. CASE UNCHANGED viewVars
  BY <1>6 DEF viewVars
<1> QED
  BY <1>1, <1>2, <1>3, <1>4, <1>5, <1>6 DEF ViewsNext, Next

\* The event hub as workers, detail pages and lists use it behaves as the event
\* hub does by itself, its fairness included: NoPanic, InOrder and
\* ClosedStreamEnds hold of it too.
THEOREM ViewsImplementHub == ViewsSpec => Spec
<1>1. ViewsInit => Init
  BY DEF ViewsInit
<1> QED
  BY <1>1, ViewsStepsHub, PTL DEF ViewsSpec, Spec, StreamsGoOn

LEMMA DrillStays == [Next]_vars => drill' = drill
BY DEF Next, Handler, Subscribe, ClientGone, Receive, SeeClosed, unsubscribe, Publish, Close, vars

-----------------------------------------------------------------------------
(***************************************************************************)
(* Rows.                                                                   *)
(***************************************************************************)
Filters == {"any", "active"}

Stored == {d \in Drills : row[d] # "none"}

\* The end of a drill is announced, and published, after its row was written.
RowInv ==
  /\ clock \in Nat
  /\ row \in [Drills -> {"none", "pending", "active", "ended"}]
  /\ created \in [Drills -> Nat]
  /\ running \in [Drills -> BOOLEAN]
  /\ announce \in [Drills -> {"nothing", "progress", "end"}]
  /\ told \in [Drills -> BOOLEAN]
  /\ \A d \in Drills : told[d] \/ announce[d] = "end" => row[d] = "ended"
  /\ \A d \in Drills : running[d] => row[d] \in {"active", "ended"}
  /\ IsFiniteSet(Stored)

\* What a step may do to the rows: they come, and end, and none goes; a row
\* keeps its created_at.
RowsOnlyGrow ==
  /\ Visible \subseteq Visible'
  /\ Ended \subseteq Ended'
  /\ \A d \in Visible : created'[d] = created[d]

LEMMA RowInit == ViewsInit => RowInv
<1> SUFFICES ASSUME ViewsInit PROVE RowInv
  OBVIOUS
<1>1. Stored = {}
  BY DEF ViewsInit, Stored
<1> QED
  BY <1>1, FS_EmptySet DEF ViewsInit, RowInv

LEMMA RowNext ==
  ASSUME RowInv, [ViewsNext]_viewVars
  PROVE  RowInv' /\ RowsOnlyGrow
<1> USE DEF RowInv
<1>1. ASSUME NEW d \in Drills, Insert(d) PROVE RowInv' /\ RowsOnlyGrow
  <2>1. Stored' = Stored \cup {d}
    BY <1>1 DEF Insert, Stored
  <2>2. IsFiniteSet(Stored')
    BY <2>1, FS_AddElement
  <2> QED
    BY <1>1, <2>2 DEF Insert, RowsOnlyGrow, Visible, Ended
<1>2. ASSUME NEW d \in Drills, CommitInsert(d) \/ CancelRow(d) PROVE RowInv' /\ RowsOnlyGrow
  <2>1. Stored' = Stored
    BY <1>2 DEF CommitInsert, CancelRow, Stored
  <2>2. CASE CommitInsert(d)
    <3>1. (d \in Runnable) \in BOOLEAN
      OBVIOUS
    <3>2. PICK b \in BOOLEAN : running' = [running EXCEPT ![d] = b]
      BY <2>2, <3>1, Zenon DEF CommitInsert
    <3> QED
      BY <2>1, <2>2, <3>1, <3>2 DEF CommitInsert, RowsOnlyGrow, Visible, Ended
  <2>3. CASE CancelRow(d)
    BY <2>1, <2>3 DEF CancelRow, RowsOnlyGrow, Visible, Ended
  <2> QED
    BY <1>2, <2>2, <2>3
<1>3. ASSUME NEW d \in Drills, WorkerEnd(d) PROVE RowInv' /\ RowsOnlyGrow
  <2>1. row[d] \in {"active", "ended"}
    BY <1>3 DEF WorkerEnd
  <2>2. Stored' = Stored
    BY <1>3, <2>1 DEF WorkerEnd, Stored
  <2> QED
    BY <1>3, <2>1, <2>2 DEF WorkerEnd, RowsOnlyGrow, Visible, Ended
<1>4. ASSUME NEW d \in Drills, WorkerStep(d) \/ Announce(d) PROVE RowInv' /\ RowsOnlyGrow
  <2>1. Stored' = Stored
    BY <1>4 DEF WorkerStep, Announce, Stored
  <2> QED
    BY <1>4, <2>1 DEF WorkerStep, Announce, RowsOnlyGrow, Visible, Ended
<1>5. CASE Tick
  <2>1. Stored' = Stored
    BY <1>5 DEF Tick, Stored
  <2> QED
    BY <1>5, <2>1 DEF Tick, RowsOnlyGrow, Visible, Ended
<1>6. CASE UNCHANGED rowVars
  <2>1. Stored' = Stored
    BY <1>6 DEF rowVars, Stored
  <2> QED
    BY <1>6, <2>1 DEF rowVars, RowsOnlyGrow, Visible, Ended
<1>7. ASSUME NEW s \in Streams, Page(s) PROVE UNCHANGED rowVars
  BY <1>7 DEF Page, Admit, Connect, Notify, Read, HubStep
<1>8. ASSUME HubStep(Close) \/ List \/ UNCHANGED viewVars PROVE UNCHANGED rowVars
  BY <1>8 DEF HubStep, List, StartPaging, ReadPage, viewVars
<1> QED
  BY <1>1, <1>2, <1>3, <1>4, <1>5, <1>6, <1>7, <1>8 DEF ViewsNext, Write, Work

-----------------------------------------------------------------------------
(***************************************************************************)
(* What a page of a list holds.                                            *)
(***************************************************************************)
LEMMA SmallerOf ==
  ASSUME NEW a \in Int, NEW b \in Int
  PROVE  Min({a, b}) = IF a <= b THEN a ELSE b
<1>1. \E x \in {a, b} : \A y \in {a, b} : x =< y
  OBVIOUS
<1>2. Min({a, b}) \in {a, b} /\ \A y \in {a, b} : Min({a, b}) =< y
  BY <1>1 DEF Min
<1> QED
  BY <1>2

LEMMA PageValuesPositive ==
  ASSUME NEW limit \in Nat
  PROVE  pageValues(limit) \in Nat \ {0}
BY LimitsAssumption DEF pageValues

LEMMA MatchingFinite ==
  ASSUME RowInv, NEW filter
  PROVE  IsFiniteSet(Visible) /\ IsFiniteSet(Matching(filter))
<1>1. Visible \in SUBSET Stored /\ Matching(filter) \in SUBSET Stored
  BY DEF Visible, Matching, Stored
<1> QED
  BY <1>1, FS_Subset DEF RowInv

LEMMA OnePageMore ==
  ASSUME NEW p \in Nat \ {0}, NEW l \in Nat
  PROVE  (p - 1) * l + l = p * l /\ (p - 1) * l \in Nat
<1> DEFINE q == p - 1
<1>1. q \in Nat /\ p = q + 1
  OBVIOUS
<1> HIDE DEF q
<1>2. (q + 1) * l = q * l + l /\ q * l \in Nat
  BY <1>1
<1>3. (p - 1) * l = q * l
  BY DEF q
<1> QED
  BY <1>1, <1>2, <1>3

\* S is a page of rows, B what comes before it: l rows, after n others, unless
\* the rows do not reach so far.
PageOf(S, B, rows, n, l) ==
  /\ S \subseteq rows
  /\ B \subseteq rows \ S
  /\ NotOlder(B, rows \ B)
  /\ NotOlder(S, rows \ (B \cup S))
  /\ B = rows \/ Cardinality(B) = n
  /\ Cardinality(B) <= n
  /\ B \cup S = rows \/ Cardinality(S) = l

LEMMA ListIsPage ==
  ASSUME RowInv, NEW filter, NEW page \in Nat \ {0}, NEW limit \in Nat,
         NEW S \in ListDrills(filter, page, limit)
  PROVE  \E B : PageOf(S, B, Matching(filter), (page - 1) * pageValues(limit), pageValues(limit))
<1> DEFINE l == pageValues(limit)
           rows == Matching(filter)
           skip == Min({(page - 1) * l, Cardinality(rows)})
<1>1. PICK B \in SUBSET (rows \ S) :
        /\ Cardinality(B) = skip
        /\ Cardinality(S) = Min({l, Cardinality(rows) - skip})
        /\ NotOlder(B, rows \ B)
        /\ NotOlder(S, rows \ (B \cup S))
  BY DEF ListDrills
<1>2. S \subseteq rows /\ B \subseteq rows /\ B \cap S = {}
  BY DEF ListDrills
<1>3. l \in Nat \ {0} /\ (page - 1) * l \in Nat
  BY PageValuesPositive, OnePageMore
<1>4. IsFiniteSet(rows)
  BY MatchingFinite
<1> HIDE DEF l, rows
<1>5. IsFiniteSet(S) /\ IsFiniteSet(B) /\ IsFiniteSet(B \cup S) /\ B \cup S \in SUBSET rows
  BY <1>2, <1>4, FS_Subset
<1>6. Cardinality(rows) \in Nat /\ Cardinality(S) \in Nat /\ Cardinality(B) \in Nat
  BY <1>4, <1>5, FS_CardinalityType
<1>7. Cardinality(B \cup S) = Cardinality(B) + Cardinality(S)
  <2>1. Cardinality(B \cap S) = 0
    BY <1>2, FS_EmptySet
  <2>2. Cardinality(B \cup S) = Cardinality(B) + Cardinality(S) - Cardinality(B \cap S)
    BY <1>5, FS_Union
  <2> QED
    BY <1>6, <2>1, <2>2
<1>8. skip = IF (page - 1) * l <= Cardinality(rows) THEN (page - 1) * l ELSE Cardinality(rows)
  BY <1>3, <1>6, SmallerOf
<1>9. Cardinality(S) = IF l <= Cardinality(rows) - Cardinality(B) THEN l
                       ELSE Cardinality(rows) - Cardinality(B)
  <2>1. Cardinality(rows) - Cardinality(B) \in Int
    BY <1>6
  <2>2. Cardinality(S) = Min({l, Cardinality(rows) - Cardinality(B)})
    BY <1>1
  <2> QED
    BY <1>3, <2>1, <2>2, SmallerOf
<1>10. B = rows \/ Cardinality(B) = (page - 1) * l
  <2>1. Cardinality(B) = Cardinality(rows) => B = rows
    BY <1>2, <1>4, FS_Subset
  <2> QED
    BY <1>1, <1>8, <2>1
<1>11. B \cup S = rows \/ Cardinality(S) = l
  <2>1. Cardinality(B \cup S) = Cardinality(rows) => B \cup S = rows
    BY <1>4, <1>5, FS_Subset
  <2> QED
    BY <1>6, <1>7, <1>9, <2>1
<1>12. Cardinality(B) <= (page - 1) * l
  BY <1>1, <1>3, <1>6, <1>8
<1> QED
  BY <1>1, <1>2, <1>10, <1>11, <1>12 DEF l, rows, PageOf

\* Together they are n + l rows, none of them d and none older than d.
FullBefore(S, B, d, n, l) ==
  /\ S # {} /\ d \notin B \cup S
  /\ IsFiniteSet(B \cup S) /\ Cardinality(B \cup S) = n + l
  /\ NotOlder(B \cup S, {d})

\* A row that comes after a page: the page is full.
LEMMA AfterThePage ==
  ASSUME NEW rows, IsFiniteSet(rows), NEW S, NEW B, NEW n \in Nat, NEW l \in Nat \ {0},
         PageOf(S, B, rows, n, l), NEW d \in rows \ (B \cup S)
  PROVE  FullBefore(S, B, d, n, l)
<1> USE DEF PageOf
<1>1. Cardinality(B) = n /\ Cardinality(S) = l
  OBVIOUS
<1>2. IsFiniteSet(B) /\ IsFiniteSet(S) /\ B \cap S = {}
  BY FS_Subset
<1>3. Cardinality(B \cap S) = 0 /\ S # {}
  BY <1>1, <1>2, FS_EmptySet
<1>4. /\ IsFiniteSet(B \cup S)
      /\ Cardinality(B \cup S) = Cardinality(B) + Cardinality(S) - Cardinality(B \cap S)
  BY <1>2, FS_Union
<1>5. Cardinality(B \cup S) = n + l
  BY <1>1, <1>3, <1>4
<1> QED
  BY <1>3, <1>4, <1>5 DEF FullBefore, NotOlder

-----------------------------------------------------------------------------
(***************************************************************************)
(* A drill that is not found, and a page that misses nothing.              *)
(***************************************************************************)
NotOlderThan(d) == {x \in Visible \ {d} : created[x] >= created[d]}

LEMMA LargestPage == MaxLimit \in Nat \ {0} /\ pageValues(MaxLimit) = MaxLimit
BY LimitsAssumption DEF pageValues

\* A row that is not on the first page: a full page of rows is not older.
LEMMA NotOnFirstPage ==
  ASSUME RowInv, NEW page \in Nat \ {0}, NEW limit \in Nat,
         NEW S \in ListDrills("any", page, limit), NEW d \in Visible \ S
  PROVE  page = 1 => Cardinality(NotOlderThan(d)) >= pageValues(limit)
<1> DEFINE rows == Matching("any")
           l == pageValues(limit)
<1>1. l \in Nat \ {0} /\ (page = 1 => (page - 1) * l = 0)
  BY PageValuesPositive
<1>2. rows = Visible /\ IsFiniteSet(rows)
  BY MatchingFinite DEF Matching
<1>3. PICK B : PageOf(S, B, rows, (page - 1) * l, l)
  BY ListIsPage
<1>4. S \subseteq rows /\ B \subseteq rows /\ Cardinality(B) <= (page - 1) * l
  BY <1>3 DEF PageOf
<1> HIDE DEF rows, l
<1> SUFFICES ASSUME page = 1 PROVE Cardinality(NotOlderThan(d)) >= l
  BY DEF l
<1>5. B = {}
  <2>1. IsFiniteSet(B) /\ Cardinality(B) \in Nat
    BY <1>2, <1>4, FS_Subset, FS_CardinalityType
  <2>2. Cardinality(B) = 0
    BY <1>1, <1>4, <2>1
  <2> QED
    BY <2>1, <2>2, FS_EmptySet
<1>6. FullBefore(S, B, d, 0, l)
  <2>1. PageOf(S, B, rows, 0, l)
    BY <1>1, <1>3
  <2>2. d \in rows \ (B \cup S)
    BY <1>2, <1>5
  <2> QED
    BY <1>1, <1>2, <2>1, <2>2, AfterThePage
<1>7. Cardinality(B \cup S) = l
  BY <1>1, <1>6 DEF FullBefore
<1>8. B \cup S \in SUBSET NotOlderThan(d)
  BY <1>2, <1>4, <1>6 DEF FullBefore, NotOlderThan, NotOlder
<1>9. IsFiniteSet(NotOlderThan(d)) /\ Cardinality(NotOlderThan(d)) \in Nat
  BY <1>2, FS_Subset, FS_CardinalityType DEF NotOlderThan
<1>10. Cardinality(B \cup S) <= Cardinality(NotOlderThan(d))
  BY <1>8, <1>9, FS_Subset
<1> QED
  BY <1>1, <1>7, <1>9, <1>10

\* GetDrill answers with the row as it is, or finds a full page of others.
LEMMA GetDrillAnswers ==
  ASSUME RowInv, NEW d \in Visible, NEW answer \in GetDrill(d)
  PROVE  \/ answer = row[d]
         \/ answer = "missing" /\ Cardinality(NotOlderThan(d)) >= MaxLimit
<1>1. PICK S \in ListDrills("any", 1, MaxLimit) : answer = IF d \in S THEN row[d] ELSE "missing"
  BY DEF GetDrill
<1>2. CASE d \in S
  BY <1>1, <1>2
<1>3. CASE d \notin S
  <2>1. Cardinality(NotOlderThan(d)) >= pageValues(MaxLimit)
    BY <1>3, LargestPage, NotOnFirstPage
  <2> QED
    BY <1>1, <1>3, <2>1, LargestPage
<1> QED
  BY <1>2, <1>3

\* What a page was refused stays out of reach: newer rows only come.
OldInv(s) ==
  view[s] = "missing" \/ admitted[s] = "refused" =>
    drill[s] \in Visible /\ Cardinality(NotOlderThan(drill[s])) >= MaxLimit

\* A page that has read since it subscribed has the end of its drill, or a
\* reason to read again.
PageInv(s) ==
  /\ pc[s] = "new" => ~current[s]
  /\ s \in subscribers[drill[s]] /\ current[s] /\ told[drill[s]] =>
       chan[s] # <<>> \/ owes[s] \/ view[s] \in {"ended", "missing"}

PageTypeOK ==
  /\ admitted \in [Streams -> {"no", "yes", "refused"}]
  /\ view \in [Streams -> {"nothing", "pending", "active", "ended", "missing"}]
  /\ current \in [Streams -> BOOLEAN]
  /\ owes \in [Streams -> BOOLEAN]

DetailInv ==
  /\ PageTypeOK
  /\ \A s \in Streams : OldInv(s) /\ PageInv(s)

LEMMA DetailInit == ViewsInit => DetailInv
BY DEF ViewsInit, Init, DetailInv, PageTypeOK, OldInv, PageInv

LEMMA NotOlderGrows ==
  ASSUME RowInv, RowInv', RowsOnlyGrow, NEW d \in Visible
  PROVE  Cardinality(NotOlderThan(d)) <= Cardinality(NotOlderThan(d))'
<1>1. IsFiniteSet(Visible)'
  BY MatchingFinite, PTL
<1>2. NotOlderThan(d)' \in SUBSET Visible'
  BY DEF NotOlderThan
<1>3. IsFiniteSet(NotOlderThan(d)')
  BY <1>1, <1>2, FS_Subset
<1>4. NotOlderThan(d) \in SUBSET NotOlderThan(d)'
  BY DEF NotOlderThan, RowsOnlyGrow
<1> QED
  BY <1>3, <1>4, FS_Subset

LEMMA RefusalLasts ==
  ASSUME RowInv, RowInv', RowsOnlyGrow, drill' = drill, NEW s \in Streams, OldInv(s),
         view'[s] = view[s], admitted'[s] = admitted[s]
  PROVE  OldInv(s)'
<1> SUFFICES ASSUME view[s] = "missing" \/ admitted[s] = "refused"
             PROVE  /\ drill[s] \in Visible'
                    /\ Cardinality(NotOlderThan(drill[s]))' >= MaxLimit
  BY DEF OldInv
<1>1. drill[s] \in Visible /\ Cardinality(NotOlderThan(drill[s])) >= MaxLimit
  BY DEF OldInv
<1>2. IsFiniteSet(Visible)
  BY MatchingFinite
<1>2p. IsFiniteSet(Visible)'
  BY MatchingFinite, PTL
<1>3. Cardinality(NotOlderThan(drill[s])) <= Cardinality(NotOlderThan(drill[s]))'
  BY <1>1, NotOlderGrows
<1>4. IsFiniteSet(NotOlderThan(drill[s])) /\ IsFiniteSet(NotOlderThan(drill[s])')
  BY <1>2, <1>2p, FS_Subset DEF NotOlderThan
<1>5. Cardinality(NotOlderThan(drill[s])) \in Nat /\ Cardinality(NotOlderThan(drill[s]))' \in Nat
  BY <1>4, FS_CardinalityType
<1> QED
  BY <1>1, <1>3, <1>5, LargestPage DEF RowsOnlyGrow

\* What a worker publishes finds room in the channel, or events to read there.
LEMMA AnnounceKeepsPage ==
  ASSUME HubInv, NEW d \in Drills, Announce(d), NEW s \in Streams, PageInv(s)
  PROVE  PageInv(s)'
<1>1. /\ chan[s] \in Seq(Events) /\ drill[s] \in Drills
      /\ <<d, count[d] + 1>> \in Events
  BY DEF HubInv, HubTypeOK, Events
<1>2. UNCHANGED <<subscribers, drill, pc, current, owes, view>>
  BY DEF Announce, Publish, pageVars
<1>3. CASE drill[s] = d /\ s \in subscribers[d]
  <2>1. open[s]
    BY <1>3 DEF HubInv, MapInv
  <2>2. chan'[s] # <<>>
    <3>1. CASE HasRoom(s)
      <4>1. chan'[s] = Append(chan[s], <<d, count[d] + 1>>)
        BY <1>3, <2>1, <3>1 DEF Announce, Publish, Receivers
      <4>2. Len(chan'[s]) = Len(chan[s]) + 1 /\ Len(chan[s]) \in Nat
        BY <1>1, <4>1, LenProperties
      <4> QED
        BY <4>2, EmptySeq
    <3>2. CASE ~HasRoom(s)
      <4>1. chan'[s] = chan[s]
        BY <1>3, <3>2 DEF Announce, Publish
      <4>2. chan[s] # <<>>
        BY <1>1, <3>2, ChanAssumption, EmptySeq DEF HasRoom
      <4> QED
        BY <4>1, <4>2
    <3> QED
      BY <3>1, <3>2
  <2> QED
    BY <1>2, <2>2 DEF PageInv
<1>4. CASE ~(drill[s] = d /\ s \in subscribers[d])
  <2>1. s \in subscribers[drill[s]] => chan'[s] = chan[s] /\ told'[drill[s]] = told[drill[s]]
    <3> SUFFICES ASSUME s \in subscribers[drill[s]]
                 PROVE  chan'[s] = chan[s] /\ told'[drill[s]] = told[drill[s]]
      OBVIOUS
    <3>1. drill[s] # d
      BY <1>4
    <3>2. s \notin Receivers(d)
      BY <3>1 DEF HubInv, MapInv, Receivers
    <3> QED
      BY <3>1, <3>2 DEF Announce, Publish
  <2> QED
    BY <1>2, <2>1 DEF PageInv
<1> QED
  BY <1>3, <1>4

LEMMA DetailNext ==
  ASSUME HubInv, RowInv, RowInv', DetailInv, [ViewsNext]_viewVars
  PROVE  DetailInv'
<1>g. RowsOnlyGrow /\ drill' = drill
  BY RowNext, ViewsStepsHub, DrillStays
<1>t. PageTypeOK /\ HubTypeOK /\ MapInv
  BY DEF DetailInv, HubInv
<1>o. ASSUME NEW s \in Streams, view'[s] = view[s], admitted'[s] = admitted[s]
      PROVE  OldInv(s)'
  BY <1>g, <1>o, RefusalLasts DEF DetailInv
<1>1. ASSUME UNCHANGED <<vars, pageVars, told>> PROVE DetailInv'
  <2>1. PageTypeOK' /\ \A s \in Streams : PageInv(s)'
    BY <1>1, <1>t DEF DetailInv, PageInv, PageTypeOK, vars, pageVars
  <2>2. \A s \in Streams : OldInv(s)'
    BY <1>1, <1>o DEF pageVars
  <2> QED
    BY <2>1, <2>2 DEF DetailInv
<1>2. ASSUME NEW d \in Drills, Announce(d) PROVE DetailInv'
  <2>1. PageTypeOK' /\ UNCHANGED <<view, admitted>>
    BY <1>2, <1>t DEF Announce, pageVars, PageTypeOK
  <2>2. \A s \in Streams : PageInv(s)'
    BY <1>2, AnnounceKeepsPage DEF DetailInv
  <2> QED
    BY <1>o, <2>1, <2>2 DEF DetailInv
<1>3. ASSUME NEW s \in Streams, Admit(s) PROVE DetailInv'
  <2>1. PICK answer \in GetDrill(drill[s]) :
          admitted' = [admitted EXCEPT ![s] = IF answer = "missing" THEN "refused" ELSE "yes"]
    BY <1>3 DEF Admit
  <2>2. PageTypeOK' /\ \A t \in Streams : PageInv(t)'
    BY <1>3, <1>t, <2>1 DEF Admit, DetailInv, PageInv, PageTypeOK, vars, rowVars
  <2>3. UNCHANGED <<view, row, created>> /\ drill[s] \in Visible
    BY <1>3 DEF Admit, rowVars
  <2>4. OldInv(s)'
    <3>1. CASE answer = "missing"
      <4>1. row[drill[s]] # "missing"
        BY <2>3 DEF Visible
      <4>2. Cardinality(NotOlderThan(drill[s])) >= MaxLimit
        BY <2>3, <3>1, <4>1, GetDrillAnswers
      <4>3. Visible' = Visible /\ NotOlderThan(drill[s])' = NotOlderThan(drill[s])
        BY <1>g, <2>3 DEF Visible, NotOlderThan
      <4> QED
        BY <1>g, <2>3, <4>2, <4>3 DEF OldInv
    <3>2. CASE answer # "missing"
      <4>1. admitted'[s] = "yes"
        BY <1>t, <2>1, <3>2 DEF PageTypeOK
      <4>2. Visible' = Visible /\ NotOlderThan(drill[s])' = NotOlderThan(drill[s])
        BY <1>g, <2>3 DEF Visible, NotOlderThan
      <4> QED
        BY <1>g, <2>3, <4>1, <4>2 DEF OldInv, DetailInv
    <3> QED
      BY <3>1, <3>2
  <2>5. ASSUME NEW t \in Streams, t # s PROVE OldInv(t)'
    BY <1>o, <1>t, <2>1, <2>3, <2>5 DEF PageTypeOK
  <2> QED
    BY <2>2, <2>4, <2>5 DEF DetailInv
<1>4. ASSUME NEW s \in Streams, Read(s) PROVE DetailInv'
  <2>1. PICK answer \in GetDrill(drill[s]) : view' = [view EXCEPT ![s] = answer]
    BY <1>4 DEF Read
  <2>2. /\ UNCHANGED <<admitted, row, created, told>>
        /\ drill[s] \in Visible /\ drill[s] \in Drills
    BY <1>4, <1>t DEF Read, rowVars, HubTypeOK
  <2>3. row[drill[s]] \in {"active", "ended"}
    BY <2>2 DEF Visible
  <2>4. \/ answer = row[drill[s]]
        \/ answer = "missing" /\ Cardinality(NotOlderThan(drill[s])) >= MaxLimit
    BY <2>2, GetDrillAnswers
  <2>5. PageTypeOK'
    <3>1. (pc[s] # "new") \in BOOLEAN
      OBVIOUS
    <3>2. current' \in [Streams -> BOOLEAN]
      BY <1>4, <1>t, <3>1, Zenon DEF Read, PageTypeOK
    <3> QED
      BY <1>4, <1>t, <2>1, <2>3, <2>4, <3>2 DEF Read, PageTypeOK
  <2>6. \A t \in Streams : PageInv(t)'
    <3>1. told[drill[s]] => view'[s] \in {"ended", "missing"}
      BY <1>t, <2>1, <2>2, <2>4 DEF PageTypeOK, RowInv
    <3>2. current'[s] => pc[s] # "new"
      BY <1>4, <1>t DEF Read, PageTypeOK
    <3>3. /\ UNCHANGED <<pc, subscribers, drill, chan, told>>
          /\ \A t \in Streams \ {s} : view'[t] = view[t] /\ current'[t] = current[t]
                                       /\ owes'[t] = owes[t]
      BY <1>4, <1>t, <2>1, <2>2 DEF Read, PageTypeOK, vars
    <3> QED
      BY <3>1, <3>2, <3>3 DEF DetailInv, PageInv
  <2>7. Visible' = Visible /\ NotOlderThan(drill[s])' = NotOlderThan(drill[s])
    BY <1>g, <2>2 DEF Visible, NotOlderThan
  <2>8. OldInv(s)'
    <3>1. CASE answer = "missing"
      <4>1. Cardinality(NotOlderThan(drill[s])) >= MaxLimit
        BY <2>3, <2>4, <3>1
      <4> QED
        BY <1>g, <2>2, <2>7, <4>1 DEF OldInv
    <3>2. CASE answer # "missing"
      <4>1. view'[s] # "missing"
        BY <1>t, <2>1, <3>2 DEF PageTypeOK
      <4> QED
        BY <1>g, <2>2, <2>7, <4>1 DEF OldInv, DetailInv
    <3> QED
      BY <3>1, <3>2
  <2>9. ASSUME NEW t \in Streams, t # s PROVE OldInv(t)'
    BY <1>o, <1>t, <2>1, <2>2, <2>9 DEF PageTypeOK
  <2> QED
    BY <2>5, <2>6, <2>8, <2>9 DEF DetailInv
<1>5. ASSUME NEW s \in Streams, Connect(s) PROVE DetailInv'
  <2>1. PageTypeOK' /\ UNCHANGED <<view, admitted>>
    BY <1>5, <1>t DEF Connect, pageVars, PageTypeOK
  <2>2. \A t \in Streams : PageInv(t)'
    BY <1>5, <1>t DEF Connect, Subscribe, HubTypeOK, DetailInv, PageInv, pageVars, rowVars
  <2> QED
    BY <1>o, <2>1, <2>2 DEF DetailInv
<1>6. ASSUME NEW s \in Streams, Notify(s) PROVE DetailInv'
  <2>1. PageTypeOK' /\ UNCHANGED <<view, admitted>>
    BY <1>6, <1>t DEF Notify, PageTypeOK
  <2>2. \A t \in Streams : PageInv(t)'
    BY <1>6, <1>t DEF Notify, Receive, HubTypeOK, PageTypeOK, DetailInv, PageInv, rowVars
  <2> QED
    BY <1>o, <2>1, <2>2 DEF DetailInv
<1>7. ASSUME NEW s \in Streams,
             HubStep(SeeClosed(s)) \/ HubStep(unsubscribe(s)) \/ HubStep(ClientGone(s))
      PROVE  DetailInv'
  <2>1. UNCHANGED <<pageVars, rowVars, drill, chan>>
    BY <1>7 DEF HubStep, SeeClosed, unsubscribe, ClientGone
  <2>2. \A t \in Streams : pc'[t] = "new" => pc[t] = "new"
    BY <1>7, <1>t DEF HubStep, SeeClosed, unsubscribe, ClientGone, HubTypeOK
  <2>3. \A x \in Drills : subscribers'[x] \subseteq subscribers[x]
    <3>1. \/ subscribers' = subscribers
          \/ subscribers' = [subscribers EXCEPT ![drill[s]] = @ \ {s}]
      BY <1>7 DEF HubStep, SeeClosed, unsubscribe, ClientGone
    <3>2. subscribers \in [Drills -> SUBSET Streams]
      BY <1>t DEF HubTypeOK
    <3>3. CASE subscribers' = [subscribers EXCEPT ![drill[s]] = @ \ {s}]
      <4>1. \A x \in Drills :
              subscribers'[x] = IF x = drill[s] THEN subscribers[x] \ {s} ELSE subscribers[x]
        BY <3>2, <3>3
      <4> QED
        BY <4>1
    <3> QED
      BY <3>1, <3>3
  <2>4. \A t \in Streams : drill[t] \in Drills
    BY <1>t DEF HubTypeOK
  <2>5. \A t \in Streams : PageInv(t)'
    BY <2>1, <2>2, <2>3, <2>4 DEF DetailInv, PageInv, pageVars, rowVars
  <2>6. PageTypeOK' /\ UNCHANGED <<view, admitted>>
    BY <1>t, <2>1 DEF pageVars, PageTypeOK
  <2> QED
    BY <1>o, <2>5, <2>6 DEF DetailInv
<1>8. ASSUME HubStep(Close) PROVE DetailInv'
  <2>1. PageTypeOK' /\ UNCHANGED <<view, admitted>>
    BY <1>8, <1>t DEF HubStep, pageVars, PageTypeOK
  <2>2. \A t \in Streams : PageInv(t)'
    BY <1>8, <1>t DEF HubStep, Close, HubTypeOK, DetailInv, PageInv, pageVars, rowVars
  <2> QED
    BY <1>o, <2>1, <2>2 DEF DetailInv
<1>9. ASSUME Tick \/ List \/ UNCHANGED viewVars PROVE UNCHANGED <<vars, pageVars, told>>
  BY <1>9 DEF Tick, List, StartPaging, ReadPage, viewVars, rowVars
<1>10. ASSUME NEW d \in Drills, Write(d) \/ WorkerStep(d) \/ WorkerEnd(d)
       PROVE  UNCHANGED <<vars, pageVars, told>>
  BY <1>10 DEF Write, Insert, CommitInsert, CancelRow, WorkerStep, WorkerEnd
<1> QED
  BY <1>1, <1>2, <1>3, <1>4, <1>5, <1>6, <1>7, <1>8, <1>9, <1>10 DEF ViewsNext, Work, Page

LEMMA DetailAlways == ViewsSpec => [](HubInv /\ RowInv /\ DetailInv)
<1>1. ViewsInit => HubInv /\ RowInv /\ DetailInv
  BY HubInit, RowInit, DetailInit DEF ViewsInit
<1>2. HubInv /\ RowInv /\ DetailInv /\ [ViewsNext]_viewVars => (HubInv /\ RowInv /\ DetailInv)'
  <2> SUFFICES ASSUME HubInv, RowInv, DetailInv, [ViewsNext]_viewVars
               PROVE  HubInv' /\ RowInv' /\ DetailInv'
    OBVIOUS
  <2>1. HubInv'
    BY ViewsStepsHub, HubNext
  <2>2. RowInv'
    BY RowNext
  <2>3. DetailInv'
    BY <2>2, DetailNext
  <2> QED
    BY <2>1, <2>2, <2>3
<1> QED
  BY <1>1, <1>2, PTL DEF ViewsSpec

\* A page with its stream up that has read after every event it got shows the
\* end of its drill once that was published, although the hub drops events: a
\* dropped event finds others before it in the channel, and each makes the page
\* read again.
THEOREM EndIsNeverMissed == ViewsSpec => []NothingMissed
<1>1. HubInv /\ DetailInv => NothingMissed
  <2> SUFFICES ASSUME HubInv, DetailInv, NEW s \in Streams,
                      s \in Registered, chan[s] = <<>>, current[s], ~owes[s], told[drill[s]]
               PROVE  view[s] \in {"ended", "missing"}
    BY DEF NothingMissed
  <2>1. s \in subscribers[drill[s]]
    BY RegisteredIsOpen DEF HubInv
  <2> QED
    BY <2>1 DEF DetailInv, PageInv
<1> QED
  BY DetailAlways, <1>1, PTL

\* GetDrill, which searches one page of the list, loses a drill only behind a
\* full page of drills that are not older, for any number of drills and any
\* MaxLimit, and however rows of one created_at are ordered.
THEOREM OnlyOldDrillsAreLost == ViewsSpec => []NotFoundMeansOld
<1>1. DetailInv => NotFoundMeansOld
  BY DEF DetailInv, OldInv, NotOlderThan, NotFoundMeansOld
<1> QED
  BY DetailAlways, <1>1, PTL

-----------------------------------------------------------------------------
(***************************************************************************)
(* Paging: no row is skipped.                                              *)
(***************************************************************************)
Twin(d) == \E x \in Visible \ {d} : created[x] = created[d]

Newer(filter, d) == {x \in Matching(filter) : created[x] > created[d]}

\* No row has left the filter since the pager began.
Steady == pager.filter = "any" \/ pager.ended = Ended

\* The rows before the page to be read, if the list reaches so far.
Behind == (pager.page - 1) * pageValues(pager.limit)

\* A row of the list that has not been seen is still ahead of the pager: the
\* pages it has read hold newer rows only.
PagerInv ==
  /\ pager \in [page : Nat, limit : Nat, filter : Filters, seen : SUBSET Drills,
                from : SUBSET Drills, ended : SUBSET Drills]
  /\ pager.from \subseteq Visible
  /\ pager.ended \subseteq Ended
  /\ pager.filter = "active" => pager.from \cap pager.ended = {}
  /\ pager.page > 0 /\ Steady =>
       \A d \in pager.from \ pager.seen :
         Twin(d) \/ Cardinality(Newer(pager.filter, d)) >= Behind
  /\ pager.page = 0 /\ Steady => \A d \in pager.from \ pager.seen : Twin(d)

LEMMA PagerInit == ViewsInit => PagerInv
BY DEF ViewsInit, PagerInv, Idle, Filters, Steady

LEMMA StillMatching ==
  ASSUME RowInv, PagerInv, Steady, NEW d \in pager.from
  PROVE  d \in Matching(pager.filter)
BY DEF RowInv, PagerInv, Steady, Matching, Visible, Ended, Filters

\* While no row leaves the filter, a row has ever more newer ones.
LEMMA NewerGrows ==
  ASSUME RowInv, RowInv', RowsOnlyGrow, PagerInv, pager' = pager, Steady',
         NEW d \in pager.from
  PROVE  /\ Steady
         /\ Twin(d) => Twin(d)'
         /\ Cardinality(Newer(pager.filter, d)) <= Cardinality(Newer(pager.filter, d))'
         /\ Cardinality(Newer(pager.filter, d)) \in Nat
         /\ Cardinality(Newer(pager.filter, d))' \in Nat
<1> DEFINE f == pager.filter
<1>1. Steady
  BY DEF Steady, PagerInv, RowsOnlyGrow
<1>2. d \in Visible /\ f \in Filters
  BY DEF PagerInv
<1>3. Twin(d) => Twin(d)'
  BY <1>2 DEF Twin, RowsOnlyGrow
<1>0. f' = f
  OBVIOUS
<1>4. f = "any" \/ Ended' = Ended
  BY DEF Steady, PagerInv, RowsOnlyGrow
<1> HIDE DEF f
<1>5. Matching(f) \subseteq Matching(f)'
  <2>1. CASE f = "any"
    BY <1>0, <2>1 DEF Matching, RowsOnlyGrow
  <2>2. CASE f = "active"
    <3>1. Matching(f) = Visible \ Ended /\ Matching(f)' = Visible' \ Ended'
      BY <1>0, <2>2 DEF Matching, Visible, Ended
    <3> QED
      BY <1>4, <2>2, <3>1 DEF RowsOnlyGrow
  <2> QED
    BY <1>2, <2>1, <2>2 DEF Filters
<1>6. Newer(f, d) \in SUBSET Newer(f, d)'
  BY <1>0, <1>2, <1>5 DEF Newer, Matching, RowsOnlyGrow
<1>7. IsFiniteSet(Matching(f))
  BY MatchingFinite
<1>8. IsFiniteSet(Visible)'
  BY MatchingFinite, PTL
<1>9. IsFiniteSet(Newer(f, d)) /\ IsFiniteSet(Newer(f, d)')
  <2>1. Newer(f, d) \subseteq Matching(f) /\ Newer(f, d)' \subseteq Visible'
    BY DEF Newer, Matching
  <2> QED
    BY <1>7, <1>8, <2>1, FS_Subset
<1>10. Cardinality(Newer(f, d)) <= Cardinality(Newer(f, d))'
  BY <1>6, <1>9, FS_Subset
<1>11. Cardinality(Newer(f, d)) \in Nat /\ Cardinality(Newer(f, d))' \in Nat
  BY <1>9, FS_CardinalityType
<1> QED
  BY <1>1, <1>3, <1>10, <1>11 DEF f

LEMMA BehindType ==
  ASSUME PagerInv, pager.page > 0
  PROVE  pageValues(pager.limit) \in Nat \ {0} /\ Behind \in Nat
<1>1. pager.page \in Nat \ {0} /\ pager.limit \in Nat
  BY DEF PagerInv
<1> QED
  BY <1>1, PageValuesPositive, OnePageMore DEF Behind

LEMMA RowsKeepPager ==
  ASSUME RowInv, RowInv', RowsOnlyGrow, PagerInv, pager' = pager
  PROVE  PagerInv'
<1>1. /\ pager.from \subseteq Visible'
      /\ pager.ended \subseteq Ended'
  BY DEF PagerInv, RowsOnlyGrow
<1>2. Behind' = Behind
  BY DEF Behind
<1>3. pager.page > 0 => Behind \in Nat
  BY BehindType
<1> QED
  BY <1>1, <1>2, <1>3, NewerGrows DEF PagerInv

\* A row that is ahead of the pager and not on the page it reads now is ahead of
\* the next page, and the page it reads is not empty.
LEMMA StillAhead ==
  ASSUME RowInv, PagerInv, pager.page > 0, Steady,
         NEW S \in ListDrills(pager.filter, pager.page, pager.limit),
         NEW d \in pager.from \ pager.seen, d \notin S, ~Twin(d)
  PROVE  /\ S # {}
         /\ Cardinality(Newer(pager.filter, d)) >= Behind + pageValues(pager.limit)
<1> DEFINE rows == Matching(pager.filter)
           new == Newer(pager.filter, d)
           n == Behind
           l == pageValues(pager.limit)
<1>1. d \in rows /\ rows \subseteq Visible /\ rows \subseteq Drills
  BY StillMatching DEF Matching, Visible
<1>2. IsFiniteSet(rows)
  BY MatchingFinite
<1>3. n \in Nat /\ l \in Nat \ {0}
  BY BehindType
<1>4. PICK B : PageOf(S, B, rows, n, l)
  <2>1. pager.page \in Nat \ {0} /\ pager.limit \in Nat
    BY DEF PagerInv
  <2> QED
    BY <2>1, ListIsPage DEF Behind
<1>5. Cardinality(new) >= n
  BY DEF PagerInv
<1>6. new = {x \in rows : created[x] > created[d]}
  BY DEF Newer
<1>7. \A x \in rows : created[x] \in Nat
  BY <1>1 DEF RowInv
<1>8. \A x \in rows \ {d} : created[x] # created[d]
  BY <1>1 DEF Twin
<1> HIDE DEF rows, new, n, l
<1>9. IsFiniteSet(new) /\ Cardinality(new) \in Nat
  BY <1>2, <1>6, FS_Subset, FS_CardinalityType
<1>10. d \notin B
  <2> SUFFICES ASSUME d \in B PROVE FALSE
    OBVIOUS
  <2>1. B \subseteq rows /\ NotOlder(B, rows \ B) /\ Cardinality(B) <= n
    BY <1>4 DEF PageOf
  <2>2. new \subseteq B
    BY <1>1, <1>6, <1>7, <2>1 DEF NotOlder
  <2>3. d \notin new
    BY <1>1, <1>6, <1>7
  <2>4. Cardinality(new \cup {d}) = Cardinality(new) + 1
    BY <1>9, <2>3, FS_AddElement
  <2>5. IsFiniteSet(B) /\ Cardinality(B) \in Nat
    BY <1>2, <2>1, FS_Subset, FS_CardinalityType
  <2>6. Cardinality(new \cup {d}) <= Cardinality(B)
    BY <2>2, <2>5, FS_Subset
  <2> QED
    BY <1>3, <1>5, <1>9, <2>1, <2>4, <2>5, <2>6
<1>11. FullBefore(S, B, d, n, l)
  BY <1>1, <1>2, <1>3, <1>4, <1>10, AfterThePage
<1>12. B \cup S \subseteq rows /\ S # {} /\ d \notin B \cup S
       /\ NotOlder(B \cup S, {d}) /\ Cardinality(B \cup S) = n + l
  BY <1>4, <1>11 DEF PageOf, FullBefore
<1>13. B \cup S \in SUBSET new
  BY <1>1, <1>6, <1>7, <1>8, <1>12 DEF NotOlder
<1>14. Cardinality(B \cup S) <= Cardinality(new)
  BY <1>9, <1>13, FS_Subset
<1>15. Cardinality(new) >= n + l
  BY <1>3, <1>9, <1>12, <1>14
<1> QED
  BY <1>12, <1>15 DEF new, n, l

LEMMA PagerNext ==
  ASSUME RowInv, RowInv', PagerInv, [ViewsNext]_viewVars
  PROVE  PagerInv'
<1>1. ASSUME pager' = pager PROVE PagerInv'
  BY <1>1, RowNext, RowsKeepPager
<1>2. CASE StartPaging
  <2>1. PICK filter \in Filters, limit \in Limits :
          pager' = [page |-> 1, limit |-> limit, filter |-> filter, seen |-> {},
                    from |-> Matching(filter), ended |-> Ended]
    BY <1>2 DEF StartPaging, Filters
  <2>2. Visible' = Visible /\ Ended' = Ended
    BY <1>2 DEF StartPaging, rowVars, Visible, Ended
  <2>3. limit \in Nat /\ Matching(filter) \subseteq Visible /\ Visible \subseteq Drills
        /\ Ended \subseteq Drills
    BY LimitsAssumption DEF Matching, Visible, Ended
  <2>4. filter = "active" => Matching(filter) \cap Ended = {}
    BY DEF Matching, Ended
  <2>5. Behind' = 0
    <3>1. pageValues(limit) \in Nat /\ Behind' = (1 - 1) * pageValues(limit)
      BY <2>1, <2>3, PageValuesPositive DEF Behind
    <3> QED
      BY <3>1
  <2>6. \A d \in Drills : Cardinality(Newer(filter, d))' \in Nat
    <3>1. IsFiniteSet(Visible)'
      BY MatchingFinite, PTL
    <3>2. \A d \in Drills : Newer(filter, d)' \subseteq Visible'
      BY DEF Newer, Matching
    <3>3. \A d \in Drills : IsFiniteSet(Newer(filter, d)')
      BY <3>1, <3>2, FS_Subset
    <3> QED
      BY <3>3, FS_CardinalityType
  <2>7. /\ pager' \in [page : Nat, limit : Nat, filter : Filters, seen : SUBSET Drills,
                       from : SUBSET Drills, ended : SUBSET Drills]
        /\ pager'.page = 1 /\ pager'.filter = filter
        /\ pager'.from = Matching(filter) /\ pager'.ended = Ended
    BY <2>1, <2>3
  <2> QED
    BY <2>2, <2>3, <2>4, <2>5, <2>6, <2>7 DEF PagerInv
<1>3. CASE ReadPage
  <2>1. PICK S \in ListDrills(pager.filter, pager.page, pager.limit) :
          pager' = IF S = {} THEN [pager EXCEPT !.page = 0]
                   ELSE [pager EXCEPT !.page = @ + 1, !.seen = @ \cup S]
    BY <1>3 DEF ReadPage
  <2>2. pager.page > 0 /\ UNCHANGED <<row, created>>
    BY <1>3 DEF ReadPage, rowVars
  <2>3. /\ Visible' = Visible /\ Ended' = Ended
        /\ \A d : Twin(d)' = Twin(d)
        /\ \A f, d : Newer(f, d)' = Newer(f, d)
    BY <2>2 DEF Visible, Ended, Twin, Newer, Matching
  <2>4. S \subseteq Drills
    BY DEF ListDrills, Matching, Visible
  <2>5. ASSUME Steady, NEW d \in pager.from \ pager.seen, d \notin S
        PROVE  \/ Twin(d)
               \/ S # {} /\ Cardinality(Newer(pager.filter, d)) >= Behind + pageValues(pager.limit)
    BY <2>2, <2>5, StillAhead
  <2>6. CASE S = {}
    <3>1. pager' = [pager EXCEPT !.page = 0]
      BY <2>1, <2>6
    <3>2. Steady' => Steady
      BY <2>3, <3>1 DEF Steady, PagerInv
    <3>3. Steady' => \A d \in pager.from \ pager.seen : Twin(d)'
      BY <2>3, <2>5, <2>6, <3>2
    <3> QED
      BY <2>3, <3>1, <3>3 DEF PagerInv
  <2>7. CASE S # {}
    <3>1. pager' = [pager EXCEPT !.page = pager.page + 1, !.seen = pager.seen \cup S]
      BY <2>1, <2>7
    <3>2. /\ pager'.page = pager.page + 1 /\ pager'.seen = pager.seen \cup S
          /\ UNCHANGED <<pager.limit, pager.filter, pager.from, pager.ended>>
          /\ pager' \in [page : Nat, limit : Nat, filter : Filters, seen : SUBSET Drills,
                         from : SUBSET Drills, ended : SUBSET Drills]
      <4>1. /\ pager.page + 1 \in Nat
            /\ pager.seen \cup S \in SUBSET Drills
            /\ pager \in [page : Nat, limit : Nat, filter : Filters, seen : SUBSET Drills,
                          from : SUBSET Drills, ended : SUBSET Drills]
        BY <2>4 DEF PagerInv
      <4>2. pager' \in [page : Nat, limit : Nat, filter : Filters, seen : SUBSET Drills,
                        from : SUBSET Drills, ended : SUBSET Drills]
        BY <3>1, <4>1
      <4>3. pager'.page = pager.page + 1 /\ pager'.seen = pager.seen \cup S
        BY <3>1, <4>1
      <4>4. UNCHANGED <<pager.limit, pager.filter, pager.from, pager.ended>>
        BY <3>1, <4>1
      <4> QED
        BY <4>2, <4>3, <4>4
    <3>3. Steady' => Steady
      BY <2>3, <3>2 DEF Steady
    <3>4. Behind' = Behind + pageValues(pager.limit)
      <4>1. pager.page \in Nat \ {0} /\ pager.limit \in Nat
        BY <2>2 DEF PagerInv
      <4>2. Behind' = pager.page * pageValues(pager.limit)
        BY <3>2, <4>1 DEF Behind
      <4> QED
        BY <4>1, <4>2, PageValuesPositive, OnePageMore DEF Behind
    <3>5. Steady' => \A d \in pager.from \ (pager.seen \cup S) :
            Twin(d)' \/ Cardinality(Newer(pager.filter, d)) >= Behind'
      BY <2>3, <2>5, <3>3, <3>4
    <3> QED
      BY <2>2, <2>3, <3>2, <3>5 DEF PagerInv
  <2> QED
    BY <2>6, <2>7
<1>4. ASSUME Tick \/ HubStep(Close) \/ UNCHANGED viewVars PROVE pager' = pager
  BY <1>4 DEF Tick, HubStep, viewVars
<1>5. ASSUME NEW d \in Drills, Write(d) \/ Work(d) PROVE pager' = pager
  BY <1>5 DEF Write, Insert, CommitInsert, CancelRow, Work, WorkerStep, WorkerEnd, Announce
<1>6. ASSUME NEW s \in Streams, Page(s) PROVE pager' = pager
  BY <1>6 DEF Page, Admit, Connect, Notify, Read, HubStep
<1> QED
  BY <1>1, <1>2, <1>3, <1>4, <1>5, <1>6 DEF ViewsNext, List

\* A client that reads pages until one is empty has seen every row that matched
\* when it began, for any number of rows inserted meanwhile and any limit asked
\* for, unless a row left the filter or shares its created_at with another.
THEOREM PagingSkipsNoRow == ViewsSpec => []NoRowSkipped
<1>1. ViewsInit => RowInv /\ PagerInv
  BY RowInit, PagerInit
<1>2. RowInv /\ PagerInv /\ [ViewsNext]_viewVars => (RowInv /\ PagerInv)'
  BY RowNext, PagerNext
<1>3. PagerInv => NoRowSkipped
  BY DEF PagerInv, Steady, Twin, NoRowSkipped
<1> QED
  BY <1>1, <1>2, <1>3, PTL DEF ViewsSpec
=============================================================================
