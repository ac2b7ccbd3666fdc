------------------------------- MODULE EventHub -------------------------------
(***************************************************************************)
(* drill.EventHub and the SSE handler that reads from it.  A stream is one *)
(* GET /drills/{id}/events request with its channel.  Publish, Subscribe,  *)
(* unsubscribe and Close each run under the hub's mutex and are atomic;    *)
(* between them streams receive, leave and are closed in any order.        *)
(*                                                                         *)
(* The events of a drill are numbered in the order they are published: one *)
(* worker runs a drill, so they come one after the other.                  *)
(***************************************************************************)
EXTENDS Naturals, Sequences

CONSTANTS
  Drills,
  Streams,
  ChanCap,     \* capacity of a stream's channel (32 in the code)
  MaxEvents    \* bound: events published per drill

ASSUME ChanAssumption == ChanCap \in Nat \ {0}

VARIABLES
  subscribers,  \* the hub's map: drill -> registered streams
  count,        \* events published so far, by drill
  drill,        \* the drill a stream asked for
  chan, open,   \* the stream's channel: its buffer, and whether it is open
  pc,           \* the SSE handler: new, loop, leaving, done
  sent,         \* events the handler wrote to its client
  panics        \* sends on, or closes of, a closed channel

vars == <<subscribers, count, drill, chan, open, pc, sent, panics>>

Init ==
  /\ subscribers = [d \in Drills |-> {}]
  /\ count = [d \in Drills |-> 0]
  /\ drill \in [Streams -> Drills]
  /\ chan = [s \in Streams |-> <<>>]
  /\ open = [s \in Streams |-> FALSE]
  /\ pc = [s \in Streams |-> "new"]
  /\ sent = [s \in Streams |-> <<>>]
  /\ panics = 0

Subscribe(s) ==
  /\ pc[s] = "new"
  /\ pc' = [pc EXCEPT ![s] = "loop"]
  /\ open' = [open EXCEPT ![s] = TRUE]
  /\ subscribers' = [subscribers EXCEPT ![drill[s]] = @ \cup {s}]
  /\ UNCHANGED <<count, drill, chan, sent, panics>>

\* Mutant: the drill's id is not looked at.
Receivers_All(d) == UNION {subscribers[x] : x \in Drills}

\* The channels one Publish of the drill ranges over.
Receivers(d) == subscribers[d]

HasRoom(s) == Len(chan[s]) < ChanCap

\* The select with a default case: an event that does not fit is dropped.
Publish(d) ==
  /\ count[d] < MaxEvents
  /\ count' = [count EXCEPT ![d] = @ + 1]
  /\ chan' = [s \in Streams |->
       IF s \in Receivers(d) /\ open[s] /\ HasRoom(s)
         THEN Append(chan[s], <<d, count[d] + 1>>) ELSE chan[s]]
  /\ panics' = IF \E s \in Receivers(d) : ~open[s] THEN panics + 1 ELSE panics
  /\ UNCHANGED <<subscribers, drill, open, pc, sent>>

\* One turn of the handler's select: an event, a channel closed and drained,
\* or the client gone.
Receive(s) ==
  /\ pc[s] = "loop" /\ chan[s] # <<>>
  /\ sent' = [sent EXCEPT ![s] = Append(@, Head(chan[s]))]
  /\ chan' = [chan EXCEPT ![s] = Tail(@)]
  /\ UNCHANGED <<subscribers, count, drill, open, pc, panics>>

SeeClosed(s) ==
  /\ pc[s] = "loop" /\ ~open[s] /\ chan[s] = <<>>
  /\ pc' = [pc EXCEPT ![s] = "leaving"]
  /\ UNCHANGED <<subscribers, count, drill, chan, open, sent, panics>>

ClientGone(s) ==
  /\ pc[s] = "loop"
  /\ pc' = [pc EXCEPT ![s] = "leaving"]
  /\ UNCHANGED <<subscribers, count, drill, chan, open, sent, panics>>

\* Mutant: the deferred unsubscribe closes without looking at the map.
unsubscribe_AlwaysCloses(s) ==
  /\ pc[s] = "leaving"
  /\ pc' = [pc EXCEPT ![s] = "done"]
  /\ subscribers' = [subscribers EXCEPT ![drill[s]] = @ \ {s}]
  /\ open' = [open EXCEPT ![s] = FALSE]
  /\ panics' = IF open[s] THEN panics ELSE panics + 1
  /\ UNCHANGED <<count, drill, chan, sent>>

\* The deferred unsubscribe closes the channel only if it is still in the map.
unsubscribe(s) ==
  /\ pc[s] = "leaving"
  /\ pc' = [pc EXCEPT ![s] = "done"]
  /\ IF s \in subscribers[drill[s]]
       THEN /\ subscribers' = [subscribers EXCEPT ![drill[s]] = @ \ {s}]
            /\ open' = [open EXCEPT ![s] = FALSE]
            /\ panics' = IF open[s] THEN panics ELSE panics + 1
       ELSE UNCHANGED <<subscribers, open, panics>>
  /\ UNCHANGED <<count, drill, chan, sent>>

Registered == UNION {subscribers[d] : d \in Drills}

\* Mutant: the map is emptied and the channels are left open.
Close_NoClose ==
  /\ Registered # {}
  /\ subscribers' = [d \in Drills |-> {}]
  /\ UNCHANGED <<count, drill, chan, open, pc, sent, panics>>

Close ==
  /\ Registered # {}
  /\ open' = [s \in Streams |-> open[s] /\ s \notin Registered]
  /\ panics' = IF \E s \in Registered : ~open[s] THEN panics + 1 ELSE panics
  /\ subscribers' = [d \in Drills |-> {}]
  /\ UNCHANGED <<count, drill, chan, pc, sent>>

Handler(s) == Receive(s) \/ SeeClosed(s) \/ unsubscribe(s)

Next ==
  \/ \E s \in Streams : Subscribe(s) \/ ClientGone(s) \/ Handler(s)
  \/ \E d \in Drills : Publish(d)
  \/ Close

\* A handler's goroutine goes on when it can; clients and workers need not.
Spec == Init /\ [][Next]_vars /\ \A s \in Streams : WF_vars(Handler(s))

-----------------------------------------------------------------------------
\* No send on a closed channel and no second close, in any order of leaving
\* clients, publishing workers and the hub's Close: either would end the server.
NoPanic == panics = 0

\* What a stream has passed on or still holds.
Delivered(s) == sent[s] \o chan[s]

\* A stream gets events of its own drill only, each at most once and in the
\* order they were published, whatever was dropped in between.
InOrder ==
  \A s \in Streams : \A i, j \in DOMAIN Delivered(s) :
    /\ Delivered(s)[i][1] = drill[s]
    /\ i < j => Delivered(s)[i][2] < Delivered(s)[j][2]

\* Once the hub has closed its channel, a stream's handler returns.
ClosedStreamEnds ==
  \A s \in Streams : (pc[s] = "loop" /\ s \notin Registered) ~> pc[s] = "done"
=============================================================================
