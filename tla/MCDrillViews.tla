----------------------------- MODULE MCDrillViews -----------------------------
(***************************************************************************)
(* DrillViews for TLC, a part of it at a time.  A list and a page share    *)
(* nothing but the rows, which neither writes, and the events of a drill   *)
(* reach its own streams only, so a behaviour has one kind of client:      *)
(*   hub    the streams of EventHub by itself, with events at any time     *)
(*   page   one detail page, and the worker that runs its drill            *)
(*   list   a list, and the handlers that write rows                       *)
(***************************************************************************)
EXTENDS DrillViews

CONSTANTS Watching, Followed   \* the stream of the detail page, and its drill

VARIABLE audience

MCInit ==
  /\ ViewsInit
  /\ audience \in {"hub", "page", "list"}
  /\ \A s \in Streams : drill[s] \in IF audience = "hub" THEN Runnable ELSE {Followed}

HubAlone ==
  \/ \E s \in Streams : HubStep(Subscribe(s) \/ ClientGone(s) \/ Handler(s))
  \/ \E d \in Runnable : HubStep(Publish(d))
  \/ HubStep(Close)

OnePage ==
  \/ Tick
  \/ \E d \in Drills : Insert(d) \/ CommitInsert(d)
  \/ CancelRow(Followed) \/ Work(Followed)
  \/ Page(Watching)
  \/ HubStep(Close)

OneList == Tick \/ List \/ \E d \in Drills : Write(d)

MCNext ==
  /\ \/ audience = "hub" /\ HubAlone
     \/ audience = "page" /\ OnePage
     \/ audience = "list" /\ OneList
  /\ UNCHANGED audience

MCSpec == MCInit /\ [][MCNext]_<<viewVars, audience>> /\ StreamsGoOn
=============================================================================
