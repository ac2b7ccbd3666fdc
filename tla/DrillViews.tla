------------------------------ MODULE DrillViews ------------------------------
(***************************************************************************)
(* What clients see of drills: the rows of recovery_drills as the list and *)
(* detail handlers read them, composed with the event stream that tells a  *)
(* detail page to read again.  Workers commit to the row and then publish; *)
(* a page polls, and reads after every event it gets; a list is paged      *)
(* through while rows come and change.                                     *)
(*                                                                         *)
(* A row is pending until its INSERT commits (created_at is the time the   *)
(* statement began), active while its status is not terminal, then ended.  *)
(***************************************************************************)
EXTENDS EventHub, FiniteSets, FiniteSetsExt

CONSTANTS
  MaxLimit, DefaultLimit,  \* 100 and 20 in the code
  Limits,                  \* the limits a pager may ask for, 0 for none
  Runnable,                \* drills that reach a worker; the others stay queued
  MaxClock                 \* bound: the last instant

ASSUME LimitsAssumption ==
  /\ DefaultLimit \in Nat \ {0} /\ MaxLimit \in Nat /\ DefaultLimit <= MaxLimit
  /\ Limits \subseteq Nat /\ Runnable \subseteq Drills

VARIABLES
  clock,
  row,       \* drill: none, pending, active, ended
  created,   \* its created_at
  running,   \* is a worker at it?
  announce,  \* what the worker publishes next: nothing, progress, end
  told,      \* has the end been published?
  admitted,  \* the events handler's look-up: no, yes, refused
  view,      \* what the page's last read showed: nothing, active, ended, missing
  current,   \* has the page read since its stream was subscribed?
  owes,      \* has an event arrived that it has not read after?
  pager      \* the client that pages through a list

rowVars == <<clock, row, created, running, announce, told>>
pageVars == <<admitted, view, current, owes>>
viewVars == <<vars, rowVars, pageVars, pager>>

Visible == {d \in Drills : row[d] \in {"active", "ended"}}

-----------------------------------------------------------------------------
(***************************************************************************)
(* Reading.                                                                *)
(***************************************************************************)
pageValues(limit) ==
  IF limit < 1 THEN DefaultLimit ELSE IF limit > MaxLimit THEN MaxLimit ELSE limit

\* The rows of a status; "any" stands for the empty parameter.
Matching(filter) == {d \in Visible : filter = "any" \/ row[d] = filter}

NotOlder(A, B) == \A a \in A, b \in B : created[a] >= created[b]

\* Mutant: the offset is computed from the limit as it was asked for.
ListDrills_RawOffset(filter, page, limit) ==
  LET rows == Matching(filter)
      skip == Min({(page - 1) * limit, Cardinality(rows)})
  IN  {S \in SUBSET rows : \E B \in SUBSET (rows \ S) :
         /\ Cardinality(B) = skip
         /\ Cardinality(S) = Min({pageValues(limit), Cardinality(rows) - skip})
         /\ NotOlder(B, rows \ B) /\ NotOlder(S, rows \ (B \cup S))}

\* ORDER BY created_at DESC LIMIT l OFFSET (page-1)*l: every set of rows that
\* can come back, since rows of one created_at come in no particular order.
ListDrills(filter, page, limit) ==
  LET l == pageValues(limit)
      rows == Matching(filter)
      skip == Min({(page - 1) * l, Cardinality(rows)})
  IN  {S \in SUBSET rows : \E B \in SUBSET (rows \ S) :
         /\ Cardinality(B) = skip
         /\ Cardinality(S) = Min({l, Cardinality(rows) - skip})
         /\ NotOlder(B, rows \ B) /\ NotOlder(S, rows \ (B \cup S))}

\* Mutant: GetDrill takes the default page.
GetDrill_DefaultPage(d) ==
  {IF d \in S THEN row[d] ELSE "missing" : S \in ListDrills("any", 1, 0)}

\* GetDrill searches the first page of the largest size: what it can answer.
GetDrill(d) == {IF d \in S THEN row[d] ELSE "missing" : S \in ListDrills("any", 1, MaxLimit)}

Idle == [page |-> 0, limit |-> 0, filter |-> "any", seen |-> {}, from |-> {}, ended |-> {}]

Ended == {d \in Drills : row[d] = "ended"}

ViewsInit ==
  /\ Init
  /\ clock = 1
  /\ row = [d \in Drills |-> "none"]
  /\ created = [d \in Drills |-> 0]
  /\ running = [d \in Drills |-> FALSE]
  /\ announce = [d \in Drills |-> "nothing"]
  /\ told = [d \in Drills |-> FALSE]
  /\ admitted = [s \in Streams |-> "no"]
  /\ view = [s \in Streams |-> "nothing"]
  /\ current = [s \in Streams |-> FALSE]
  /\ owes = [s \in Streams |-> FALSE]
  /\ pager = Idle

-----------------------------------------------------------------------------
(***************************************************************************)
(* Rows, written by handlers and workers.                                  *)
(***************************************************************************)
Tick ==
  /\ clock < MaxClock
  /\ clock' = clock + 1
  /\ UNCHANGED <<vars, row, created, running, announce, told, pageVars, pager>>

\* CreateDrill's INSERT begins, and commits.
Insert(d) ==
  /\ row[d] = "none"
  /\ row' = [row EXCEPT ![d] = "pending"]
  /\ created' = [created EXCEPT ![d] = clock]
  /\ UNCHANGED <<vars, clock, running, announce, told, pageVars, pager>>

CommitInsert(d) ==
  /\ row[d] = "pending"
  /\ row' = [row EXCEPT ![d] = "active"]
  /\ running' = [running EXCEPT ![d] = d \in Runnable]
  /\ UNCHANGED <<vars, clock, created, announce, told, pageVars, pager>>

\* Store.CancelDrill tells no stream.
CancelRow(d) ==
  /\ row[d] = "active"
  /\ row' = [row EXCEPT ![d] = "ended"]
  /\ UNCHANGED <<vars, clock, created, running, announce, told, pageVars, pager>>

\* transition and recordStep commit, then announce the step.
WorkerStep(d) ==
  /\ running[d] /\ row[d] = "active" /\ announce[d] = "nothing"
  /\ count[d] < MaxEvents - 1
  /\ announce' = [announce EXCEPT ![d] = "progress"]
  /\ UNCHANGED <<vars, clock, row, created, running, told, pageVars, pager>>

\* Mutant: the end is announced although the row was not written.
WorkerEnd_Unwritten(d) ==
  /\ running[d] /\ announce[d] = "nothing"
  /\ running' = [running EXCEPT ![d] = FALSE]
  /\ announce' = [announce EXCEPT ![d] = "end"]
  /\ UNCHANGED <<vars, clock, row, created, told, pageVars, pager>>

\* The final commit, or setTerminal, whose UPDATE may find the row ended by a
\* cancel.  It is announced unless the reply was lost.
WorkerEnd(d) ==
  /\ running[d] /\ announce[d] = "nothing"
  /\ running' = [running EXCEPT ![d] = FALSE]
  /\ row' = [row EXCEPT ![d] = "ended"]
  /\ \E a \in {"end", "nothing"} : announce' = [announce EXCEPT ![d] = a]
  /\ UNCHANGED <<vars, clock, created, told, pageVars, pager>>

Announce(d) ==
  /\ announce[d] # "nothing"
  /\ Publish(d)
  /\ announce' = [announce EXCEPT ![d] = "nothing"]
  /\ told' = [told EXCEPT ![d] = @ \/ announce[d] = "end"]
  /\ UNCHANGED <<clock, row, created, running, pageVars, pager>>

-----------------------------------------------------------------------------
(***************************************************************************)
(* A detail page and the handler of its stream.                            *)
(***************************************************************************)
\* The events handler looks the drill up before it subscribes.
Admit(s) ==
  /\ pc[s] = "new" /\ admitted[s] = "no" /\ drill[s] \in Visible
  /\ \E answer \in GetDrill(drill[s]) :
       admitted' = [admitted EXCEPT ![s] = IF answer = "missing" THEN "refused" ELSE "yes"]
  /\ UNCHANGED <<vars, rowVars, view, current, owes, pager>>

Connect(s) ==
  /\ admitted[s] = "yes"
  /\ Subscribe(s)
  /\ UNCHANGED <<rowVars, pageVars, pager>>

\* A progress event reaches the page, which invalidates what it has read.
Notify(s) ==
  /\ Receive(s)
  /\ owes' = [owes EXCEPT ![s] = TRUE]
  /\ UNCHANGED <<rowVars, admitted, view, current, pager>>

\* The page reads the drill: when it is opened, on the 5-second poll, or after
\* an event.
Read(s) ==
  /\ drill[s] \in Visible
  /\ \E answer \in GetDrill(drill[s]) : view' = [view EXCEPT ![s] = answer]
  /\ owes' = [owes EXCEPT ![s] = FALSE]
  /\ current' = [current EXCEPT ![s] = pc[s] # "new"]
  /\ UNCHANGED <<vars, rowVars, admitted, pager>>

\* The remaining steps of the handler and of the hub.
HubStep(A) == A /\ UNCHANGED <<rowVars, pageVars, pager>>

-----------------------------------------------------------------------------
(***************************************************************************)
(* A client that reads a list page after page, until one is empty.         *)
(***************************************************************************)
StartPaging ==
  /\ pager.page = 0
  /\ \E filter \in {"any", "active"}, limit \in Limits :
       pager' = [page |-> 1, limit |-> limit, filter |-> filter, seen |-> {},
                 from |-> Matching(filter), ended |-> Ended]
  /\ UNCHANGED <<vars, rowVars, pageVars>>

\* The page after the last one is page 0 again: the pager is done.
ReadPage ==
  /\ pager.page > 0
  /\ \E S \in ListDrills(pager.filter, pager.page, pager.limit) :
       pager' = IF S = {} THEN [pager EXCEPT !.page = 0]
                ELSE [pager EXCEPT !.page = @ + 1, !.seen = @ \cup S]
  /\ UNCHANGED <<vars, rowVars, pageVars>>

Page(s) ==
  \/ Admit(s) \/ Connect(s) \/ Notify(s) \/ Read(s)
  \/ HubStep(SeeClosed(s)) \/ HubStep(unsubscribe(s)) \/ HubStep(ClientGone(s))

Write(d) == Insert(d) \/ CommitInsert(d) \/ CancelRow(d)

Work(d) == WorkerStep(d) \/ WorkerEnd(d) \/ Announce(d)

List == StartPaging \/ ReadPage

ViewsNext ==
  \/ Tick
  \/ \E d \in Drills : Write(d) \/ Work(d)
  \/ \E s \in Streams : Page(s)
  \/ HubStep(Close)
  \/ List

\* A stream's handler goes on when it can; clients and workers need not.
StreamsGoOn == \A s \in Streams : WF_vars(Handler(s))

ViewsSpec == ViewsInit /\ [][ViewsNext]_viewVars /\ StreamsGoOn

-----------------------------------------------------------------------------
\* A page whose stream is up, that has read since it subscribed and after every
\* event it got, shows the end of a drill once that was published, although the
\* hub drops events that do not fit: only a drill that GetDrill no longer finds
\* escapes it.
NothingMissed ==
  \A s \in Streams :
    /\ s \in Registered /\ chan[s] = <<>> /\ current[s] /\ ~owes[s]
    /\ told[drill[s]]
    => view[s] \in {"ended", "missing"}

\* A drill is refused (by the detail, stream and report handlers) only when a
\* full page of drills is not older than it.
NotFoundMeansOld ==
  \A s \in Streams :
    view[s] = "missing" \/ admitted[s] = "refused" =>
      Cardinality({d \in Visible \ {drill[s]} : created[d] >= created[drill[s]]}) >= MaxLimit

\* A client that reads pages until one is empty has seen every row that matched
\* when it began, however many were inserted meanwhile, unless a row left the
\* filter or another row has the same created_at.
NoRowSkipped ==
  pager.page = 0 /\ (pager.filter = "any" \/ pager.ended = Ended) =>
    \A d \in pager.from \ pager.seen :
      \E x \in Visible \ {d} : created[x] = created[d]
=============================================================================
