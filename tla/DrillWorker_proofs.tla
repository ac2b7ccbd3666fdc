-------------------------- MODULE DrillWorker_proofs --------------------------
(***************************************************************************)
(* Proofs about DrillWorker, for any number of drills and workers, any     *)
(* capacity of the jobs channel and any sets of faults.                    *)
(***************************************************************************)
EXTENDS DrillWorker, TLAPS

LEMMA BooleanUpdate ==
  ASSUME NEW S, NEW f \in [S -> BOOLEAN], NEW x, NEW b \in BOOLEAN
  PROVE  [f EXCEPT ![x] = b] \in [S -> BOOLEAN]
OBVIOUS

\* The literals a worker's step can send pc to are points.
LEMMA LeavePoints ==
  ASSUME NEW w \in Workers, TypeOK, Leave(w)
  PROVE  pc' \in [Workers -> Points]
BY DEF Leave, Goto, TypeOK, Points, RunPoints

LEMMA GotoPoints ==
  ASSUME NEW w \in Workers, NEW p \in Points, TypeOK, Goto(w, p)
  PROVE  pc' \in [Workers -> Points]
BY DEF Goto, TypeOK

LEMMA VerdictType ==
  ASSUME NEW d \in Drills
  PROVE  FinalVerdict(required(d)).assessment \in {"VERIFIED", "PARTIALLY_VERIFIED"}
BY DEF FinalVerdict, Verdict

LEMMA TypeInit == Init => TypeOK
<1> SUFFICES ASSUME Init PROVE TypeOK
  OBVIOUS
<1>1. queue \in Seq(Drills) /\ Len(queue) <= QueueCap
  BY QueueAssumption DEF Init
<1>2. pc \in [Workers -> Points]
  BY DEF Init, Points, Parked
<1>3. root \in BOOLEAN
  BY DEF Init
<1> QED
  BY <1>1, <1>2, <1>3 DEF Init, TypeOK

\* The four calls of transition.
LEMMA TypeTransition ==
  ASSUME NEW w \in Workers, TypeOK,
         NEW at, NEW to \in Statuses, NEW sequence \in 1..5, NEW next \in Points,
         transition(w, at, to, sequence, next)
  PROVE  TypeOK'
<1>1. pc' \in [Workers -> Points]
  BY LeavePoints, GotoPoints DEF transition
<1>2. status' \in [Drills -> Statuses \cup {Absent}]
  BY DEF transition, Move, TypeOK
<1>3. steps' \in [Drills -> SUBSET (1..5)]
  BY DEF transition, Move, TypeOK
<1> QED
  BY <1>1, <1>2, <1>3
  DEF transition, TypeOK, world, http, pool, local

LEMMA TypeHandlers ==
  ASSUME NEW d \in Drills, TypeOK, Handlers(d)
  PROVE  TypeOK'
<1> USE DEF TypeOK, dbVars, world, http, pool, local
<1>1. CASE CreateDrill(d)
  <2>1. status' \in [Drills -> Statuses \cup {Absent}]
    BY <1>1 DEF CreateDrill, Statuses, Active
  <2>2. input' \in [Drills -> Inputs \cup {Null}]
    BY <1>1 DEF CreateDrill
  <2>3. pending' \in [Drills -> BOOLEAN]
    BY <1>1, BooleanUpdate DEF CreateDrill
  <2> QED
    BY <1>1, <2>1, <2>2, <2>3 DEF CreateDrill
<1>2. CASE SubmitDrill(d)
  <2>1. queue' \in Seq(Drills) /\ Len(queue') <= QueueCap
    <3>1. queue \in Seq(Drills) /\ Len(queue) \in Nat /\ QueueCap \in Nat
      BY QueueAssumption
    <3>2. CASE Len(queue) < QueueCap /\ queue' = Append(queue, d)
      <4>1. queue' \in Seq(Drills) /\ Len(queue') = Len(queue) + 1
        BY <3>1, <3>2
      <4> QED
        BY <3>1, <3>2, <4>1
    <3>3. CASE UNCHANGED queue
      BY <3>3
    <3> QED
      BY <1>2, <3>2, <3>3 DEF SubmitDrill
  <2>2. accepted' \in [Drills -> BOOLEAN]
    BY <1>2, BooleanUpdate DEF SubmitDrill
  <2> QED
    BY <1>2, <2>1, <2>2 DEF SubmitDrill
<1>3. CASE RepeatDrill(d)
  BY <1>3 DEF RepeatDrill
<1>4. CASE SignalCancel(d)
  BY <1>4 DEF SignalCancel
<1>5. CASE CancelDrill(d)
  BY <1>5 DEF CancelDrill, Statuses, Terminal
<1> QED
  BY <1>1, <1>2, <1>3, <1>4, <1>5 DEF Handlers

\* The steps of run, the receive from the channel and the end of a worker.
LEMMA TypeWorker ==
  ASSUME NEW w \in Workers, TypeOK, worker(w)
  PROVE  TypeOK'
<1> USE DEF TypeOK, dbVars, world, http, pool, local
<1>p. /\ {"idle", "stopped", "start"} \subseteq Points
      /\ RunPoints \subseteq Points
  BY DEF Points, Parked
<1>g. ASSUME NEW p \in Points, Goto(w, p) PROVE pc' \in [Workers -> Points]
  BY <1>g, GotoPoints
<1>l. ASSUME Leave(w) PROVE pc' \in [Workers -> Points]
  BY <1>l, LeavePoints
<1>s. ASSUME NEW to \in Terminal, WriteTerminal(job[w], to)
      PROVE  /\ status' \in [Drills -> Statuses \cup {Absent}]
             /\ verdict' \in [Drills -> Assessments \cup {Null}]
  BY <1>s DEF WriteTerminal, Statuses, Assessments
<1>1. CASE Dequeue(w)
  <2>1. pc' \in [Workers -> Points]
    BY <1>1, <1>p, <1>g DEF Dequeue
  <2>2. /\ Head(queue) \in Drills
        /\ queue' \in Seq(Drills) /\ Len(queue') <= QueueCap
    BY <1>1, QueueAssumption DEF Dequeue
  <2> QED
    BY <1>1, <2>1, <2>2 DEF Dequeue
<1>2. CASE StopWorker(w)
  BY <1>2, <1>p, <1>g DEF StopWorker
<1>3. CASE Register(w)
  <2>1. pc' \in [Workers -> Points]
    BY <1>3, <1>p, <1>g DEF Register, RunPoints
  <2> QED
    BY <1>3, <2>1 DEF Register
<1>4. CASE Prepare(w)
  <2>1. "PREPARING" \in Statuses /\ 1 \in 1..5 /\ "load" \in Points
    BY <1>p DEF Statuses, Active, RunPoints
  <2> QED
    BY <1>4, <2>1, TypeTransition DEF Prepare
<1>5. CASE LoadDrill(w)
  <2>1. pc' \in [Workers -> Points]
    BY <1>5, <1>p, <1>g DEF LoadDrill, RunPoints
  <2> QED
    BY <1>5, <2>1 DEF LoadDrill
<1>6. CASE EndInconclusive(w)
  <2>1. pc' \in [Workers -> Points]
    BY <1>6, <1>l DEF EndInconclusive
  <2>2. /\ status' \in [Drills -> Statuses \cup {Absent}]
        /\ verdict' \in [Drills -> Assessments \cup {Null}]
    BY <1>6, <1>s DEF EndInconclusive, setTerminal, Terminal
  <2>3. announced' \in [Drills -> SUBSET Terminal]
    BY <1>6 DEF EndInconclusive, setTerminal, Terminal
  <2> QED
    BY <1>6, <2>1, <2>2, <2>3 DEF EndInconclusive
<1>7. CASE FetchBackup(w)
  <2>1. pc' \in [Workers -> Points]
    BY <1>7, <1>p, <1>g DEF FetchBackup, RunPoints
  <2> QED
    BY <1>7, <2>1 DEF FetchBackup
<1>8. CASE CreateSandbox(w)
  <2>1. pc' \in [Workers -> Points]
    BY <1>8, <1>p, <1>g DEF CreateSandbox, RunPoints
  <2>2. sandbox' \in [Drills -> BOOLEAN] /\ owns' \in [Workers -> BOOLEAN]
    BY <1>8, BooleanUpdate DEF CreateSandbox
  <2> QED
    BY <1>8, <2>1, <2>2 DEF CreateSandbox
<1>9. CASE PersistSandbox(w)
  <2>1. pc' \in [Workers -> Points]
    BY <1>9, <1>p, <1>g DEF PersistSandbox, RunPoints
  <2>2. sboxRow' \in [Drills -> {Absent, "READY", "DESTROYED"}]
    BY <1>9 DEF PersistSandbox
  <2> QED
    BY <1>9, <2>1, <2>2 DEF PersistSandbox
<1>10. CASE RecordSandboxStep(w)
  <2>1. pc' \in [Workers -> Points]
    BY <1>10, <1>p, <1>g, <1>l DEF RecordSandboxStep, RunPoints
  <2>2. steps' \in [Drills -> SUBSET (1..5)]
    <3>1. steps' = steps \/ steps' = [steps EXCEPT ![job[w]] = @ \cup {2}]
      BY <1>10 DEF RecordSandboxStep
    <3>2. steps \in [Drills -> SUBSET (1..5)] /\ {2} \subseteq 1..5
      OBVIOUS
    <3> HIDE DEF TypeOK
    <3> QED
      BY <3>1, <3>2
  <2> QED
    BY <1>10, <2>1, <2>2 DEF RecordSandboxStep
<1>11. CASE StartRestoring(w)
  <2>1. "RESTORING" \in Statuses /\ 3 \in 1..5 /\ "restore" \in Points
    BY <1>p DEF Statuses, Active, RunPoints
  <2> QED
    BY <1>11, <2>1, TypeTransition DEF StartRestoring
<1>12. CASE Restore(w)
  <2>1. pc' \in [Workers -> Points]
    BY <1>12, <1>p, <1>g DEF Restore, RunPoints
  <2> QED
    BY <1>12, <2>1 DEF Restore
<1>13. CASE StartValidating(w)
  <2>1. "VALIDATING" \in Statuses /\ 4 \in 1..5 /\ "validate" \in Points
    BY <1>p DEF Statuses, Active, RunPoints
  <2> QED
    BY <1>13, <2>1, TypeTransition DEF StartValidating
<1>14. CASE ValidateConnectivity(w)
  <2>1. pc' \in [Workers -> Points]
    BY <1>14, <1>p, <1>g DEF ValidateConnectivity, RunPoints
  <2> QED
    BY <1>14, <2>1 DEF ValidateConnectivity
<1>15. CASE StartFinalizing(w)
  <2>1. "FINALIZING" \in Statuses /\ 5 \in 1..5 /\ "put" \in Points
    BY <1>p DEF Statuses, Active, RunPoints
  <2> QED
    BY <1>15, <2>1, TypeTransition DEF StartFinalizing
<1>16. CASE PutEvidence(w)
  <2>1. pc' \in [Workers -> Points]
    BY <1>16, <1>p, <1>g DEF PutEvidence, RunPoints
  <2>2. object' \in [Drills -> BOOLEAN]
    BY <1>16, BooleanUpdate DEF PutEvidence
  <2> QED
    BY <1>16, <2>1, <2>2 DEF PutEvidence
<1>17. CASE DestroySandbox(w)
  <2>1. pc' \in [Workers -> Points]
    BY <1>17, <1>p, <1>g DEF DestroySandbox, RunPoints
  <2>2. sandbox' \in [Drills -> BOOLEAN] /\ owns' \in [Workers -> BOOLEAN]
    BY <1>17, BooleanUpdate DEF DestroySandbox
  <2> QED
    BY <1>17, <2>1, <2>2 DEF DestroySandbox
<1>18. CASE MarkDestroyed(w)
  <2>1. pc' \in [Workers -> Points]
    BY <1>18, <1>p, <1>g DEF MarkDestroyed, RunPoints
  <2>2. sboxRow' \in [Drills -> {Absent, "READY", "DESTROYED"}]
    BY <1>18 DEF MarkDestroyed
  <2> QED
    BY <1>18, <2>1, <2>2 DEF MarkDestroyed
<1>19. CASE FinalizeUpdate(w)
  <2>1. pc' \in [Workers -> Points]
    BY <1>19, <1>p, <1>g DEF FinalizeUpdate, RunPoints
  <2> QED
    BY <1>19, <2>1 DEF FinalizeUpdate
<1>20. CASE CommitFinal(w)
  <2>1. pc' \in [Workers -> Points]
    BY <1>20, <1>p, <1>g, <1>l DEF CommitFinal, RunPoints
  <2>2. status' \in [Drills -> Statuses \cup {Absent}]
    BY <1>20 DEF CommitFinal, Finalized, Statuses, Terminal
  <2>3. verdict' \in [Drills -> Assessments \cup {Null}]
    BY <1>20, VerdictType DEF CommitFinal, Finalized, Assessments
  <2>4. evidence' \in [Drills -> BOOLEAN]
    BY <1>20, BooleanUpdate DEF CommitFinal, Finalized
  <2>5. announced' \in [Drills -> SUBSET Terminal]
    BY <1>20 DEF CommitFinal, Terminal
  <2> QED
    BY <1>20, <2>1, <2>2, <2>3, <2>4, <2>5 DEF CommitFinal
<1>21. CASE DeleteEvidence(w)
  <2>1. pc' \in [Workers -> Points]
    BY <1>21, <1>p, <1>g DEF DeleteEvidence, RunPoints
  <2>2. object' \in [Drills -> BOOLEAN]
    BY <1>21, BooleanUpdate DEF DeleteEvidence
  <2> QED
    BY <1>21, <2>1, <2>2 DEF DeleteEvidence
<1>22. CASE FailDrill(w)
  <2>1. pc' \in [Workers -> Points]
    BY <1>22, <1>l DEF FailDrill
  <2>2. /\ status' \in [Drills -> Statuses \cup {Absent}]
        /\ verdict' \in [Drills -> Assessments \cup {Null}]
    BY <1>22, <1>s DEF FailDrill, setTerminal, Terminal
  <2>3. announced' \in [Drills -> SUBSET Terminal]
    BY <1>22 DEF FailDrill, setTerminal, Terminal
  <2> QED
    BY <1>22, <2>1, <2>2, <2>3 DEF FailDrill
<1>23. CASE Cleanup(w)
  <2>1. pc' \in [Workers -> Points]
    BY <1>23, <1>p, <1>g DEF Cleanup, RunPoints
  <2>2. sandbox' \in [Drills -> BOOLEAN] /\ owns' \in [Workers -> BOOLEAN]
    BY <1>23, BooleanUpdate DEF Cleanup
  <2> QED
    BY <1>23, <2>1, <2>2 DEF Cleanup
<1>24. CASE CleanupRow(w)
  <2>1. pc' \in [Workers -> Points]
    BY <1>24, <1>p, <1>g DEF CleanupRow, RunPoints
  <2>2. sboxRow' \in [Drills -> {Absent, "READY", "DESTROYED"}]
    BY <1>24 DEF CleanupRow
  <2> QED
    BY <1>24, <2>1, <2>2 DEF CleanupRow
<1>25. CASE Unregister(w)
  <2>1. pc' \in [Workers -> Points]
    BY <1>25, <1>p, <1>g DEF Unregister, RunPoints
  <2> QED
    BY <1>25, <2>1 DEF Unregister
<1> QED
  BY <1>1, <1>2, <1>3, <1>4, <1>5, <1>6, <1>7, <1>8, <1>9, <1>10, <1>11,
     <1>12, <1>13, <1>14, <1>15, <1>16, <1>17, <1>18, <1>19, <1>20, <1>21,
     <1>22, <1>23, <1>24, <1>25
  DEF worker, run

LEMMA TypeNext == TypeOK /\ [Next]_vars => TypeOK'
<1> SUFFICES ASSUME TypeOK, [Next]_vars PROVE TypeOK'
  OBVIOUS
<1> USE DEF TypeOK, dbVars, world, http, pool, local
<1>1. ASSUME NEW d \in Drills, Handlers(d) PROVE TypeOK'
  BY <1>1, TypeHandlers
<1>2. ASSUME NEW w \in Workers, worker(w) PROVE TypeOK'
  BY <1>2, TypeWorker
<1>3. ASSUME NEW w \in Workers, Deadline(w) PROVE TypeOK'
  BY <1>3 DEF Deadline
<1>4. CASE Close
  <2>1. ctxDone' \in [Workers -> BOOLEAN]
    BY <1>4 DEF Close
  <2>2. root' \in BOOLEAN
    BY <1>4 DEF Close
  <2> QED
    BY <1>4, <2>1, <2>2 DEF Close
<1>5. CASE Restart
  <2>1. pc' \in [Workers -> Points]
    BY <1>5 DEF Restart, Points, Parked
  <2>2. queue' \in Seq(Drills) /\ Len(queue') <= QueueCap
    BY <1>5, QueueAssumption DEF Restart
  <2>3. root' \in BOOLEAN
    BY <1>5 DEF Restart
  <2> QED
    BY <1>5, <2>1, <2>2, <2>3 DEF Restart
<1>6. CASE UNCHANGED vars
  BY <1>6 DEF vars
<1> QED
  BY <1>1, <1>2, <1>3, <1>4, <1>5, <1>6 DEF Next

\* Every variable keeps its type, whatever fails and in whichever order the
\* handlers and workers run; the jobs channel never exceeds its capacity.
THEOREM TypeCorrect == Spec => []TypeOK
BY TypeInit, TypeNext, PTL DEF Spec

-----------------------------------------------------------------------------
(***************************************************************************)
(* The inductive invariant behind OnePlace, VerdictEarned and the          *)
(* refinement.  A drill that some worker, handler or the channel refers to *)
(* has a row, and only one of them does; so what a worker has established  *)
(* about its drill cannot be undone by another worker, and what a handler  *)
(* can do to it (a cancellation) keeps WorkerInv.                          *)
(***************************************************************************)

\* A drill without a row is nowhere.
Nowhere(d) ==
  /\ ~pending[d]
  /\ \A w \in Workers : job[w] # d
  /\ \A i \in DOMAIN queue : queue[i] # d

NotYet == \A d \in Drills : status[d] = Absent => Nowhere(d)

\* A worker has a job from the receive to the end of run.
Busy == \A w \in Workers : pc[w] \notin Parked => job[w] \in Drills

Idle == \A w \in Workers : pc[w] \in Parked => job[w] = NoDrill

Placed == OnePlace /\ NotYet /\ Busy /\ Idle

\* Points of run from which it goes on to success, by the timeline steps that
\* lie behind them.
After5 == {"put", "destroy", "markDestroyed", "finalize", "commit"}
After4 == {"validate", "toFinalizing"} \cup After5
After3 == {"restore", "toValidating"} \cup After4
After2 == {"toRestoring"} \cup After3
After1 == {"load", "fetch", "create", "persist", "recordStep"} \cup After2

\* Points at which the row has left QUEUED, by whoever's hand.
Begun == After1 \cup {"inconclusive", "compensate", "fail"}

\* What run has established about its drill.
WorkerInv(w) ==
  /\ pc[w] \in Begun => status[job[w]] \notin {Absent, "QUEUED"}
  /\ pc[w] = "commit" => status[job[w]] = "FINALIZING"
  /\ pc[w] \in After1 => 1 \in steps[job[w]]
  /\ pc[w] \in After2 => 2 \in steps[job[w]]
  /\ pc[w] \in After3 => 3 \in steps[job[w]]
  /\ pc[w] \in After4 => 4 \in steps[job[w]]
  /\ pc[w] \in After5 => 5 \in steps[job[w]]
  /\ pc[w] \in After1 \ {"load"} => input[job[w]] # "noSnapshot"
  /\ pc[w] \in After1 \ {"load", "fetch"} => input[job[w]] # "corrupt"
  /\ pc[w] \in After3 \ {"restore"} => input[job[w]] # "unrestorable"

\* What holds of a drill's row: it was created with an input, it has neither
\* verdict nor evidence before its end, and its verdict is earned.
RowInv(d) ==
  /\ status[d] # Absent => input[d] \in Inputs
  /\ status[d] \notin Terminal => verdict[d] = Null /\ ~evidence[d]
  /\ verdict[d] \in {"VERIFIED", "PARTIALLY_VERIFIED"} =>
       /\ status[d] = "SUCCEEDED" /\ evidence[d]
       /\ steps[d] = 1..5
       /\ input[d] \in IF verdict[d] = "VERIFIED" THEN {"full", "unchecked"}
                   ELSE {"limited"}

IndInv ==
  /\ TypeOK
  /\ Placed
  /\ \A w \in Workers : WorkerInv(w)
  /\ \A d \in Drills : RowInv(d)
-----------------------------------------------------------------------------
(***************************************************************************)
(* The frame of a step of run: it moves its own worker and touches no row  *)
(* but its own drill's.                                                    *)
(***************************************************************************)
SameRow(d) ==
  /\ status'[d] = status[d] /\ verdict'[d] = verdict[d]
  /\ evidence'[d] = evidence[d] /\ steps'[d] = steps[d]

Frame(w) ==
  /\ \A v \in Workers \ {w} : pc'[v] = pc[v] /\ job'[v] = job[v]
  /\ \A d \in Drills \ {job[w]} : SameRow(d)
  /\ UNCHANGED <<input, pending, queue>>
  /\ \/ job' = job /\ pc'[w] \notin Parked
     \/ job'[w] = NoDrill /\ pc'[w] = "idle"
  /\ pc[w] \notin Parked
  /\ \A d \in Drills : status'[d] = Absent => status[d] = Absent

LEMMA FrameTransition ==
  ASSUME NEW w \in Workers, TypeOK, NEW at \in RunPoints, NEW to \in Active,
         NEW sequence, NEW next \in RunPoints,
         transition(w, at, to, sequence, next)
  PROVE  Frame(w)
<1> USE DEF TypeOK, transition, Move, Leave, Goto, http, pool, local
<1>1. RunPoints \cap Parked = {} /\ {"cleanup", "unregister"} \subseteq RunPoints
  BY DEF RunPoints, Parked
<1>2. /\ \A v \in Workers \ {w} : pc'[v] = pc[v] /\ job'[v] = job[v]
      /\ UNCHANGED <<input, pending, queue>>
  OBVIOUS
<1>3. job' = job /\ pc'[w] \in RunPoints /\ pc[w] \in RunPoints
  BY <1>1
<1>4. \A d \in Drills \ {job[w]} : SameRow(d)
  BY DEF SameRow
<1>5. \A d \in Drills : status'[d] = Absent => status[d] = Absent
  BY DEF Active, Absent
<1> QED
  BY <1>1, <1>2, <1>3, <1>4, <1>5 DEF Frame

LEMMA RunFrame ==
  ASSUME NEW w \in Workers, TypeOK, run(w)
  PROVE  Frame(w)
<1> USE DEF TypeOK, Goto, Leave, dbVars, world, http, pool, local
<1>1. CASE Register(w)
  BY <1>1 DEF Register, Frame, SameRow, Parked
<1>2. CASE Prepare(w)
  <2>1. {"prepare", "load", "toRestoring", "restore", "toValidating", "validate",
          "toFinalizing", "put"} \subseteq RunPoints
    BY DEF RunPoints
  <2>2. {"PREPARING", "RESTORING", "VALIDATING", "FINALIZING"} \subseteq Active
    BY DEF Active
  <2> QED
    BY <1>2, <2>1, <2>2, FrameTransition DEF Prepare
<1>3. CASE LoadDrill(w)
  BY <1>3 DEF LoadDrill, Frame, SameRow, Parked
<1>4. CASE EndInconclusive(w)
  BY <1>4 DEF EndInconclusive, Frame, SameRow, Parked, setTerminal, WriteTerminal, Terminal, Absent
<1>5. CASE FetchBackup(w)
  BY <1>5 DEF FetchBackup, Frame, SameRow, Parked
<1>6. CASE CreateSandbox(w)
  BY <1>6 DEF CreateSandbox, Frame, SameRow, Parked
<1>7. CASE PersistSandbox(w)
  BY <1>7 DEF PersistSandbox, Frame, SameRow, Parked
<1>8. CASE RecordSandboxStep(w)
  BY <1>8 DEF RecordSandboxStep, Frame, SameRow, Parked
<1>9. CASE StartRestoring(w)
  <2>1. {"prepare", "load", "toRestoring", "restore", "toValidating", "validate",
          "toFinalizing", "put"} \subseteq RunPoints
    BY DEF RunPoints
  <2>2. {"PREPARING", "RESTORING", "VALIDATING", "FINALIZING"} \subseteq Active
    BY DEF Active
  <2> QED
    BY <1>9, <2>1, <2>2, FrameTransition DEF StartRestoring
<1>10. CASE Restore(w)
  BY <1>10 DEF Restore, Frame, SameRow, Parked
<1>11. CASE StartValidating(w)
  <2>1. {"prepare", "load", "toRestoring", "restore", "toValidating", "validate",
          "toFinalizing", "put"} \subseteq RunPoints
    BY DEF RunPoints
  <2>2. {"PREPARING", "RESTORING", "VALIDATING", "FINALIZING"} \subseteq Active
    BY DEF Active
  <2> QED
    BY <1>11, <2>1, <2>2, FrameTransition DEF StartValidating
<1>12. CASE ValidateConnectivity(w)
  BY <1>12 DEF ValidateConnectivity, Frame, SameRow, Parked
<1>13. CASE StartFinalizing(w)
  <2>1. {"prepare", "load", "toRestoring", "restore", "toValidating", "validate",
          "toFinalizing", "put"} \subseteq RunPoints
    BY DEF RunPoints
  <2>2. {"PREPARING", "RESTORING", "VALIDATING", "FINALIZING"} \subseteq Active
    BY DEF Active
  <2> QED
    BY <1>13, <2>1, <2>2, FrameTransition DEF StartFinalizing
<1>14. CASE PutEvidence(w)
  BY <1>14 DEF PutEvidence, Frame, SameRow, Parked
<1>15. CASE DestroySandbox(w)
  BY <1>15 DEF DestroySandbox, Frame, SameRow, Parked
<1>16. CASE MarkDestroyed(w)
  BY <1>16 DEF MarkDestroyed, Frame, SameRow, Parked
<1>17. CASE FinalizeUpdate(w)
  BY <1>17 DEF FinalizeUpdate, Frame, SameRow, Parked
<1>18. CASE CommitFinal(w)
  BY <1>18 DEF CommitFinal, Frame, SameRow, Parked, Finalized, Absent
<1>19. CASE DeleteEvidence(w)
  BY <1>19 DEF DeleteEvidence, Frame, SameRow, Parked
<1>20. CASE FailDrill(w)
  BY <1>20 DEF FailDrill, Frame, SameRow, Parked, setTerminal, WriteTerminal, Terminal, Absent
<1>21. CASE Cleanup(w)
  BY <1>21 DEF Cleanup, Frame, SameRow, Parked
<1>22. CASE CleanupRow(w)
  BY <1>22 DEF CleanupRow, Frame, SameRow, Parked
<1>23. CASE Unregister(w)
  BY <1>23 DEF Unregister, Frame, SameRow, Parked
<1> QED
  BY <1>1, <1>2, <1>3, <1>4, <1>5, <1>6, <1>7, <1>8, <1>9, <1>10, <1>11,
     <1>12, <1>13, <1>14, <1>15, <1>16, <1>17, <1>18, <1>19, <1>20, <1>21,
     <1>22, <1>23
  DEF run

-----------------------------------------------------------------------------
(***************************************************************************)
(* A drill is in one place.                                                *)
(***************************************************************************)

LEMMA PlacedInit == Init => Placed
BY DrillsAssumption DEF Init, Placed, OnePlace, NotYet, Nowhere, Busy, Idle, Parked

\* Steps that move no drill and delete no row.
LEMMA PlacedQuiet ==
  ASSUME TypeOK, Placed,
         UNCHANGED <<queue, job, pending>>,
         \A w \in Workers : pc'[w] \in Parked <=> pc[w] \in Parked,
         \A d \in Drills : status'[d] = Absent => status[d] = Absent
  PROVE  Placed'
BY DEF Placed, OnePlace, NotYet, Nowhere, Busy, Idle

LEMMA PlacedHandlers ==
  ASSUME NEW d \in Drills, TypeOK, Placed, Handlers(d)
  PROVE  Placed'
<1> USE DEF TypeOK, dbVars, world, http, pool, local
<1>1. CASE CreateDrill(d)
  <2>1. Nowhere(d)
    BY <1>1 DEF CreateDrill, Placed, NotYet
  <2>2. /\ UNCHANGED <<queue, job, pc>>
        /\ \A e \in Drills \ {d} : pending'[e] = pending[e] /\ status'[e] = status[e]
        /\ status'[d] # Absent
    BY <1>1 DEF CreateDrill, Absent
  <2> QED
    BY <2>1, <2>2 DEF Placed, OnePlace, NotYet, Nowhere, Busy, Idle
<1>2. CASE SubmitDrill(d)
  <2>1. /\ UNCHANGED <<status, job, pc>>
        /\ pending[d]
        /\ \A e \in Drills : pending'[e] => pending[e] /\ e # d
    BY <1>2 DEF SubmitDrill
  <2>2. CASE UNCHANGED queue
    BY <2>1, <2>2 DEF Placed, OnePlace, NotYet, Nowhere, Busy, Idle
  <2>3. CASE queue' = Append(queue, d)
    <3>1. /\ DOMAIN queue' = 1..(Len(queue) + 1) /\ DOMAIN queue = 1..Len(queue)
          /\ Len(queue) \in Nat
          /\ \A i \in DOMAIN queue : queue'[i] = queue[i]
          /\ queue'[Len(queue) + 1] = d
      BY <2>3
    <3>2. /\ \A w \in Workers : job[w] # d
          /\ \A i \in DOMAIN queue : queue[i] # d
      BY <2>1 DEF Placed, OnePlace
    <3>3. \A i \in DOMAIN queue' : i \in DOMAIN queue \/ i = Len(queue) + 1
      BY <3>1
    <3>4. OnePlace'
      <4>1. \A i, j \in DOMAIN queue' : queue'[i] = queue'[j] => i = j
        BY <3>1, <3>2, <3>3 DEF Placed, OnePlace
      <4>2. \A w \in Workers, i \in DOMAIN queue' : job'[w] # queue'[i]
        BY <2>1, <3>1, <3>2, <3>3 DEF Placed, OnePlace
      <4>3. \A w, v \in Workers : job'[w] = job'[v] /\ job'[w] # NoDrill => w = v
        BY <2>1 DEF Placed, OnePlace
      <4>4. \A e \in Drills : pending'[e] =>
              /\ \A w \in Workers : job'[w] # e
              /\ \A i \in DOMAIN queue' : queue'[i] # e
        BY <2>1, <3>1, <3>3 DEF Placed, OnePlace
      <4> QED
        BY <4>1, <4>2, <4>3, <4>4 DEF OnePlace
    <3>5. NotYet'
      <4>1. status[d] # Absent
        BY <2>1 DEF Placed, NotYet, Nowhere
      <4> QED
        BY <2>1, <3>1, <3>3, <4>1 DEF Placed, NotYet, Nowhere
    <3> QED
      BY <2>1, <3>4, <3>5 DEF Placed, Busy, Idle
  <2> QED
    BY <1>2, <2>2, <2>3 DEF SubmitDrill
<1>3. CASE RepeatDrill(d)
  BY <1>3, PlacedQuiet DEF RepeatDrill
<1>4. CASE SignalCancel(d)
  BY <1>4, PlacedQuiet DEF SignalCancel
<1>5. CASE CancelDrill(d)
  <2>1. \A e \in Drills : status'[e] = Absent => status[e] = Absent
    BY <1>5 DEF CancelDrill, Absent
  <2> QED
    BY <1>5, <2>1, PlacedQuiet DEF CancelDrill
<1> QED
  BY <1>1, <1>2, <1>3, <1>4, <1>5 DEF Handlers

LEMMA PlacedWorker ==
  ASSUME NEW w \in Workers, TypeOK, Placed, worker(w)
  PROVE  Placed'
<1> USE DEF TypeOK, dbVars, world, http, pool, local
<1>1. CASE Dequeue(w)
  <2>1. /\ UNCHANGED <<status, pending>>
        /\ job[w] = NoDrill
        /\ job'[w] = queue[1] /\ 1 \in DOMAIN queue
        /\ \A v \in Workers \ {w} : job'[v] = job[v] /\ pc'[v] = pc[v]
        /\ pc'[w] = "start"
    BY <1>1 DEF Dequeue, Goto, Placed, Idle, Parked
  <2>2. \A i \in DOMAIN queue' : i + 1 \in DOMAIN queue /\ queue'[i] = queue[i + 1]
                                 /\ i \in Nat \ {0}
    BY <1>1 DEF Dequeue
  <2>3. queue[1] \in Drills
    BY <2>1
  <2>4. OnePlace'
    <3>1. \A i, j \in DOMAIN queue' : queue'[i] = queue'[j] => i = j
      BY <2>2 DEF Placed, OnePlace
    <3>2. \A v \in Workers, i \in DOMAIN queue' : job'[v] # queue'[i]
      BY <2>1, <2>2 DEF Placed, OnePlace
    <3>3. \A v, u \in Workers : job'[v] = job'[u] /\ job'[v] # NoDrill => v = u
      BY <2>1 DEF Placed, OnePlace
    <3>4. \A e \in Drills : pending'[e] =>
            /\ \A v \in Workers : job'[v] # e
            /\ \A i \in DOMAIN queue' : queue'[i] # e
      BY <2>1, <2>2 DEF Placed, OnePlace
    <3> QED
      BY <3>1, <3>2, <3>3, <3>4 DEF OnePlace
  <2>5. NotYet'
    BY <2>1, <2>2 DEF Placed, NotYet, Nowhere
  <2> QED
    BY <2>1, <2>3, <2>4, <2>5 DEF Placed, Busy, Idle, Parked
<1>2. CASE StopWorker(w)
  BY <1>2, PlacedQuiet DEF StopWorker, Goto, Parked
<1>3. CASE run(w)
  <2>1. Frame(w)
    BY <1>3, RunFrame
  <2>2. CASE job' = job /\ pc'[w] \notin Parked
    <3>1. \A v \in Workers : pc'[v] \in Parked <=> pc[v] \in Parked
      BY <2>1, <2>2 DEF Frame
    <3> QED
      BY <2>1, <2>2, <3>1, PlacedQuiet DEF Frame
  <2>3. CASE job'[w] = NoDrill /\ pc'[w] = "idle"
    <3>1. OnePlace'
      BY <2>1, <2>3, DrillsAssumption DEF Frame, Placed, OnePlace
    <3>2. NotYet'
      BY <2>1, <2>3, DrillsAssumption DEF Frame, Placed, NotYet, Nowhere
    <3>3. Busy' /\ Idle'
      BY <2>1, <2>3 DEF Frame, Placed, Busy, Idle, Parked
    <3> QED
      BY <3>1, <3>2, <3>3 DEF Placed
  <2> QED
    BY <2>1, <2>2, <2>3 DEF Frame
<1> QED
  BY <1>1, <1>2, <1>3 DEF worker

LEMMA PlacedNext == TypeOK /\ Placed /\ [Next]_vars => Placed'
<1> SUFFICES ASSUME TypeOK, Placed, [Next]_vars PROVE Placed'
  OBVIOUS
<1> USE DEF dbVars, world, http, pool, local
<1>1. ASSUME NEW d \in Drills, Handlers(d) PROVE Placed'
  BY <1>1, PlacedHandlers
<1>2. ASSUME NEW w \in Workers, worker(w) PROVE Placed'
  BY <1>2, PlacedWorker
<1>3. ASSUME NEW w \in Workers, Deadline(w) PROVE Placed'
  BY <1>3, PlacedQuiet DEF Deadline
<1>4. CASE Close
  BY <1>4, PlacedQuiet DEF Close
<1>5. CASE Restart
  BY <1>5, DrillsAssumption
  DEF Restart, Placed, OnePlace, NotYet, Nowhere, Busy, Idle, Parked
<1>6. CASE UNCHANGED vars
  BY <1>6, PlacedQuiet DEF vars
<1> QED
  BY <1>1, <1>2, <1>3, <1>4, <1>5, <1>6 DEF Next

\* A drill is about to be submitted, at one position of the channel or with
\* one worker, and never in two of these places: repeated POSTs, cancellations
\* and restarts included.
THEOREM DrillInOnePlace == Spec => []OnePlace
<1>1. Init => TypeOK /\ Placed
  BY TypeInit, PlacedInit
<1>2. (TypeOK /\ Placed) /\ [Next]_vars => (TypeOK /\ Placed)'
  BY TypeNext, PlacedNext
<1>3. Placed => OnePlace
  BY Zenon DEF Placed
<1> QED
  BY <1>1, <1>2, <1>3, PTL DEF Spec
-----------------------------------------------------------------------------
(***************************************************************************)
(* WorkerInv and RowInv.                                                   *)
(***************************************************************************)

LEMMA OwnWorker ==
  ASSUME NEW w \in Workers, TypeOK, job[w] \in Drills, WorkerInv(w), run(w)
  PROVE  WorkerInv(w)'
<1> USE DEF WorkerInv, TypeOK, Goto, Leave, dbVars, world, http, pool, local,
            Begun, After1, After2, After3, After4, After5
<1>1. CASE Register(w)
  BY <1>1 DEF Register
<1>2. CASE Prepare(w)
  BY <1>2 DEF Prepare, transition, Move, CanTransition, Absent
<1>3. CASE LoadDrill(w)
  BY <1>3 DEF LoadDrill
<1>4. CASE EndInconclusive(w)
  BY <1>4 DEF EndInconclusive, setTerminal
<1>5. CASE FetchBackup(w)
  BY <1>5 DEF FetchBackup
<1>6. CASE CreateSandbox(w)
  BY <1>6 DEF CreateSandbox
<1>7. CASE PersistSandbox(w)
  BY <1>7 DEF PersistSandbox
<1>8. CASE RecordSandboxStep(w)
  BY <1>8 DEF RecordSandboxStep
<1>9. CASE StartRestoring(w)
  BY <1>9 DEF StartRestoring, transition, Move, CanTransition, Absent
<1>10. CASE Restore(w)
  BY <1>10 DEF Restore
<1>11. CASE StartValidating(w)
  BY <1>11 DEF StartValidating, transition, Move, CanTransition, Absent
<1>12. CASE ValidateConnectivity(w)
  BY <1>12 DEF ValidateConnectivity
<1>13. CASE StartFinalizing(w)
  BY <1>13 DEF StartFinalizing, transition, Move, CanTransition, Absent
<1>14. CASE PutEvidence(w)
  BY <1>14 DEF PutEvidence
<1>15. CASE DestroySandbox(w)
  BY <1>15 DEF DestroySandbox
<1>16. CASE MarkDestroyed(w)
  BY <1>16 DEF MarkDestroyed
<1>17. CASE FinalizeUpdate(w)
  BY <1>17 DEF FinalizeUpdate
<1>18. CASE CommitFinal(w)
  BY <1>18 DEF CommitFinal, Finalized, Absent
<1>19. CASE DeleteEvidence(w)
  BY <1>19 DEF DeleteEvidence
<1>20. CASE FailDrill(w)
  BY <1>20 DEF FailDrill, setTerminal
<1>21. CASE Cleanup(w)
  BY <1>21 DEF Cleanup
<1>22. CASE CleanupRow(w)
  BY <1>22 DEF CleanupRow
<1>23. CASE Unregister(w)
  BY <1>23 DEF Unregister
<1> QED
  BY <1>1, <1>2, <1>3, <1>4, <1>5, <1>6, <1>7, <1>8, <1>9, <1>10, <1>11,
     <1>12, <1>13, <1>14, <1>15, <1>16, <1>17, <1>18, <1>19, <1>20, <1>21,
     <1>22, <1>23
  DEF run

LEMMA OwnRow ==
  ASSUME NEW w \in Workers, NEW d \in Drills, job[w] = d, TypeOK,
         WorkerInv(w), RowInv(d), run(w)
  PROVE  RowInv(d)'
<1> USE DEF TypeOK, dbVars
<1>a. Absent \notin Terminal /\ "SUCCEEDED" \in Terminal /\ Null \notin Assessments
  BY DEF Absent, Terminal, Null, Assessments
<1>1. ASSUME SameRow(d), input' = input PROVE RowInv(d)'
  BY <1>1 DEF SameRow, RowInv
<1>2. ASSUME NEW at, NEW to \in Active, NEW sequence \in 1..5, NEW next,
             transition(w, at, to, sequence, next)
      PROVE  RowInv(d)'
  <2>1. CASE status' = status /\ steps' = steps
    BY <1>1, <1>2, <2>1 DEF transition, SameRow
  <2>2. CASE Move(d, to, sequence)
    <3>1. status[d] # Absent /\ status[d] \notin Terminal
      BY <2>2 DEF Move, CanTransition, transitions, Terminal, Absent, Statuses, Active
    <3>2. /\ verdict'[d] = verdict[d] /\ evidence' = evidence /\ input' = input
          /\ status'[d] = to
      BY <1>2, <2>2 DEF transition, Move
    <3> QED
      BY <3>1, <3>2 DEF RowInv, Null
  <2> QED
    BY <1>2, <2>1, <2>2 DEF transition
<1>3. ASSUME NEW to \in Aborts, WriteTerminal(d, to),
             UNCHANGED <<evidence, steps, input>>,
             status[d] # Absent
      PROVE  RowInv(d)'
  <2>1. CASE status[d] \in Terminal
    BY <1>1, <1>3, <2>1 DEF WriteTerminal, SameRow
  <2>2. CASE status[d] \notin Terminal
    <3>1. status'[d] = to /\ verdict'[d] \in {"FAILED", "INCONCLUSIVE"}
      BY <1>3, <2>2 DEF WriteTerminal
    <3>2. to \in Terminal
      BY DEF Aborts, Terminal
    <3> QED
      BY <1>3, <3>1, <3>2 DEF RowInv
  <2> QED
    BY <2>1, <2>2
<1>4. CASE Prepare(w)
  <2>1. "PREPARING" \in Active /\ 1 \in 1..5
    BY DEF Active
  <2> QED
    BY <1>2, <1>4, <2>1 DEF Prepare
<1>5. CASE StartRestoring(w)
  <2>1. "RESTORING" \in Active /\ 3 \in 1..5
    BY DEF Active
  <2> QED
    BY <1>2, <1>5, <2>1 DEF StartRestoring
<1>6. CASE StartValidating(w)
  <2>1. "VALIDATING" \in Active /\ 4 \in 1..5
    BY DEF Active
  <2> QED
    BY <1>2, <1>6, <2>1 DEF StartValidating
<1>7. CASE StartFinalizing(w)
  <2>1. "FINALIZING" \in Active /\ 5 \in 1..5
    BY DEF Active
  <2> QED
    BY <1>2, <1>7, <2>1 DEF StartFinalizing
<1>8. CASE EndInconclusive(w)
  <2>1. status[d] # Absent
    BY <1>8 DEF EndInconclusive, WorkerInv, Begun
  <2>2. CASE UNCHANGED <<status, verdict>>
    BY <1>1, <1>8, <2>2 DEF EndInconclusive, SameRow
  <2>3. CASE WriteTerminal(d, "INCONCLUSIVE")
    BY <1>3, <1>8, <2>1, <2>3 DEF EndInconclusive, Aborts
  <2> QED
    BY <1>8, <2>2, <2>3 DEF EndInconclusive, setTerminal
<1>9. CASE FailDrill(w)
  <2>1. status[d] # Absent
    BY <1>9 DEF FailDrill, WorkerInv, Begun
  <2>2. CASE UNCHANGED <<status, verdict>>
    BY <1>1, <1>9, <2>2 DEF FailDrill, SameRow
  <2>3. ASSUME NEW to \in {"CANCELLED", "FAILED"}, WriteTerminal(d, to)
        PROVE  RowInv(d)'
    BY <1>3, <1>9, <2>1, <2>3 DEF FailDrill, Aborts
  <2> QED
    BY <1>9, <2>2, <2>3 DEF FailDrill, setTerminal
<1>10. CASE RecordSandboxStep(w)
  <2>1. UNCHANGED <<status, verdict, evidence, input>>
    BY <1>10 DEF RecordSandboxStep
  <2>2. steps[d] = 1..5 => steps'[d] = 1..5
    BY <1>10 DEF RecordSandboxStep
  <2> QED
    BY <2>1, <2>2 DEF RowInv
<1>11. CASE CommitFinal(w)
  <2>1. /\ status[d] = "FINALIZING"
        /\ {1, 2, 3, 4, 5} \subseteq steps[d]
        /\ input[d] \notin {"noSnapshot", "corrupt", "unrestorable"}
    BY <1>11 DEF CommitFinal, WorkerInv, After1, After2, After3, After4, After5
  <2>2. CASE UNCHANGED <<status, verdict, evidence>>
    BY <1>1, <1>11, <2>2 DEF CommitFinal, SameRow
  <2>3. CASE Finalized(d)
    <3>1. steps[d] = 1..5
      <4>1. steps[d] \subseteq 1..5
        OBVIOUS
      <4>2. 1..5 = {1, 2, 3, 4, 5}
        OBVIOUS
      <4> QED
        BY <2>1, <4>1, <4>2
    <3>2. input[d] \in {"limited", "full", "unchecked"}
      BY <2>1, InputsAssumption DEF RowInv, InputKinds, Absent
    <3>3. verdict'[d] = IF input[d] = "limited" THEN "PARTIALLY_VERIFIED" ELSE "VERIFIED"
      <4>1. Limitations(required(d)) = {} <=> input[d] # "limited"
        <5>1. CASE input[d] = "limited"
          <6>1. "POSTGRES_TABLE_EXISTS" \in Limitations(required(d))
            BY <5>1 DEF Limitations, RunByWorker, required
          <6> QED
            BY <5>1, <6>1
        <5>2. CASE input[d] # "limited"
          BY <5>2 DEF Limitations, RunByWorker, required
        <5> QED
          BY <5>1, <5>2
      <4>2. FinalVerdict(required(d)).assessment =
              IF input[d] = "limited" THEN "PARTIALLY_VERIFIED" ELSE "VERIFIED"
        BY <4>1 DEF FinalVerdict, Verdict
      <4> QED
        BY <2>3, <4>2 DEF Finalized
    <3>4. /\ status'[d] = "SUCCEEDED" /\ evidence'[d] /\ steps' = steps
          /\ input' = input
      BY <1>11, <2>3 DEF CommitFinal, Finalized
    <3>5. input[d] \in Inputs
      BY <2>1 DEF RowInv, Absent
    <3> QED
      BY <1>a, <3>1, <3>2, <3>3, <3>4, <3>5 DEF RowInv
  <2> QED
    BY <1>11, <2>2, <2>3 DEF CommitFinal
<1>12. CASE UNCHANGED <<status, verdict, evidence, steps, input>>
  BY <1>1, <1>12 DEF SameRow
<1> QED
  BY <1>4, <1>5, <1>6, <1>7, <1>8, <1>9, <1>10, <1>11, <1>12
  DEF run, Register, LoadDrill, FetchBackup, CreateSandbox, PersistSandbox,
      Restore, ValidateConnectivity, PutEvidence, DestroySandbox, MarkDestroyed,
      FinalizeUpdate, DeleteEvidence, Cleanup, CleanupRow, Unregister

LEMMA IndInit == Init => IndInv
<1> SUFFICES ASSUME Init PROVE IndInv
  OBVIOUS
<1>1. TypeOK /\ Placed
  BY TypeInit, PlacedInit
<1>2. \A w \in Workers : WorkerInv(w)
  BY DEF Init, WorkerInv, Begun, After1, After2, After3, After4, After5
<1>3. \A d \in Drills : RowInv(d)
  BY DEF Init, RowInv, Null
<1> QED
  BY <1>1, <1>2, <1>3 DEF IndInv

\* A handler never takes from a worker what it has established: it creates
\* rows that no worker has, and cancels outside of the last transaction.
LEMMA IndHandlers ==
  ASSUME NEW d \in Drills, IndInv, Handlers(d)
  PROVE  /\ \A w \in Workers : WorkerInv(w)'
         /\ \A e \in Drills : RowInv(e)'
<1> USE DEF IndInv, TypeOK, dbVars, world, http, pool, local
<1>1. CASE CreateDrill(d)
  <2>1. /\ status[d] = Absent /\ status'[d] = "QUEUED" /\ input'[d] \in Inputs
        /\ \A e \in Drills \ {d} : status'[e] = status[e] /\ input'[e] = input[e]
        /\ UNCHANGED <<verdict, evidence, steps, pc, job>>
    BY <1>1 DEF CreateDrill
  <2>2. \A w \in Workers : job[w] # d
    BY <2>1 DEF Placed, NotYet, Nowhere
  <2>3. \A w \in Workers : pc[w] \in Begun => job[w] \in Drills \ {d}
    BY <2>2 DEF Placed, Busy, Parked, Begun, After1, After2, After3, After4, After5
  <2>4. \A w \in Workers : WorkerInv(w)'
    BY <2>1, <2>3 DEF WorkerInv, Begun, After1, After2, After3, After4, After5
  <2>5. \A e \in Drills : RowInv(e)'
    BY <2>1 DEF RowInv, Absent, Terminal, Null
  <2> QED
    BY <2>4, <2>5
<1>2. CASE CancelDrill(d)
  <2>1. /\ UNCHANGED <<verdict, evidence, steps, input, pc, job>>
        /\ \/ UNCHANGED status
           \/ /\ status[d] \in Active /\ ~Locked(d)
              /\ status' = [status EXCEPT ![d] = "CANCELLED"]
    BY <1>2 DEF CancelDrill
  <2>2. ASSUME NEW w \in Workers PROVE WorkerInv(w)'
    <3>1. CASE job[w] = d
      <4>1. \/ status'[d] = status[d]
            \/ pc[w] # "commit" /\ status'[d] = "CANCELLED"
        BY <2>1, <3>1 DEF Locked
      <4> QED
        BY <2>1, <3>1, <4>1 DEF WorkerInv, Absent
    <3>2. CASE job[w] \in Drills \ {d}
      <4>1. status'[job[w]] = status[job[w]]
        BY <2>1, <3>2
      <4> QED
        BY <2>1, <4>1 DEF WorkerInv
    <3>3. CASE job[w] \notin Drills
      <4>1. pc'[w] \in Parked
        BY <2>1, <3>3 DEF Placed, Busy
      <4> QED
        BY <4>1 DEF WorkerInv, Parked, Begun, After1, After2, After3, After4, After5
    <3> QED
      BY <3>1, <3>2, <3>3
  <2>3. \A e \in Drills : RowInv(e)'
    BY <2>1 DEF RowInv, Active, Terminal, Absent, Null
  <2> QED
    BY <2>2, <2>3
<1>3. CASE UNCHANGED <<dbVars, pc, job>>
  BY <1>3 DEF WorkerInv, RowInv
<1> QED
  BY <1>1, <1>2, <1>3 DEF Handlers, SubmitDrill, RepeatDrill, SignalCancel

LEMMA IndWorker ==
  ASSUME NEW w \in Workers, IndInv, worker(w)
  PROVE  /\ \A v \in Workers : WorkerInv(v)'
         /\ \A e \in Drills : RowInv(e)'
<1> USE DEF IndInv, dbVars, world, http, pool, local
<1>p. Begun \cap (Parked \cup {"start"}) = {} /\ "commit" \in Begun
      /\ After5 \subseteq After4 /\ After4 \subseteq After3
      /\ After3 \subseteq After2 /\ After2 \subseteq After1 /\ After1 \subseteq Begun
  BY DEF Begun, Parked, After1, After2, After3, After4, After5
<1>1. CASE Dequeue(w) \/ StopWorker(w)
  <2>1. /\ UNCHANGED dbVars /\ pc'[w] \notin Begun
        /\ \A v \in Workers \ {w} : pc'[v] = pc[v] /\ job'[v] = job[v]
    BY <1>1, <1>p DEF Dequeue, StopWorker, Goto, TypeOK, Parked
  <2>2. \A v \in Workers : WorkerInv(v)'
    BY <1>p, <2>1 DEF WorkerInv
  <2>3. \A e \in Drills : RowInv(e)'
    BY <2>1 DEF RowInv
  <2> QED
    BY <2>2, <2>3
<1>2. CASE run(w)
  <2>1. Frame(w)
    BY <1>2, RunFrame
  <2>2. job[w] \in Drills
    BY <2>1 DEF Frame, Placed, Busy
  <2>3. WorkerInv(w)'
    BY <1>2, <2>2, OwnWorker
  <2>4. ASSUME NEW v \in Workers \ {w} PROVE WorkerInv(v)'
    <3>1. pc'[v] = pc[v] /\ job'[v] = job[v] /\ UNCHANGED input
      BY <2>1, <2>4 DEF Frame
    <3>2. CASE pc[v] \in Begun
      <4>1. job[v] \in Drills \ {job[w]}
        BY <1>p, <2>2, <2>4, <3>2, DrillsAssumption DEF Placed, OnePlace, Busy
      <4>2. SameRow(job[v])
        BY <2>1, <4>1 DEF Frame
      <4> QED
        BY <3>1, <4>2 DEF WorkerInv, SameRow
    <3>3. CASE pc[v] \notin Begun
      BY <1>p, <3>1, <3>3 DEF WorkerInv
    <3> QED
      BY <3>2, <3>3
  <2>5. ASSUME NEW e \in Drills PROVE RowInv(e)'
    <3>1. CASE e = job[w]
      BY <1>2, <3>1, OwnRow
    <3>2. CASE e # job[w]
      BY <2>1, <3>2 DEF Frame, SameRow, RowInv
    <3> QED
      BY <3>1, <3>2
  <2> QED
    BY <2>3, <2>4, <2>5
<1> QED
  BY <1>1, <1>2 DEF worker

LEMMA IndNext == IndInv /\ [Next]_vars => IndInv'
<1> SUFFICES ASSUME IndInv, [Next]_vars PROVE IndInv'
  OBVIOUS
<1> USE DEF dbVars, world, http, pool, local
<1>1. TypeOK' /\ Placed'
  BY TypeNext, PlacedNext DEF IndInv
<1> DEFINE Rest == /\ \A w \in Workers : WorkerInv(w)
                   /\ \A d \in Drills : RowInv(d)
<1>2. ASSUME NEW d \in Drills, Handlers(d) PROVE Rest'
  BY <1>2, IndHandlers
<1>3. ASSUME NEW w \in Workers, worker(w) PROVE Rest'
  BY <1>3, IndWorker
<1>4. ASSUME Restart PROVE Rest'
  BY <1>4 DEF IndInv, Restart, WorkerInv, RowInv, Begun, After1, After2, After3,
              After4, After5
<1>5. ASSUME UNCHANGED <<dbVars, pc, job>> PROVE Rest'
  BY <1>5 DEF IndInv, WorkerInv, RowInv
<1>6. Rest'
  BY <1>2, <1>3, <1>4, <1>5 DEF Next, Deadline, Close, vars
<1> QED
  BY <1>1, <1>6 DEF IndInv

\* A positive verdict is earned, for every kind of snapshot and policy: the
\* artifact had the snapshot's checksum if there is one, the restore went through,
\* all five steps are on the timeline, and VERIFIED is written only if no required
\* check was left out.
THEOREM VerdictsAreEarned == Spec => []VerdictEarned
<1>1. IndInv => VerdictEarned
  BY DEF IndInv, RowInv, VerdictEarned
<1> QED
  BY <1>1, IndInit, IndNext, PTL DEF Spec

-----------------------------------------------------------------------------
(***************************************************************************)
(* The refinement: rows behave as DrillLifecycle says.                     *)
(***************************************************************************)
LEMMA LifecycleInit == Init => Lifecycle!Init
BY DEF Init, Lifecycle!Init, Lifecycle!Absent, Lifecycle!Null, Absent, Null

\* The two modules read the same transition table.
LEMMA SameTable ==
  /\ Lifecycle!Statuses = Statuses /\ Lifecycle!Active = Active
  /\ Lifecycle!Terminal = Terminal
  /\ \A from, to : Lifecycle!CanTransition(from, to) <=> CanTransition(from, to)
BY DEF Lifecycle!Statuses, Lifecycle!Active, Lifecycle!Terminal, Lifecycle!CanTransition,
       Lifecycle!transitions, Lifecycle!Aborts, Statuses, Active, Terminal,
       CanTransition, transitions, Aborts

\* What the table says of the statuses at which a run or a user gives up.
LEMMA Abortable ==
  /\ \A s \in Active : CanTransition(s, "CANCELLED")
  /\ \A s \in Active \ {"QUEUED"}, to \in Aborts : CanTransition(s, to)
  /\ CanTransition("FINALIZING", "SUCCEEDED")
BY DEF CanTransition, transitions, Statuses, Active, Terminal, Aborts

LEMMA AdvanceStep ==
  ASSUME NEW d \in Drills, NEW to \in Active, CanTransition(status[d], to),
         status' = [status EXCEPT ![d] = to], UNCHANGED <<verdict, evidence>>
  PROVE  Lifecycle!Next
<1>1. Lifecycle!Advance(d, to)
  BY SameTable DEF Lifecycle!Advance
<1> QED
  BY <1>1, SameTable DEF Lifecycle!Next, Statuses

LEMMA EndStep ==
  ASSUME NEW d \in Drills, NEW to \in Terminal, CanTransition(status[d], to),
         NEW v \in Lifecycle!VerdictsOf(to),
         status' = [status EXCEPT ![d] = to],
         verdict' = [verdict EXCEPT ![d] = v],
         evidence' = [evidence EXCEPT ![d] = (to = "SUCCEEDED")]
  PROVE  Lifecycle!Next
<1>1. Lifecycle!End(d, to)
  BY SameTable DEF Lifecycle!End
<1> QED
  BY <1>1, SameTable DEF Lifecycle!Next, Statuses

LEMMA TransitionStep ==
  ASSUME NEW w \in Workers, job[w] \in Drills, NEW at, NEW to \in Active,
         NEW sequence, NEW next, transition(w, at, to, sequence, next)
  PROVE  Lifecycle!Next \/ UNCHANGED <<status, verdict, evidence>>
BY AdvanceStep DEF transition, Move

\* setTerminal and the statements that fail ends a drill that has begun.
LEMMA AbortStep ==
  ASSUME NEW d \in Drills, TypeOK, RowInv(d), NEW to \in Aborts,
         status[d] \notin {Absent, "QUEUED"}, WriteTerminal(d, to),
         UNCHANGED evidence
  PROVE  Lifecycle!Next \/ UNCHANGED <<status, verdict, evidence>>
<1>1. CASE status[d] \in Terminal
  BY <1>1 DEF WriteTerminal, TypeOK
<1>2. CASE status[d] \notin Terminal
  <2>1. status[d] \in Active \ {"QUEUED"}
    BY <1>2 DEF TypeOK, Statuses
  <2>2. CanTransition(status[d], to) /\ to \in Terminal /\ to # "SUCCEEDED"
    BY <2>1, Abortable DEF Aborts, Terminal
  <2> DEFINE v == IF to = "FAILED" THEN "FAILED" ELSE "INCONCLUSIVE"
  <2>3. v \in Lifecycle!VerdictsOf(to)
    BY DEF Lifecycle!VerdictsOf, Aborts
  <2>4. /\ status' = [status EXCEPT ![d] = to]
        /\ verdict' = [verdict EXCEPT ![d] = v]
    BY <1>2 DEF WriteTerminal
  <2>5. evidence' = [evidence EXCEPT ![d] = (to = "SUCCEEDED")]
    <3>1. evidence[d] = FALSE
      BY <1>2 DEF RowInv, TypeOK
    <3> QED
      BY <2>2, <3>1 DEF TypeOK
  <2> QED
    BY <2>2, <2>3, <2>4, <2>5, EndStep
<1> QED
  BY <1>1, <1>2

LEMMA LifecycleHandlers ==
  ASSUME NEW d \in Drills, IndInv, Handlers(d)
  PROVE  Lifecycle!Next \/ UNCHANGED <<status, verdict, evidence>>
<1> USE DEF dbVars
<1>1. CASE CreateDrill(d)
  <2>1. Lifecycle!Create(d)
    BY <1>1 DEF CreateDrill, Lifecycle!Create, Lifecycle!Absent, Absent
  <2> QED
    BY <2>1 DEF Lifecycle!Next
<1>2. CASE CancelDrill(d)
  <2>1. UNCHANGED <<verdict, evidence>>
    BY <1>2 DEF CancelDrill
  <2>2. CASE status' = [status EXCEPT ![d] = "CANCELLED"] /\ status[d] \in Active
    <3>1. verdict[d] = Null /\ evidence[d] = FALSE
      BY <2>2 DEF IndInv, RowInv, TypeOK, Active, Terminal
    <3>2. /\ verdict' = [verdict EXCEPT ![d] = Null]
          /\ evidence' = [evidence EXCEPT ![d] = FALSE]
      BY <2>1, <3>1 DEF IndInv, TypeOK
    <3>3. Null \in Lifecycle!VerdictsOf("CANCELLED")
      BY DEF Lifecycle!VerdictsOf, Lifecycle!Null, Null
    <3>4. "CANCELLED" \in Terminal /\ ("CANCELLED" = "SUCCEEDED") = FALSE
      BY DEF Terminal
    <3>5. CanTransition(status[d], "CANCELLED")
      BY <2>2, Abortable
    <3>6. evidence' = [evidence EXCEPT ![d] = ("CANCELLED" = "SUCCEEDED")]
      BY <3>2, <3>4
    <3> QED
      BY <2>2, <3>2, <3>3, <3>4, <3>5, <3>6, EndStep
  <2>3. CASE UNCHANGED status
    BY <2>1, <2>3
  <2>4. status' = status \/ (status' = [status EXCEPT ![d] = "CANCELLED"] /\ status[d] \in Active)
    BY <1>2 DEF CancelDrill, IndInv, TypeOK
  <2> QED
    BY <2>2, <2>3, <2>4
<1>3. CASE UNCHANGED <<status, verdict, evidence>>
  BY <1>3
<1> QED
  BY <1>1, <1>2, <1>3 DEF Handlers, SubmitDrill, RepeatDrill, SignalCancel

LEMMA LifecycleRun ==
  ASSUME NEW w \in Workers, NEW d \in Drills, job[w] = d, IndInv, run(w)
  PROVE  Lifecycle!Next \/ UNCHANGED <<status, verdict, evidence>>
<1> USE DEF dbVars
<1>i. TypeOK /\ WorkerInv(w) /\ RowInv(d)
  BY DEF IndInv
<1>1. CASE Prepare(w)
  BY <1>1, TransitionStep DEF Prepare, Active
<1>2. CASE StartRestoring(w)
  BY <1>2, TransitionStep DEF StartRestoring, Active
<1>3. CASE StartValidating(w)
  BY <1>3, TransitionStep DEF StartValidating, Active
<1>4. CASE StartFinalizing(w)
  BY <1>4, TransitionStep DEF StartFinalizing, Active
<1>5. CASE EndInconclusive(w)
  <2>1. status[d] \notin {Absent, "QUEUED"} /\ UNCHANGED evidence
    BY <1>5, <1>i DEF EndInconclusive, WorkerInv, Begun
  <2>2. CASE WriteTerminal(d, "INCONCLUSIVE")
    BY <1>i, <2>1, <2>2, AbortStep DEF Aborts
  <2> QED
    BY <1>5, <2>1, <2>2 DEF EndInconclusive, setTerminal
<1>6. CASE FailDrill(w)
  <2>1. status[d] \notin {Absent, "QUEUED"} /\ UNCHANGED evidence
    BY <1>6, <1>i DEF FailDrill, WorkerInv, Begun
  <2>2. ASSUME NEW to \in {"CANCELLED", "FAILED"}, WriteTerminal(d, to)
        PROVE  Lifecycle!Next \/ UNCHANGED <<status, verdict, evidence>>
    BY <1>i, <2>1, <2>2, AbortStep DEF Aborts
  <2> QED
    BY <1>6, <2>1, <2>2 DEF FailDrill, setTerminal
<1>7. CASE CommitFinal(w)
  <2>1. status[d] = "FINALIZING"
    BY <1>7, <1>i DEF CommitFinal, WorkerInv
  <2>2. CASE Finalized(d)
    <3> DEFINE v == FinalVerdict(required(d)).assessment
    <3>1. v \in Lifecycle!VerdictsOf("SUCCEEDED")
      BY VerdictType DEF Lifecycle!VerdictsOf
    <3>2. "SUCCEEDED" \in Terminal /\ CanTransition(status[d], "SUCCEEDED")
      BY <2>1, Abortable DEF Terminal
    <3>3. /\ status' = [status EXCEPT ![d] = "SUCCEEDED"]
          /\ verdict' = [verdict EXCEPT ![d] = v]
          /\ evidence' = [evidence EXCEPT ![d] = ("SUCCEEDED" = "SUCCEEDED")]
      BY <2>2 DEF Finalized
    <3> QED
      BY <3>1, <3>2, <3>3, EndStep
  <2> QED
    BY <1>7, <2>2 DEF CommitFinal
<1>8. CASE UNCHANGED <<status, verdict, evidence>>
  BY <1>8
<1> QED
  BY <1>1, <1>2, <1>3, <1>4, <1>5, <1>6, <1>7, <1>8
  DEF run, Register, LoadDrill, FetchBackup, CreateSandbox, PersistSandbox,
      RecordSandboxStep, Restore, ValidateConnectivity, PutEvidence,
      DestroySandbox, MarkDestroyed, FinalizeUpdate, DeleteEvidence, Cleanup,
      CleanupRow, Unregister

LEMMA LifecycleNext == IndInv /\ [Next]_vars => [Lifecycle!Next]_(Lifecycle!vars)
<1> SUFFICES ASSUME IndInv, [Next]_vars
             PROVE  Lifecycle!Next \/ UNCHANGED <<status, verdict, evidence>>
  BY DEF Lifecycle!vars
<1> USE DEF dbVars
<1>1. ASSUME NEW d \in Drills, Handlers(d)
      PROVE  Lifecycle!Next \/ UNCHANGED <<status, verdict, evidence>>
  BY <1>1, LifecycleHandlers
<1>2. ASSUME NEW w \in Workers, run(w)
      PROVE  Lifecycle!Next \/ UNCHANGED <<status, verdict, evidence>>
  <2>1. job[w] \in Drills
    BY <1>2, RunFrame DEF IndInv, Frame, Placed, Busy
  <2> QED
    BY <1>2, <2>1, LifecycleRun
<1>3. CASE UNCHANGED <<status, verdict, evidence>>
  BY <1>3
<1> QED
  BY <1>1, <1>2, <1>3
  DEF Next, worker, Dequeue, StopWorker, Deadline, Close, Restart, vars

\* Handlers, workers, database, Docker and storage together implement the
\* lifecycle of a drill: no status is skipped, a terminal row never changes,
\* and verdict and evidence appear in the step that ends the drill, for every
\* interleaving, fault and restart.
THEOREM ImplementsLifecycle == Spec => RefinesLifecycle
<1> QED
  BY LifecycleInit, LifecycleNext, IndInit, IndNext, PTL
  DEF Spec, RefinesLifecycle, Lifecycle!Spec

-----------------------------------------------------------------------------
(***************************************************************************)
(* What a run does outside of the database: the inductive invariant behind *)
(* the promises about sandboxes, evidence objects and events.  It adds to  *)
(* IndInv what holds of the drill's sandbox, object, sandbox row, evidence *)
(* rows and events at each point of run; drills that no run has reached    *)
(* are untouched, and what a run leaves behind is what UnitInv says.       *)
(***************************************************************************)

\* No run has made anything of the drill yet.
Untouched(d) ==
  /\ ~sandbox[d] /\ ~object[d] /\ ~evidence[d]
  /\ sboxRow[d] = Absent
  /\ announced[d] = {}

\* A drill that still waits for a worker is untouched.
Fresh ==
  \A d \in Drills :
    \/ status[d] = Absent
    \/ pending[d]
    \/ \E i \in DOMAIN queue : queue[i] = d
    => Untouched(d)

\* Points before Executor.Create has returned, points at which run owes a
\* Destroy, points on the way to success at which it has made it good.
Early == {"start", "prepare", "load", "inconclusive", "fetch", "create"}
WithSandbox ==
  {"persist", "recordStep", "toRestoring", "restore", "toValidating",
   "validate", "toFinalizing", "put"}
Destroyed == {"markDestroyed", "finalize", "commit"}

\* Points at which it is open whether run owes a Destroy.
Bailing == {"compensate", "fail"}

RunInv(w) ==
  LET d == job[w] IN
  /\ pc[w] \in WithSandbox \cup {"destroy", "cleanup"} => owns[w]
  /\ pc[w] \notin WithSandbox \cup {"destroy", "cleanup"} \cup Bailing => ~owns[w]
  /\ pc[w] \in Early => Untouched(d)
  /\ pc[w] \in WithSandbox \cup {"destroy"} \cup Destroyed => ~evidence[d]
  /\ pc[w] \in WithSandbox \cup {"destroy"} \cup Destroyed \cup Bailing =>
       announced[d] = {}
  /\ pc[w] \in WithSandbox => ~object[d]
  /\ pc[w] \in {"destroy"} \cup Destroyed => object[d]
  /\ pc[w] \in Destroyed => ~sandbox[d]
  /\ pc[w] = "compensate" /\ evidence[d] => LostReply
  /\ "docker" \notin faults => (pc[w] = "cleanupRow" => ~sandbox[d])
  /\ Spared({"docker", "lostReply"}) =>
       (pc[w] \in Bailing \cup {"unregister"} /\ ~owns[w] => ~sandbox[d])
  /\ Spared({"storage", "lostReply"}) =>
       /\ pc[w] \in {"fail", "cleanup", "cleanupRow"} => ~object[d]
       /\ pc[w] = "unregister" /\ object[d] => evidence[d]

\* What holds of a drill at all times, with a worker or without.
UnitInv(d) ==
  /\ evidence[d] <=> status[d] = "SUCCEEDED"
  /\ evidence[d] => ~sandbox[d]
  /\ "lostReply" \notin faults => (evidence[d] => object[d])
  /\ "docker" \notin faults => (sboxRow[d] = "DESTROYED" => ~sandbox[d])
  /\ "SUCCEEDED" \in announced[d] => evidence[d] /\ announced[d] = {"SUCCEEDED"}
  /\ Spared({"docker", "storage", "lostReply", "restart"}) /\ ~Held(d) =>
       ~sandbox[d] /\ (object[d] => evidence[d])

WorldInv ==
  /\ Fresh
  /\ \A w \in Workers : RunInv(w)
  /\ \A d \in Drills : UnitInv(d)

-----------------------------------------------------------------------------
\* A step of run leaves the world of other drills and the debts of other
\* workers alone.
SameWorld(d) ==
  /\ sandbox'[d] = sandbox[d] /\ object'[d] = object[d]
  /\ sboxRow'[d] = sboxRow[d] /\ announced'[d] = announced[d]

WorldFrame(w) ==
  /\ \A v \in Workers \ {w} : owns'[v] = owns[v]
  /\ \A d \in Drills \ {job[w]} : SameWorld(d)
  /\ UNCHANGED faults

LEMMA RunWorldFrame ==
  ASSUME NEW w \in Workers, TypeOK, run(w)
  PROVE  WorldFrame(w)
<1> USE DEF WorldFrame, SameWorld, TypeOK, dbVars, world, local
<1>1. CASE Register(w)
  BY <1>1 DEF Register
<1>2. CASE Prepare(w)
  BY <1>2 DEF Prepare, transition, Move
<1>3. CASE LoadDrill(w)
  BY <1>3 DEF LoadDrill
<1>4. CASE EndInconclusive(w)
  BY <1>4 DEF EndInconclusive, setTerminal, WriteTerminal
<1>5. CASE FetchBackup(w)
  BY <1>5 DEF FetchBackup
<1>6. CASE CreateSandbox(w)
  BY <1>6 DEF CreateSandbox
<1>7. CASE PersistSandbox(w)
  BY <1>7 DEF PersistSandbox
<1>8. CASE RecordSandboxStep(w)
  BY <1>8 DEF RecordSandboxStep
<1>9. CASE StartRestoring(w)
  BY <1>9 DEF StartRestoring, transition, Move
<1>10. CASE Restore(w)
  BY <1>10 DEF Restore
<1>11. CASE StartValidating(w)
  BY <1>11 DEF StartValidating, transition, Move
<1>12. CASE ValidateConnectivity(w)
  BY <1>12 DEF ValidateConnectivity
<1>13. CASE StartFinalizing(w)
  BY <1>13 DEF StartFinalizing, transition, Move
<1>14. CASE PutEvidence(w)
  BY <1>14 DEF PutEvidence
<1>15. CASE DestroySandbox(w)
  BY <1>15 DEF DestroySandbox
<1>16. CASE MarkDestroyed(w)
  BY <1>16 DEF MarkDestroyed
<1>17. CASE FinalizeUpdate(w)
  BY <1>17 DEF FinalizeUpdate
<1>18. CASE CommitFinal(w)
  BY <1>18 DEF CommitFinal, Finalized
<1>19. CASE DeleteEvidence(w)
  BY <1>19 DEF DeleteEvidence
<1>20. CASE FailDrill(w)
  BY <1>20 DEF FailDrill, setTerminal, WriteTerminal
<1>21. CASE Cleanup(w)
  BY <1>21 DEF Cleanup
<1>22. CASE CleanupRow(w)
  BY <1>22 DEF CleanupRow
<1>23. CASE Unregister(w)
  <2>1. UNCHANGED <<sandbox, object, sboxRow, announced, owns, faults>>
    BY <1>23, Zenon DEF Unregister
  <2> QED
    BY <2>1
<1> QED
  BY <1>1, <1>2, <1>3, <1>4, <1>5, <1>6, <1>7, <1>8, <1>9, <1>10, <1>11,
     <1>12, <1>13, <1>14, <1>15, <1>16, <1>17, <1>18, <1>19, <1>20, <1>21,
     <1>22, <1>23
  DEF run

\* Each step of run takes its own worker from RunInv to RunInv.
LEMMA OwnRun ==
  ASSUME NEW w \in Workers, TypeOK, job[w] \in Drills, RunInv(w), run(w)
  PROVE  RunInv(w)'
<1> USE DEF RunInv, Untouched, TypeOK, Goto, Leave, LostReply, Spared,
            dbVars, world, http, pool, local, Early, WithSandbox, Destroyed, Bailing
<1>1. CASE Register(w)
  BY <1>1 DEF Register
<1>2. CASE Prepare(w)
  BY <1>2 DEF Prepare, transition, Move
<1>3. CASE LoadDrill(w)
  BY <1>3 DEF LoadDrill
<1>4. CASE EndInconclusive(w)
  BY <1>4 DEF EndInconclusive, setTerminal, WriteTerminal
<1>5. CASE FetchBackup(w)
  BY <1>5 DEF FetchBackup
<1>6. CASE CreateSandbox(w)
  BY <1>6 DEF CreateSandbox
<1>7. CASE PersistSandbox(w)
  BY <1>7 DEF PersistSandbox
<1>8. CASE RecordSandboxStep(w)
  BY <1>8 DEF RecordSandboxStep
<1>9. CASE StartRestoring(w)
  BY <1>9 DEF StartRestoring, transition, Move
<1>10. CASE Restore(w)
  BY <1>10 DEF Restore
<1>11. CASE StartValidating(w)
  BY <1>11 DEF StartValidating, transition, Move
<1>12. CASE ValidateConnectivity(w)
  BY <1>12 DEF ValidateConnectivity
<1>13. CASE StartFinalizing(w)
  BY <1>13 DEF StartFinalizing, transition, Move
<1>14. CASE PutEvidence(w)
  BY <1>14 DEF PutEvidence
<1>15. CASE DestroySandbox(w)
  BY <1>15 DEF DestroySandbox
<1>16. CASE MarkDestroyed(w)
  BY <1>16 DEF MarkDestroyed
<1>17. CASE FinalizeUpdate(w)
  BY <1>17 DEF FinalizeUpdate
<1>18. CASE CommitFinal(w)
  BY <1>18 DEF CommitFinal, Finalized
<1>19. CASE DeleteEvidence(w)
  BY <1>19 DEF DeleteEvidence
<1>20. CASE FailDrill(w)
  BY <1>20 DEF FailDrill, setTerminal, WriteTerminal
<1>21. CASE Cleanup(w)
  BY <1>21 DEF Cleanup
<1>22. CASE CleanupRow(w)
  BY <1>22 DEF CleanupRow
<1>23. CASE Unregister(w)
  BY <1>23 DEF Unregister
<1> QED
  BY <1>1, <1>2, <1>3, <1>4, <1>5, <1>6, <1>7, <1>8, <1>9, <1>10, <1>11,
     <1>12, <1>13, <1>14, <1>15, <1>16, <1>17, <1>18, <1>19, <1>20, <1>21,
     <1>22, <1>23
  DEF run

LEMMA OwnUnit ==
  ASSUME NEW w \in Workers, NEW d \in Drills, job[w] = d, TypeOK,
         WorkerInv(w), RunInv(w), UnitInv(d), run(w)
  PROVE  UnitInv(d)'
<1> USE DEF UnitInv, RunInv, Untouched, Held, TypeOK, Goto, Leave,
            LostReply, Spared, dbVars, world, http, pool, local,
            Early, WithSandbox, Destroyed, Bailing
<1>1. CASE Register(w)
  BY <1>1 DEF Register
<1>2. CASE Prepare(w)
  BY <1>2 DEF Prepare, transition, Move, CanTransition, transitions,
              Active, Aborts, Terminal, Statuses
<1>3. CASE LoadDrill(w)
  BY <1>3 DEF LoadDrill
<1>4. CASE EndInconclusive(w)
  BY <1>4 DEF EndInconclusive, setTerminal, WriteTerminal, Terminal
<1>5. CASE FetchBackup(w)
  BY <1>5 DEF FetchBackup
<1>6. CASE CreateSandbox(w)
  BY <1>6 DEF CreateSandbox, Absent
<1>7. CASE PersistSandbox(w)
  BY <1>7 DEF PersistSandbox
<1>8. CASE RecordSandboxStep(w)
  BY <1>8 DEF RecordSandboxStep
<1>9. CASE StartRestoring(w)
  BY <1>9 DEF StartRestoring, transition, Move, CanTransition, transitions,
              Active, Aborts, Terminal, Statuses
<1>10. CASE Restore(w)
  BY <1>10 DEF Restore
<1>11. CASE StartValidating(w)
  BY <1>11 DEF StartValidating, transition, Move, CanTransition, transitions,
              Active, Aborts, Terminal, Statuses
<1>12. CASE ValidateConnectivity(w)
  BY <1>12 DEF ValidateConnectivity
<1>13. CASE StartFinalizing(w)
  BY <1>13 DEF StartFinalizing, transition, Move, CanTransition, transitions,
              Active, Aborts, Terminal, Statuses
<1>14. CASE PutEvidence(w)
  BY <1>14 DEF PutEvidence
<1>15. CASE DestroySandbox(w)
  BY <1>15 DEF DestroySandbox
<1>16. CASE MarkDestroyed(w)
  BY <1>16 DEF MarkDestroyed
<1>17. CASE FinalizeUpdate(w)
  BY <1>17 DEF FinalizeUpdate
<1>18. CASE CommitFinal(w)
  BY <1>18 DEF CommitFinal, Finalized, WorkerInv
<1>19. CASE DeleteEvidence(w)
  BY <1>19 DEF DeleteEvidence
<1>20. CASE FailDrill(w)
  BY <1>20 DEF FailDrill, setTerminal, WriteTerminal, Terminal
<1>21. CASE Cleanup(w)
  BY <1>21 DEF Cleanup
<1>22. CASE CleanupRow(w)
  BY <1>22 DEF CleanupRow
<1>23. CASE Unregister(w)
  BY <1>23 DEF Unregister
<1> QED
  BY <1>1, <1>2, <1>3, <1>4, <1>5, <1>6, <1>7, <1>8, <1>9, <1>10, <1>11,
     <1>12, <1>13, <1>14, <1>15, <1>16, <1>17, <1>18, <1>19, <1>20, <1>21,
     <1>22, <1>23
  DEF run

LEMMA WorldInit == Init => WorldInv
BY DEF Init, WorldInv, Fresh, Untouched, RunInv, UnitInv, Early, WithSandbox,
       Destroyed, Bailing, Absent

\* A handler hands over untouched drills and cancels rows; it touches nothing
\* else that WorldInv speaks of.
LEMMA WorldHandlers ==
  ASSUME NEW d \in Drills, IndInv, WorldInv, Handlers(d)
  PROVE  WorldInv'
<1> USE DEF IndInv, TypeOK, dbVars, world, http, pool, local
<1>1. /\ UNCHANGED <<evidence, sboxRow, world, pc, job, owns, announced, faults>>
      /\ \A e \in Drills : Untouched(e)' <=> Untouched(e)
      /\ \A e \in Drills : Held(e)' <=> Held(e)
  BY DEF Handlers, CreateDrill, SubmitDrill, RepeatDrill, SignalCancel, CancelDrill,
         Untouched, Held
<1>2. \A e \in Drills : status'[e] = "SUCCEEDED" <=> status[e] = "SUCCEEDED"
  BY DEF Handlers, CreateDrill, SubmitDrill, RepeatDrill, SignalCancel, CancelDrill,
         Absent, Active
<1>3. \A w \in Workers : RunInv(w)'
  BY <1>1 DEF WorldInv, RunInv, Untouched, Spared, LostReply
<1>4. \A e \in Drills : UnitInv(e)'
  BY <1>1, <1>2 DEF WorldInv, UnitInv, Spared
<1>5. Fresh'
  <2>1. CASE CreateDrill(d)
    <3>1. /\ Untouched(d) /\ UNCHANGED queue
          /\ \A e \in Drills \ {d} : status'[e] = status[e] /\ pending'[e] = pending[e]
      BY <2>1 DEF CreateDrill, WorldInv, Fresh
    <3> QED
      BY <1>1, <3>1 DEF WorldInv, Fresh
  <2>2. CASE SubmitDrill(d)
    <3>1. /\ Untouched(d) /\ UNCHANGED status
          /\ \A e \in Drills : pending'[e] => pending[e]
      BY <2>2 DEF SubmitDrill, WorldInv, Fresh
    <3>2. \A i \in DOMAIN queue' : queue'[i] # d => i \in DOMAIN queue /\ queue'[i] = queue[i]
      <4>1. queue \in Seq(Drills) /\ (queue' = queue \/ queue' = Append(queue, d))
        BY <2>2 DEF SubmitDrill
      <4> HIDE DEF IndInv, TypeOK
      <4> QED
        BY <4>1
    <3> QED
      BY <1>1, <3>1, <3>2 DEF WorldInv, Fresh
  <2>3. CASE CancelDrill(d)
    <3>1. \A e \in Drills : status'[e] = Absent => status[e] = Absent
      BY <2>3 DEF CancelDrill, Absent
    <3> QED
      BY <1>1, <2>3, <3>1 DEF CancelDrill, WorldInv, Fresh
  <2>4. CASE UNCHANGED <<status, pending, queue>>
    BY <1>1, <2>4 DEF WorldInv, Fresh
  <2> QED
    BY <2>1, <2>2, <2>3, <2>4 DEF Handlers, RepeatDrill, SignalCancel
<1> QED
  BY <1>3, <1>4, <1>5 DEF WorldInv

LEMMA WorldWorker ==
  ASSUME NEW w \in Workers, IndInv, WorldInv, worker(w)
  PROVE  WorldInv'
<1> USE DEF IndInv, dbVars, world, http, pool, local
<1>1. CASE Dequeue(w)
  <2>1. /\ UNCHANGED <<dbVars, world, pending, owns, announced, faults>>
        /\ queue[1] \in Drills /\ 1 \in DOMAIN queue
        /\ pc[w] = "idle" /\ pc'[w] = "start" /\ job'[w] = queue[1]
        /\ \A v \in Workers \ {w} : pc'[v] = pc[v] /\ job'[v] = job[v]
    BY <1>1 DEF Dequeue, Goto, TypeOK
  <2>2. \A i \in DOMAIN queue' : i + 1 \in DOMAIN queue /\ queue'[i] = queue[i + 1]
    BY <1>1 DEF Dequeue, TypeOK
  <2>3. Untouched(queue[1]) /\ \A d \in Drills : Untouched(d)' <=> Untouched(d)
    BY <2>1 DEF WorldInv, Fresh, Untouched
  <2>4. Fresh'
    BY <2>1, <2>2, <2>3 DEF WorldInv, Fresh
  <2>5. \A v \in Workers : RunInv(v)'
    <3>1. RunInv(w)'
      BY <2>1, <2>3 DEF WorldInv, RunInv, Early, WithSandbox, Destroyed, Bailing
    <3>2. ASSUME NEW v \in Workers \ {w} PROVE RunInv(v)'
      BY <2>1, <3>2 DEF WorldInv, RunInv, Untouched, Spared, LostReply
    <3> QED
      BY <3>1, <3>2
  <2>6. \A d \in Drills : Held(d) => Held(d)'
    BY <1>1, <2>1, DrillsAssumption DEF Held, Placed, Idle, Parked
  <2>7. \A d \in Drills : UnitInv(d)'
    BY <2>1, <2>6 DEF WorldInv, UnitInv, Spared
  <2> QED
    BY <2>4, <2>5, <2>7 DEF WorldInv
<1>2. CASE StopWorker(w)
  <2>1. /\ UNCHANGED <<dbVars, world, http, queue, job, owns, announced, faults>>
        /\ pc[w] = "idle" /\ pc'[w] = "stopped"
        /\ \A v \in Workers \ {w} : pc'[v] = pc[v]
    BY <1>2 DEF StopWorker, Goto, TypeOK
  <2>2. Fresh'
    BY <2>1 DEF WorldInv, Fresh, Untouched
  <2>3. \A v \in Workers : RunInv(v)'
    BY <2>1 DEF WorldInv, RunInv, Untouched, Spared, LostReply, Early, WithSandbox,
                Destroyed, Bailing
  <2>4. \A d \in Drills : UnitInv(d)'
    BY <2>1 DEF WorldInv, UnitInv, Spared, Held
  <2> QED
    BY <2>2, <2>3, <2>4 DEF WorldInv
<1>3. CASE run(w)
  <2>1. Frame(w) /\ WorldFrame(w)
    BY <1>3, RunFrame, RunWorldFrame
  <2>2. job[w] \in Drills
    BY <2>1 DEF Frame, Placed, Busy
  <2>3. \A d \in Drills \ {job[w]} : SameWorld(d) /\ SameRow(d)
    BY <2>1 DEF Frame, WorldFrame
  <2>4. Fresh'
    <3>1. /\ status[job[w]] # Absent /\ ~pending[job[w]]
          /\ \A i \in DOMAIN queue : queue[i] # job[w]
      BY <2>2 DEF Placed, OnePlace, NotYet, Nowhere
    <3> QED
      BY <2>1, <2>3, <3>1 DEF Frame, WorldInv, Fresh, Untouched, SameWorld, SameRow
  <2>5. RunInv(w)'
    BY <1>3, <2>2, OwnRun DEF WorldInv
  <2>6. ASSUME NEW v \in Workers \ {w} PROVE RunInv(v)'
    <3>1. /\ pc'[v] = pc[v] /\ job'[v] = job[v] /\ owns'[v] = owns[v]
          /\ UNCHANGED faults
      BY <2>1, <2>6 DEF Frame, WorldFrame
    <3>2. CASE pc[v] \in Parked
      BY <3>1, <3>2 DEF WorldInv, RunInv, Parked, Early, WithSandbox, Destroyed, Bailing
    <3>3. CASE pc[v] \notin Parked
      <4>1. job[v] \in Drills \ {job[w]}
        BY <2>2, <2>6, <3>3, DrillsAssumption DEF Placed, OnePlace, Busy
      <4>2. SameWorld(job[v]) /\ SameRow(job[v])
        BY <2>3, <4>1
      <4> QED
        BY <3>1, <4>2 DEF WorldInv, RunInv, Untouched, Spared, LostReply, SameWorld, SameRow
    <3> QED
      BY <3>2, <3>3
  <2>7. ASSUME NEW d \in Drills PROVE UnitInv(d)'
    <3>1. CASE d = job[w]
      BY <1>3, <3>1, OwnUnit DEF WorldInv
    <3>2. CASE d # job[w]
      <4>1. SameWorld(d) /\ SameRow(d) /\ UNCHANGED faults
        BY <2>1, <2>3, <3>2 DEF WorldFrame
      <4>2. Held(d) => Held(d)'
        BY <2>1, <3>2 DEF Frame, Held
      <4> QED
        BY <4>1, <4>2 DEF WorldInv, UnitInv, Spared, SameWorld, SameRow
    <3> QED
      BY <3>1, <3>2
  <2> QED
    BY <2>4, <2>5, <2>6, <2>7 DEF WorldInv
<1> QED
  BY <1>1, <1>2, <1>3 DEF worker

LEMMA WorldNext == IndInv /\ WorldInv /\ [Next]_vars => WorldInv'
<1> SUFFICES ASSUME IndInv, WorldInv, [Next]_vars PROVE WorldInv'
  OBVIOUS
<1> USE DEF dbVars, world, http, pool, local
<1>1. ASSUME NEW d \in Drills, Handlers(d) PROVE WorldInv'
  BY <1>1, WorldHandlers
<1>2. ASSUME NEW w \in Workers, worker(w) PROVE WorldInv'
  BY <1>2, WorldWorker
<1>3. ASSUME UNCHANGED <<dbVars, world, http, queue, pc, job, owns, announced, faults>>
      PROVE  WorldInv'
  BY <1>3 DEF WorldInv, Fresh, Untouched, RunInv, UnitInv, Spared, LostReply, Held
<1>4. CASE Restart
  <2>1. /\ UNCHANGED <<dbVars, world, announced, faults>>
        /\ queue' = <<>> /\ \A d \in Drills : ~pending'[d]
        /\ \A w \in Workers : pc'[w] = "idle" /\ ~owns'[w]
    BY <1>4 DEF Restart
  <2>2. Fresh'
    BY <2>1 DEF WorldInv, Fresh, Untouched
  <2>3. \A w \in Workers : RunInv(w)'
    BY <2>1 DEF RunInv, Early, WithSandbox, Destroyed, Bailing
  <2>4. "restart" \in faults \/ \A d \in Drills : ~Held(d)
    BY <1>4, DrillsAssumption DEF Restart, Held, IndInv, Placed, Idle, Parked
  <2>5. \A d \in Drills : UnitInv(d)'
    BY <2>1, <2>4 DEF WorldInv, UnitInv, Spared
  <2> QED
    BY <2>2, <2>3, <2>5 DEF WorldInv
<1> QED
  BY <1>1, <1>2, <1>3, <1>4 DEF Next, Deadline, Close, vars

LEMMA WorldAlways == Spec => [](IndInv /\ WorldInv)
<1>1. Init => IndInv /\ WorldInv
  BY IndInit, WorldInit
<1>2. (IndInv /\ WorldInv) /\ [Next]_vars => (IndInv /\ WorldInv)'
  BY IndNext, WorldNext
<1> QED
  BY <1>1, <1>2, PTL DEF Spec

\* A SUCCEEDED drill has no container, network or volume left, whatever
\* failed on the way: run reaches the last transaction only after a Destroy
\* that returned no error.
THEOREM SuccessIsClean == Spec => []SuccessLeavesNoSandbox
<1>1. WorldInv => SuccessLeavesNoSandbox
  BY DEF WorldInv, UnitInv, SuccessLeavesNoSandbox
<1> QED
  BY <1>1, WorldAlways, PTL

\* SUCCEEDED is published only after the commit, and it is the only ending
\* published of that drill: no later failure, cancellation or restart adds one.
THEOREM SuccessIsAnnouncedLast == Spec => []SuccessAnnouncedLast
<1>1. WorldInv => SuccessAnnouncedLast
  BY DEF WorldInv, UnitInv, SuccessAnnouncedLast
<1> QED
  BY <1>1, WorldAlways, PTL

\* Unless the reply to a COMMIT is lost, evidence rows never point at an object
\* that is missing, also when storage, Docker or the database fails.
THEOREM EvidenceIsStored == Spec => []EvidenceStored
<1>1. WorldInv => EvidenceStored
  BY DEF WorldInv, UnitInv, EvidenceStored, EvidenceAlwaysStored
<1> QED
  BY <1>1, WorldAlways, PTL

\* Every return of run cleans up: with Docker and storage that obey, replies
\* that arrive and a process that lives, a drill no worker has owns neither a
\* sandbox nor an object without evidence rows, through database errors,
\* deadlines, cancellations and Close.
THEOREM RunsLeaveNothingBehind == Spec => []NothingLeftBehind
<1>1. WorldInv => NothingLeftBehind
  BY DEF WorldInv, UnitInv, NothingLeftBehind
<1> QED
  BY <1>1, WorldAlways, PTL

\* While Docker obeys, recovery_sandboxes never says DESTROYED of a sandbox
\* that is there.
THEOREM DestroyedRowsAreTrue == Spec => []DestroyedMeansGone
<1>1. WorldInv => DestroyedMeansGone
  BY DEF WorldInv, UnitInv, DestroyedMeansGone, Spared
<1> QED
  BY <1>1, WorldAlways, PTL
=============================================================================
