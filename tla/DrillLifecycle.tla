---------------------------- MODULE DrillLifecycle ----------------------------
(***************************************************************************)
(* What a recovery drill promises to whoever reads its row: it is created  *)
(* QUEUED, moves only along the transition table of the domain, and its    *)
(* verdict and its evidence are written in the very step that ends it.     *)
(* Nothing is said about workers, queues, handlers or failures: this is    *)
(* the abstract specification that DrillWorker implements.                 *)
(***************************************************************************)
EXTENDS RecoveryDomain

CONSTANT Drills

VARIABLES status, verdict, evidence

vars == <<status, verdict, evidence>>

Absent == "ABSENT"

Null == "NULL"

Init ==
  /\ status = [d \in Drills |-> Absent]
  /\ verdict = [d \in Drills |-> Null]
  /\ evidence = [d \in Drills |-> FALSE]

Create(d) ==
  /\ status[d] = Absent
  /\ status' = [status EXCEPT ![d] = "QUEUED"]
  /\ UNCHANGED <<verdict, evidence>>

Advance(d, to) ==
  /\ CanTransition(status[d], to)
  /\ to \in Active
  /\ status' = [status EXCEPT ![d] = to]
  /\ UNCHANGED <<verdict, evidence>>

\* The recovery_status a drill may end with.  A user's cancellation leaves
\* the column NULL, a cancelled run writes INCONCLUSIVE.
VerdictsOf(s) ==
  CASE s = "SUCCEEDED"    -> {"VERIFIED", "PARTIALLY_VERIFIED"}
    [] s = "FAILED"       -> {"FAILED"}
    [] s = "INCONCLUSIVE" -> {"INCONCLUSIVE"}
    [] s = "CANCELLED"    -> {"INCONCLUSIVE", Null}

End(d, to) ==
  /\ CanTransition(status[d], to)
  /\ to \in Terminal
  /\ status' = [status EXCEPT ![d] = to]
  /\ \E v \in VerdictsOf(to) : verdict' = [verdict EXCEPT ![d] = v]
  /\ evidence' = [evidence EXCEPT ![d] = (to = "SUCCEEDED")]

Next ==
  \E d \in Drills :
    \/ Create(d)
    \/ \E to \in Statuses : Advance(d, to) \/ End(d, to)

Spec == Init /\ [][Next]_vars
=============================================================================
