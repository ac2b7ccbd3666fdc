---------------------------- MODULE RecoveryDomain ----------------------------
(***************************************************************************)
(* The pure decisions of backend/internal/domain: the drill state machine, *)
(* the RPO and RTO measurements, the policy verdict on a measurement and   *)
(* the assessment of a list of validation outcomes; and the verdict that   *)
(* the worker writes when it finalises a drill.                            *)
(*                                                                         *)
(* An instant is a natural number of ticks, TicksPerSecond of them to the  *)
(* second, and 0 is Go's zero time.  The measurements truncate to whole    *)
(* seconds, which is why a tick is finer than a second.                    *)
(***************************************************************************)
EXTENDS Integers, Sequences

CONSTANT TicksPerSecond

ASSUME TicksAssumption == TicksPerSecond \in Nat \ {0}

(***************************************************************************)
(* Drill statuses and the transition table.                                *)
(***************************************************************************)
Terminal == {"SUCCEEDED", "FAILED", "CANCELLED", "INCONCLUSIVE"}

Active == {"QUEUED", "PREPARING", "RESTORING", "VALIDATING", "FINALIZING"}

Statuses == Active \cup Terminal

Aborts == {"FAILED", "CANCELLED", "INCONCLUSIVE"}

\* A CASE with one arm per key of the Go map.
transitions ==
  [s \in Statuses |->
     CASE s = "QUEUED"     -> {"PREPARING", "CANCELLED"}
       [] s = "PREPARING"  -> {"RESTORING"} \cup Aborts
       [] s = "RESTORING"  -> {"VALIDATING"} \cup Aborts
       [] s = "VALIDATING" -> {"FINALIZING"} \cup Aborts
       [] s = "FINALIZING" -> {"SUCCEEDED"} \cup Aborts
       [] OTHER            -> {}]

CanTransition(from, to) == from \in Statuses /\ to \in transitions[from]

(***************************************************************************)
(* Objectives.                                                             *)
(***************************************************************************)
PolicyResults == {"PASS", "FAIL", "INCONCLUSIVE"}

\* A measurement: whole seconds and whether they mean anything.  The Go
\* functions return the empty PolicyResult for a measurement that does.
Measured(s) == [seconds |-> s, state |-> "OK"]

Unmeasured == [seconds |-> 0, state |-> "INCONCLUSIVE"]

IsZero(t) == t = 0

\* int64(later.Sub(earlier).Seconds()) for earlier <= later
WholeSeconds(earlier, later) == (later - earlier) \div TicksPerSecond

\* Mutant: a snapshot from the future is measured; Go truncates towards zero,
\* so one less than a second ahead has an age of 0 seconds.
MeasureRPO_NoFutureCheck(drillTime, snapshotTime) ==
  IF IsZero(snapshotTime)
    THEN Unmeasured
    ELSE Measured(IF snapshotTime > drillTime
                    THEN -WholeSeconds(drillTime, snapshotTime)
                    ELSE WholeSeconds(snapshotTime, drillTime))

MeasureRPO(drillTime, snapshotTime) ==
  IF IsZero(snapshotTime) \/ snapshotTime > drillTime
    THEN Unmeasured
    ELSE Measured(WholeSeconds(snapshotTime, drillTime))

MeasureRTO(startedAt, recoveryReadyAt) ==
  IF IsZero(startedAt) \/ IsZero(recoveryReadyAt) \/ recoveryReadyAt < startedAt
    THEN Unmeasured
    ELSE Measured(WholeSeconds(startedAt, recoveryReadyAt))

EvaluatePolicy(measurement, target) ==
  IF measurement.state = "INCONCLUSIVE" \/ measurement.seconds < 0 \/ target <= 0
    THEN "INCONCLUSIVE"
    ELSE IF measurement.seconds <= target THEN "PASS" ELSE "FAIL"

(***************************************************************************)
(* Assessment of validation outcomes.                                      *)
(***************************************************************************)
ValidationStatuses == {"PASS", "FAIL", "WARNING", "INCONCLUSIVE"}

Outcomes == [required : BOOLEAN, status : ValidationStatuses]

Assessments == {"VERIFIED", "PARTIALLY_VERIFIED", "FAILED", "INCONCLUSIVE"}

RequiredFailed(results) ==
  \E i \in DOMAIN results : results[i].required /\ results[i].status = "FAIL"

\* Mutant: only the last outcome decides, as when the flag is reassigned.
Limited_LastOnly(results) ==
  /\ results # <<>>
  /\ LET last == results[Len(results)] IN
       \/ last.status \in {"WARNING", "INCONCLUSIVE"}
       \/ ~last.required /\ last.status = "FAIL"

\* Mutant: an inconclusive check is not a limitation.
Limited_IgnoresInconclusive(results) ==
  \E i \in DOMAIN results :
    \/ results[i].status = "WARNING"
    \/ ~results[i].required /\ results[i].status = "FAIL"

Limited(results) ==
  \E i \in DOMAIN results :
    \/ results[i].status \in {"WARNING", "INCONCLUSIVE"}
    \/ ~results[i].required /\ results[i].status = "FAIL"

Verdict(assessment, confidence) ==
  [assessment |-> assessment, confidence |-> confidence]

Assess(restorePassed, results, evidenceIntegrity) ==
  CASE ~restorePassed -> Verdict("FAILED", "LOW")
    [] restorePassed /\ results = <<>> -> Verdict("INCONCLUSIVE", "LOW")
    [] restorePassed /\ RequiredFailed(results) -> Verdict("FAILED", "LOW")
    [] OTHER ->
         IF Limited(results) \/ ~evidenceIntegrity
           THEN Verdict("PARTIALLY_VERIFIED", "MEDIUM")
           ELSE Verdict("VERIFIED", "HIGH")

(***************************************************************************)
(* What WorkerPool.run writes for a drill that reached FINALIZING: the     *)
(* objectives, and an assessment lowered by every required check the       *)
(* worker has no profile for (it runs POSTGRES_CONNECTIVITY only).         *)
(***************************************************************************)
RunByWorker == {"POSTGRES_CONNECTIVITY"}

Limitations(required) == required \ RunByWorker

FinalVerdict(required) ==
  IF Limitations(required) = {}
    THEN Verdict("VERIFIED", "HIGH")
    ELSE Verdict("PARTIALLY_VERIFIED", "MEDIUM")

FinalResults(started, snapshotAt, recoveryReady, policy) ==
  [rpo        |-> EvaluatePolicy(MeasureRPO(started, snapshotAt), policy.rpo),
   rto        |-> EvaluatePolicy(MeasureRTO(started, recoveryReady), policy.rto),
   assessment |-> FinalVerdict(policy.required).assessment]
=============================================================================
