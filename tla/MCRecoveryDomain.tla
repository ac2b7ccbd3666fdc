--------------------------- MODULE MCRecoveryDomain ---------------------------
(***************************************************************************)
(* Exercises the decisions of RecoveryDomain over bounded inputs: a drill  *)
(* with given times and policy targets, whose recovery gets later by the   *)
(* tick and whose list of validation outcomes grows, some of them given by *)
(* checks that ValidationEngine runs.                                      *)
(***************************************************************************)
EXTENDS RecoveryDomain, ValidationEngine

CONSTANTS
  MaxInstant,   \* last instant, in ticks
  MaxTarget,    \* largest policy target, in seconds
  MaxResults    \* longest list of validation outcomes

ASSUME BoundsAssumption ==
  MaxInstant \in Nat /\ MaxTarget \in Nat /\ MaxResults \in Nat

VARIABLES
  snapshotAt, started, ready, policy, restored, integrity, results,
  unmet,    \* has a check been run whose condition did not hold?
  accused   \* has one the engine can run been called FAIL though it held?

truth == <<unmet, accused>>
vars == <<snapshotAt, started, ready, policy, restored, integrity, results, truth>>

Instants == 0..MaxInstant

Policies ==
  [rpo : 0..MaxTarget, rto : 0..MaxTarget,
   required : {RunByWorker, RunByWorker \cup {"POSTGRES_TABLE_EXISTS"}}]

AnyPolicy == [rpo |-> 1, rto |-> 1, required |-> RunByWorker]

\* Either the objectives or the assessment vary: the two never meet.
Init ==
  /\ ready = 0 /\ results = <<>>
  /\ unmet = FALSE /\ accused = FALSE
  /\ \/ /\ snapshotAt \in Instants /\ started \in Instants
        /\ policy \in Policies
        /\ restored = TRUE /\ integrity = TRUE
     \/ /\ snapshotAt = 0 /\ started = 0
        /\ policy = AnyPolicy
        /\ restored \in BOOLEAN /\ integrity \in BOOLEAN

Tick ==
  /\ ready < MaxInstant /\ started > 0
  /\ ready' = ready + 1
  /\ UNCHANGED <<snapshotAt, started, policy, restored, integrity, results, truth>>

Assessing ==
  /\ Len(results) < MaxResults
  /\ snapshotAt = 0 /\ started = 0 /\ policy = AnyPolicy

inputs == <<snapshotAt, started, ready, policy, restored, integrity>>

AddResult ==
  /\ Assessing
  /\ \E r \in Outcomes : results' = Append(results, r)
  /\ UNCHANGED <<inputs, truth>>

Checks ==
  [type : {"FILE_SIZE"}, minBytes : 0 .. 2]
    \cup [type : FileTypes \cup PostgresTypes \cup {"HTTP_HEALTH"}, minBytes : {0}]

MaxLooks == maxFileBytes + 3

FileWorlds ==
  [size : NoFile .. (maxFileBytes + 2), digest : Digests, looks : 0 .. MaxLooks,
   authorized : {FALSE}, answer : {"unreachable"}, database : {FALSE}]

HTTPWorlds ==
  [size : {NoFile}, digest : {"other"}, looks : 0 .. MaxLooks,
   authorized : BOOLEAN, answer : Answers, database : {FALSE}]

PostgresWorlds ==
  [size : {NoFile}, digest : {"other"}, looks : 0 .. MaxLooks,
   authorized : {FALSE}, answer : {"unreachable"}, database : BOOLEAN]

Worlds(check) ==
  CASE check.type = "HTTP_HEALTH"   -> HTTPWorlds
    [] check.type \in PostgresTypes -> PostgresWorlds
    [] OTHER                        -> FileWorlds

\* What a check asks for, whether or not there was time or a validator to find
\* out.  A file within the limit and an authorized address are asked for, too.
Holds(check, world) ==
  CASE check.type = "FILE_EXISTS" -> world.size # NoFile
    [] check.type = "FILE_SIZE"   -> world.size # NoFile /\ world.size >= check.minBytes
    [] check.type = "SHA256"      ->
         /\ world.size # NoFile /\ world.size <= maxFileBytes
         /\ world.digest = "whole" \/ (world.digest = "prefix" /\ world.size = maxFileBytes)
    [] check.type = "HTTP_HEALTH" -> world.authorized /\ world.answer = "healthy"
    [] OTHER                      -> world.database

\* The checks the engine has code for.
Runnable(check) == check.type \in FileTypes \cup {"HTTP_HEALTH"}

RunCheck ==
  /\ Assessing
  /\ \E check \in Checks, required \in BOOLEAN : \E world \in Worlds(check) :
       LET status == Run(check, world) IN
         /\ results' = Append(results, [required |-> required, status |-> status])
         /\ unmet' = (unmet \/ ~Holds(check, world))
         /\ accused' = (accused \/ (status = "FAIL" /\ Runnable(check) /\ Holds(check, world)))
  /\ UNCHANGED inputs

Next == Tick \/ AddResult \/ RunCheck

Spec == Init /\ [][Next]_vars

-----------------------------------------------------------------------------
Final == FinalResults(started, snapshotAt, ready, policy)

\* The verdict on a duration of ticks against a target.  The code compares whole
\* seconds, so it forgives whatever is less than a second over the target.
ExactVerdict(known, ticks, target) ==
  IF ~known \/ target <= 0 THEN "INCONCLUSIVE"
  ELSE IF ticks < (target + 1) * TicksPerSecond THEN "PASS" ELSE "FAIL"

\* Both objectives are decided by the exact duration: PASS up to a second over
\* the target, FAIL from there on; a missing or contradictory timestamp is
\* INCONCLUSIVE and never PASS, although the measurements report such a duration
\* as 0 seconds (MeasureRPO, MeasureRTO, EvaluatePolicy).
ObjectivesExact ==
  /\ Final.rpo = ExactVerdict(snapshotAt > 0 /\ snapshotAt <= started,
                              started - snapshotAt, policy.rpo)
  /\ Final.rto = ExactVerdict(started > 0 /\ started <= ready,
                              ready - started, policy.rto)

\* A recovery that gets ready later never turns a missed RTO into a met one; it
\* follows from ObjectivesExact.
LaterIsNeverBetter == [][Final.rto = "FAIL" => Final'.rto = "FAIL"]_vars

Assessed == Assess(restored, results, integrity).assessment

Rank(a) ==
  CASE a = "VERIFIED" -> 3 [] a = "PARTIALLY_VERIFIED" -> 2
    [] a = "INCONCLUSIVE" -> 1 [] a = "FAILED" -> 0

\* Once there is an outcome, a further one never improves the assessment,
\* and so neither does the order in which Assess meets them.
OutcomesNeverUpgrade ==
  [][results # <<>> => Rank(Assessed') <= Rank(Assessed)]_vars

\* VERIFIED means a restore that passed, intact evidence, and no required
\* check that failed, warned or was left undecided.
VerifiedMeansAllPassed ==
  Assessed = "VERIFIED" =>
    /\ restored /\ integrity /\ results # <<>>
    /\ \A i \in DOMAIN results : results[i].status = "PASS"

\* VERIFIED is not reached over a check whose condition does not hold, however
\* the file compares with the engine's limit, wherever the context ends and
\* whether or not the engine can run the check; and no file or HTTP check that
\* runs out of time, or holds, is called FAIL.  A PostgreSQL check is called FAIL
\* whatever the database is like (docs/validation-engine.md: INCONCLUSIVE), so
\* nothing of the kind is said of those.
EngineTruthful == (Assessed = "VERIFIED" => ~unmet) /\ ~accused
=============================================================================
