------------------------- MODULE RecoveryDomain_proofs -------------------------
(***************************************************************************)
(* Proofs about the decisions of RecoveryDomain, for any resolution of the *)
(* clock, any instants and targets and lists of outcomes of any length.    *)
(***************************************************************************)
EXTENDS MCRecoveryDomain, TLAPS

\* Division by the number of ticks in a second, as Z3 knows it for a constant
\* divisor: the quotient is the only number with these bounds.
LEMMA Quotient ==
  ASSUME NEW n \in Nat, NEW t \in Nat \ {0}
  PROVE  /\ n \div t \in Nat
         /\ (n \div t) * t <= n
         /\ n < (n \div t) * t + t
OBVIOUS

LEMMA Monotone ==
  ASSUME NEW a \in Nat, NEW b \in Nat, NEW t \in Nat \ {0}, a <= b
  PROVE  a * t <= b * t
OBVIOUS

\* Truncation to whole seconds moves the boundary of a target to the end of
\* its last second.
LEMMA WithinTarget ==
  ASSUME NEW n \in Nat, NEW target \in Nat, NEW t \in Nat \ {0}
  PROVE  n \div t <= target <=> n < (target + 1) * t
<1> DEFINE q == n \div t
<1>1. q \in Nat /\ q * t <= n /\ n < q * t + t
  BY Quotient
<1> HIDE DEF q
<1>2. (target + 1) * t = target * t + t /\ (target + 1) * t \in Nat
  OBVIOUS
<1>3. CASE q <= target
  <2>1. q * t <= target * t
    BY <1>1, <1>3, Monotone
  <2>2. q * t \in Nat /\ target * t \in Nat
    BY <1>1
  <2> QED
    BY <1>1, <1>2, <1>3, <2>1, <2>2 DEF q
<1>4. CASE target + 1 <= q
  <2>1. (target + 1) * t <= q * t
    BY <1>1, <1>4, Monotone
  <2>2. q * t \in Nat
    BY <1>1
  <2>3. ~(n < (target + 1) * t)
    BY <1>1, <1>2, <2>1, <2>2
  <2> QED
    BY <1>1, <1>4, <2>3 DEF q
<1> QED
  BY <1>1, <1>3, <1>4

\* The verdict of EvaluatePolicy on whole seconds is the one on exact ticks.
LEMMA Evaluated ==
  ASSUME NEW earlier \in Nat, NEW later \in Nat, earlier <= later, NEW target \in Nat
  PROVE  EvaluatePolicy(Measured(WholeSeconds(earlier, later)), target)
           = ExactVerdict(TRUE, later - earlier, target)
<1> DEFINE n == later - earlier
<1>1. n \in Nat
  OBVIOUS
<1>2. n \div TicksPerSecond \in Nat
  BY <1>1, Quotient, TicksAssumption
<1>3. n \div TicksPerSecond <= target <=> n < (target + 1) * TicksPerSecond
  BY <1>1, WithinTarget, TicksAssumption
<1> HIDE DEF n
<1>4. WholeSeconds(earlier, later) = n \div TicksPerSecond
  BY DEF WholeSeconds, n
<1>5. EvaluatePolicy(Measured(n \div TicksPerSecond), target)
        = ExactVerdict(TRUE, n, target)
  BY <1>2, <1>3 DEF EvaluatePolicy, Measured, ExactVerdict
<1> QED
  BY <1>4, <1>5 DEF n

LEMMA NotEvaluated ==
  ASSUME NEW ticks, NEW target
  PROVE  EvaluatePolicy(Unmeasured, target) = ExactVerdict(FALSE, ticks, target)
BY DEF EvaluatePolicy, Unmeasured, ExactVerdict

-----------------------------------------------------------------------------
TypeInv ==
  /\ snapshotAt \in Nat /\ started \in Nat /\ ready \in Nat
  /\ policy.rpo \in Nat /\ policy.rto \in Nat
  /\ restored \in BOOLEAN /\ integrity \in BOOLEAN
  /\ results \in Seq(Outcomes)

LEMMA RunStatus ==
  ASSUME NEW check, NEW world
  PROVE  Run(check, world) \in ValidationStatuses
BY DEF Run, ValidationStatuses

LEMMA RunCheckAppends ==
  ASSUME RunCheck
  PROVE  /\ \E r \in Outcomes : results' = Append(results, r)
         /\ UNCHANGED inputs
<1>1. PICK check \in Checks, required \in BOOLEAN : \E world \in Worlds(check) :
        results' = Append(results, [required |-> required, status |-> Run(check, world)])
  BY DEF RunCheck
<1>2. PICK world \in Worlds(check) :
        results' = Append(results, [required |-> required, status |-> Run(check, world)])
  BY <1>1
<1>3. [required |-> required, status |-> Run(check, world)] \in Outcomes
  BY RunStatus DEF Outcomes
<1> QED
  BY <1>2, <1>3 DEF RunCheck

LEMMA TypeInit == Init => TypeInv
<1> SUFFICES ASSUME Init PROVE TypeInv
  OBVIOUS
<1>1. snapshotAt \in Nat /\ started \in Nat /\ ready \in Nat
  BY BoundsAssumption DEF Init, Instants
<1>2. policy.rpo \in Nat /\ policy.rto \in Nat
  BY BoundsAssumption DEF Init, Policies, AnyPolicy
<1>3. restored \in BOOLEAN /\ integrity \in BOOLEAN
  BY Zenon DEF Init
<1>4. results \in Seq(Outcomes)
  BY DEF Init
<1> QED
  BY <1>1, <1>2, <1>3, <1>4 DEF TypeInv

LEMMA TypeNext == TypeInv /\ [Next]_vars => TypeInv'
<1> SUFFICES ASSUME TypeInv, [Next]_vars PROVE TypeInv'
  OBVIOUS
<1>1. CASE Tick
  BY <1>1 DEF Tick, TypeInv
<1>2. CASE AddResult
  BY <1>2 DEF AddResult, TypeInv, inputs
<1>3. CASE RunCheck
  BY <1>3, RunCheckAppends DEF TypeInv, inputs
<1>4. CASE UNCHANGED vars
  BY <1>4 DEF vars, TypeInv
<1> QED
  BY <1>1, <1>2, <1>3, <1>4 DEF Next

LEMMA ExactObjectives == TypeInv => ObjectivesExact
<1> SUFFICES ASSUME TypeInv PROVE ObjectivesExact
  OBVIOUS
<1>1. EvaluatePolicy(MeasureRPO(started, snapshotAt), policy.rpo)
        = ExactVerdict(snapshotAt > 0 /\ snapshotAt <= started,
                       started - snapshotAt, policy.rpo)
  <2>1. CASE snapshotAt > 0 /\ snapshotAt <= started
    <3>1. MeasureRPO(started, snapshotAt) = Measured(WholeSeconds(snapshotAt, started))
      BY <2>1 DEF MeasureRPO, IsZero, TypeInv
    <3>2. ExactVerdict(snapshotAt > 0 /\ snapshotAt <= started,
                       started - snapshotAt, policy.rpo)
            = ExactVerdict(TRUE, started - snapshotAt, policy.rpo)
      BY <2>1 DEF ExactVerdict
    <3>3. EvaluatePolicy(Measured(WholeSeconds(snapshotAt, started)), policy.rpo)
            = ExactVerdict(TRUE, started - snapshotAt, policy.rpo)
      BY <2>1, Evaluated DEF TypeInv
    <3> QED
      BY <3>1, <3>2, <3>3, Zenon
  <2>2. CASE ~(snapshotAt > 0 /\ snapshotAt <= started)
    <3>1. MeasureRPO(started, snapshotAt) = Unmeasured
      BY <2>2 DEF MeasureRPO, IsZero, TypeInv
    <3> QED
      BY <2>2, <3>1, NotEvaluated DEF ExactVerdict
  <2> QED
    BY <2>1, <2>2
<1>2. EvaluatePolicy(MeasureRTO(started, ready), policy.rto)
        = ExactVerdict(started > 0 /\ started <= ready, ready - started, policy.rto)
  <2>1. CASE started > 0 /\ started <= ready
    <3>1. MeasureRTO(started, ready) = Measured(WholeSeconds(started, ready))
      BY <2>1 DEF MeasureRTO, IsZero, TypeInv
    <3>2. ExactVerdict(started > 0 /\ started <= ready, ready - started, policy.rto)
            = ExactVerdict(TRUE, ready - started, policy.rto)
      BY <2>1 DEF ExactVerdict
    <3>3. EvaluatePolicy(Measured(WholeSeconds(started, ready)), policy.rto)
            = ExactVerdict(TRUE, ready - started, policy.rto)
      BY <2>1, Evaluated DEF TypeInv
    <3> QED
      BY <3>1, <3>2, <3>3, Zenon
  <2>2. CASE ~(started > 0 /\ started <= ready)
    <3>1. MeasureRTO(started, ready) = Unmeasured
      BY <2>2 DEF MeasureRTO, IsZero, TypeInv
    <3> QED
      BY <2>2, <3>1, NotEvaluated DEF ExactVerdict
  <2> QED
    BY <2>1, <2>2
<1> QED
  BY <1>1, <1>2 DEF ObjectivesExact, Final, FinalResults

\* RPO and RTO results agree with the exact durations, and a missing, zero or
\* contradictory timestamp is INCONCLUSIVE, for all instants and targets.
THEOREM ObjectivesAreExact == Spec => []ObjectivesExact
BY ExactObjectives, TypeInit, TypeNext, PTL DEF Spec

LEMMA LaterMisses ==
  ASSUME NEW s \in Nat, NEW r \in Nat, NEW later \in Nat, NEW limit \in Nat,
         s <= r, r <= later, ~(r - s < limit)
  PROVE  s <= later /\ ~(later - s < limit)
OBVIOUS

\* A recovery that becomes ready later never turns a missed RTO into a met
\* one, at any resolution of the clock.
THEOREM LaterNeverBetter == Spec => LaterIsNeverBetter
<1>1. TypeInv /\ [Next]_vars => [Final.rto = "FAIL" => Final'.rto = "FAIL"]_vars
  <2> SUFFICES ASSUME TypeInv, Next, Final.rto = "FAIL" PROVE Final'.rto = "FAIL"
    OBVIOUS
  <2>t. TypeInv'
    BY TypeNext
  <2>1. ObjectivesExact /\ ObjectivesExact'
    BY <2>t, ExactObjectives, PTL
  <2>2. UNCHANGED <<started, policy>> /\ ready' >= ready
    <3>1. CASE Tick
      BY <3>1 DEF Tick, TypeInv
    <3>2. CASE AddResult \/ RunCheck
      BY <3>2 DEF AddResult, RunCheck, inputs, TypeInv
    <3> QED
      BY <3>1, <3>2 DEF Next
  <2> DEFINE limit == (policy.rto + 1) * TicksPerSecond
  <2>3. /\ started > 0 /\ started <= ready /\ policy.rto > 0
        /\ ~(ready - started < limit)
    BY <2>1 DEF ObjectivesExact, ExactVerdict, TypeInv
  <2>4. limit \in Nat
    BY TicksAssumption DEF TypeInv
  <2> HIDE DEF limit
  <2>5. started' > 0 /\ started' <= ready' /\ ~(ready' - started' < limit)
    <3>1. started \in Nat /\ ready \in Nat /\ ready' \in Nat /\ started' = started
      BY <2>t, <2>2 DEF TypeInv
    <3>2. ready <= ready'
      BY <2>2, <3>1
    <3> QED
      BY <2>3, <2>4, <3>1, <3>2, LaterMisses
  <2>6. Final'.rto = ExactVerdict(started' > 0 /\ started' <= ready',
                                 ready' - started', policy'.rto)
    BY <2>1 DEF ObjectivesExact
  <2>7. ExactVerdict(started' > 0 /\ started' <= ready',
                     ready' - started', policy'.rto) = "FAIL"
    BY <2>2, <2>3, <2>5 DEF ExactVerdict, limit, TypeInv
  <2> QED
    BY <2>6, <2>7
<1> QED
  BY <1>1, TypeInit, TypeNext, PTL DEF Spec, LaterIsNeverBetter

-----------------------------------------------------------------------------
\* VERIFIED needs a passed restore, intact evidence and a list of outcomes in
\* which every one passed, however long the list is.
THEOREM VerifiedIsEarned == Spec => []VerifiedMeansAllPassed
<1>1. TypeInv => VerifiedMeansAllPassed
  <2> SUFFICES ASSUME TypeInv, Assessed = "VERIFIED"
               PROVE  /\ restored /\ integrity /\ results # <<>>
                      /\ \A i \in DOMAIN results : results[i].status = "PASS"
    BY DEF VerifiedMeansAllPassed
  <2>1. /\ restored /\ integrity /\ results # <<>>
        /\ ~RequiredFailed(results) /\ ~Limited(results)
    BY DEF Assessed, Assess, Verdict
  <2>2. \A i \in DOMAIN results : results[i] \in Outcomes
    BY DEF TypeInv
  <2>3. \A i \in DOMAIN results : results[i].status = "PASS"
    BY <2>1, <2>2 DEF RequiredFailed, Limited, Outcomes, ValidationStatuses
  <2> QED
    BY <2>1, <2>3
<1> QED
  BY <1>1, TypeInit, TypeNext, PTL DEF Spec

\* An outcome that is added to a list never improves its assessment.
THEOREM AssessmentNeverImproves == Spec => OutcomesNeverUpgrade
<1>1. TypeInv /\ [Next]_vars => [results # <<>> => Rank(Assessed') <= Rank(Assessed)]_vars
  <2> SUFFICES ASSUME TypeInv, Next, results # <<>>
               PROVE  Rank(Assessed') <= Rank(Assessed)
    OBVIOUS
  <2>r. Assessed \in Assessments /\ \A a \in Assessments : Rank(a) \in 0..3
    BY DEF Assessed, Assess, Verdict, Assessments, Rank
  <2>1. CASE Tick
    <3>1. Assessed' = Assessed
      BY <2>1 DEF Tick, Assessed
    <3> QED
      BY <2>r, <3>1
  <2>2. CASE AddResult \/ RunCheck
    <3>1. PICK r \in Outcomes : results' = Append(results, r)
      BY <2>2, RunCheckAppends DEF AddResult
    <3>2. UNCHANGED <<restored, integrity>>
      BY <2>2, RunCheckAppends DEF AddResult, inputs
    <3>3. /\ results' # <<>>
          /\ \A i \in DOMAIN results : i \in DOMAIN results' /\ results'[i] = results[i]
      BY <3>1 DEF TypeInv
    <3>4. RequiredFailed(results) => RequiredFailed(results')
      BY <3>3 DEF RequiredFailed
    <3>5. Limited(results) => Limited(results')
      BY <3>3 DEF Limited
    <3> QED
      BY <3>2, <3>3, <3>4, <3>5 DEF Assessed, Assess, Verdict, Rank
  <2> QED
    BY <2>1, <2>2 DEF Next
<1> QED
  BY <1>1, TypeInit, TypeNext, PTL DEF Spec, OutcomesNeverUpgrade

-----------------------------------------------------------------------------
\* The engine's verdict on a file is about the whole of it.
LEMMA PassedHolds ==
  ASSUME NEW check \in Checks, NEW world \in Worlds(check), Run(check, world) = "PASS"
  PROVE  Holds(check, world)
<1>1. CheckError(check, world) = "nil"
  BY DEF Run
<1>2. CASE check.type \in {"FILE_EXISTS", "FILE_SIZE"}
  BY <1>1, <1>2 DEF CheckError, Holds, FileExists
<1>3. CASE check.type = "SHA256"
  <2>1. verifySHA(world) = "nil" /\ world \in FileWorlds
    BY <1>1, <1>3 DEF CheckError, Worlds, PostgresTypes
  <2>2. world.size \in Int
    BY <2>1, EngineAssumption DEF FileWorlds, NoFile
  <2>3. world.size # NoFile /\ Copied(world) <= maxFileBytes
        /\ DigestMatches(world, Copied(world))
    BY <2>1 DEF verifySHA, FileExists
  <2>4. world.size <= maxFileBytes /\ Copied(world) = world.size
    BY <2>2, <2>3, EngineAssumption DEF Copied
  <2> QED
    BY <1>3, <2>3, <2>4 DEF Holds, DigestMatches
<1>4. CASE check.type = "HTTP_HEALTH"
  BY <1>1, <1>4 DEF CheckError, httpHealth, Holds
<1>5. CASE check.type \notin FileTypes \cup {"HTTP_HEALTH"}
  BY <1>1, <1>5 DEF CheckError, FileTypes
<1> QED
  BY <1>2, <1>3, <1>4, <1>5 DEF FileTypes

LEMMA FailedDoesNotHold ==
  ASSUME NEW check \in Checks, NEW world \in Worlds(check), Run(check, world) = "FAIL",
         Runnable(check)
  PROVE  ~Holds(check, world)
<1>1. CheckError(check, world) \notin {"nil", "context"}
  BY DEF Run
<1>2. CASE check.type \in {"FILE_EXISTS", "FILE_SIZE"}
  BY <1>1, <1>2 DEF CheckError, Holds, FileExists
<1>3. CASE check.type = "SHA256"
  <2>1. verifySHA(world) \notin {"nil", "context"} /\ world \in FileWorlds
    BY <1>1, <1>3 DEF CheckError, Worlds, PostgresTypes
  <2>2. world.size \in Int
    BY <2>1, EngineAssumption DEF FileWorlds, NoFile
  <2>3. \/ world.size = NoFile
        \/ ~(Copied(world) <= maxFileBytes /\ DigestMatches(world, Copied(world)))
    BY <2>1 DEF verifySHA, FileExists
  <2>4. world.size <= maxFileBytes => Copied(world) = world.size
    BY <2>2, EngineAssumption DEF Copied
  <2> QED
    BY <1>3, <2>3, <2>4 DEF Holds, DigestMatches
<1>4. CASE check.type = "HTTP_HEALTH"
  BY <1>1, <1>4 DEF CheckError, httpHealth, Holds
<1> QED
  BY <1>2, <1>3, <1>4 DEF Runnable, FileTypes

\* An unmet check has left an outcome other than PASS.
TruthInv ==
  /\ ~accused /\ unmet \in BOOLEAN
  /\ unmet => \E i \in DOMAIN results : results[i].status # "PASS"

LEMMA Appended ==
  ASSUME NEW s \in Seq(Outcomes), NEW r \in Outcomes
  PROVE  /\ \A i \in DOMAIN s : i \in DOMAIN Append(s, r) /\ Append(s, r)[i] = s[i]
         /\ Len(s) + 1 \in DOMAIN Append(s, r) /\ Append(s, r)[Len(s) + 1] = r
OBVIOUS

LEMMA TruthNext == TypeInv /\ TruthInv /\ [Next]_vars => TruthInv'
<1> SUFFICES ASSUME TypeInv, TruthInv, [Next]_vars PROVE TruthInv'
  OBVIOUS
<1>1. CASE Tick
  BY <1>1 DEF Tick, truth, TruthInv
<1>2. CASE AddResult
  <2>1. PICK r \in Outcomes : results' = Append(results, r)
    BY <1>2 DEF AddResult
  <2>2. unmet' = unmet /\ accused' = accused
    BY <1>2 DEF AddResult, truth
  <2> QED
    BY <2>1, <2>2, Appended DEF TypeInv, TruthInv
<1>3. CASE RunCheck
  <2>0. PICK check \in Checks, required \in BOOLEAN : \E world \in Worlds(check) :
          /\ results' = Append(results, [required |-> required, status |-> Run(check, world)])
          /\ unmet' = (unmet \/ ~Holds(check, world))
          /\ accused' = (accused \/ (Run(check, world) = "FAIL" /\ Runnable(check)
                                                   /\ Holds(check, world)))
    BY <1>3 DEF RunCheck
  <2>1. PICK world \in Worlds(check) :
          /\ results' = Append(results, [required |-> required, status |-> Run(check, world)])
          /\ unmet' = (unmet \/ ~Holds(check, world))
          /\ accused' = (accused \/ (Run(check, world) = "FAIL" /\ Runnable(check)
                                                   /\ Holds(check, world)))
    BY <2>0
  <2> DEFINE r == [required |-> required, status |-> Run(check, world)]
  <2>2. r \in Outcomes /\ r.status = Run(check, world)
    BY RunStatus DEF Outcomes
  <2>3. ~accused'
    BY <2>1, FailedDoesNotHold DEF TruthInv
  <2>4. ~Holds(check, world) => r.status # "PASS"
    BY <2>2, PassedHolds
  <2>5. results' = Append(results, r)
    BY <2>1
  <2> HIDE DEF r
  <2>6. unmet' => \E i \in DOMAIN results' : results'[i].status # "PASS"
    BY <2>1, <2>2, <2>4, <2>5, Appended DEF TypeInv, TruthInv
  <2> QED
    BY <2>1, <2>3, <2>6 DEF TruthInv
<1>4. CASE UNCHANGED vars
  BY <1>4 DEF vars, truth, TruthInv
<1> QED
  BY <1>1, <1>2, <1>3, <1>4 DEF Next

\* For any limit and any file, address, database and moment at which the context
\* ends, a check that does not hold keeps VERIFIED away, one the engine cannot
\* run included, and a file or HTTP check that holds is never FAIL.
THEOREM EngineIsTruthful == Spec => []EngineTruthful
<1>1. Init => TruthInv
  BY DEF Init, TruthInv
<1>2. VerifiedMeansAllPassed /\ TruthInv => EngineTruthful
  BY DEF VerifiedMeansAllPassed, TruthInv, EngineTruthful
<1> QED
  BY <1>1, <1>2, TypeInit, TypeNext, TruthNext, VerifiedIsEarned, PTL DEF Spec
=============================================================================
