--------------------------- MODULE Deployment_proofs ---------------------------
(***************************************************************************)
(* Proofs about Startup, Shutdown and their composition, for any number of *)
(* instances, releases, restarts, workers, requests and streams.           *)
(***************************************************************************)
EXTENDS Deployment, TLAPS

(***************************************************************************)
(* The database and the bucket that starting instances share.              *)
(***************************************************************************)

Stages == {"migrate", "bootstrap", "storage", "up", "stopped"}

StartupTypeOK ==
  /\ files \in [Instances -> Files]
  /\ table \in BOOLEAN
  /\ schema \in Seq(Files)
  /\ executing \in [Files -> Instances \cup {None}]
  /\ seeding \in Instances \cup {None}
  /\ policies \in Nat
  /\ bucket \in BOOLEAN
  /\ stage \in [Instances -> Stages]
  /\ step \in [Instances -> {"ledger", "create", "check", "execute", "commit", "begin",
                             "policy", "look", "make", "none"}]
  /\ version \in [Instances -> Nat \ {0}]
  /\ adding \in [Instances -> BOOLEAN]
  /\ restarts \in Nat
  /\ faulted \in BOOLEAN

\* The files took effect in order, and the ledger has their versions.
Recorded ==
  /\ \A n \in DOMAIN schema : schema[n] = n
  /\ ledger = 1 .. Len(schema)

\* An instance in Migrate is at most one file ahead of the schema, one that
\* has found a file missing is within its release, and one with an open
\* transaction holds the locks of its file; an instance past Migrate has met
\* all files of its release.
MigrateInv(i) ==
  /\ stage[i] = "migrate" => version[i] <= Len(schema) + 1
  /\ At(i, "migrate", "execute") \/ At(i, "migrate", "commit") => version[i] <= files[i]
  /\ At(i, "migrate", "commit") => executing[version[i]] = i
  /\ stage[i] \in {"bootstrap", "storage", "up"} => files[i] <= Len(schema)

\* A file that is being executed has not taken effect: its second execution
\* waited for the first, and found its objects.
ExecutingInv == \A v \in Files : executing[v] # None => v > Len(schema)

\* An instance in its bootstrap transaction holds the row of the organization,
\* and what it has read of the policies is still true.
SeedInv(i) ==
  /\ At(i, "bootstrap", "policy") \/ At(i, "bootstrap", "commit") => seeding = i
  /\ At(i, "bootstrap", "commit") /\ adding[i] => policies = 0

StartupInv ==
  /\ StartupTypeOK
  /\ Recorded
  /\ ExecutingInv
  /\ \A i \in Instances : MigrateInv(i)
  /\ \A i \in Instances : SeedInv(i)
  /\ policies <= 1

-----------------------------------------------------------------------------
LEMMA StartupInvInit == StartupInit => StartupInv
<1> SUFFICES ASSUME StartupInit PROVE StartupInv
  OBVIOUS
<1>1. PICK n \in 0 .. MaxFiles :
        /\ schema = [v \in 1 .. n |-> v]
        /\ ledger = 1 .. n
        /\ table \in IF n = 0 THEN BOOLEAN ELSE {TRUE}
        /\ policies \in IF n = 0 THEN {0} ELSE {0, 1}
  BY DEF StartupInit
<1>2. schema \in Seq(Files) /\ Len(schema) = n /\ n \in Nat
  BY <1>1, FilesAssumption DEF Files
<1>3. policies \in Nat /\ policies <= 1
  <2>1. policies \in {0, 1}
    BY <1>1
  <2> QED
    BY <2>1
<1>4. StartupTypeOK
  <2>1. table \in BOOLEAN
    BY <1>1, Zenon
  <2>2. bucket \in BOOLEAN /\ faulted \in BOOLEAN
    BY DEF StartupInit
  <2> QED
    BY <1>2, <1>3, <2>1, <2>2 DEF StartupInit, StartupTypeOK, Stages
<1>5. Recorded
  BY <1>1, <1>2 DEF Recorded
<1>6. ExecutingInv /\ \A i \in Instances : MigrateInv(i) /\ SeedInv(i)
  BY <1>2 DEF StartupInit, ExecutingInv, MigrateInv, SeedInv, At
<1> QED
  BY <1>3, <1>4, <1>5, <1>6 DEF StartupInv

\* StopInstance rolls back what the instance has open and nothing else.
LEMMA StopFrame ==
  ASSUME StartupTypeOK, NEW i \in Instances, StopInstance(i)
  PROVE  /\ stage' \in [Instances -> Stages] /\ stage'[i] = "stopped"
         /\ step' = [step EXCEPT ![i] = "none"]
         /\ \A j \in Instances \ {i} : stage'[j] = stage[j] /\ step'[j] = step[j]
         /\ executing' \in [Files -> Instances \cup {None}]
         /\ \A v \in Files : executing'[v] # None => executing'[v] = executing[v]
         /\ \A v \in Files : executing[v] # i => executing'[v] = executing[v]
         /\ \A v \in Files : executing'[v] # i
         /\ seeding' \in Instances \cup {None}
         /\ seeding # i => seeding' = seeding
BY InstancesAssumption DEF StopInstance, Goto, StartupTypeOK, Stages

LEMMA GotoFrame ==
  ASSUME StartupTypeOK, NEW i \in Instances, NEW s \in Stages,
         NEW t \in {"ledger", "create", "check", "execute", "commit", "begin",
                    "policy", "look", "make", "none"},
         Goto(i, s, t)
  PROVE  /\ stage' \in [Instances -> Stages] /\ stage'[i] = s
         /\ step' \in [Instances -> {"ledger", "create", "check", "execute", "commit",
                                     "begin", "policy", "look", "make", "none"}]
         /\ step'[i] = t
         /\ \A j \in Instances \ {i} : stage'[j] = stage[j] /\ step'[j] = step[j]
BY DEF Goto, StartupTypeOK

\* A step that stops the instance and makes nothing durable.
LEMMA StopKeepsInv ==
  ASSUME StartupInv, NEW i \in Instances, StopInstance(i),
         UNCHANGED <<table, ledger, schema, policies, bucket, files, version, adding, restarts>>,
         faulted' \in BOOLEAN
  PROVE  StartupInv'
<1>1. StartupTypeOK /\ StartupTypeOK'
  BY StopFrame DEF StartupInv, StartupTypeOK
<1>2. Recorded' /\ ExecutingInv'
  BY StopFrame DEF StartupInv, Recorded, ExecutingInv
<1>3. ASSUME NEW j \in Instances PROVE MigrateInv(j)' /\ SeedInv(j)'
  <2>1. CASE j = i
    BY <1>1, <2>1, StopFrame DEF MigrateInv, SeedInv, At
  <2>2. CASE j # i
    <3>1. stage'[j] = stage[j] /\ step'[j] = step[j]
      BY <1>1, <2>2, StopFrame
    <3>2. seeding = j => seeding' = j
      BY <1>1, <2>2, StopFrame
    <3>3. At(j, "migrate", "commit") => executing'[version[j]] = j
      <4>1. ASSUME At(j, "migrate", "commit") PROVE version[j] \in Files
        BY <4>1, <1>1, FilesAssumption DEF StartupInv, MigrateInv, StartupTypeOK, Files, At
      <4> QED
        BY <1>1, <2>2, <4>1, StopFrame DEF StartupInv, MigrateInv
    <3> QED
      BY <3>1, <3>2, <3>3 DEF StartupInv, MigrateInv, SeedInv, At
  <2> QED
    BY <2>1, <2>2
<1> QED
  BY <1>1, <1>2, <1>3 DEF StartupInv

\* The instances' statements, one action at a time.  An instance other than
\* the one that moves keeps what it has established as long as the schema only
\* grows and its locks stay.
LEMMA OtherInstance ==
  ASSUME StartupInv, NEW i \in Instances, NEW j \in Instances \ {i},
         stage'[j] = stage[j], step'[j] = step[j], version'[j] = version[j],
         adding'[j] = adding[j], UNCHANGED files,
         Len(schema') \in Nat, Len(schema) <= Len(schema'),
         At(j, "migrate", "commit") => executing'[version[j]] = executing[version[j]],
         seeding = j => seeding' = j /\ policies' = policies
  PROVE  MigrateInv(j)' /\ SeedInv(j)'
<1>1. Len(schema) \in Nat /\ version[j] \in Nat /\ files[j] \in Nat
  BY FilesAssumption DEF StartupInv, StartupTypeOK, Files
<1>2. MigrateInv(j)'
  BY <1>1 DEF StartupInv, MigrateInv, At
<1>3. SeedInv(j)'
  BY DEF StartupInv, SeedInv, At
<1> QED
  BY <1>2, <1>3

\* A COMMIT of a migration file: what is durable is one file longer.
LEMMA CommitGrows ==
  ASSUME StartupInv, NEW i \in Instances, At(i, "migrate", "commit"), TakesEffect(i)
  PROVE  /\ version[i] \in Files /\ version[i] = Len(schema) + 1
         /\ schema' \in Seq(Files) /\ Len(schema') = Len(schema) + 1
         /\ Recorded'
<1>1. version[i] \in Files /\ Len(schema) \in Nat /\ version[i] \in Nat
  BY FilesAssumption DEF StartupInv, MigrateInv, StartupTypeOK, Files, At
<1>2. version[i] = Len(schema) + 1
  <2>1. version[i] > Len(schema)
    BY <1>1, InstancesAssumption DEF StartupInv, MigrateInv, ExecutingInv
  <2> QED
    BY <1>1, <2>1 DEF StartupInv, MigrateInv, At
<1>3. schema \in Seq(Files) /\ schema' = Append(schema, version[i])
  BY DEF StartupInv, StartupTypeOK, TakesEffect
<1>4. schema' \in Seq(Files) /\ Len(schema') = Len(schema) + 1
  BY <1>1, <1>3
<1>5. \A n \in DOMAIN schema' : schema'[n] = n
  <2>1. ASSUME NEW n \in DOMAIN schema' PROVE schema'[n] = n
    <3>1. CASE n = Len(schema) + 1
      BY <1>2, <1>3, <3>1
    <3>2. CASE n \in DOMAIN schema
      BY <1>1, <1>3, <3>2 DEF StartupInv, Recorded
    <3> QED
      BY <1>1, <1>3, <1>4, <3>1, <3>2
  <2> QED
    BY <2>1
<1>6. ledger' = 1 .. Len(schema')
  BY <1>1, <1>2, <1>4 DEF StartupInv, Recorded, TakesEffect
<1> QED
  BY <1>1, <1>2, <1>4, <1>5, <1>6 DEF Recorded

LEMMA MigrateKeepsInv ==
  ASSUME StartupInv, NEW i \in Instances, Migrate(i)
  PROVE  StartupInv'
<1> USE DEF shared, local
<1>t. StartupTypeOK /\ Len(schema) \in Nat /\ version[i] \in Nat \ {0} /\ files[i] \in Files
      /\ MigrateInv(i) /\ SeedInv(i)
  BY DEF StartupInv, StartupTypeOK
<1>1. CASE LookForLedger(i)
  <2>1. PICK t \in {"check", "create"} : Goto(i, "migrate", t)
    BY <1>1 DEF LookForLedger
  <2>2. /\ stage[i] = "migrate"
        /\ UNCHANGED <<table, ledger, schema, executing, seeding, policies, bucket,
                       files, version, adding, restarts, faulted>>
    BY <1>1 DEF LookForLedger, At
  <2>3. stage'[i] = "migrate" /\ step'[i] \in {"check", "create"} /\ StartupTypeOK'
    BY <1>t, <2>1, <2>2, GotoFrame DEF StartupTypeOK, Stages
  <2>4. Recorded' /\ ExecutingInv'
    BY <2>2 DEF StartupInv, Recorded, ExecutingInv
  <2>5. MigrateInv(i)' /\ SeedInv(i)'
    BY <1>t, <2>2, <2>3 DEF MigrateInv, SeedInv, At
  <2>6. \A j \in Instances \ {i} : MigrateInv(j)' /\ SeedInv(j)'
    BY <1>t, <2>1, <2>2, GotoFrame, OtherInstance DEF Stages
  <2> QED
    BY <2>2, <2>3, <2>4, <2>5, <2>6 DEF StartupInv
<1>2. CASE CreateLedger(i)
  <2>1. CASE StopInstance(i) /\ UNCHANGED table
    BY <1>2, <1>t, <2>1, StopKeepsInv DEF CreateLedger, StartupTypeOK
  <2>2. CASE Goto(i, "migrate", "check") /\ table' = TRUE /\ UNCHANGED <<executing, seeding>>
    <3>1. /\ stage[i] = "migrate"
          /\ UNCHANGED <<ledger, schema, executing, seeding, policies, bucket,
                         files, version, adding, restarts, faulted>>
      BY <1>2, <2>2 DEF CreateLedger, At
    <3>2. stage'[i] = "migrate" /\ step'[i] = "check" /\ StartupTypeOK'
      <4>1. table' \in BOOLEAN
        BY <2>2
      <4> QED
        BY <1>t, <2>2, <3>1, <4>1, GotoFrame DEF StartupTypeOK, Stages
    <3>3. Recorded' /\ ExecutingInv'
      BY <3>1 DEF StartupInv, Recorded, ExecutingInv
    <3>4. MigrateInv(i)' /\ SeedInv(i)'
      BY <1>t, <3>1, <3>2 DEF MigrateInv, SeedInv, At
    <3>5. \A j \in Instances \ {i} : MigrateInv(j)' /\ SeedInv(j)'
      BY <1>t, <2>2, <3>1, GotoFrame, OtherInstance DEF Stages
    <3> QED
      BY <3>1, <3>2, <3>3, <3>4, <3>5 DEF StartupInv
  <2> QED
    BY <1>2, <2>1, <2>2 DEF CreateLedger
<1>3. CASE CheckVersion(i)
  <2>1. /\ At(i, "migrate", "check")
        /\ UNCHANGED <<table, ledger, schema, executing, seeding, policies, bucket,
                       files, adding, restarts, faulted>>
    BY <1>3 DEF CheckVersion
  <2>2. Recorded' /\ ExecutingInv'
    BY <2>1 DEF StartupInv, Recorded, ExecutingInv
  <2>3. CASE version[i] > files[i] /\ Goto(i, "bootstrap", "begin") /\ UNCHANGED version
    <3>1. stage'[i] = "bootstrap" /\ step'[i] = "begin" /\ StartupTypeOK'
      BY <1>t, <2>1, <2>3, GotoFrame DEF StartupTypeOK, Stages
    <3>2. MigrateInv(i)' /\ SeedInv(i)'
      BY <1>t, <2>1, <2>3, <3>1 DEF MigrateInv, SeedInv, At, Files
    <3>3. \A j \in Instances \ {i} : MigrateInv(j)' /\ SeedInv(j)'
      BY <1>t, <2>1, <2>3, GotoFrame, OtherInstance DEF Stages
    <3> QED
      BY <2>1, <2>2, <3>1, <3>2, <3>3 DEF StartupInv
  <2>4. CASE /\ version[i] \in ledger
             /\ version' = [version EXCEPT ![i] = @ + 1] /\ UNCHANGED <<stage, step>>
    <3>1. StartupTypeOK' /\ version'[i] = version[i] + 1
      BY <1>t, <2>1, <2>4 DEF StartupTypeOK
    <3>2. version[i] <= Len(schema)
      BY <1>t, <2>4 DEF StartupInv, Recorded
    <3>3. MigrateInv(i)' /\ SeedInv(i)'
      BY <1>t, <2>1, <2>4, <3>1, <3>2 DEF MigrateInv, SeedInv, At
    <3>4. \A j \in Instances \ {i} : MigrateInv(j)' /\ SeedInv(j)'
      <4>1. \A j \in Instances \ {i} : version'[j] = version[j]
        BY <1>t, <2>4 DEF StartupTypeOK
      <4> QED
        BY <1>t, <2>1, <2>4, <4>1, OtherInstance
    <3> QED
      BY <2>1, <2>2, <3>1, <3>3, <3>4 DEF StartupInv
  <2>5. CASE version[i] <= files[i] /\ Goto(i, "migrate", "execute") /\ UNCHANGED version
    <3>1. stage'[i] = "migrate" /\ step'[i] = "execute" /\ StartupTypeOK'
      BY <1>t, <2>1, <2>5, GotoFrame DEF StartupTypeOK, Stages
    <3>2. MigrateInv(i)' /\ SeedInv(i)'
      BY <1>t, <2>1, <2>5, <3>1 DEF MigrateInv, SeedInv, At
    <3>3. \A j \in Instances \ {i} : MigrateInv(j)' /\ SeedInv(j)'
      BY <1>t, <2>1, <2>5, GotoFrame, OtherInstance DEF Stages
    <3> QED
      BY <2>1, <2>2, <3>1, <3>2, <3>3 DEF StartupInv
  <2> QED
    BY <1>3, <2>3, <2>4, <2>5 DEF CheckVersion
<1>4. CASE ExecuteFile(i)
  <2>1. CASE StopInstance(i)
    BY <1>4, <1>t, <2>1, StopKeepsInv DEF ExecuteFile, StartupTypeOK
  <2>2. CASE /\ version[i] \notin Range(schema)
             /\ executing' = [executing EXCEPT ![version[i]] = i]
             /\ Goto(i, "migrate", "commit") /\ UNCHANGED seeding
    <3>1. /\ At(i, "migrate", "execute") /\ executing[version[i]] = None
          /\ UNCHANGED <<table, ledger, schema, policies, bucket, files, version,
                         adding, restarts, faulted>>
      BY <1>4 DEF ExecuteFile
    <3>2. version[i] \in Files /\ version[i] <= files[i]
      BY <1>t, <3>1, FilesAssumption DEF MigrateInv, Files
    <3>3. stage'[i] = "migrate" /\ step'[i] = "commit" /\ StartupTypeOK'
      BY <1>t, <2>2, <3>1, GotoFrame DEF StartupTypeOK, Stages
    <3>4. Recorded'
      BY <3>1 DEF StartupInv, Recorded
    <3>5. version[i] > Len(schema)
      <4>1. \A n \in 1 .. Len(schema) : n \in DOMAIN schema /\ schema[n] = n
        BY DEF StartupInv, StartupTypeOK, Recorded
      <4>2. \A n \in 1 .. Len(schema) : n \in Range(schema)
        BY <4>1 DEF Range
      <4> QED
        BY <1>t, <2>2, <4>2
    <3>6. /\ executing'[version[i]] = i
          /\ \A v \in Files : v # version[i] => executing'[v] = executing[v]
      BY <1>t, <2>2, <3>2 DEF StartupTypeOK
    <3>7. ExecutingInv'
      BY <3>1, <3>5, <3>6 DEF StartupInv, ExecutingInv
    <3>8. MigrateInv(i)' /\ SeedInv(i)'
      BY <1>t, <3>1, <3>2, <3>3, <3>6 DEF MigrateInv, SeedInv, At
    <3>9. ASSUME NEW j \in Instances \ {i} PROVE MigrateInv(j)' /\ SeedInv(j)'
      <4>1. At(j, "migrate", "commit") => executing'[version[j]] = executing[version[j]]
        <5> SUFFICES ASSUME At(j, "migrate", "commit")
                     PROVE  executing'[version[j]] = executing[version[j]]
          OBVIOUS
        <5>1. executing[version[j]] = j /\ version[j] \in Files
          BY <1>t, FilesAssumption DEF StartupInv, MigrateInv, StartupTypeOK, Files, At
        <5> QED
          BY <3>1, <3>6, <5>1, InstancesAssumption
      <4> QED
        BY <1>t, <2>2, <3>1, <3>9, <4>1, GotoFrame, OtherInstance DEF Stages
    <3> QED
      BY <3>1, <3>3, <3>4, <3>7, <3>8, <3>9 DEF StartupInv
  <2> QED
    BY <1>4, <2>1, <2>2 DEF ExecuteFile
<1>5. CASE CommitFile(i)
  <2>1. /\ At(i, "migrate", "commit") /\ TakesEffect(i)
        /\ executing' = [executing EXCEPT ![version[i]] = None]
        /\ version' = [version EXCEPT ![i] = @ + 1]
        /\ Goto(i, "migrate", "check")
        /\ UNCHANGED <<table, seeding, policies, bucket, files, adding, restarts, faulted>>
    BY <1>5 DEF CommitFile
  <2>2. /\ version[i] \in Files /\ version[i] = Len(schema) + 1
        /\ schema' \in Seq(Files) /\ Len(schema') = Len(schema) + 1
        /\ Recorded'
    BY <2>1, CommitGrows
  <2>3. stage'[i] = "migrate" /\ step'[i] = "check" /\ StartupTypeOK'
    BY <1>t, <2>1, <2>2, GotoFrame DEF StartupTypeOK, Stages
  <2>4. /\ executing'[version[i]] = None /\ executing[version[i]] = i
        /\ \A v \in Files : v # version[i] => executing'[v] = executing[v]
        /\ version'[i] = version[i] + 1
        /\ \A j \in Instances \ {i} : version'[j] = version[j]
    BY <1>t, <2>1, <2>2 DEF StartupTypeOK, MigrateInv
  <2>5. ExecutingInv'
    <3>1. ASSUME NEW v \in Files, executing'[v] # None PROVE v > Len(schema')
      <4>1. v # version[i] /\ executing[v] # None /\ v \in Nat
        BY <2>4, <3>1 DEF Files
      <4> QED
        BY <1>t, <2>2, <4>1 DEF StartupInv, ExecutingInv
    <3> QED
      BY <3>1 DEF ExecutingInv
  <2>6. MigrateInv(i)' /\ SeedInv(i)'
    BY <1>t, <2>1, <2>2, <2>3, <2>4 DEF MigrateInv, SeedInv, At
  <2>7. ASSUME NEW j \in Instances \ {i} PROVE MigrateInv(j)' /\ SeedInv(j)'
    <3>1. At(j, "migrate", "commit") => executing'[version[j]] = executing[version[j]]
      <4> SUFFICES ASSUME At(j, "migrate", "commit")
                   PROVE  executing'[version[j]] = executing[version[j]]
        OBVIOUS
      <4>1. executing[version[j]] = j /\ version[j] \in Files
        BY <1>t, FilesAssumption DEF StartupInv, MigrateInv, StartupTypeOK, Files, At
      <4> QED
        BY <2>4, <2>7, <4>1
    <3> QED
      BY <1>t, <2>1, <2>2, <2>4, <2>7, <3>1, GotoFrame, OtherInstance DEF Stages
  <2> QED
    BY <2>1, <2>2, <2>3, <2>5, <2>6, <2>7 DEF StartupInv
<1> QED
  BY <1>1, <1>2, <1>3, <1>4, <1>5 DEF Migrate

LEMMA BootstrapKeepsInv ==
  ASSUME StartupInv, NEW i \in Instances, BootstrapDemo(i)
  PROVE  StartupInv'
<1> USE DEF shared, local
<1>t. StartupTypeOK /\ Len(schema) \in Nat /\ MigrateInv(i) /\ SeedInv(i)
  BY DEF StartupInv, StartupTypeOK
<1>f. /\ stage[i] = "bootstrap"
      /\ UNCHANGED <<table, ledger, schema, executing, bucket, files, version, restarts, faulted>>
  BY DEF BootstrapDemo, BeginSeed, SeedPolicy, CommitSeed, At
<1>r. Recorded' /\ ExecutingInv'
  BY <1>f DEF StartupInv, Recorded, ExecutingInv
<1>1. CASE BeginSeed(i)
  <2>1. UNCHANGED <<policies, adding>>
    BY <1>1 DEF BeginSeed
  <2>2. CASE Goto(i, "storage", "look") /\ UNCHANGED seeding
    <3>1. stage'[i] = "storage" /\ step'[i] = "look" /\ StartupTypeOK'
      BY <1>t, <1>f, <2>1, <2>2, GotoFrame DEF StartupTypeOK, Stages
    <3>2. MigrateInv(i)' /\ SeedInv(i)'
      BY <1>t, <1>f, <3>1 DEF MigrateInv, SeedInv, At
    <3>3. \A j \in Instances \ {i} : MigrateInv(j)' /\ SeedInv(j)'
      BY <1>t, <1>f, <2>1, <2>2, GotoFrame, OtherInstance DEF Stages
    <3> QED
      BY <1>r, <2>1, <3>1, <3>2, <3>3 DEF StartupInv
  <2>3. CASE seeding = None /\ seeding' = i /\ Goto(i, "bootstrap", "policy")
    <3>1. stage'[i] = "bootstrap" /\ step'[i] = "policy" /\ StartupTypeOK'
      BY <1>t, <1>f, <2>1, <2>3, GotoFrame DEF StartupTypeOK, Stages
    <3>2. MigrateInv(i)' /\ SeedInv(i)'
      BY <1>t, <1>f, <2>3, <3>1 DEF MigrateInv, SeedInv, At
    <3>3. \A j \in Instances \ {i} : MigrateInv(j)' /\ SeedInv(j)'
      BY <1>t, <1>f, <2>1, <2>3, GotoFrame, OtherInstance, InstancesAssumption DEF Stages
    <3> QED
      BY <1>r, <2>1, <3>1, <3>2, <3>3 DEF StartupInv
  <2> QED
    BY <1>1, <2>2, <2>3 DEF BeginSeed
<1>2. CASE SeedPolicy(i)
  <2>1. /\ At(i, "bootstrap", "policy") /\ Goto(i, "bootstrap", "commit")
        /\ UNCHANGED <<seeding, policies>>
        /\ adding' = [adding EXCEPT ![i] = (policies = 0)]
    BY <1>2 DEF SeedPolicy
  <2>2. /\ adding' \in [Instances -> BOOLEAN]
        /\ adding'[i] => policies = 0
        /\ \A j \in Instances \ {i} : adding'[j] = adding[j]
    BY <1>t, <2>1, Zenon DEF StartupTypeOK
  <2>3. stage'[i] = "bootstrap" /\ step'[i] = "commit" /\ StartupTypeOK'
    BY <1>t, <1>f, <2>1, <2>2, GotoFrame DEF StartupTypeOK, Stages
  <2>4. MigrateInv(i)' /\ SeedInv(i)'
    <3>1. MigrateInv(i)'
      BY <1>t, <1>f, <2>3 DEF MigrateInv, At
    <3>2. seeding' = i
      BY <1>t, <2>1 DEF SeedInv
    <3>3. adding'[i] => policies' = 0
      BY <2>1, <2>2
    <3> QED
      BY <3>1, <3>2, <3>3, Zenon DEF SeedInv
  <2>5. \A j \in Instances \ {i} : MigrateInv(j)' /\ SeedInv(j)'
    BY <1>t, <1>f, <2>1, <2>2, GotoFrame, OtherInstance DEF Stages
  <2> QED
    BY <1>r, <2>1, <2>3, <2>4, <2>5 DEF StartupInv
<1>3. CASE CommitSeed(i)
  <2>1. /\ At(i, "bootstrap", "commit") /\ Goto(i, "storage", "look")
        /\ seeding' = None /\ SeedTakesEffect(i) /\ UNCHANGED adding
    BY <1>3 DEF CommitSeed
  <2>2. seeding = i /\ policies' \in Nat /\ policies' <= 1
    BY <1>t, <2>1 DEF SeedInv, SeedTakesEffect, StartupInv, StartupTypeOK
  <2>3. stage'[i] = "storage" /\ step'[i] = "look" /\ StartupTypeOK'
    BY <1>t, <1>f, <2>1, <2>2, GotoFrame DEF StartupTypeOK, Stages
  <2>4. MigrateInv(i)' /\ SeedInv(i)'
    BY <1>t, <1>f, <2>3 DEF MigrateInv, SeedInv, At
  <2>5. \A j \in Instances \ {i} : MigrateInv(j)' /\ SeedInv(j)'
    BY <1>t, <1>f, <2>1, <2>2, GotoFrame, OtherInstance DEF Stages
  <2> QED
    BY <1>r, <2>2, <2>3, <2>4, <2>5 DEF StartupInv
<1> QED
  BY <1>1, <1>2, <1>3 DEF BootstrapDemo

LEMMA EnsureBucketKeepsInv ==
  ASSUME StartupInv, NEW i \in Instances, EnsureBucket(i)
  PROVE  StartupInv'
<1> USE DEF local
<1>t. StartupTypeOK /\ Len(schema) \in Nat /\ MigrateInv(i) /\ SeedInv(i)
  BY DEF StartupInv, StartupTypeOK
<1>f. /\ stage[i] = "storage"
      /\ UNCHANGED <<table, ledger, schema, policies, files, version, adding, restarts, faulted>>
  BY DEF EnsureBucket
<1>1. CASE StopInstance(i) /\ UNCHANGED bucket
  BY <1>1, <1>f, <1>t, StopKeepsInv DEF StartupTypeOK
<1>2. ASSUME NEW s \in {"up", "storage"}, NEW t \in {"none", "make"}, Goto(i, s, t),
             UNCHANGED <<executing, seeding>>, bucket' \in BOOLEAN
      PROVE  StartupInv'
  <2>1. stage'[i] = s /\ step'[i] = t /\ StartupTypeOK'
    BY <1>t, <1>f, <1>2, GotoFrame DEF StartupTypeOK, Stages
  <2>2. Recorded' /\ ExecutingInv'
    BY <1>2, <1>f DEF StartupInv, Recorded, ExecutingInv
  <2>3. MigrateInv(i)' /\ SeedInv(i)'
    BY <1>t, <1>f, <2>1 DEF MigrateInv, SeedInv, At
  <2>4. \A j \in Instances \ {i} : MigrateInv(j)' /\ SeedInv(j)'
    BY <1>t, <1>f, <1>2, GotoFrame, OtherInstance DEF Stages
  <2> QED
    BY <1>f, <2>1, <2>2, <2>3, <2>4 DEF StartupInv
<1>3. bucket' \in BOOLEAN
  BY <1>t, Zenon DEF EnsureBucket, StartupTypeOK
<1> QED
  BY <1>1, <1>2, <1>3 DEF EnsureBucket

\* A lost reply: what was committed counts, and the instance stops.
LEMMA FaultKeepsInv ==
  ASSUME StartupInv, NEW i \in Instances, Fault(i)
  PROVE  StartupInv'
<1>t. StartupTypeOK /\ Len(schema) \in Nat /\ MigrateInv(i) /\ SeedInv(i)
  BY DEF StartupInv, StartupTypeOK
<1>f. StopInstance(i) /\ faulted' \in BOOLEAN
      /\ UNCHANGED <<table, bucket, files, version, adding, restarts>>
  BY DEF Fault, Abort, LoseReply
<1>1. CASE UNCHANGED <<ledger, schema, policies>>
  BY <1>1, <1>f, StopKeepsInv
<1>2. CASE At(i, "migrate", "commit") /\ TakesEffect(i) /\ UNCHANGED policies
  <2>1. /\ version[i] \in Files /\ version[i] = Len(schema) + 1
        /\ schema' \in Seq(Files) /\ Len(schema') = Len(schema) + 1
        /\ Recorded'
    BY <1>2, CommitGrows
  <2>2. StartupTypeOK'
    BY <1>t, <1>f, <1>2, <2>1, StopFrame DEF StartupTypeOK
  <2>3. ExecutingInv'
    <3>1. ASSUME NEW v \in Files, executing'[v] # None PROVE v > Len(schema')
      <4>1. executing[version[i]] = i /\ executing'[version[i]] # i
        BY <1>t, <1>f, <1>2, <2>1, StopFrame DEF MigrateInv
      <4>2. v # version[i] /\ executing[v] # None /\ v \in Nat
        BY <1>t, <1>f, <3>1, <4>1, StopFrame DEF Files
      <4> QED
        BY <1>t, <2>1, <4>2 DEF StartupInv, ExecutingInv
    <3> QED
      BY <3>1 DEF ExecutingInv
  <2>4. MigrateInv(i)' /\ SeedInv(i)'
    BY <1>t, <1>f, StopFrame DEF MigrateInv, SeedInv, At
  <2>5. ASSUME NEW j \in Instances \ {i} PROVE MigrateInv(j)' /\ SeedInv(j)'
    <3>1. At(j, "migrate", "commit") => executing'[version[j]] = executing[version[j]]
      <4> SUFFICES ASSUME At(j, "migrate", "commit")
                   PROVE  executing'[version[j]] = executing[version[j]]
        OBVIOUS
      <4>1. executing[version[j]] = j /\ version[j] \in Files
        BY <1>t, FilesAssumption DEF StartupInv, MigrateInv, StartupTypeOK, Files, At
      <4> QED
        BY <1>t, <1>f, <2>5, <4>1, StopFrame
    <3> QED
      BY <1>t, <1>f, <1>2, <2>1, <2>5, <3>1, StopFrame, OtherInstance
  <2> QED
    BY <1>2, <2>1, <2>2, <2>3, <2>4, <2>5 DEF StartupInv
<1>3. CASE At(i, "bootstrap", "commit") /\ SeedTakesEffect(i) /\ UNCHANGED <<schema, ledger>>
  <2>1. seeding = i /\ policies' \in Nat /\ policies' <= 1
    BY <1>t, <1>3 DEF SeedInv, SeedTakesEffect, StartupInv, StartupTypeOK
  <2>2. StartupTypeOK'
    BY <1>t, <1>f, <1>3, <2>1, StopFrame DEF StartupTypeOK
  <2>3. Recorded' /\ ExecutingInv'
    BY <1>t, <1>f, <1>3, StopFrame DEF StartupInv, Recorded, ExecutingInv
  <2>4. MigrateInv(i)' /\ SeedInv(i)'
    BY <1>t, <1>f, StopFrame DEF MigrateInv, SeedInv, At
  <2>5. ASSUME NEW j \in Instances \ {i} PROVE MigrateInv(j)' /\ SeedInv(j)'
    <3>1. At(j, "migrate", "commit") => executing'[version[j]] = executing[version[j]]
      <4> SUFFICES ASSUME At(j, "migrate", "commit")
                   PROVE  executing'[version[j]] = executing[version[j]]
        OBVIOUS
      <4>1. executing[version[j]] = j /\ version[j] \in Files
        BY <1>t, FilesAssumption DEF StartupInv, MigrateInv, StartupTypeOK, Files, At
      <4> QED
        BY <1>t, <1>f, <2>5, <4>1, StopFrame
    <3> QED
      BY <1>t, <1>f, <1>3, <2>1, <2>5, <3>1, StopFrame, OtherInstance
  <2> QED
    BY <2>1, <2>2, <2>3, <2>4, <2>5 DEF StartupInv
<1> QED
  BY <1>1, <1>2, <1>3 DEF Fault, Abort, LoseReply

LEMMA RestartKeepsInv ==
  ASSUME StartupInv, NEW i \in Instances, Restart(i)
  PROVE  StartupInv'
<1> USE DEF shared
<1>t. StartupTypeOK /\ Len(schema) \in Nat
  BY DEF StartupInv, StartupTypeOK
<1>1. /\ Goto(i, "migrate", "ledger") /\ version' = [version EXCEPT ![i] = 1]
      /\ restarts' = restarts + 1
      /\ UNCHANGED <<table, ledger, schema, executing, seeding, policies, bucket,
                     files, adding, faulted>>
  BY DEF Restart
<1>2. stage'[i] = "migrate" /\ step'[i] = "ledger" /\ StartupTypeOK'
  BY <1>t, <1>1, GotoFrame DEF StartupTypeOK, Stages
<1>3. version'[i] = 1 /\ \A j \in Instances \ {i} : version'[j] = version[j]
  BY <1>t, <1>1 DEF StartupTypeOK
<1>4. Recorded' /\ ExecutingInv'
  BY <1>1 DEF StartupInv, Recorded, ExecutingInv
<1>5. MigrateInv(i)' /\ SeedInv(i)'
  BY <1>t, <1>1, <1>2, <1>3 DEF MigrateInv, SeedInv, At
<1>6. \A j \in Instances \ {i} : MigrateInv(j)' /\ SeedInv(j)'
  BY <1>t, <1>1, <1>3, GotoFrame, OtherInstance DEF Stages
<1> QED
  BY <1>1, <1>2, <1>4, <1>5, <1>6 DEF StartupInv

LEMMA StartupInvNext == StartupInv /\ [StartupNext]_startupVars => StartupInv'
<1> SUFFICES ASSUME StartupInv, [StartupNext]_startupVars PROVE StartupInv'
  OBVIOUS
<1>1. CASE StartupNext
  BY <1>1, MigrateKeepsInv, BootstrapKeepsInv, EnsureBucketKeepsInv, FaultKeepsInv,
     RestartKeepsInv
  DEF StartupNext, InstanceStep
<1>2. CASE UNCHANGED startupVars
  BY <1>2 DEF startupVars, StartupInv, StartupTypeOK, Recorded, ExecutingInv, MigrateInv,
              SeedInv, At
<1> QED
  BY <1>1, <1>2

-----------------------------------------------------------------------------
(***************************************************************************)
(* Why instances cannot all stop each other.  An instance is beaten when   *)
(* what it is about to create exists already; the one that created it was, *)
(* in that step, beaten in nothing.                                        *)
(***************************************************************************)
Beaten(i) ==
  \/ At(i, "migrate", "create") /\ table
  \/ At(i, "migrate", "execute") /\ version[i] \in Range(schema)
  \/ At(i, "storage", "make") /\ bucket

Unbeaten(i) == (Starting(i) \/ stage[i] = "up") /\ ~Beaten(i)

RaceInv == ~faulted => \E i \in Instances : Unbeaten(i)

LEMMA RaceInit == StartupInit => RaceInv
BY SelfAssumption DEF StartupInit, RaceInv, Unbeaten, Beaten, Starting, At

\* An unbeaten instance leaves its start-up only upwards, without a fault.
LEMMA UnbeatenMoves ==
  ASSUME StartupInv, NEW i \in Instances, InstanceStep(i), Unbeaten(i)
  PROVE  Unbeaten(i)'
<1> USE DEF shared, local, At
<1>t. StartupTypeOK /\ ledger = 1 .. Len(schema) /\ version[i] \in Nat /\ Len(schema) \in Nat
  BY DEF StartupInv, Recorded, StartupTypeOK
<1>1. CASE LookForLedger(i)
  BY <1>1, <1>t DEF LookForLedger, Goto, Unbeaten, Beaten, Starting, StartupTypeOK
<1>2. CASE CreateLedger(i)
  BY <1>2, <1>t DEF CreateLedger, Goto, Unbeaten, Beaten, Starting, StartupTypeOK
<1>3. CASE CheckVersion(i)
  <2>1. \A v \in Range(schema) : v \in ledger
    <3>1. \A n \in DOMAIN schema : schema[n] \in ledger
      BY <1>t DEF StartupInv, Recorded, StartupTypeOK
    <3> QED
      BY <3>1 DEF Range
  <2> QED
    BY <1>3, <1>t, <2>1 DEF CheckVersion, Goto, Unbeaten, Beaten, Starting, StartupTypeOK
<1>4. CASE ExecuteFile(i)
  BY <1>4, <1>t DEF ExecuteFile, Goto, Unbeaten, Beaten, Starting, StartupTypeOK
<1>5. CASE CommitFile(i)
  BY <1>5, <1>t DEF CommitFile, Goto, Unbeaten, Beaten, Starting, StartupTypeOK
<1>6. CASE BootstrapDemo(i)
  BY <1>6, <1>t
  DEF BootstrapDemo, BeginSeed, SeedPolicy, CommitSeed, Goto, Unbeaten, Beaten, Starting,
      StartupTypeOK
<1>7. CASE EnsureBucket(i)
  BY <1>7, <1>t DEF EnsureBucket, Goto, Unbeaten, Beaten, Starting, StartupTypeOK
<1> QED
  BY <1>1, <1>2, <1>3, <1>4, <1>5, <1>6, <1>7 DEF InstanceStep, Migrate

\* A step of another instance beats it only by creating something, and then the
\* other one is unbeaten.
LEMMA UnbeatenYields ==
  ASSUME StartupInv, NEW i \in Instances, NEW j \in Instances \ {i}, InstanceStep(i),
         Unbeaten(j)
  PROVE  Unbeaten(i)' \/ Unbeaten(j)'
<1> USE DEF shared, local, At
<1>t. StartupTypeOK
  BY DEF StartupInv
<1>f. stage'[j] = stage[j] /\ step'[j] = step[j] /\ version'[j] = version[j]
  BY <1>t
  DEF InstanceStep, Migrate, LookForLedger, CreateLedger, CheckVersion, ExecuteFile,
      CommitFile, BootstrapDemo, BeginSeed, SeedPolicy, CommitSeed, EnsureBucket, Goto,
      StopInstance, StartupTypeOK
<1>1. CASE table' = table /\ schema' = schema /\ bucket' = bucket
  BY <1>f, <1>1 DEF Unbeaten, Beaten, Starting
<1>2. CASE CreateLedger(i) /\ table' # table
  BY <1>t, <1>2 DEF CreateLedger, Goto, Unbeaten, Beaten, Starting, StartupTypeOK
<1>3. CASE CommitFile(i)
  BY <1>t, <1>3 DEF CommitFile, Goto, Unbeaten, Beaten, Starting, StartupTypeOK
<1>4. CASE EnsureBucket(i) /\ bucket' # bucket
  BY <1>t, <1>4 DEF EnsureBucket, Goto, Unbeaten, Beaten, Starting, StartupTypeOK
<1> QED
  BY <1>1, <1>2, <1>3, <1>4
  DEF InstanceStep, Migrate, LookForLedger, CreateLedger, CheckVersion, ExecuteFile,
      BootstrapDemo, BeginSeed, SeedPolicy, CommitSeed, EnsureBucket

LEMMA RaceNext == StartupInv /\ RaceInv /\ [StartupNext]_startupVars => RaceInv'
<1> SUFFICES ASSUME StartupInv, RaceInv, [StartupNext]_startupVars, ~faulted'
             PROVE  \E i \in Instances : Unbeaten(i)'
  BY DEF RaceInv
<1>1. ASSUME NEW i \in Instances, InstanceStep(i)
      PROVE  \E j \in Instances : Unbeaten(j)'
  <2>1. faulted' = faulted
    BY <1>1
    DEF InstanceStep, Migrate, LookForLedger, CreateLedger, CheckVersion, ExecuteFile,
        CommitFile, BootstrapDemo, BeginSeed, SeedPolicy, CommitSeed, EnsureBucket, local
  <2>2. PICK j \in Instances : Unbeaten(j)
    BY <2>1 DEF RaceInv
  <2> QED
    BY <1>1, <2>2, UnbeatenMoves, UnbeatenYields
<1>2. ASSUME NEW i \in Instances, Fault(i) PROVE FALSE
  BY <1>2 DEF Fault, Abort, LoseReply
<1>3. ASSUME NEW i \in Instances, Restart(i) PROVE Unbeaten(i)'
  BY <1>3 DEF Restart, Goto, Unbeaten, Beaten, Starting, At, StartupInv, StartupTypeOK
<1>4. CASE UNCHANGED startupVars
  BY <1>4 DEF startupVars, RaceInv, Unbeaten, Beaten, Starting, At
<1> QED
  BY <1>1, <1>2, <1>3, <1>4 DEF StartupNext

-----------------------------------------------------------------------------
(***************************************************************************)
(* The composition: every step of a deployment is a step of Startup or     *)
(* leaves the database, the bucket and the instances alone.                *)
(***************************************************************************)
LEMMA DeploymentStartup == [DeploymentNext]_deploymentVars => [StartupNext]_startupVars
BY SelfAssumption
DEF DeploymentNext, SelfStep, OwnStep, OtherStep, StartupNext, deploymentVars

\* A server process that is signalled, fails, serves and stops among instances
\* that start is, to the database and the bucket, one of those instances.
THEOREM DeploymentImplementsStartup == DeploymentSpec => StartupSpec
BY DeploymentStartup, PTL DEF DeploymentSpec, DeploymentInit, StartupSpec

LEMMA StartupAlways == StartupSpec => [](StartupInv /\ RaceInv)
<1>1. StartupInit => StartupInv /\ RaceInv
  BY StartupInvInit, RaceInit
<1>2. (StartupInv /\ RaceInv) /\ [StartupNext]_startupVars => (StartupInv /\ RaceInv)'
  BY StartupInvNext, RaceNext
<1> QED
  BY <1>1, <1>2, PTL DEF StartupSpec

\* Each migration takes effect once and in the order of the files, the ledger
\* records exactly those, and no instance leaves Migrate before its release's
\* files are applied: for every interleaving of starts, failures, lost replies
\* and restarts, although no lock is taken around Migrate.
THEOREM MigrationsInOrder == DeploymentSpec => []SchemaInOrder
<1>1. StartupInv => SchemaInOrder
  <2> SUFFICES ASSUME StartupInv PROVE SchemaInOrder
    OBVIOUS
  <2>1. schema \in Seq(Files) /\ DOMAIN schema = 1 .. Len(schema)
    BY DEF StartupInv, StartupTypeOK
  <2>2. \A n \in DOMAIN schema : schema[n] = n
    BY DEF StartupInv, Recorded
  <2>3. Range(schema) = DOMAIN schema
    BY <2>2 DEF Range
  <2>4. ledger = Range(schema)
    BY <2>1, <2>3 DEF StartupInv, Recorded
  <2> QED
    BY <2>2, <2>4 DEF StartupInv, MigrateInv, SchemaInOrder
<1> QED
  BY <1>1, DeploymentImplementsStartup, StartupAlways, PTL

\* At most one demo policy, however many instances bootstrap, fail between the
\* INSERT and its COMMIT, or lose the reply to it.
THEOREM DemoPolicyOnce == DeploymentSpec => []OneDemoPolicy
<1>1. StartupInv => OneDemoPolicy
  BY DEF StartupInv, OneDemoPolicy
<1> QED
  BY <1>1, DeploymentImplementsStartup, StartupAlways, PTL

\* Instances that contend for the ledger, the files and the bucket do not all
\* give up: if nothing else failed, one of them comes up.
THEOREM OneInstanceComesUp == DeploymentSpec => []SomeoneComesUp
<1>1. RaceInv => SomeoneComesUp
  BY DEF RaceInv, Unbeaten, SomeoneComesUp
<1> QED
  BY <1>1, DeploymentImplementsStartup, StartupAlways, PTL

-----------------------------------------------------------------------------
(***************************************************************************)
(* The process's own end.                                                  *)
(***************************************************************************)

\* What an idle or stopped worker still has in Docker no Destroy will remove; the
\* listener is closed for good before the pool, and the pool only when no
\* request is left.
ProcessInv ==
  /\ worker \in [Workers -> {"idle", "running", "cleanup", "stopped"}]
  /\ sandbox \subseteq Workers
  /\ \A w \in sandbox \ unremoved : worker[w] \in {"running", "cleanup"}
  /\ pc \in {"shutdown", "closing", "draining", "returned"} => ~listening
  /\ pc = "closing" => requests = {} /\ streams = {}
  /\ result = "ok" => pc \in {"draining", "returned"}
  /\ CleanReturn

LEMMA ProcessInit == Init => ProcessInv
BY DEF Init, ProcessInv, CleanReturn, StartUpSteps

LEMMA StartErrorKeeps == ProcessInv /\ StartError => ProcessInv'
BY DEF StartError, Return, docker, ProcessInv, CleanReturn

LEMMA StartOKKeeps ==
  ASSUME NEW i \in DOMAIN StartUpSteps, ProcessInv, StartOK(i)
  PROVE  ProcessInv'
<1>1. /\ pc' \notin {"shutdown", "closing", "draining", "returned"}
      /\ pc \notin {"draining", "returned"}
      /\ UNCHANGED <<result, requests, streams, worker, sandbox, unremoved>>
  BY DEF StartOK, StartUpSteps, docker
<1> QED
  BY <1>1 DEF ProcessInv, CleanReturn

LEMMA WorkerKeeps ==
  ASSUME NEW w \in Workers, ProcessInv,
         StartRun(w) \/ MakeSandbox(w) \/ EndRun(w) \/ Destroy(w) \/ Stop(w)
  PROVE  ProcessInv'
<1> USE DEF docker
<1>1. worker[w] # "stopped" /\ UNCHANGED <<pc, result, listening, requests, streams>>
  BY DEF StartRun, MakeSandbox, EndRun, Destroy, Stop
<1>2. result # "ok"
  BY <1>1 DEF ProcessInv, CleanReturn
<1>3. worker' \in [Workers -> {"idle", "running", "cleanup", "stopped"}]
  BY DEF StartRun, MakeSandbox, EndRun, Destroy, Stop, ProcessInv
<1>4. /\ sandbox' \subseteq Workers
      /\ \A v \in sandbox' \ unremoved' : worker'[v] \in {"running", "cleanup"}
  <2>1. CASE StartRun(w) \/ EndRun(w) \/ Stop(w)
    BY <2>1 DEF StartRun, EndRun, Stop, ProcessInv
  <2>2. CASE MakeSandbox(w)
    BY <2>2 DEF MakeSandbox, ProcessInv
  <2>3. CASE Destroy(w)
    BY <2>3 DEF Destroy, ProcessInv
  <2> QED
    BY <2>1, <2>2, <2>3
<1> QED
  BY <1>1, <1>2, <1>3, <1>4 DEF ProcessInv, CleanReturn

LEMMA ProcessNext == ProcessInv /\ Next => ProcessInv'
<1> SUFFICES ASSUME ProcessInv, Next PROVE ProcessInv'
  OBVIOUS
<1> USE DEF docker
<1>1. CASE Signal \/ Expire
  BY <1>1 DEF Signal, Expire, ProcessInv, CleanReturn
<1>2. CASE ServerError
  BY <1>2 DEF ServerError, Return, ProcessInv, CleanReturn
<1>3. CASE StartUp
  BY <1>3, StartOKKeeps, StartErrorKeeps DEF StartUp
<1>4. CASE BeginShutdown
  BY <1>4 DEF BeginShutdown, ProcessInv, CleanReturn
<1>5. CASE ServerShutdown
  BY <1>5 DEF ServerShutdown, Return, ProcessInv, CleanReturn
<1>6. CASE WorkersClose
  BY <1>6 DEF WorkersClose, Return, ProcessInv, CleanReturn
<1>7. CASE PoolClose
  BY <1>7 DEF PoolClose, ProcessInv, CleanReturn
<1>8. CASE Arrive
  BY <1>8 DEF Arrive, ProcessInv, CleanReturn
<1>9. ASSUME NEW r, Answer(r) \/ Leave(r) PROVE ProcessInv'
  BY <1>9 DEF Answer, Leave, ProcessInv, CleanReturn
<1>10. ASSUME NEW h, Acquire(h) \/ Release(h) PROVE ProcessInv'
  BY <1>10 DEF Acquire, Release, ProcessInv, CleanReturn
<1>11. ASSUME NEW w \in Workers,
              StartRun(w) \/ MakeSandbox(w) \/ EndRun(w) \/ Destroy(w) \/ Stop(w)
       PROVE  ProcessInv'
  BY <1>11, WorkerKeeps
<1> QED
  BY <1>1, <1>2, <1>3, <1>4, <1>5, <1>6, <1>7, <1>8, <1>9, <1>10, <1>11 DEF Next, main

LEMMA ProcessDeployment == ProcessInv /\ [DeploymentNext]_deploymentVars => ProcessInv'
<1> SUFFICES ASSUME ProcessInv, [DeploymentNext]_deploymentVars PROVE ProcessInv'
  OBVIOUS
<1>1. CASE UNCHANGED vars
  BY <1>1 DEF vars, docker, ProcessInv, CleanReturn
<1>2. CASE SelfStep
  BY <1>1, <1>2, StartErrorKeeps, StartOKKeeps DEF SelfStep
<1>3. CASE OwnStep(Next)
  BY <1>3, ProcessNext DEF OwnStep
<1> QED
  BY <1>1, <1>2, <1>3 DEF DeploymentNext, OtherStep, deploymentVars

\* When run returns nil every worker has stopped and nothing is being served,
\* whatever was running when the signal came; what is left in Docker is what a
\* Destroy whose error is ignored, or a killed network create, left there.
THEOREM ReturnIsClean == DeploymentSpec => []CleanReturn
<1>1. DeploymentInit => ProcessInv
  BY ProcessInit DEF DeploymentInit
<1>2. ProcessInv => CleanReturn
  BY DEF ProcessInv
<1> QED
  BY <1>1, <1>2, ProcessDeployment, PTL DEF DeploymentSpec
=============================================================================
