------------------------------- MODULE Startup -------------------------------
(***************************************************************************)
(* What instances of the server that start together do to the database and *)
(* the bucket they share before they serve: database.Migrate,              *)
(* Store.BootstrapDemo and S3.EnsureBucket, called one after the other by  *)
(* main.run.  An instance that meets an error stops.                       *)
(*                                                                         *)
(* A migration file is one transaction that also inserts its own version   *)
(* into schema_migrations (migrations/001_initial.sql; later files are     *)
(* taken to do the same).  Nothing else keeps two instances from executing *)
(* the same file: the second one waits for the first one's uncommitted     *)
(* catalog rows, and fails if they are committed.                          *)
(***************************************************************************)
EXTENDS Naturals, Sequences, Functions

CONSTANTS
  Instances,
  S3Instances,   \* those configured for S3; the others store locally
  None,
  MaxFiles,      \* bound: migration files of the newest release
  MaxRestarts    \* bound: restarts of instances that stopped

ASSUME InstancesAssumption == S3Instances \subseteq Instances /\ None \notin Instances
ASSUME FilesAssumption == MaxFiles \in Nat /\ MaxRestarts \in Nat

VARIABLES
  files,     \* instance -> the migration files its release carries: 1 .. files[i]
  table,     \* does schema_migrations exist?
  ledger,    \* the versions recorded in it
  schema,    \* the files whose statements took effect, in that order
  executing, \* file -> the instance with an open transaction for it, or None
  seeding,   \* the instance whose transaction holds the demo organization, or None
  policies,  \* demo policies
  bucket,    \* does the bucket exist?
  stage,     \* instance: migrate, bootstrap, storage, up, stopped
  step,      \* the next statement of its stage
  version,   \* the file Migrate is at
  adding,    \* does its bootstrap transaction insert a policy?
  restarts,
  faulted    \* has an instance stopped for another reason than the others?

startupVars == <<files, table, ledger, schema, executing, seeding, policies, bucket,
                 stage, step, version, adding, restarts, faulted>>

Files == 1 .. MaxFiles

\* A database of an earlier release, or an empty one.
StartupInit ==
  /\ files \in [Instances -> Files]
  /\ \E n \in 0 .. MaxFiles :
       /\ schema = [v \in 1 .. n |-> v]
       /\ ledger = 1 .. n
       /\ table \in IF n = 0 THEN BOOLEAN ELSE {TRUE}
       /\ policies \in IF n = 0 THEN {0} ELSE {0, 1}
  /\ executing = [v \in Files |-> None]
  /\ seeding = None
  /\ bucket \in BOOLEAN
  /\ stage = [i \in Instances |-> "migrate"]
  /\ step = [i \in Instances |-> "ledger"]
  /\ version = [i \in Instances |-> 1]
  /\ adding = [i \in Instances |-> FALSE]
  /\ restarts = 0 /\ faulted = FALSE

shared == <<table, ledger, schema, executing, seeding, policies, bucket>>
local == <<files, version, adding, restarts, faulted>>

At(i, s, t) == stage[i] = s /\ step[i] = t

\* The instance goes on with this statement of this stage.
Goto(i, s, t) ==
  /\ stage' = [stage EXCEPT ![i] = s]
  /\ step' = [step EXCEPT ![i] = t]

\* A call returned an error, and so does run.  Open transactions are rolled back.
StopInstance(i) ==
  /\ Goto(i, "stopped", "none")
  /\ executing' = [v \in Files |-> IF executing[v] = i THEN None ELSE executing[v]]
  /\ seeding' = IF seeding = i THEN None ELSE seeding

-----------------------------------------------------------------------------
\* CREATE TABLE IF NOT EXISTS looks first; two that both find nothing both
\* create, and the second one to commit is refused.
LookForLedger(i) ==
  /\ At(i, "migrate", "ledger")
  /\ Goto(i, "migrate", IF table THEN "check" ELSE "create")
  /\ UNCHANGED <<shared, local>>

CreateLedger(i) ==
  /\ At(i, "migrate", "create")
  /\ \/ table /\ StopInstance(i) /\ UNCHANGED table
     \/ ~table /\ Goto(i, "migrate", "check") /\ table' = TRUE /\ UNCHANGED <<executing, seeding>>
  /\ UNCHANGED <<ledger, schema, policies, bucket, local>>

\* Mutant: the ledger is not asked.
CheckVersion_NoLookup(i) ==
  /\ At(i, "migrate", "check")
  /\ IF version[i] > files[i] THEN Goto(i, "bootstrap", "begin")
                              ELSE Goto(i, "migrate", "execute")
  /\ UNCHANGED <<shared, local>>

\* The loop over the sorted files, and SELECT EXISTS for the next of them.
CheckVersion(i) ==
  /\ At(i, "migrate", "check")
  /\ \/ /\ version[i] > files[i]
        /\ Goto(i, "bootstrap", "begin") /\ UNCHANGED version
     \/ /\ version[i] <= files[i] /\ version[i] \in ledger
        /\ version' = [version EXCEPT ![i] = @ + 1] /\ UNCHANGED <<stage, step>>
     \/ /\ version[i] <= files[i] /\ version[i] \notin ledger
        /\ Goto(i, "migrate", "execute") /\ UNCHANGED version
  /\ UNCHANGED <<shared, files, adding, restarts, faulted>>

\* The file's statements, which wait for another transaction that executes the
\* same ones and fail once their objects exist.
ExecuteFile(i) ==
  /\ At(i, "migrate", "execute")
  /\ executing[version[i]] = None
  /\ \/ version[i] \in Range(schema) /\ StopInstance(i)
     \/ /\ version[i] \notin Range(schema)
        /\ executing' = [executing EXCEPT ![version[i]] = i]
        /\ Goto(i, "migrate", "commit") /\ UNCHANGED seeding
  /\ UNCHANGED <<table, ledger, schema, policies, bucket, local>>

\* COMMIT makes the file's objects and its row in the ledger visible together.
TakesEffect(i) ==
  /\ schema' = Append(schema, version[i])
  /\ ledger' = ledger \cup {version[i]}

CommitFile(i) ==
  /\ At(i, "migrate", "commit")
  /\ TakesEffect(i)
  /\ executing' = [executing EXCEPT ![version[i]] = None]
  /\ version' = [version EXCEPT ![i] = @ + 1]
  /\ Goto(i, "migrate", "check")
  /\ UNCHANGED <<table, seeding, policies, bucket, files, adding, restarts, faulted>>

Migrate(i) ==
  LookForLedger(i) \/ CreateLedger(i) \/ CheckVersion(i) \/ ExecuteFile(i) \/ CommitFile(i)

-----------------------------------------------------------------------------
\* Mutant: the statements commit one by one, and the first holds no lock.
BeginSeed_NoTransaction(i) ==
  /\ At(i, "bootstrap", "begin")
  /\ Goto(i, "bootstrap", "policy")
  /\ UNCHANGED <<shared, local>>

\* Without bootstrap credentials there is nothing to do.  The upsert of the
\* organization waits for a transaction that holds the same row.
BeginSeed(i) ==
  /\ At(i, "bootstrap", "begin")
  /\ \/ Goto(i, "storage", "look") /\ UNCHANGED seeding
     \/ /\ seeding = None
        /\ seeding' = i
        /\ Goto(i, "bootstrap", "policy")
  /\ UNCHANGED <<table, ledger, schema, executing, policies, bucket, local>>

\* INSERT ... WHERE NOT EXISTS: no constraint keeps two policies of one name apart.
SeedPolicy(i) ==
  /\ At(i, "bootstrap", "policy")
  /\ adding' = [adding EXCEPT ![i] = policies = 0]
  /\ Goto(i, "bootstrap", "commit")
  /\ UNCHANGED <<shared, files, version, restarts, faulted>>

SeedTakesEffect(i) == policies' = IF adding[i] THEN policies + 1 ELSE policies

CommitSeed(i) ==
  /\ At(i, "bootstrap", "commit")
  /\ SeedTakesEffect(i)
  /\ seeding' = None
  /\ Goto(i, "storage", "look")
  /\ UNCHANGED <<table, ledger, schema, executing, bucket, local>>

BootstrapDemo(i) == BeginSeed(i) \/ SeedPolicy(i) \/ CommitSeed(i)

\* BucketExists and then MakeBucket, which a server may refuse to the second of
\* two instances.  Local storage has nothing to contend for.
EnsureBucket(i) ==
  /\ stage[i] = "storage"
  /\ \/ /\ step[i] = "look" /\ (i \notin S3Instances \/ bucket)
        /\ Goto(i, "up", "none") /\ UNCHANGED <<executing, seeding, bucket>>
     \/ /\ step[i] = "look" /\ i \in S3Instances /\ ~bucket
        /\ Goto(i, "storage", "make") /\ UNCHANGED <<executing, seeding, bucket>>
     \/ /\ step[i] = "make"
        /\ Goto(i, "up", "none") /\ bucket' = TRUE /\ UNCHANGED <<executing, seeding>>
     \/ /\ step[i] = "make" /\ bucket
        /\ StopInstance(i) /\ UNCHANGED bucket
  /\ UNCHANGED <<table, ledger, schema, policies, local>>

InstanceStep(i) == Migrate(i) \/ BootstrapDemo(i) \/ EnsureBucket(i)

-----------------------------------------------------------------------------
Starting(i) == stage[i] \in {"migrate", "bootstrap", "storage"}

\* Mutant: the file is not one transaction, and what was executed stays.
Abort_KeepsStatements(i) ==
  /\ Starting(i)
  /\ StopInstance(i) /\ faulted' = TRUE
  /\ schema' = IF At(i, "migrate", "commit") THEN Append(schema, version[i]) ELSE schema
  /\ UNCHANGED <<table, ledger, policies, bucket, files, version, adding, restarts>>

\* A call fails by itself, its context is done, or the process dies.
Abort(i) ==
  /\ Starting(i)
  /\ StopInstance(i) /\ faulted' = TRUE
  /\ UNCHANGED <<table, ledger, schema, policies, bucket, files, version, adding, restarts>>

\* The commit took effect and its reply was lost.
LoseReply(i) ==
  /\ \/ At(i, "migrate", "commit") /\ TakesEffect(i) /\ UNCHANGED policies
     \/ At(i, "bootstrap", "commit") /\ SeedTakesEffect(i) /\ UNCHANGED <<schema, ledger>>
  /\ StopInstance(i) /\ faulted' = TRUE
  /\ UNCHANGED <<table, bucket, files, version, adding, restarts>>

Fault(i) == Abort(i) \/ LoseReply(i)

\* An operator starts a stopped instance again.
Restart(i) ==
  /\ stage[i] = "stopped" /\ restarts < MaxRestarts
  /\ restarts' = restarts + 1
  /\ Goto(i, "migrate", "ledger")
  /\ version' = [version EXCEPT ![i] = 1]
  /\ UNCHANGED <<shared, files, adding, faulted>>

StartupNext == \E i \in Instances : InstanceStep(i) \/ Fault(i) \/ Restart(i)

StartupSpec == StartupInit /\ [][StartupNext]_startupVars

-----------------------------------------------------------------------------
\* However the starts, failures and restarts of instances of different releases
\* interleave, each migration takes effect once and in the order of the files,
\* the ledger records exactly the ones that did, and an instance past Migrate
\* has every file of its release applied.
SchemaInOrder ==
  /\ \A n \in DOMAIN schema : schema[n] = n
  /\ ledger = Range(schema)
  /\ \A i \in Instances :
       stage[i] \in {"bootstrap", "storage", "up"} => files[i] <= Len(schema)

\* Instances that only get in each other's way do not all stop: when every one
\* of them has ended its start-up and nothing else failed, one is up.
SomeoneComesUp ==
  (\A i \in Instances : ~Starting(i)) /\ ~faulted => \E i \in Instances : stage[i] = "up"

\* BootstrapDemo adds the demo policy once, although no constraint says so and
\* every instance runs it at every start.
OneDemoPolicy == policies <= 1
=============================================================================
