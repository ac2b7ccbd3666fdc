----------------------------- MODULE DrillWorker -----------------------------
(***************************************************************************)
(* The life of recovery drills in one RestoreGuard server: the handlers    *)
(* that create and cancel drills, the bounded jobs channel, the worker     *)
(* goroutines of drill.WorkerPool, and the three outside systems a run     *)
(* touches: PostgreSQL rows, Docker sandboxes and evidence objects.        *)
(*                                                                         *)
(* One value of pc[w] is one point of WorkerPool.run between two calls     *)
(* that other processes can observe.  A call made with the run's context   *)
(* succeeds only while the context is live; when the context is done the   *)
(* call returns an error.  Whatever else fails is in the set faults, which *)
(* a behaviour chooses at its start; the properties say which faults they  *)
(* bear.                                                                   *)
(***************************************************************************)
EXTENDS RecoveryDomain

CONSTANTS
  Drills,      \* idempotency keys, each naming at most one drill row
  Workers,     \* worker goroutines (RESTOREGUARD_MAX_CONCURRENT_DRILLS)
  NoWorker,    \* "not in the running map"
  NoDrill,     \* "no job"
  QueueCap,    \* capacity of the jobs channel (100 in the code)
  Inputs,      \* the kinds of snapshot and policy that drills are created with
  FaultSets    \* what may go wrong together: sets of FaultKinds

\* What the row of the drill's snapshot and policy leads the run to find:
\* no trusted storage key or no policy; an artifact with another checksum than
\* the snapshot's; a dump psql rejects; a good dump with required checks the
\* worker has no profile for; a good dump and connectivity only; the same of
\* a snapshot without a checksum, whose artifact may be any dump that psql
\* takes: the run has nothing to compare it with.
InputKinds == {"noSnapshot", "corrupt", "unrestorable", "limited", "full", "unchecked"}

\* db: a statement fails.  lostReply: a write, or a Docker command that is
\* killed, takes effect although its caller gets an error.  docker, storage: a
\* command or an object operation fails.  deadline: DrillTimeout expires.
\* client: a client goes away.  foreign: a user of another organization cancels.
\* shutdown: WorkerPool.Close.  restart: the process dies and is started again.
FaultKinds ==
  {"db", "lostReply", "docker", "storage", "deadline", "client", "foreign",
   "shutdown", "restart"}

ASSUME DrillsAssumption == NoDrill \notin Drills
ASSUME WorkersAssumption == NoWorker \notin Workers
ASSUME QueueAssumption == QueueCap \in Nat \ {0}
ASSUME InputsAssumption == Inputs \subseteq InputKinds
ASSUME FaultsAssumption == FaultSets \subseteq SUBSET FaultKinds

VARIABLES
  status,      \* recovery_drills.status, Absent before the row exists
  verdict,     \* recovery_drills.recovery_status
  evidence,    \* artifact, evidence and report rows (written in one transaction)
  steps,       \* drill_steps.sequence values
  sboxRow,     \* recovery_sandboxes.status
  input,       \* what the drill's snapshot and policy rows hold
  object,      \* is the evidence object in object storage?
  sandbox,     \* does Docker hold a container, network or volume of the drill?
  pending,     \* a create handler is between its INSERT and Submit
  accepted,    \* some POST for the drill was answered 202
  canceller,   \* a cancel handler is between Cancel(id) and its UPDATE:
               \* signalled by the drill's organization, or foreign
  queue,       \* the jobs channel
  running,     \* WorkerPool.running: the worker whose cancel function is filed
  root,        \* is the pool's root context cancelled?
  pc, job,     \* where each worker is, and on which drill
  ctxDone,     \* is the context of the worker's run done?
  owns,        \* has run deferred a Destroy it has not yet made good?
  announced,   \* statuses published in drill.completed events
  faults       \* the faults this behaviour may suffer

dbVars == <<status, verdict, evidence, steps, sboxRow, input>>
world == <<object, sandbox>>
http == <<pending, accepted, canceller>>
pool == <<queue, running, root>>
local == <<job, ctxDone, owns>>
vars == <<dbVars, world, http, pool, pc, local, announced, faults>>

Absent == "ABSENT"
Null == "NULL"

\* Points of WorkerPool.run.  The parked points are outside of a run, and
\* at "start" the run has no context yet.
Parked == {"idle", "stopped"}
RunPoints ==
  {"prepare", "load", "inconclusive", "fetch", "create", "persist",
   "recordStep", "toRestoring", "restore", "toValidating", "validate",
   "toFinalizing", "put", "destroy", "markDestroyed", "finalize", "commit",
   "compensate", "fail", "cleanup", "cleanupRow", "unregister"}
Points == Parked \cup {"start"} \cup RunPoints

Init ==
  /\ status = [d \in Drills |-> Absent]
  /\ verdict = [d \in Drills |-> Null]
  /\ evidence = [d \in Drills |-> FALSE]
  /\ steps = [d \in Drills |-> {}]
  /\ sboxRow = [d \in Drills |-> Absent]
  /\ input = [d \in Drills |-> Null]
  /\ object = [d \in Drills |-> FALSE]
  /\ sandbox = [d \in Drills |-> FALSE]
  /\ pending = [d \in Drills |-> FALSE]
  /\ accepted = [d \in Drills |-> FALSE]
  /\ canceller = [d \in Drills |-> "idle"]
  /\ queue = <<>>
  /\ running = [d \in Drills |-> NoWorker]
  /\ root = FALSE
  /\ pc = [w \in Workers |-> "idle"]
  /\ job = [w \in Workers |-> NoDrill]
  /\ ctxDone = [w \in Workers |-> FALSE]
  /\ owns = [w \in Workers |-> FALSE]
  /\ announced = [d \in Drills |-> {}]
  /\ faults \in FaultSets

-----------------------------------------------------------------------------
(***************************************************************************)
(* The HTTP handlers.  None runs once the pool is closing: main closes the *)
(* pool only after the server's Shutdown has waited for every handler.     *)
(***************************************************************************)

\* POST /drills, first half: the INSERT ... ON CONFLICT DO NOTHING takes.
CreateDrill(d) ==
  /\ ~root /\ status[d] = Absent
  /\ status' = [status EXCEPT ![d] = "QUEUED"]
  /\ \E i \in Inputs : input' = [input EXCEPT ![d] = i]
  /\ \/ pending' = [pending EXCEPT ![d] = TRUE]
     \/ \* the row is there but the handler saw an error and returned
        "lostReply" \in faults /\ UNCHANGED pending
  /\ UNCHANGED <<verdict, evidence, steps, sboxRow, world, accepted,
                 canceller, pool, pc, local, announced, faults>>

\* Mutant: the send is tried once more at the channel's limit.
SubmitDrill_OffByOne(d) ==
  /\ pending[d]
  /\ pending' = [pending EXCEPT ![d] = FALSE]
  /\ \/ /\ Len(queue) <= QueueCap
        /\ queue' = Append(queue, d)
        /\ accepted' = [accepted EXCEPT ![d] = TRUE]
     \/ /\ Len(queue) > QueueCap
        /\ UNCHANGED <<queue, accepted>>
  /\ UNCHANGED <<dbVars, world, canceller, running, root, pc, local, announced, faults>>

\* POST /drills, second half: the non-blocking send of Submit, then 202 or 503.
SubmitDrill(d) ==
  /\ pending[d]
  /\ pending' = [pending EXCEPT ![d] = FALSE]
  /\ \/ /\ Len(queue) < QueueCap
        /\ queue' = Append(queue, d)
        /\ accepted' = [accepted EXCEPT ![d] = TRUE]
     \/ /\ Len(queue) = QueueCap
        /\ UNCHANGED <<queue, accepted>>
  /\ UNCHANGED <<dbVars, world, canceller, running, root, pc, local, announced, faults>>

\* Mutant: the handler ignores "created" and submits an existing drill again.
RepeatDrill_Resubmits(d) ==
  /\ ~root /\ status[d] # Absent
  /\ accepted' = [accepted EXCEPT ![d] = TRUE]
  /\ pending' = [pending EXCEPT ![d] = TRUE]
  /\ UNCHANGED <<dbVars, world, canceller, pool, pc, local, announced, faults>>

\* POST /drills again with the same Idempotency-Key: created is FALSE, so
\* the handler answers 202 with the existing row and submits nothing.
RepeatDrill(d) ==
  /\ ~root /\ status[d] # Absent
  /\ accepted' = [accepted EXCEPT ![d] = TRUE]
  /\ UNCHANGED <<dbVars, world, pending, canceller, pool, pc, local, announced, faults>>

\* POST /drills/{id}/cancel, first half: WorkerPool.Cancel, which asks nobody
\* whose drill it is.
SignalCancel(d) ==
  /\ ~root /\ status[d] # Absent /\ canceller[d] = "idle"
  /\ \/ canceller' = [canceller EXCEPT ![d] = "signalled"]
     \/ "foreign" \in faults /\ canceller' = [canceller EXCEPT ![d] = "foreign"]
  /\ ctxDone' = [w \in Workers |-> ctxDone[w] \/ running[d] = w]
  /\ UNCHANGED <<dbVars, world, pending, accepted, pool, pc, job, owns, announced, faults>>

\* The row lock that run's last transaction holds from its UPDATE to COMMIT.
Locked(d) == \E w \in Workers : pc[w] = "commit" /\ job[w] = d

\* POST /drills/{id}/cancel, second half: Store.CancelDrill.  The UPDATE
\* waits for the row lock; a terminal row or another organization's it does
\* not match (404).
CancelDrill(d) ==
  /\ canceller[d] # "idle"
  /\ canceller' = [canceller EXCEPT ![d] = "idle"]
  /\ \/ /\ canceller[d] = "signalled" /\ ~Locked(d)
        /\ status' = [status EXCEPT ![d] = IF @ \in Active THEN "CANCELLED" ELSE @]
     \/ \* the request's context is done, or the statement fails
        /\ canceller[d] = "foreign" \/ {"client", "db"} \cap faults # {}
        /\ UNCHANGED status
  /\ UNCHANGED <<verdict, evidence, steps, sboxRow, input, world, pending,
                 accepted, pool, pc, local, announced, faults>>

-----------------------------------------------------------------------------
(***************************************************************************)
(* Helpers of the worker's steps.                                          *)
(***************************************************************************)
Goto(w, point) == pc' = [pc EXCEPT ![w] = point]

\* Mutant: no Destroy is deferred.
Leave_NoDestroy(w) == Goto(w, "unregister")

\* A return from run: the deferred calls follow, Destroy among them if owed.
Leave(w) == Goto(w, IF owns[w] THEN "cleanup" ELSE "unregister")

\* May a database call made with the run's context return an error?
DbError(w) == ctxDone[w] \/ "db" \in faults

LostReply == "lostReply" \in faults

\* Mutant: the UPDATE has lost its "status NOT IN" clause.
WriteTerminal_NoGuard(d, to) ==
  /\ status' = [status EXCEPT ![d] = to]
  /\ verdict' = [verdict EXCEPT ![d] =
                   IF to = "FAILED" THEN "FAILED" ELSE "INCONCLUSIVE"]

\* The UPDATE of WorkerPool.setTerminal, which leaves a terminal row alone.  That
\* PostgreSQL takes the statement at all is assumed (README, section 5).
WriteTerminal(d, to) ==
  /\ status' = [status EXCEPT ![d] = IF @ \in Terminal THEN @ ELSE to]
  /\ verdict' = [verdict EXCEPT ![d] =
                   IF status[d] \in Terminal THEN @
                   ELSE IF to = "FAILED" THEN "FAILED" ELSE "INCONCLUSIVE"]

\* WorkerPool.setTerminal without an error: the event is published whether
\* or not a row was updated.
setTerminal(d, to) ==
  /\ WriteTerminal(d, to)
  /\ announced' = [announced EXCEPT ![d] = @ \cup {to}]

\* The writes of WorkerPool.transition: status and timeline step together.
Move(d, to, sequence) ==
  /\ CanTransition(status[d], to)
  /\ status' = [status EXCEPT ![d] = to]
  /\ steps' = [steps EXCEPT ![d] = @ \cup {sequence}]

\* WorkerPool.transition as run calls it: on any error run returns at once,
\* with no terminal status written.
transition(w, at, to, sequence, next) ==
  /\ pc[w] = at
  /\ \/ ~ctxDone[w] /\ Move(job[w], to, sequence) /\ Goto(w, next)
     \/ /\ DbError(w) \/ ~CanTransition(status[job[w]], to)
        /\ Leave(w)
        /\ UNCHANGED <<status, steps>>
     \/ LostReply /\ DbError(w) /\ Move(job[w], to, sequence) /\ Leave(w)
  /\ UNCHANGED <<verdict, evidence, sboxRow, input, world, http, pool, local,
                 announced, faults>>

-----------------------------------------------------------------------------
(***************************************************************************)
(* The worker goroutine, and run step by step.                             *)
(***************************************************************************)

\* select: a job is received; with the root context done too, either case
\* may be chosen.
Dequeue(w) ==
  /\ pc[w] = "idle" /\ queue # <<>>
  /\ job' = [job EXCEPT ![w] = Head(queue)]
  /\ queue' = Tail(queue)
  /\ Goto(w, "start")
  /\ UNCHANGED <<dbVars, world, http, running, root, ctxDone, owns, announced, faults>>

StopWorker(w) ==
  /\ pc[w] = "idle" /\ root
  /\ Goto(w, "stopped")
  /\ UNCHANGED <<dbVars, world, http, pool, local, announced, faults>>

\* The context is derived from root and its cancel function filed under mu.
Register(w) ==
  /\ pc[w] = "start"
  /\ ctxDone' = [ctxDone EXCEPT ![w] = root]
  /\ running' = [running EXCEPT ![job[w]] = w]
  /\ Goto(w, "prepare")
  /\ UNCHANGED <<dbVars, world, http, queue, root, job, owns, announced, faults>>

Prepare(w) == transition(w, "prepare", "PREPARING", 1, "load")

LoadDrill(w) ==
  /\ pc[w] = "load"
  /\ \/ ~ctxDone[w] /\ input[job[w]] # "noSnapshot" /\ Goto(w, "fetch")
     \/ /\ DbError(w) \/ input[job[w]] = "noSnapshot"
        /\ Goto(w, "inconclusive")
  /\ UNCHANGED <<dbVars, world, http, pool, local, announced, faults>>

\* This one call of setTerminal is made with the run's own context.
EndInconclusive(w) ==
  /\ pc[w] = "inconclusive"
  /\ Leave(w)
  /\ \/ ~ctxDone[w] /\ setTerminal(job[w], "INCONCLUSIVE")
     \/ DbError(w) /\ UNCHANGED <<status, verdict, announced>>
     \/ /\ LostReply /\ DbError(w)
        /\ WriteTerminal(job[w], "INCONCLUSIVE")
        /\ UNCHANGED announced
  /\ UNCHANGED <<evidence, steps, sboxRow, input, world, http, pool, local, faults>>

\* Mutant: the hash is computed but not compared.
FetchBackup_NoChecksum(w) ==
  /\ pc[w] = "fetch"
  /\ \/ Goto(w, "create")
     \/ (ctxDone[w] \/ "storage" \in faults) /\ Goto(w, "fail")
  /\ UNCHANGED <<dbVars, world, http, pool, local, announced, faults>>

\* Mutant: a failed Get returns without calling fail.
FetchBackup_SilentReturn(w) ==
  /\ pc[w] = "fetch"
  /\ \/ input[job[w]] # "corrupt" /\ Goto(w, "create")
     \/ (ctxDone[w] \/ "storage" \in faults) /\ Leave(w)
     \/ input[job[w]] = "corrupt" /\ Goto(w, "fail")
  /\ UNCHANGED <<dbVars, world, http, pool, local, announced, faults>>

\* Staging, Get, copy and hash.  The hash is compared with the snapshot's
\* checksum if it has one; nothing else of the snapshot's row is.  Local storage
\* does not look at the context, so the artifact may be fetched although the
\* context is done.
FetchBackup(w) ==
  /\ pc[w] = "fetch"
  /\ \/ input[job[w]] # "corrupt" /\ Goto(w, "create")
     \/ /\ ctxDone[w] \/ "storage" \in faults \/ input[job[w]] = "corrupt"
        /\ Goto(w, "fail")
  /\ UNCHANGED <<dbVars, world, http, pool, local, announced, faults>>

\* Executor.Create.  On an error it removes what it made, but for the network of
\* a network create that the context kills when it has taken effect; with a
\* Docker fault the removal may fail too.
CreateSandbox(w) ==
  /\ pc[w] = "create"
  /\ \/ /\ ~ctxDone[w]
        /\ sandbox' = [sandbox EXCEPT ![job[w]] = TRUE]
        /\ owns' = [owns EXCEPT ![w] = TRUE]
        /\ Goto(w, "persist")
     \/ /\ ctxDone[w] \/ "docker" \in faults
        /\ \/ UNCHANGED sandbox
           \/ /\ LostReply \/ "docker" \in faults
              /\ sandbox' = [sandbox EXCEPT ![job[w]] = TRUE]
        /\ Goto(w, "fail")
        /\ UNCHANGED owns
  /\ UNCHANGED <<dbVars, object, http, pool, job, ctxDone, announced, faults>>

\* That PostgreSQL takes the INSERT is assumed (README, section 5).
PersistSandbox(w) ==
  /\ pc[w] = "persist"
  /\ \/ /\ ~ctxDone[w]
        /\ sboxRow' = [sboxRow EXCEPT ![job[w]] = "READY"]
        /\ Goto(w, "recordStep")
     \/ /\ DbError(w)
        /\ UNCHANGED sboxRow
        /\ Goto(w, "fail")
     \/ /\ LostReply /\ DbError(w)
        /\ sboxRow' = [sboxRow EXCEPT ![job[w]] = "READY"]
        /\ Goto(w, "fail")
  /\ UNCHANGED <<status, verdict, evidence, steps, input, world, http, pool,
                 local, announced, faults>>

\* recordStep looks at no status; on an error run returns at once.
RecordSandboxStep(w) ==
  /\ pc[w] = "recordStep"
  /\ \/ /\ ~ctxDone[w]
        /\ steps' = [steps EXCEPT ![job[w]] = @ \cup {2}]
        /\ Goto(w, "toRestoring")
     \/ DbError(w) /\ UNCHANGED steps /\ Leave(w)
     \/ /\ LostReply /\ DbError(w)
        /\ steps' = [steps EXCEPT ![job[w]] = @ \cup {2}]
        /\ Leave(w)
  /\ UNCHANGED <<status, verdict, evidence, sboxRow, input, world, http, pool,
                 local, announced, faults>>

StartRestoring(w) == transition(w, "toRestoring", "RESTORING", 3, "restore")

\* CopyPostgresBackup, then RestorePostgresPlain.
Restore(w) ==
  /\ pc[w] = "restore"
  /\ \/ ~ctxDone[w] /\ input[job[w]] # "unrestorable" /\ Goto(w, "toValidating")
     \/ /\ ctxDone[w] \/ "docker" \in faults \/ input[job[w]] = "unrestorable"
        /\ Goto(w, "fail")
  /\ UNCHANGED <<dbVars, world, http, pool, local, announced, faults>>

StartValidating(w) == transition(w, "toValidating", "VALIDATING", 4, "validate")

ValidateConnectivity(w) ==
  /\ pc[w] = "validate"
  /\ \/ ~ctxDone[w] /\ Goto(w, "toFinalizing")
     \/ (ctxDone[w] \/ "docker" \in faults) /\ Goto(w, "fail")
  /\ UNCHANGED <<dbVars, world, http, pool, local, announced, faults>>

StartFinalizing(w) == transition(w, "toFinalizing", "FINALIZING", 5, "put")

\* Objects.Put of the evidence payload under the drill's key.
PutEvidence(w) ==
  /\ pc[w] = "put"
  /\ \/ /\ ~ctxDone[w]
        /\ object' = [object EXCEPT ![job[w]] = TRUE]
        /\ Goto(w, "destroy")
     \/ /\ ctxDone[w] \/ "storage" \in faults
        /\ \/ UNCHANGED object
           \/ LostReply /\ object' = [object EXCEPT ![job[w]] = TRUE]
        /\ Goto(w, "fail")
  /\ UNCHANGED <<dbVars, sandbox, http, pool, local, announced, faults>>

\* Mutant: the error of Destroy is ignored.
DestroySandbox_ErrorIgnored(w) ==
  /\ pc[w] = "destroy"
  /\ \/ sandbox' = [sandbox EXCEPT ![job[w]] = FALSE]
     \/ "docker" \in faults /\ UNCHANGED sandbox
  /\ owns' = [owns EXCEPT ![w] = FALSE]
  /\ Goto(w, "markDestroyed")
  /\ UNCHANGED <<dbVars, object, http, pool, job, ctxDone, announced, faults>>

\* Destroy with a context of its own; run remembers whether it succeeded.
DestroySandbox(w) ==
  /\ pc[w] = "destroy"
  /\ \/ /\ sandbox' = [sandbox EXCEPT ![job[w]] = FALSE]
        /\ owns' = [owns EXCEPT ![w] = FALSE]
        /\ Goto(w, "markDestroyed")
     \/ "docker" \in faults /\ UNCHANGED <<sandbox, owns>> /\ Goto(w, "compensate")
  /\ UNCHANGED <<dbVars, object, http, pool, job, ctxDone, announced, faults>>

\* The error of this UPDATE is ignored.
MarkDestroyed(w) ==
  /\ pc[w] = "markDestroyed"
  /\ \/ /\ ~ctxDone[w] \/ LostReply
        /\ sboxRow' = [sboxRow EXCEPT ![job[w]] = "DESTROYED"]
     \/ DbError(w) /\ UNCHANGED sboxRow
  /\ Goto(w, "finalize")
  /\ UNCHANGED <<status, verdict, evidence, steps, input, world, http, pool,
                 local, announced, faults>>

\* Mutant: no row updated is taken for an early return without compensation.
FinalizeUpdate_NoDelete(w) ==
  /\ pc[w] = "finalize"
  /\ \/ ~ctxDone[w] /\ status[job[w]] = "FINALIZING" /\ Goto(w, "commit")
     \/ (DbError(w) \/ status[job[w]] # "FINALIZING") /\ Leave(w)
  /\ UNCHANGED <<dbVars, world, http, pool, local, announced, faults>>

\* The last transaction up to its UPDATE ... WHERE status='FINALIZING',
\* which locks the row.
FinalizeUpdate(w) ==
  /\ pc[w] = "finalize"
  /\ \/ ~ctxDone[w] /\ status[job[w]] = "FINALIZING" /\ Goto(w, "commit")
     \/ /\ DbError(w) \/ status[job[w]] # "FINALIZING"
        /\ Goto(w, "compensate")
  /\ UNCHANGED <<dbVars, world, http, pool, local, announced, faults>>

\* The checks required beyond connectivity, as the drill's policy has them: the
\* code only ever writes lists, so json.Unmarshal, whose error is ignored, gets
\* one.
required(d) ==
  {"POSTGRES_CONNECTIVITY"}
    \cup (IF input[d] = "limited" THEN {"POSTGRES_TABLE_EXISTS"} ELSE {})

\* What COMMIT makes durable.
Finalized(d) ==
  /\ status' = [status EXCEPT ![d] = "SUCCEEDED"]
  /\ verdict' = [verdict EXCEPT ![d] = FinalVerdict(required(d)).assessment]
  /\ evidence' = [evidence EXCEPT ![d] = TRUE]

\* Mutant: the event is published before the error of Commit is looked at.
CommitFinal_AnnounceFirst(w) ==
  /\ pc[w] = "commit"
  /\ announced' = [announced EXCEPT ![job[w]] = @ \cup {"SUCCEEDED"}]
  /\ \/ ~ctxDone[w] /\ Finalized(job[w]) /\ Leave(w)
     \/ /\ DbError(w)
        /\ UNCHANGED <<status, verdict, evidence>>
        /\ Goto(w, "compensate")
     \/ LostReply /\ DbError(w) /\ Finalized(job[w]) /\ Goto(w, "compensate")
  /\ UNCHANGED <<steps, sboxRow, input, world, http, pool, local, faults>>

\* Mutant: the compensation runs after a commit that succeeded, too.
CommitFinal_AlwaysDelete(w) ==
  /\ pc[w] = "commit"
  /\ \/ /\ ~ctxDone[w]
        /\ Finalized(job[w])
        /\ announced' = [announced EXCEPT ![job[w]] = @ \cup {"SUCCEEDED"}]
     \/ DbError(w) /\ UNCHANGED <<status, verdict, evidence, announced>>
  /\ Goto(w, "compensate")
  /\ UNCHANGED <<steps, sboxRow, input, world, http, pool, local, faults>>

\* COMMIT.  A context done while COMMIT is under way makes pgx return an
\* error although the server may commit: the lostReply case.
CommitFinal(w) ==
  /\ pc[w] = "commit"
  /\ \/ /\ ~ctxDone[w]
        /\ Finalized(job[w])
        /\ announced' = [announced EXCEPT ![job[w]] = @ \cup {"SUCCEEDED"}]
        /\ Leave(w)
     \/ /\ DbError(w)
        /\ UNCHANGED <<status, verdict, evidence, announced>>
        /\ Goto(w, "compensate")
     \/ /\ LostReply /\ DbError(w)
        /\ Finalized(job[w])
        /\ UNCHANGED announced
        /\ Goto(w, "compensate")
  /\ UNCHANGED <<steps, sboxRow, input, world, http, pool, local, faults>>

\* Objects.Delete of the evidence, its error ignored.  After a failed
\* Destroy (still owed) run goes on to fail; after a failed transaction it
\* returns without writing a terminal status.
DeleteEvidence(w) ==
  /\ pc[w] = "compensate"
  /\ \/ object' = [object EXCEPT ![job[w]] = FALSE]
     \/ "storage" \in faults /\ UNCHANGED object
  /\ Goto(w, IF owns[w] THEN "fail" ELSE "unregister")
  /\ UNCHANGED <<dbVars, sandbox, http, pool, local, announced, faults>>

\* WorkerPool.fail: CANCELLED if the context is done, FAILED otherwise,
\* written with a context that is never done.
FailDrill(w) ==
  /\ pc[w] = "fail"
  /\ Leave(w)
  /\ LET to == IF ctxDone[w] THEN "CANCELLED" ELSE "FAILED" IN
       \/ setTerminal(job[w], to)
       \/ "db" \in faults /\ UNCHANGED <<status, verdict, announced>>
       \/ /\ LostReply
          /\ WriteTerminal(job[w], to)
          /\ UNCHANGED announced
  /\ UNCHANGED <<evidence, steps, sboxRow, input, world, http, pool, local, faults>>

\* Mutant: the deferred Destroy uses the run's context.
Cleanup_RunContext(w) ==
  /\ pc[w] = "cleanup"
  /\ \/ ~ctxDone[w] /\ sandbox' = [sandbox EXCEPT ![job[w]] = FALSE]
     \/ (ctxDone[w] \/ "docker" \in faults) /\ UNCHANGED sandbox
  /\ owns' = [owns EXCEPT ![w] = FALSE]
  /\ Goto(w, "cleanupRow")
  /\ UNCHANGED <<dbVars, object, http, pool, job, ctxDone, announced, faults>>

\* The deferred Destroy: its error is ignored ...
Cleanup(w) ==
  /\ pc[w] = "cleanup"
  /\ \/ sandbox' = [sandbox EXCEPT ![job[w]] = FALSE]
     \/ "docker" \in faults /\ UNCHANGED sandbox
  /\ owns' = [owns EXCEPT ![w] = FALSE]
  /\ Goto(w, "cleanupRow")
  /\ UNCHANGED <<dbVars, object, http, pool, job, ctxDone, announced, faults>>

\* ... and the row, if there is one, says DESTROYED either way.
CleanupRow(w) ==
  /\ pc[w] = "cleanupRow"
  /\ \/ sboxRow' = [sboxRow EXCEPT ![job[w]] =
                      IF @ = Absent THEN Absent ELSE "DESTROYED"]
     \/ "db" \in faults /\ UNCHANGED sboxRow
  /\ Goto(w, "unregister")
  /\ UNCHANGED <<status, verdict, evidence, steps, input, world, http, pool,
                 local, announced, faults>>

Unregister(w) ==
  /\ pc[w] = "unregister"
  /\ running' = [running EXCEPT ![job[w]] = NoWorker]
  /\ job' = [job EXCEPT ![w] = NoDrill]
  /\ ctxDone' = [ctxDone EXCEPT ![w] = FALSE]
  /\ Goto(w, "idle")
  /\ UNCHANGED <<dbVars, world, http, queue, root, owns, announced, faults>>

-----------------------------------------------------------------------------
(***************************************************************************)
(* What the environment does.                                              *)
(***************************************************************************)

\* DrillTimeout expires in a run.
Deadline(w) ==
  /\ "deadline" \in faults
  /\ pc[w] \in RunPoints /\ ~ctxDone[w]
  /\ ctxDone' = [ctxDone EXCEPT ![w] = TRUE]
  /\ UNCHANGED <<dbVars, world, http, pool, pc, job, owns, announced, faults>>

\* WorkerPool.Close cancels the root context, and with it every run's.
Close ==
  /\ "shutdown" \in faults
  /\ ~root /\ \A d \in Drills : ~pending[d] /\ canceller[d] = "idle"
  /\ root' = TRUE
  /\ ctxDone' = [w \in Workers |-> ctxDone[w] \/ pc[w] \in RunPoints]
  /\ UNCHANGED <<dbVars, world, http, queue, running, pc, job, owns, announced, faults>>

\* The process ends, by a crash or after Close, and is started again: only
\* rows, objects and sandboxes survive.  No code looks at abandoned drills.
Restart ==
  /\ \/ "restart" \in faults
     \/ root /\ \A w \in Workers : pc[w] = "stopped"
  /\ pending' = [d \in Drills |-> FALSE]
  /\ canceller' = [d \in Drills |-> "idle"]
  /\ queue' = <<>>
  /\ running' = [d \in Drills |-> NoWorker]
  /\ root' = FALSE
  /\ pc' = [w \in Workers |-> "idle"]
  /\ job' = [w \in Workers |-> NoDrill]
  /\ ctxDone' = [w \in Workers |-> FALSE]
  /\ owns' = [w \in Workers |-> FALSE]
  /\ UNCHANGED <<dbVars, world, accepted, announced, faults>>

-----------------------------------------------------------------------------
run(w) ==
  \/ Register(w) \/ Prepare(w) \/ LoadDrill(w) \/ EndInconclusive(w)
  \/ FetchBackup(w) \/ CreateSandbox(w) \/ PersistSandbox(w)
  \/ RecordSandboxStep(w) \/ StartRestoring(w) \/ Restore(w)
  \/ StartValidating(w) \/ ValidateConnectivity(w) \/ StartFinalizing(w)
  \/ PutEvidence(w) \/ DestroySandbox(w) \/ MarkDestroyed(w)
  \/ FinalizeUpdate(w) \/ CommitFinal(w) \/ DeleteEvidence(w) \/ FailDrill(w)
  \/ Cleanup(w) \/ CleanupRow(w) \/ Unregister(w)

worker(w) == Dequeue(w) \/ StopWorker(w) \/ run(w)

Handlers(d) ==
  \/ CreateDrill(d) \/ SubmitDrill(d) \/ RepeatDrill(d)
  \/ SignalCancel(d) \/ CancelDrill(d)

Next ==
  \/ \E d \in Drills : Handlers(d)
  \/ \E w \in Workers : worker(w) \/ Deadline(w)
  \/ Close \/ Restart

Spec == Init /\ [][Next]_vars

\* A goroutine that can run does, and a handler that has begun goes on: the
\* Go scheduler runs both, and the calls they block in return (a Docker
\* command or a read is bounded by the drill's or the cleanup's context).
\* Nothing is assumed of clients, of the deadline or of faults.
Fairness ==
  /\ \A w \in Workers : WF_vars(worker(w))
  /\ \A d \in Drills : WF_vars(SubmitDrill(d)) /\ WF_vars(CancelDrill(d))

FairSpec == Spec /\ Fairness

-----------------------------------------------------------------------------
(***************************************************************************)
(* Properties.                                                             *)
(***************************************************************************)

\* Every variable has its type; the jobs channel never exceeds its capacity.
TypeOK ==
  /\ status \in [Drills -> Statuses \cup {Absent}]
  /\ verdict \in [Drills -> Assessments \cup {Null}]
  /\ evidence \in [Drills -> BOOLEAN]
  /\ steps \in [Drills -> SUBSET (1..5)]
  /\ sboxRow \in [Drills -> {Absent, "READY", "DESTROYED"}]
  /\ input \in [Drills -> Inputs \cup {Null}]
  /\ object \in [Drills -> BOOLEAN]
  /\ sandbox \in [Drills -> BOOLEAN]
  /\ pending \in [Drills -> BOOLEAN]
  /\ accepted \in [Drills -> BOOLEAN]
  /\ canceller \in [Drills -> {"idle", "signalled", "foreign"}]
  /\ queue \in Seq(Drills) /\ Len(queue) <= QueueCap
  /\ running \in [Drills -> Workers \cup {NoWorker}]
  /\ root \in BOOLEAN
  /\ pc \in [Workers -> Points]
  /\ job \in [Workers -> Drills \cup {NoDrill}]
  /\ ctxDone \in [Workers -> BOOLEAN]
  /\ owns \in [Workers -> BOOLEAN]
  /\ announced \in [Drills -> SUBSET Terminal]
  /\ faults \in FaultSets

\* Is the drill in the hands of a worker?
Held(d) == \E w \in Workers : job[w] = d

\* A drill is in at most one place: about to be submitted, at one position of
\* the channel, or with one worker.  The unique idempotency key makes it so,
\* and run relies on it: running, the sandbox row and the evidence key are
\* all indexed by the drill.
OnePlace ==
  /\ \A i, j \in DOMAIN queue : queue[i] = queue[j] => i = j
  /\ \A w \in Workers, i \in DOMAIN queue : job[w] # queue[i]
  /\ \A w, v \in Workers : job[w] = job[v] /\ job[w] # NoDrill => w = v
  /\ \A d \in Drills : pending[d] =>
       /\ \A w \in Workers : job[w] # d
       /\ \A i \in DOMAIN queue : queue[i] # d

\* The drills' rows behave as DrillLifecycle says, whatever races and fails:
\* no status is skipped, no terminal row changes, verdict and evidence appear
\* with the terminal status (the WHERE clauses of transition, setTerminal,
\* CancelDrill and of the last transaction, taken together).
Lifecycle == INSTANCE DrillLifecycle
RefinesLifecycle == Lifecycle!Spec

\* A positive verdict is only found on a SUCCEEDED drill whose run staged an
\* artifact, restored it and wrote all five timeline steps, and the artifact was
\* the snapshot's if that has a checksum; VERIFIED only if no required check was
\* left out.  The artifact of a snapshot without a checksum is vouched for by
\* psql alone.
VerdictEarned ==
  \A d \in Drills : verdict[d] \in {"VERIFIED", "PARTIALLY_VERIFIED"} =>
    /\ status[d] = "SUCCEEDED" /\ evidence[d]
    /\ steps[d] = 1..5
    /\ input[d] \in IF verdict[d] = "VERIFIED" THEN {"full", "unchecked"} ELSE {"limited"}

\* When a drill is SUCCEEDED its sandbox is gone: Destroy comes before the
\* transaction that says so.
SuccessLeavesNoSandbox ==
  \A d \in Drills : status[d] = "SUCCEEDED" => ~sandbox[d]

\* Evidence rows point at an object that exists.
EvidenceAlwaysStored == \A d \in Drills : evidence[d] => object[d]

\* Evidence rows point at an object that exists, unless the reply to a COMMIT
\* is lost: the object is stored before the rows and deleted only when run
\* believes that they were not committed.
EvidenceStored == "lostReply" \notin faults => EvidenceAlwaysStored

Spared(kinds) == faults \cap kinds = {}

\* Once no worker has the drill, what its run made outside of the database is
\* either referenced by evidence rows or gone: every return of run, also the
\* early ones, goes through the compensations.  Docker and storage have to
\* obey, replies to arrive and the process to live.
NothingLeftBehind ==
  Spared({"docker", "storage", "lostReply", "restart"}) =>
    \A d \in Drills : ~Held(d) =>
      /\ ~sandbox[d]
      /\ object[d] => evidence[d]

\* recovery_sandboxes says DESTROYED only of a sandbox that is gone, while
\* Docker does what it is told.
DestroyedMeansGone ==
  Spared({"docker"}) =>
    \A d \in Drills : sboxRow[d] = "DESTROYED" => ~sandbox[d]

\* SUCCEEDED is announced only of a drill whose success is committed, and no
\* other ending is ever announced of it.
SuccessAnnouncedLast ==
  \A d \in Drills : "SUCCEEDED" \in announced[d] =>
    status[d] = "SUCCEEDED" /\ announced[d] = {"SUCCEEDED"}

\* A drill whose POST was answered 202 reaches a terminal status, while the
\* database takes the statements and its replies arrive, the deadline is not
\* hit, the process lives and is not asked to stop, and whoever cancels the
\* drill belongs to its organization and waits for the answer.
AcceptedDrillEnds ==
  \A d \in Drills :
    (accepted[d] /\ faults \subseteq {"docker", "storage"})
      ~> status[d] \in Terminal

\* A drill that a worker has taken reaches a terminal status.
TakenDrillEnds ==
  \A d \in Drills : Held(d) ~> status[d] \in Terminal

\* A sandbox does not outlive its drill's run for ever, also when the run is
\* cancelled, times out, or is ended by a database error or by Close.  Spared is
\* the network of a network create that was killed when it had taken effect.
SandboxReclaimed ==
  \A d \in Drills :
    (sandbox[d] /\ Spared({"docker", "lostReply", "restart"})) ~> ~sandbox[d]
=============================================================================
