# RestoreGuard in TLA+

RestoreGuard is a control plane that proves backups by restoring them: a *drill*
fetches a backup artifact, restores it into a throw-away Docker sandbox,
validates the result, stores evidence and removes the sandbox. This directory
holds TLA+ models of its Go backend, the TLC configurations that check them on
small instances, and TLAPS proofs of their main safety properties. Paths below
are relative to `backend/internal/` unless they begin with another directory.

## 1. Inventory

| Component | Code | State | Operations |
|---|---|---|---|
| Domain rules | `domain/model.go`, `domain/recovery.go` | none | `CanTransition`, `MeasureRPO`, `MeasureRTO`, `EvaluatePolicy`, `Assess` |
| Drill API | `httpapi/handlers.go`, `database/resources.go` | `recovery_drills` rows, keyed by idempotency key | `POST /drills` (insert, then `Submit`), `POST /drills/{id}/cancel` (`Cancel`, then update) |
| Worker pool | `drill/worker.go` | `jobs` channel of 100, `running` map, root context; rows `recovery_drills`, `drill_steps`, `recovery_sandboxes`, evidence and report rows | `Submit`, `Cancel`, `Close`, `worker`, `run`, `transition`, `recordStep`, `setTerminal`, `fail` |
| Sandbox executor | `drill/docker.go` | Docker network, volume, container | `Create`, `CopyPostgresBackup`, `RestorePostgresPlain`, `ValidatePostgresConnectivity`, `Destroy` |
| Event hub and SSE | `drill/hub.go`, `httpapi/handlers.go` | map drill → channels of 32 | `Subscribe`, `Publish`, unsubscribe, `Close`, the `events` handler |
| Scheduler | `scheduler/scheduler.go` | `scheduler_jobs` leases, a PostgreSQL advisory lock | `Run`, `tick` |
| Server process | `cmd/server/main.go` | lifetime of all of the above | start, signal, `server.Shutdown`, `workers.Close` |
| Sessions and users | `database/store.go` | `users`, `sessions`, `audit_events` | `BootstrapDemo`, login, authenticate, logout, password change |
| Read model, resources | `database/resources.go` | assets, sources, policies, snapshots | list, create, `GetDrill` |
| Middleware, routing, RBAC | `httpapi/middleware.go`, `httpapi/server.go`, `security/rbac.go` | none | authentication, CSRF, permissions |
| Migrations | `database/migrate.go` | `schema_migrations` | `Migrate` |
| Object storage | `storage/*.go` | objects on disk or in S3 | `Put`, `Get`, `Delete`, `Health`, `EnsureBucket` |
| Validation engine | `drill/validation.go` | none | `Run`: one typed check to one status (no caller in the server) |
| Backup providers | `drill/local_provider.go` | files | `Discover` |
| Notifier, PDF, passwords, configuration, frontend | `notify/`, `report/`, `security/`, `platform/`, `frontend/` | none of the control plane's | – |

**How they interact.** The create handler inserts a row and then makes a
non-blocking send on the `jobs` channel. A worker goroutine receives the drill's
id and executes `run`, which talks to PostgreSQL through `transition`,
`recordStep`, `setTerminal` and one last transaction, to Docker through the
executor, and to object storage. It publishes to the hub, whose channels the SSE
handlers drain. The cancel handler reaches the run through the `running` map and
the row through its own `UPDATE`. `main` starts everything and stops it in the
order HTTP server, workers; hub and database pool follow as deferred calls. The
scheduler only leases jobs; no code consumes a lease. Before any of this every
instance runs `Migrate`, `BootstrapDemo` and `EnsureBucket` on the database and
bucket it shares with the others. The detail page of the web client reads a drill
again every five seconds and after each event of its stream.

**What is hard.** The handlers and the run write the same row with nothing but
`WHERE` clauses to order them. A run writes to three systems that share no
transaction and has some twenty ways to return early, each with its own set of
compensations, some with the run's context and some without. A context may be
done (cancel, deadline, shutdown) at any call, and a call that reports an error
may have taken effect. The advisory lock belongs to a session, while each
statement of a tick takes any session of a pool. Shutdown waits for handlers that
wait for something that happens after it. Instances that start together race for
the same migration, the same demo rows and the same bucket. Uploads, readers and
deletions of one object share a path and no lock. A page reads rows that a run is
writing, and is told to read again by a channel that drops events.

**What makes each component correct.** *Domain*: objectives agree with exact
durations, doubtful timestamps never pass, assessments are monotone. *Drills*:
each row follows the transition table, verdict and evidence come with the end, a
drill is run at most once at a time, positive verdicts are earned, sandboxes and
objects are accounted for, accepted drills end. *Sandbox*: ready means serving,
a reported restore is whole, failure and `Destroy` leave nothing, `Create`
returns. *Hub and views*: no panic, order, closed streams end; a page that follows its
events shows the end of its drill, a drill is refused only when it is old, and
paging skips no row. *Storage*: an object is replaced in one step by a whole one,
and only a crash or a failing remove leaves a temporary file. *Start-up*: migrations take effect once
and in order, instances do not all stop each other, the demo policy is one.
*Validation engine*: a check that does not hold never helps a backup to VERIFIED.
*Scheduler*: one leaser, leases respected, due jobs leased. *Process*: shutdown
returns, and a clean return means that everything was stopped.

The hazards, each at its source line and with the properties that watch it, are
listed in `PROJECT.json`.

## 2. Modules

| Module | Models | Used by |
|---|---|---|
| `RecoveryDomain` | pure decisions of `domain/`, and the verdict `run` derives from them | all drill modules |
| `ValidationEngine` | the engine's checks, from what they meet to a status | `MCRecoveryDomain` |
| `MCRecoveryDomain` | driver that varies times, targets, outcome lists and checks | run `domain` |
| `DrillLifecycle` | abstract specification: what a drill's row promises | refined by `DrillWorker` |
| `DrillWorker` | handlers, channel, workers, rows, sandboxes, objects, faults | `MCDrillWorker` |
| `DockerSandbox` | the executor command by command, next to the container | `MCDockerSandbox` |
| `EventHub` | hub and SSE handlers | `DrillViews` |
| `DrillViews` | drill rows, lists and detail pages, composed with `EventHub` | `MCDrillViews` |
| `Scheduler` | ticks of several instances on pooled sessions | `MCScheduler` |
| `Shutdown` | the process from its first call to its return | `Deployment`, `MCShutdown` |
| `Startup` | migrations, bootstrap and bucket of instances that start together | `Deployment` |
| `Deployment` | composition: one process of `Shutdown` among the instances of `Startup` | `MCDeployment` |
| `ObjectStore` | abstract specification: what `storage.ObjectStorage` promises | refined by `LocalStore` |
| `LocalStore` | `storage.Local` on a file system with inodes, paths and crashes | `MCLocalStore` |
| `Sessions` | logins, logouts and password changes of one user | `MCSessions` |
| `X_proofs` | theorems about `X`, and in three cases about what it is composed of: `RecoveryDomain_proofs` also covers the validation engine, `DrillViews_proofs` the hub, `Deployment_proofs` `Startup` and `Shutdown`; the others are of `DrillWorker`, `DockerSandbox`, `Scheduler`, `LocalStore`, `Sessions` | |

Operators named `X_Y` with a comment "Mutant:" are plausible bugs of the code
next to which they stand. They are in no specification; putting one in the place
of `X` must violate the property it is paired with in `PROJECT.json`.

### DrillWorker

A value of `pc[w]` is a point of `run` between two calls whose effects others can
see; the action that leaves it is that call with everything that follows up to
the next one. `Leave` is a `return`: the deferred calls follow (`Cleanup`,
`CleanupRow`, `Unregister`). The rows are `status`, `verdict`
(`recovery_status`), `evidence` (the artifact, evidence and report rows of the
last transaction), `steps` and `sboxRow`. `object` and `sandbox` are what object
storage and Docker hold. `owns[w]` is the code's deferred `Destroy` with
`destroyed = false`.

A call made with the run's context succeeds only while `ctxDone[w]` is false and
may return an error when it is true. Four calls deliberately use another context
(`fail`, `Destroy`, the object's `Delete`, the deferred clean-up) and do not look
at `ctxDone`. Storage on local disk does not look at the context when reading.
All other trouble is in `faults`, chosen in the initial state from `FaultSets`:
failing statements, writes and Docker commands that take effect although their
caller gets an error, failing Docker and storage, the deadline, clients that go
away, users of another organization who cancel, shutdown and restart. A property that holds only
while something works says so with `Spared` or a condition on `faults`.

`transition` is one action although it is a transaction of three statements
(`SELECT ... FOR UPDATE`, `UPDATE`, `INSERT`): it holds the row lock throughout.
The last transaction is two actions, `FinalizeUpdate` and `CommitFinal`, because
a cancel request may be issued between them and then waits for the row lock
(`Locked`). The handlers are two actions each, split where the code has two
calls.

`WorkerPool.Cancel` comes before the `UPDATE` that looks at the organization, so a
`foreign` canceller ends the run's context and matches no row.

An input abstracts the drill's snapshot and policy by what the run will find:
nothing to load, an artifact that does not have the snapshot's checksum, a dump
that psql rejects, required checks the worker cannot run, none of these, and a
snapshot without a checksum (`"unchecked"`), whose artifact is compared with
nothing.

### DockerSandbox

One sandbox from `Create` to a `Destroy` that succeeds. Each docker command is an
action; it may fail, be cut off by the context, or fail after it took effect
(`lost`). The container's PostgreSQL goes through the image's temporary server,
the log marker and the final server. Docker is external: it refuses to remove
what a container uses, and removing what does not exist is an error `Destroy`
recognises. `DrillWorker` uses the executor by its contract; `DockerSandbox`
checks that contract.

### EventHub and DrillViews

`EventHub` has the four operations under the mutex as atomic actions and the
handler's `select` as one action per case. `DrillViews` adds the rows as readers
meet them: pending between the start of the INSERT, whose time is `created_at`,
and its commit, then active, then ended. `ListDrills(filter, page, limit)` is the
set of all answers that `ORDER BY created_at DESC LIMIT OFFSET` may give, since
rows of one instant come in any order, and `GetDrill` searches its first page of
`MaxLimit`. A worker writes (`WorkerStep`, `WorkerEnd`) and then publishes
(`Announce`), two actions; a cancellation ends the row and tells nobody; the
final event may be lost with the reply of COMMIT. A page admits, subscribes, gets
events and reads, with `owes` and `current` as its bookkeeping. A pager reads
pages until one is empty; its filter `"any"` is the empty query parameter.

### Startup, Shutdown, Deployment

`Startup` has one action per statement: the look and the creation of
`CREATE TABLE IF NOT EXISTS`, `SELECT EXISTS`, the statements of a file and their
COMMIT, the first upsert, the conditional insert and the COMMIT of
`BootstrapDemo`, `BucketExists` and `MakeBucket`. PostgreSQL is modelled from its
use: a transaction that creates what another open one has created waits for it
and fails if it commits. Instances may carry different numbers of migration files
(an old release next to a new one), die anywhere, lose the reply of a COMMIT, and
be started again.

`Shutdown` goes through the start-up of `run` call by call (any of them may fail,
and a signal does no more than cancel a context that some of them look at), and
then through the shutdown. It reduces workers to idle, running, cleaning up,
stopped, and requests to those that end by themselves and those that wait for a
client or the hub. What a run has in Docker is in `sandbox`; the deferred `Destroy`
may fail and a killed `network create` may leave its network, which no later call
removes (`unremoved`). A return of `run` is two steps: the deferred calls begin
(`Return`), and `pool.Close` waits until nobody holds a connection (`conns`). `Deployment` lets the process `Self` take its calls of
`Migrate`, `BootstrapDemo` and `EnsureBucket` as the statements of `Startup`, so
that it waits for other instances, is stopped by them, and is signalled while it
waits.

### ObjectStore and LocalStore

`ObjectStore` is the contract `DrillWorker` takes for granted: a `Put` stores a
whole object of the declared size in one step or not at all, and a reader keeps
what it opened. `LocalStore` has the steps of `Local.Put` (temporary file, chunk
by chunk, length check, rename, deferred remove), `Get` in two steps (open, stat),
`Delete`, `Health` and a crash of the process. The deferred remove may fail, which
nobody notices. A file is an inode named by its
`Put`; an open file keeps its inode. `RefinesObjectStore` is
`INSTANCE ObjectStore WITH` the objects read off `path` and `written`, the `Put`s
that take effect as those that return nil, and the readers' handles. A machine
that loses written bytes is not modelled.

### ValidationEngine

A *world* is what a check meets: the size of the file (a byte stands for a
chunk), what the expected digest is a digest of, the HTTP answer, and `looks`, how
often the context is found alive before it is done, and whether the restored
database satisfies the condition of a PostgreSQL check, which the engine cannot
find out. `Reads` counts the looks of
the context reader, `Copied` what passes the limit reader. `MCRecoveryDomain`
appends what `Run` returns to the list of outcomes, next to arbitrary outcomes,
and records with `unmet` and `accused` whether the check really held.

### Scheduler and Sessions

`Scheduler` gives each instance a pool
of sessions; the three statements of a tick take any of them, and PostgreSQL's
stacking, session-owned lock is modelled from its use. The lock keeps two instances
apart only while no session is recycled, so the lease UPDATE is taken apart: the
rows it sees fit when it starts, the wait for rows that another UPDATE has changed,
in any order, the second look at such a row under READ COMMITTED, COMMIT, and the
abort of a statement that fails or is chosen to break a deadlock.

`Sessions` has the rows of one user's sessions. A login reads the hash and later
inserts; a password change reads the hash, then runs the two UPDATEs and COMMIT
of its transaction, each an action. The row locks are modelled: the first UPDATE
waits while another change is open, a logout waits for a session row that an open
change has updated, an INSERT waits for nothing. `before` and `changed` are
history variables for the properties; `before` is what had been handed out when
the request came.

## 3. Runs

| Run | Instance | Shows |
|---|---|---|
| `domain` | two ticks to a second, instants 0..9, targets 0..2, up to 3 outcomes, files up to 2 over a limit of 2 | objectives, monotonicity, meaning of VERIFIED, truthful checks |
| `worker_safety` | 2 drills, 2 workers, channel of 1, inputs corrupt and unchecked, three fault mixes | eight invariants and the refinement of `DrillLifecycle` |
| `worker_live` | 2 drills, 1 worker, channel of 2, input limited, two fault mixes | accepted drills end, sandboxes are reclaimed |
| `sandbox` | two fault mixes, with and without failing removals | the executor's contract |
| `views` | 3 drills, 2 streams, channel of 2, 3 events a drill, pages of at most 2 | no panic, order, streams end; pages miss nothing, only old drills are refused, no row is skipped |
| `scheduler` | 2 instances with 2 sessions each, 2 jobs | one leaser, leases, progress |
| `deployment` | 2 instances, up to 2 migration files, a restart; 1 worker, a request, a stream | schema in order, someone comes up, one demo policy, clean return, termination |
| `sessions` | 2 logins, 2 requests, 2 passwords, two fault mixes | a change revokes what came before it, answers agree with the rows, no request waits for ever on a row lock |
| `storage` | 2 uploads to one key, a reader, sizes up to 2 over a limit of 2, crashes | the refinement of `ObjectStore`, no temporary file left |

Three runs show where the code departs from what the repository says of it:

| Run | What TLC shows |
|---|---|
| `queue_full` | a drill whose POST met a full channel stays QUEUED for ever; the retry with its key is answered 202 and submits nothing |
| `deadline_silent` | a deadline that expires at a transition, at `recordStep` or in the last transaction ends `run` without a terminal status |
| `shutdown_stream` | an open SSE stream makes `server.Shutdown` time out, and `run` returns before `WorkerPool.Close` |

### Bounds

Two drills and two workers on a channel of one make all the contention there is:
a full channel, two runs at a time, a drill waiting while another runs. The
drills share only the channel and the workers, so a third adds no kind of
interaction. The safety run uses symmetry over drills and over workers, which is
sound because it checks no liveness. Its fault mixes are chosen so that each
property has a mix in which its condition holds, and each fault occurs in some
run; the mixes are not all combined, which would go far beyond the time one run
should take. Inputs "noSnapshot", "unrestorable" and "full" are covered by the
proofs only: the first two lead to the same points as a failing SELECT and a failing
Docker command, and "full" differs from "unchecked" in what it stands for, not in
what the run does. "limited" goes through `worker_live`; that its verdict is
PARTIALLY_VERIFIED is left to the proof, since a second good input more than triples
the states of the safety run. In `worker_live` one worker is enough for progress to depend on the
other drill's run; two drills fit in the channel because a full one loses
drills (`queue_full`). `MaxEvents` exceeds `ChanCap`, so channels overflow.
In `domain` a second is two ticks, so truncation matters, and the list bound of
three lets a bad outcome be first, in the middle and last. `MaxHeld` allows two
missed unlocks in one session; `MaxTime` lets leases expire twice while a statement
waits. In `sessions`
two requests are two changes that compete for the row, or a change and a logout
of a session it revokes; two logins are one before the change and one inside it.

In `views` a behaviour has one kind of client, chosen in the initial state: the
streams by themselves, one page next to its worker, or one list next to the
handlers. A list and a page share nothing but rows that neither writes, and the
events of one drill reach its own streams only, so mixing them adds no kind of
interaction. Three drills exceed a full page of two; the pager asks for no limit
and for one above the maximum; three instants give rows of equal and different
age. In `deployment` two files let an instance meet a release that is behind and
one that is ahead, and a restart follows every kind of stop; one worker is enough for
a run to be under way, cleaning up or stuck in a statement at every step of the
shutdown. In `storage` two
uploads to one key are all that can compete for a path, and the limit of two
leaves room for readers that end early, on time, and too late.

### Fairness

`worker(w)` is weakly fair: a goroutine that can go on does, and the calls it
makes return, since they are bounded by the drill's or the clean-up's timeout.
Handlers that have begun are weakly fair, clients are not. No fault, deadline or
cancellation is assumed to occur, except that a timer that was set fires
(`ReadyTimeout`, `Expire`). In `Sessions` each handler that can go on does
(`Handle(r)`); logins, expiry and faults need not happen. In `Deployment` only `Self` is
assumed to go on (`main`, its statements, and its shutdown timer): every call of
start-up returns once there was a signal, since it is local or its context, the
signal's own, is done, also while it waits for another instance. Nothing is assumed
of the others, nor of requests, runs and clients, but that a statement returns some
time: that is the premise of `ShutdownReturns`, for `pool.Close` has no timeout. In `DrillViews` stream handlers go on when they can; workers, clients
and pollers need not. Weak fairness of `Recycle` is pgxpool's maximum
connection lifetime; progress of the scheduler depends on it, since an unlock
that misses keeps the lock in a session. A row goes to the UPDATE that waits for it
before an instance that has just let go of it comes back: PostgreSQL queues the
waiters of a row, and ticks are thirty seconds apart.

## 4. Proofs

Every invariant and action property of the passing runs is a theorem, and so are
both refinements. All theorems hold for every value of the constants that
satisfies the named assumptions of the modules: distinct null values (in
`LocalStore` also one that is no object, `NoObjectAssumption`), a positive channel
capacity, inputs and faults of the known kinds; positive ticks per second; an
owner for each session; a default page limit between one and the maximum. No
bound of a run enters: `MaxTime`, `MaxHeld`, `MaxClock`, `MaxEvents` and
`MaxRestarts` are arbitrary. TLC has checked each inductive invariant on an
instance of the size of its component's run.

**DrillWorker_proofs.** `TypeCorrect` (`TypeOK`), `DrillInOnePlace` (`OnePlace`),
`VerdictsAreEarned` (`VerdictEarned`), `ImplementsLifecycle`
(`RefinesLifecycle`). None but the first is inductive by itself. `IndInv` adds

- `Placed`: where a drill is. A drill without a row is nowhere, a busy worker has
  a drill, a parked one has none. Without it a create handler could submit a
  drill that a worker already has.
- `WorkerInv(w)`: what the point a worker has reached says about its drill: which
  timeline steps are written, that the artifact did not fail its checksum and could be restored,
  that a worker between its last UPDATE and COMMIT still finds the row
  FINALIZING. This is where the row lock (`Locked`) is needed: a cancellation
  between the two would otherwise let COMMIT leave CANCELLED.
- `RowInv(d)`: what the row says by itself, among it that verdict and evidence
  are unset while the drill is active.

The step from `IndInv` to `IndInv'` has one case per action; the refinement maps
each action to `Create`, `Advance`, `End` or a stutter under `IndInv`.

What a run does outside of the database has a second invariant, `WorldInv`, on top
of the first: `SuccessIsClean` (`SuccessLeavesNoSandbox`), `SuccessIsAnnouncedLast`
(`SuccessAnnouncedLast`), `EvidenceIsStored` (`EvidenceStored`),
`RunsLeaveNothingBehind` (`NothingLeftBehind`) and `DestroyedRowsAreTrue`
(`DestroyedMeansGone`). It has three parts.

- `Fresh`: a drill that waits for a worker is untouched. Otherwise a run could
  begin with the sandbox of an earlier one.
- `RunInv(w)`: for each point of `run` whether a `Destroy` is owed (`owns`), and
  what exists of sandbox, object, evidence rows and events. The points fall into
  four groups: before `Create` returned, with a sandbox, on the way to success
  without one, and bailing out, where only the faults tell what may be left.
- `UnitInv(d)`: what holds with a worker or without, the five properties among it;
  it is what remains of a drill when its worker lets it go.

Two lemmas (`OwnRun`, `OwnUnit`) look at the worker's own drill, one case per
action of `run`; `RunWorldFrame` says that other drills and workers are left alone,
which rests on `OnePlace`.

**Scheduler_proofs.** `TypeCorrect`, `MutualExclusion` (`OneLeaser`),
`LeasesHold` (`LeaseRespected`). `LockInv` says that the lock is held by at most
one session and that an instance in its tick owns the session that holds it.
Mutual exclusion rests on the fact that an unlock that misses leaves the lock
where it was: this is also why it fails once sessions are recycled. Leases do not
need it. `RowsLocked` says that no row is changed by two open UPDATEs, and that a row
an UPDATE has changed is still fit by its WHERE clause, because whoever could have
committed another lease would have held its lock; so at COMMIT the old lease is one
that ended before the statement started.

**RecoveryDomain_proofs.** `ObjectivesAreExact`, `LaterNeverBetter`,
`VerifiedIsEarned`, `AssessmentNeverImproves`, `EngineIsTruthful`, for any bounds, any number of ticks
per second and outcome lists of any length. The lemma that carries the first two
relates `\div` to the exact comparison. `EngineIsTruthful` (`EngineTruthful`) rests
on `PassedHolds` and `FailedDoesNotHold`, which say of one check, for every limit
and file, that PASS and FAIL are right about the whole of it, and on `TruthInv`: a
check that did not hold has left an outcome other than PASS in the list.

**Sessions_proofs.** `TypeCorrect`, `ChangesRevoke` (`ChangeRevokes`),
`AnswersAreTrue` (`AnswersTrue`). `IndInv` adds `LoginInv` (a token has a row once
its login is answered, none before its INSERT) and `RequestInv`: past its first
UPDATE a request has the lock, and at COMMIT the staged rows include all of
`before`. The last fact is why `ChangeRevokes` holds: the second UPDATE comes
after the request, a row of `before` exists by then, and rows never disappear. The
lemma `IndStep` has the frame of every step that changes no row, so the lemma of
such an action states only what the action does.

**DockerSandbox_proofs.** `ReadySandboxServes` (`ReadyMeansServing`),
`RestoreIsWhole` (`RestoredMeansWhole`), `FailedCreateIsClean`
(`FailedCreateCleansUp`), `DestroyLeavesNothing` (`DestroyedMeansEmpty`) and the
action property `DestroyFailsForACause` (`DestroySucceeds`), for all combinations of
faults. `SandboxInv` says what exists at each point of `Create`, that pg_isready is
asked only after the temporary server has gone, what the clean-up has removed by
the time it comes to the next resource, and that an error `Destroy` has collected
comes from a removal that failed.

**DrillViews_proofs.** About the hub alone: `HubNeverPanics` (`NoPanic`) and
`EventsArriveInOrder` (`InOrder`). `HubInv` says that a stream in the map is there
under its own drill with an open channel, and that what is sent and what is
buffered, put together, are numbered upwards and not beyond the last event; `Receive`
moves an event from one to the other and leaves the whole as it was (`HandOn`).
`ViewsImplementHub` (`ViewsSpec => Spec`) carries this, and `ClosedStreamEnds` as far
as TLC shows it, over to the composition. About the composition:

- `EndIsNeverMissed` (`NothingMissed`). `PageInv` says that a registered page that
  has read since it subscribed shows the end of a published drill, or owes a read,
  or has events in its channel. It survives dropped events because an event is
  dropped only by a channel that is not empty (`ChanCap` is positive), and because
  `RowInv` has the row written before the end is announced.
- `OnlyOldDrillsAreLost` (`NotFoundMeansOld`). `ListIsPage` turns the answers of
  `ListDrills` into numbers: a page is full, or the rows end in it. A row that comes
  after the first page therefore has a full page before it.
- `PagingSkipsNoRow` (`NoRowSkipped`). `PagerInv` says of each unseen row without a
  twin that there are at least `(page-1)*limit` newer ones, so it is still ahead.
  `StillAhead` makes the step: if the row is not on the page read, the page and all
  before it hold newer rows only, and the page is full.

Counting needs finite sets; that only finitely many rows exist is part of `RowInv`
(`IsFiniteSet(Stored)`), not an assumption on `Drills`.

**Deployment_proofs.** `DeploymentImplementsStartup`, and for the composition
`MigrationsInOrder` (`SchemaInOrder`), `DemoPolicyOnce` (`OneDemoPolicy`),
`OneInstanceComesUp` (`SomeoneComesUp`), `ReturnIsClean` (`CleanReturn`).
`StartupInv` says that an instance in `Migrate` is at most one file ahead of the
schema, that a file being executed has not taken effect (its second execution
waited for the first), and that an instance in its bootstrap transaction holds the
organization's row, so that what it read of the policies is still true at COMMIT.
`RaceInv` is what makes `SomeoneComesUp` inductive: while nothing failed, some
instance that starts or is up has not been *beaten*, that is, does not stand before
a statement that another has already executed. `ProcessInv` orders the shutdown:
the listener is closed before the pool, the pool closes with no request left, and a
worker that is idle or has stopped has nothing in Docker but what is `unremoved`.

**LocalStore_proofs.** `PutsCleanUp` (`NoTempLeft`) and `LocalImplementsObjectStore`
(`RefinesObjectStore`). `StoreInv` says that paths and readers name only inodes that
are `Whole`: their `Put` has returned nil, they have the declared length, and nobody
writes them any more. The refinement maps the rename of a `Put`, the open of a `Get`
and the remove of a `Delete` to the abstract operations, and every other step to a
release of readers' handles or a stutter.

**Only model-checked.** Liveness (`AcceptedDrillEnds`, `SandboxReclaimed`,
`CreateReturns`, `ClosedStreamEnds`, `DueJobLeased`, `ShutdownReturns`,
`RequestsReturn`), which is beyond the prover, and the three violations, which are
counterexamples.

## 5. Observations without a run

- A cancel request may end the context while `tx.Commit(baseCtx)` is in flight.
  Commit then returns an error although the server may have committed, and the
  object of a SUCCEEDED drill is deleted; hence the condition of `EvidenceStored`.
  `docs/object-storage.md` says that the object is deleted "if the database commit
  fails".
- `docs/validation-engine.md:7` says that a missing capability produces INCONCLUSIVE.
  The engine's answer to a PostgreSQL check is FAIL, whatever the database is like,
  with the summary "validation type requires a typed PostgreSQL validator"
  (`drill/validation.go:78-90`). So `EngineTruthful` promises of those checks only
  that they never help to VERIFIED; that FAIL is not said of a check that holds it
  promises of file and HTTP checks alone. Nothing calls the engine yet.
- Two statements of a run are likely to be refused by PostgreSQL when pgx prepares
  them. `setTerminal` (`drill/worker.go:320`) uses `$2` as the value of a
  `varchar(20)` column and in `CASE WHEN $2='FAILED'`, where it is deduced to be
  `text` ("inconsistent types deduced for parameter $2"); the INSERT into
  `recovery_sandboxes` (`drill/worker.go:160`) passes `$5` and `$6` to
  `jsonb_build_object`, which gives them no type ("could not determine data type of
  parameter $5"). If so, no run writes FAILED, and none gets beyond its sandbox. No
  test of the repository executes a run against a database, and this has to be tried
  on a server. The models take the statements as accepted. The safety properties
  hold either way, since the fault `db` lets any statement fail; the liveness
  properties assume that the statements are accepted.
- A snapshot without a checksum is compared with nothing (`drill/worker.go:142`), and
  the `size_bytes` of a snapshot never is: the size in the evidence is the storage's
  own. Such a drill may be VERIFIED with any dump that psql takes; `VerdictEarned`
  says so.
- `cancel` (`httpapi/handlers.go:247`) cancels the run before `CancelDrill` looks at
  the organization (`database/resources.go:193`). A cancellation from another
  organization is answered 404 and ends the run; at a `transition` it does so without
  a terminal status. `AcceptedDrillEnds` therefore excludes it, as it excludes a
  client that goes away between the two calls.
- `workers.Close` returns nil once the workers have stopped, and a worker stops
  although its deferred `Destroy` failed (`drill/worker.go:156`): a clean return may
  leave a sandbox. `CleanReturn` names that exception.
- `pool.Close` is deferred (`cmd/server/main.go:42`) and waits without a timeout for
  every connection that is out: the 30 seconds of the shutdown do not bound it.
- The error of `json.Unmarshal` on `required_validations` is ignored
  (`drill/worker.go:190`): a value that is no list would require nothing. The code
  only writes lists.
- Whole seconds are compared, so a duration of less than a second over its target is
  within it.
- `Local.Put` ignores the error of removing its temporary file (`storage/local.go:63`).
- `docs/deployment.md` says that readiness requires database, migrations and object
  storage. `/ready` pings the database; the other two are checked once, at start.
- Instances that start together on a new release stop each other: those that lose
  the race for a migration, or for the bucket, return an error and have to be
  started again. `SomeoneComesUp` shows that not all of them do.
  `docs/database.md` calls start-up migration convenient for a single instance.
- `GetDrill` searches the newest 100 drills of an organisation: older ones are
  answered 404 by the detail, stream and report handlers, even while they run.
- The list handlers answer with the limit that was asked for, `pageValues` applies
  100. A client that stops at the first page shorter than that limit stops too early;
  `NoRowSkipped` is about one that stops at an empty page. A filter by status
  does skip rows when one leaves the filter between two pages.
- `(page-1)*limit` is not bounded: a huge page number makes the offset negative and
  the query fail.
- `Local.Put` renames without `fsync`; a machine that loses power may keep the name
  of an object without its bytes.
- `POST /backup-sources/{id}/discover` reports SUCCEEDED and discovers nothing; the
  local provider has no caller.
- `rpo-rto.md` says that RTO ends when all required validations have completed.
  `recoveryReady` is taken after the connectivity check alone, so RTO may PASS
  although required checks were never run (the verdict is then PARTIALLY_VERIFIED).
- `cancelDrill` may look up the `running` map just before `run` files its cancel
  function. The run is then not cancelled: it goes on under a CANCELLED row until
  its next `transition` and may create a sandbox, which it removes again.
  `recovery-drills.md` says that cancellation stops subsequent work.
- `logout` ignores the error of `Revoke` and answers 204: the cookie is cleared
  and the session stays usable; hence the condition of `AnswersTrue`.
- Two password changes that verified the same hash are both applied, one after
  the other. A login that verified the old hash may insert its session after the
  second UPDATE and keep it: `ChangeRevokes` promises only what came before.
- A deferred `Destroy` that fails is recorded as DESTROYED; hence the condition
  of `DestroyedMeansGone`.
- `setTerminal` publishes its status even if its UPDATE matched no row, so a
  stream may say FAILED of a CANCELLED drill; `SuccessAnnouncedLast` shows that
  this never happens to SUCCEEDED.
- ADR-014 speaks of periodic reconciliation of objects; no code does it, so an
  object stored just before a crash stays.
- `network create` that is cut off after it took effect leaves the network for ever: it
  is the one command of `Create` without clean-up (`drill/docker.go:62-64`).
  `docs/postgres-recovery.md:5` promises removal on every exit; `SandboxReclaimed`,
  `NothingLeftBehind` and `CleanReturn` make the exception.
- A session recycled during a tick drops the lock; `LeaseRespected` shows that
  leases are still not handed out twice.

## 6. Not modelled, and the plan

Not modelled because nothing in them is for a model checker: the notifier (one
outgoing call that nothing invokes), PDF layout, password hashing and secret
encryption, configuration, all of the web client but the detail page's reads, the
arguments of docker commands, the
staging file of a run, a pool built without executor (main never builds one),
heartbeats and payloads of the SSE stream, and the rounding of `float64` seconds.

The local backup provider walks a directory and shares no state. Of S3 only
`EnsureBucket` is modelled: the other methods are one call of a client library
each. Assets, sources, policies and snapshots are inserted by single statements
and listed as drills are. Routing and the permission table are static. Audit rows
are written and never read by the code that is modelled.

Built so far, in this order: domain rules; the abstract lifecycle; workers and
drill API; executor; hub; scheduler; process; sessions; object store and its
refinement; start-up of several instances and its composition with the process;
views of drills and their composition with the hub; the validation engine. Proved
about: every component that is modelled. What is left, in order of importance:

1. The conditions of liveness that are safety: that no point of `run`, of `Create` or
   of a shutdown is one where everyone waits (an action of the waiting process is
   possible, stated without `ENABLED`).
2. That `DrillWorker` uses Docker and storage no more strongly than
   `DockerSandbox_proofs` and `LocalStore_proofs` have shown them to be, as theorems
   about the composition instead of a reading of both.
3. The statements of the models against a PostgreSQL server, beginning with the two
   of section 5.
