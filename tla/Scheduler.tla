------------------------------ MODULE Scheduler ------------------------------
(***************************************************************************)
(* scheduler.Scheduler in several server instances that share a database.  *)
(* A tick takes the session-level advisory lock, leases the due jobs and   *)
(* releases the lock.  Each of its three statements runs on whichever      *)
(* connection the instance's pool hands out, so the lock may be released   *)
(* on another session than the one that holds it: that unlock does nothing *)
(* and the lock stays with the first session until it is recycled or       *)
(* happens to be used for the lock again.  When the session with the lock  *)
(* is recycled during a tick, a second instance may lease at the same      *)
(* time, so the UPDATE is taken apart: the rows it sees when it starts,    *)
(* the row locks it waits for, the WHERE clause that PostgreSQL evaluates  *)
(* again on a row that has changed meanwhile, the commit.                  *)
(***************************************************************************)
EXTENDS Integers

CONSTANTS
  Instances,
  Conns,        \* sessions of all the pools
  Owner,        \* Owner[c]: the instance whose pool holds session c
  Jobs,
  Due,          \* Due[j]: next_run_at, which nothing ever advances
  LeaseTime,    \* length of a lease (2 minutes)
  MaxTime,      \* bound on the database's clock
  MaxHeld       \* bound on how often one session stacks the lock

ASSUME OwnerAssumption == Owner \in [Conns -> Instances]
ASSUME TimesAssumption ==
  /\ Due \in [Jobs -> Nat] /\ LeaseTime \in Nat \ {0} /\ MaxTime \in Nat
  /\ MaxHeld \in Nat \ {0}

\* recycle: a pool closes sessions.  statement: an UPDATE or unlock fails, or
\* its reply is lost.
FaultKinds == {"recycle", "statement"}

VARIABLES
  pc,           \* wait, lease, update or unlock, by instance
  held,         \* held[c]: how often session c holds the advisory lock
  leaseUntil,   \* scheduler_jobs.lease_until, 0 for NULL
  started,      \* now() of an instance's UPDATE: the time it started
  todo,         \* the rows it saw fit when it started and has not come to yet
  waiting,      \* the row, if any, whose lock it waits for
  taken,        \* the rows it has locked and changed, and not committed
  now,          \* the database's clock
  faults        \* what may go wrong in this behaviour

statement == <<started, todo, waiting, taken>>
vars == <<pc, held, leaseUntil, statement, now, faults>>

Init ==
  /\ pc = [i \in Instances |-> "wait"]
  /\ held = [c \in Conns |-> 0]
  /\ leaseUntil = [j \in Jobs |-> 0]
  /\ started = [i \in Instances |-> 0]
  /\ todo = [i \in Instances |-> {}] /\ waiting = [i \in Instances |-> {}]
  /\ taken = [i \in Instances |-> {}]
  /\ now = 1
  /\ faults \in SUBSET FaultKinds

\* pg_try_advisory_lock succeeds unless another session holds the lock, and
\* stacks when the same session holds it already.
Free(c) == \A e \in Conns \ {c} : held[e] = 0

\* Mutant: the result of pg_try_advisory_lock is not looked at.
TryLock_ResultIgnored(i, c) ==
  /\ pc[i] = "wait" /\ Owner[c] = i
  /\ pc' = [pc EXCEPT ![i] = "lease"]
  /\ held' = IF Free(c) /\ held[c] < MaxHeld
               THEN [held EXCEPT ![c] = @ + 1] ELSE held
  /\ UNCHANGED <<leaseUntil, statement, now, faults>>

TryLock(i, c) ==
  /\ pc[i] = "wait" /\ Owner[c] = i
  /\ Free(c) /\ held[c] < MaxHeld
  /\ held' = [held EXCEPT ![c] = @ + 1]
  /\ pc' = [pc EXCEPT ![i] = "lease"]
  /\ UNCHANGED <<leaseUntil, statement, now, faults>>

\* Mutant: only a job that was never leased is taken.
Leasable_NeverExpires(j, t) == Due[j] <= t /\ leaseUntil[j] = 0

\* The WHERE clause for the row of j in a statement that started at t.
Leasable(j, t) == Due[j] <= t /\ (leaseUntil[j] = 0 \/ leaseUntil[j] < t)

\* The UPDATE starts, on any session: it sees the rows that are committed now.
BeginUpdate(i) ==
  /\ pc[i] = "lease"
  /\ pc' = [pc EXCEPT ![i] = "update"]
  /\ started' = [started EXCEPT ![i] = now]
  /\ todo' = [todo EXCEPT ![i] = {j \in Jobs : Leasable(j, now)}]
  /\ UNCHANGED <<held, leaseUntil, waiting, taken, now, faults>>

\* It has come to the row of j, in no particular order, and another UPDATE has
\* changed that and not committed.
WaitForRow(i, j) ==
  /\ pc[i] = "update" /\ j \in todo[i] /\ waiting[i] = {}
  /\ \E k \in Instances \ {i} : j \in taken[k]
  /\ waiting' = [waiting EXCEPT ![i] = {j}]
  /\ UNCHANGED <<pc, held, leaseUntil, started, todo, taken, now, faults>>

\* The row of j is free, and i has waited for it or nobody has: who waits gets
\* the row long before an instance that has just let go of it ticks again.
RowIsMine(i, j) ==
  /\ j \in todo[i] /\ \A k \in Instances : j \notin taken[k]
  /\ waiting[i] = {j} \/ (waiting[i] = {} /\ \A k \in Instances : j \notin waiting[k])

\* Mutant: the row is changed as it was seen at the start.
UpdateRow_NoRecheck(i, j) ==
  /\ pc[i] = "update" /\ RowIsMine(i, j)
  /\ todo' = [todo EXCEPT ![i] = @ \ {j}] /\ waiting' = [waiting EXCEPT ![i] = {}]
  /\ taken' = [taken EXCEPT ![i] = @ \cup {j}]
  /\ UNCHANGED <<pc, held, leaseUntil, started, now, faults>>

\* The row is changed if it is still fit.
UpdateRow(i, j) ==
  /\ pc[i] = "update" /\ RowIsMine(i, j)
  /\ todo' = [todo EXCEPT ![i] = @ \ {j}] /\ waiting' = [waiting EXCEPT ![i] = {}]
  /\ taken' = [taken EXCEPT ![i] = IF Leasable(j, started[i]) THEN @ \cup {j} ELSE @]
  /\ UNCHANGED <<pc, held, leaseUntil, started, now, faults>>

\* The statement is over, however it ended; an error is only logged.
EndUpdate(i) ==
  /\ pc' = [pc EXCEPT ![i] = "unlock"]
  /\ started' = [started EXCEPT ![i] = 0]
  /\ todo' = [todo EXCEPT ![i] = {}] /\ waiting' = [waiting EXCEPT ![i] = {}]
  /\ taken' = [taken EXCEPT ![i] = {}]
  /\ UNCHANGED <<held, now, faults>>

CommitUpdate(i) ==
  /\ pc[i] = "update" /\ todo[i] = {}
  /\ leaseUntil' = [j \in Jobs |->
                      IF j \in taken[i] THEN started[i] + LeaseTime ELSE leaseUntil[j]]
  /\ EndUpdate(i)

\* Some statements, i's among them, wait for each other's rows.
Deadlocked(i) ==
  \E S \in SUBSET Instances :
    /\ i \in S
    /\ \A k \in S : \E m \in S \ {k} : waiting[k] \cap taken[m] # {}

\* The UPDATE fails, or PostgreSQL chooses it to break a deadlock.
AbortUpdate(i) ==
  /\ pc[i] = "update" /\ ("statement" \in faults \/ Deadlocked(i))
  /\ EndUpdate(i)
  /\ UNCHANGED leaseUntil

\* pg_advisory_unlock on a session that does not hold the lock only warns;
\* an error of the deferred call is ignored.
Unlock(i, c) ==
  /\ pc[i] = "unlock" /\ Owner[c] = i
  /\ pc' = [pc EXCEPT ![i] = "wait"]
  /\ \/ held' = [held EXCEPT ![c] = IF @ > 0 THEN @ - 1 ELSE 0]
     \/ "statement" \in faults /\ UNCHANGED held
  /\ UNCHANGED <<leaseUntil, statement, now, faults>>

\* The pool closes an idle session; the server drops its locks.  Between the
\* statements of a tick the session that holds the lock is idle, too.
Recycle(c) ==
  /\ "recycle" \in faults /\ held[c] > 0
  /\ held' = [held EXCEPT ![c] = 0]
  /\ UNCHANGED <<pc, leaseUntil, statement, now, faults>>

Advance ==
  /\ now < MaxTime
  /\ now' = now + 1
  /\ UNCHANGED <<pc, held, leaseUntil, statement, faults>>

tick(i) ==
  \/ \E c \in Conns : TryLock(i, c) \/ Unlock(i, c)
  \/ BeginUpdate(i) \/ CommitUpdate(i) \/ AbortUpdate(i)
  \/ \E j \in Jobs : WaitForRow(i, j) \/ UpdateRow(i, j)

Next ==
  \/ \E i \in Instances : tick(i)
  \/ \E c \in Conns : Recycle(c)
  \/ Advance

Spec == Init /\ [][Next]_vars

\* Every instance ticks, and a session does not live for ever (pgxpool closes
\* sessions that have reached their maximum lifetime).
Fairness ==
  /\ \A i \in Instances : WF_vars(tick(i))
  /\ \A c \in Conns : WF_vars(Recycle(c))

FairSpec == Spec /\ Fairness

-----------------------------------------------------------------------------
\* The type of every variable.
TypeOK ==
  /\ pc \in [Instances -> {"wait", "lease", "update", "unlock"}]
  /\ held \in [Conns -> Nat]
  /\ leaseUntil \in [Jobs -> Nat]
  /\ started \in [Instances -> Nat]
  /\ todo \in [Instances -> SUBSET Jobs] /\ waiting \in [Instances -> SUBSET Jobs]
  /\ taken \in [Instances -> SUBSET Jobs]
  /\ now \in Nat
  /\ faults \in SUBSET FaultKinds

InTick(i) == pc[i] # "wait"

\* At most one instance is between its lock and its unlock: only one instance
\* leases due jobs, although the unlock may miss the session with the lock.
\* A session that is recycled during a tick takes the lock away from it.
OneLeaser ==
  "recycle" \notin faults => \A i, k \in Instances : InTick(i) /\ InTick(k) => i = k

\* The leases of a job do not overlap: one begins, at the time its UPDATE
\* started, after the one before it has run out, even when a recycled session
\* lets two instances lease at the same time, both have seen the job free, and
\* one of them started earlier and commits later.
LeaseRespected ==
  [][\A j \in Jobs :
       leaseUntil'[j] # leaseUntil[j] => leaseUntil'[j] > leaseUntil[j] + LeaseTime]_vars

\* A job that is due and whose lease has run out is leased again, although a
\* missed unlock may keep every other session from the lock until the session
\* that has it is recycled, and two UPDATEs may wait for each other's rows.  The
\* bound on the clock stands for a database that answers while a lease lasts.
DueJobLeased ==
  \A j \in Jobs :
    (faults = {"recycle"} /\ Due[j] <= now /\ leaseUntil[j] < now) ~> leaseUntil[j] >= now
=============================================================================
