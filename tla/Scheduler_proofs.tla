--------------------------- MODULE Scheduler_proofs ---------------------------
(***************************************************************************)
(* Proofs about Scheduler, for any number of instances, sessions and jobs. *)
(***************************************************************************)
EXTENDS Scheduler, TLAPS

\* The clock starts at 1; 0 stands for a NULL lease_until.
Typed == TypeOK /\ now > 0

\* What makes OneLeaser inductive: the advisory lock is with one session at a
\* time, and while no session is recycled an instance in a tick owns the
\* session that has it, even if its pool never hands that session out again.
SingleHolder == \A c, e \in Conns : held[c] > 0 /\ held[e] > 0 => c = e

TickHolds ==
  "recycle" \notin faults =>
    \A i \in Instances : InTick(i) => \E c \in Conns : Owner[c] = i /\ held[c] > 0

LockInv == Typed /\ SingleHolder /\ TickHolds

\* The steps of an instance's UPDATE.
Update(i) ==
  \/ BeginUpdate(i) \/ CommitUpdate(i) \/ AbortUpdate(i)
  \/ \E j \in Jobs : WaitForRow(i, j) \/ UpdateRow(i, j)

\* What the row locks are good for: a row that has been changed is not changed
\* by another UPDATE before the commit, so it stays as it was when the WHERE
\* clause was evaluated last.
RowsLocked ==
  /\ \A i \in Instances : pc[i] = "update" => started[i] > 0
  /\ \A i \in Instances : \A j \in taken[i] : pc[i] = "update" /\ Leasable(j, started[i])
  /\ \A i, k \in Instances : \A j \in taken[i] \cap taken[k] : i = k

LeaseInv == Typed /\ RowsLocked

-----------------------------------------------------------------------------
LEMMA TypedInit == Init => Typed
BY TimesAssumption DEF Init, Typed, TypeOK

LEMMA TypedNext == Typed /\ [Next]_vars => Typed'
<1> SUFFICES ASSUME Typed, [Next]_vars PROVE Typed'
  OBVIOUS
<1> USE DEF Typed, TypeOK, statement
<1>1. ASSUME NEW i \in Instances, NEW c \in Conns, TryLock(i, c) PROVE Typed'
  BY <1>1 DEF TryLock
<1>2. ASSUME NEW i \in Instances, Update(i) PROVE Typed'
  <2>1. CASE BeginUpdate(i)
    BY <2>1 DEF BeginUpdate
  <2>2. ASSUME NEW j \in Jobs, WaitForRow(i, j) PROVE Typed'
    BY <2>2 DEF WaitForRow
  <2>3. ASSUME NEW j \in Jobs, UpdateRow(i, j) PROVE Typed'
    BY <2>3 DEF UpdateRow
  <2>4. CASE CommitUpdate(i)
    <3>1. leaseUntil' \in [Jobs -> Nat]
      BY <2>4, TimesAssumption DEF CommitUpdate
    <3> QED
      BY <2>4, <3>1 DEF CommitUpdate, EndUpdate
  <2>5. CASE AbortUpdate(i)
    BY <2>5 DEF AbortUpdate, EndUpdate
  <2> QED
    BY <1>2, <2>1, <2>2, <2>3, <2>4, <2>5 DEF Update
<1>3. ASSUME NEW i \in Instances, NEW c \in Conns, Unlock(i, c) PROVE Typed'
  BY <1>3 DEF Unlock
<1>4. ASSUME NEW c \in Conns, Recycle(c) PROVE Typed'
  BY <1>4 DEF Recycle
<1>5. CASE Advance
  BY <1>5 DEF Advance
<1>6. CASE UNCHANGED vars
  BY <1>6 DEF vars
<1> QED
  BY <1>1, <1>2, <1>3, <1>4, <1>5, <1>6 DEF Next, tick, Update

\* Every variable of the scheduler keeps its type: in particular an unlock on
\* a session without the lock never makes its count negative.
THEOREM TypeCorrect == Spec => []TypeOK
<1>1. Typed => TypeOK
  BY DEF Typed
<1> QED
  BY <1>1, TypedInit, TypedNext, PTL DEF Spec

-----------------------------------------------------------------------------
LEMMA LockInit == Init => LockInv
<1> SUFFICES ASSUME Init PROVE LockInv
  OBVIOUS
<1>1. Typed
  BY TypedInit
<1>2. SingleHolder
  BY DEF Init, SingleHolder
<1>3. TickHolds
  BY DEF Init, TickHolds, InTick
<1> QED
  BY <1>1, <1>2, <1>3 DEF LockInv

\* Steps that touch neither a tick nor the lock.
LEMMA LockKept ==
  ASSUME SingleHolder, TickHolds, UNCHANGED <<pc, held, faults>>
  PROVE  SingleHolder' /\ TickHolds'
BY DEF SingleHolder, TickHolds, InTick

LEMMA LockNext == LockInv /\ [Next]_vars => LockInv'
<1> SUFFICES ASSUME LockInv, [Next]_vars PROVE LockInv'
  OBVIOUS
<1>t. Typed'
  BY TypedNext DEF LockInv
<1> USE DEF LockInv, Typed, TypeOK
<1>1. ASSUME NEW i \in Instances, NEW c \in Conns, TryLock(i, c)
      PROVE SingleHolder' /\ TickHolds'
  <2>1. SingleHolder'
    BY <1>1 DEF TryLock, Free, SingleHolder
  <2>2. held'[c] > 0 /\ Owner[c] = i
    BY <1>1 DEF TryLock
  <2>3. \A e \in Conns : held[e] > 0 => held'[e] > 0
    BY <1>1 DEF TryLock
  <2>4. \A k \in Instances \ {i} : pc'[k] = pc[k]
    BY <1>1 DEF TryLock
  <2>5. faults' = faults
    BY <1>1 DEF TryLock
  <2>6. TickHolds'
    BY <2>2, <2>3, <2>4, <2>5 DEF TickHolds, InTick
  <2> QED
    BY <2>1, <2>6
<1>2. ASSUME NEW i \in Instances, Update(i) PROVE SingleHolder' /\ TickHolds'
  <2>1. held' = held /\ faults' = faults /\ InTick(i)
    BY <1>2
    DEF Update, BeginUpdate, WaitForRow, UpdateRow, CommitUpdate, AbortUpdate, EndUpdate, InTick
  <2>2. \A k \in Instances \ {i} : pc'[k] = pc[k]
    BY <1>2
    DEF Update, BeginUpdate, WaitForRow, UpdateRow, CommitUpdate, AbortUpdate, EndUpdate
  <2> QED
    BY <2>1, <2>2 DEF SingleHolder, TickHolds, InTick
<1>3. ASSUME NEW i \in Instances, NEW c \in Conns, Unlock(i, c)
      PROVE SingleHolder' /\ TickHolds'
  <2>1. \A e \in Conns : held'[e] > 0 => held[e] > 0
    BY <1>3 DEF Unlock
  <2>2. SingleHolder'
    BY <2>1 DEF SingleHolder
  <2>3. ~InTick(i)'
    BY <1>3 DEF Unlock, InTick
  <2>4. ASSUME "recycle" \notin faults', NEW k \in Instances, InTick(k)'
        PROVE \E e \in Conns : Owner[e] = k /\ held'[e] > 0
    \* i is in its tick, too, so the lock is with one of i's sessions: k = i
    <3>1. k # i /\ InTick(k) /\ InTick(i) /\ "recycle" \notin faults
      BY <1>3, <2>3, <2>4 DEF Unlock, InTick
    <3>2. PICK e \in Conns : Owner[e] = k /\ held[e] > 0
      BY <3>1 DEF TickHolds
    <3>3. PICK f \in Conns : Owner[f] = i /\ held[f] > 0
      BY <3>1 DEF TickHolds
    <3> QED
      BY <3>1, <3>2, <3>3 DEF SingleHolder
  <2> QED
    BY <2>2, <2>4 DEF TickHolds
<1>4. ASSUME NEW c \in Conns, Recycle(c) PROVE SingleHolder' /\ TickHolds'
  BY <1>4 DEF Recycle, SingleHolder, TickHolds, InTick
<1>5. ASSUME UNCHANGED <<pc, held, faults>> PROVE SingleHolder' /\ TickHolds'
  BY <1>5, LockKept
<1> QED
  BY <1>t, <1>1, <1>2, <1>3, <1>4, <1>5 DEF Next, tick, Update, Advance, vars

\* While no session is recycled, at most one instance is between its lock and
\* its unlock, whichever sessions the pools hand out to the three statements.
THEOREM MutualExclusion == Spec => []OneLeaser
<1>1. LockInv => OneLeaser
  <2> SUFFICES ASSUME LockInv, "recycle" \notin faults,
                      NEW i \in Instances, NEW k \in Instances,
                      InTick(i), InTick(k)
               PROVE i = k
    BY DEF OneLeaser
  <2>1. PICK c \in Conns : Owner[c] = i /\ held[c] > 0
    BY DEF LockInv, TickHolds
  <2>2. PICK e \in Conns : Owner[e] = k /\ held[e] > 0
    BY DEF LockInv, TickHolds
  <2> QED
    BY <2>1, <2>2 DEF LockInv, SingleHolder
<1> QED
  BY <1>1, LockInit, LockNext, PTL DEF Spec

-----------------------------------------------------------------------------
LEMMA LeaseInit == Init => LeaseInv
BY TypedInit DEF Init, LeaseInv, RowsLocked

\* Steps that touch neither a row nor a statement.
LEMMA RowsKept ==
  ASSUME RowsLocked, UNCHANGED <<leaseUntil, statement>>,
         \A i \in Instances : pc'[i] = "update" <=> pc[i] = "update"
  PROVE  RowsLocked'
BY DEF RowsLocked, Leasable, statement

LEMMA UpdateKeepsRows ==
  ASSUME LeaseInv, NEW i \in Instances, Update(i)
  PROVE  RowsLocked'
<1> USE DEF LeaseInv, Typed, TypeOK
<1>1. CASE BeginUpdate(i)
  BY <1>1 DEF BeginUpdate, RowsLocked, Leasable
<1>2. ASSUME NEW j \in Jobs, WaitForRow(i, j) PROVE RowsLocked'
  BY <1>2 DEF WaitForRow, RowsLocked, Leasable
<1>3. ASSUME NEW j \in Jobs, UpdateRow(i, j) PROVE RowsLocked'
  <2>1. /\ pc[i] = "update" /\ \A k \in Instances : j \notin taken[k]
        /\ UNCHANGED <<pc, leaseUntil, started>>
        /\ taken' = [taken EXCEPT ![i] = IF Leasable(j, started[i]) THEN @ \cup {j} ELSE @]
    BY <1>3 DEF UpdateRow, RowIsMine
  <2>2. /\ \A k \in Instances \ {i} : taken'[k] = taken[k]
        /\ \A m \in taken'[i] : m \in taken[i] \/ (m = j /\ Leasable(j, started[i]))
    BY <2>1
  <2> QED
    BY <2>1, <2>2 DEF RowsLocked, Leasable
<1>4. CASE CommitUpdate(i)
  <2>1. /\ taken'[i] = {} /\ pc'[i] # "update"
        /\ \A k \in Instances \ {i} :
             taken'[k] = taken[k] /\ pc'[k] = pc[k] /\ started'[k] = started[k]
        /\ \A j \in Jobs \ taken[i] : leaseUntil'[j] = leaseUntil[j]
    BY <1>4 DEF CommitUpdate, EndUpdate
  <2>2. \A k \in Instances \ {i} : taken[k] \subseteq Jobs \ taken[i]
    BY DEF RowsLocked
  <2> QED
    BY <2>1, <2>2 DEF RowsLocked, Leasable
<1>5. CASE AbortUpdate(i)
  BY <1>5 DEF AbortUpdate, EndUpdate, RowsLocked, Leasable
<1> QED
  BY <1>1, <1>2, <1>3, <1>4, <1>5 DEF Update

LEMMA LeaseNext == LeaseInv /\ [Next]_vars => LeaseInv'
<1> SUFFICES ASSUME LeaseInv, [Next]_vars PROVE RowsLocked'
  BY TypedNext DEF LeaseInv
<1> USE DEF LeaseInv, Typed, TypeOK
<1>1. ASSUME NEW i \in Instances, NEW c \in Conns, TryLock(i, c) \/ Unlock(i, c)
      PROVE  RowsLocked'
  BY <1>1, RowsKept DEF TryLock, Unlock
<1>2. ASSUME NEW i \in Instances, Update(i) PROVE RowsLocked'
  BY <1>2, UpdateKeepsRows
<1>3. CASE UNCHANGED <<pc, leaseUntil, statement>>
  BY <1>3, RowsKept
<1> QED
  BY <1>1, <1>2, <1>3 DEF Next, tick, Update, Recycle, Advance, vars

\* The leases of a job never overlap, with any number of instances in a tick
\* and sessions recycled at any time: an UPDATE that has waited for a row sees
\* the lease that was committed meanwhile.
THEOREM LeasesHold == Spec => LeaseRespected
<1> DEFINE Disjoint ==
      \A j \in Jobs :
        leaseUntil'[j] # leaseUntil[j] => leaseUntil'[j] > leaseUntil[j] + LeaseTime
<1>1. LeaseInv /\ [Next]_vars => [Disjoint]_vars
  <2> SUFFICES ASSUME LeaseInv, Next PROVE Disjoint
    OBVIOUS
  <2>1. ASSUME NEW i \in Instances, CommitUpdate(i) PROVE Disjoint
    <3> SUFFICES ASSUME NEW j \in Jobs, leaseUntil'[j] # leaseUntil[j]
                 PROVE  leaseUntil'[j] > leaseUntil[j] + LeaseTime
      OBVIOUS
    <3>1. j \in taken[i] /\ leaseUntil'[j] = started[i] + LeaseTime
      BY <2>1 DEF CommitUpdate
    <3>2. /\ leaseUntil[j] \in Nat /\ started[i] \in Nat /\ LeaseTime \in Nat
          /\ pc[i] = "update" /\ Leasable(j, started[i]) /\ started[i] > 0
      BY <3>1, TimesAssumption DEF LeaseInv, RowsLocked, Typed, TypeOK
    <3>3. leaseUntil[j] < started[i]
      BY <3>2 DEF Leasable
    <3> QED
      BY <3>1, <3>2, <3>3
  <2>2. CASE UNCHANGED leaseUntil
    BY <2>2
  <2> QED
    BY <2>1, <2>2
    DEF Next, tick, TryLock, Unlock, Recycle, Advance, BeginUpdate, WaitForRow, UpdateRow,
        AbortUpdate
<1> QED
  BY <1>1, LeaseInit, LeaseNext, PTL DEF Spec, LeaseRespected
=============================================================================
