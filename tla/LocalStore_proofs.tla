--------------------------- MODULE LocalStore_proofs ---------------------------
(***************************************************************************)
(* Proofs about LocalStore, for any sets of keys, Puts and readers and any *)
(* limit on the size of an object.                                         *)
(***************************************************************************)
EXTENDS LocalStore, TLAPS

PutPoints == {"new", "copy", "check", "cleanup", "done", "killed", "littered"}

TypeInv ==
  /\ request \in [Puts -> Requests]
  /\ path \in [Keys -> Puts \cup {None}]
  /\ temp \subseteq Puts
  /\ written \in [Puts -> Nat]
  /\ put \in [Puts -> PutPoints]
  /\ outcome \in [Puts -> {"none", "ok", "error"}]
  /\ get \in [Readers -> {"idle", "opened", "reading"}]
  /\ file \in [Readers -> Puts \cup {None}]
  /\ size \in [Readers -> Nat]

\* An inode that a Put has finished: as long as was declared, and no longer
\* written to.
Whole(p) ==
  /\ outcome[p] = "ok"
  /\ put[p] \in {"cleanup", "done", "killed", "littered"}
  /\ written[p] = request[p].size

\* A Put that has not come to its rename has no result; past its first checks
\* its key is safe, and past the copy it has all that the limit lets through.
PutInv(p) ==
  /\ put[p] \in {"new", "copy", "check"} => outcome[p] = "none"
  /\ put[p] \in {"copy", "check"} => Safe(p)
  /\ put[p] = "check" => written[p] = Limit(p)
  /\ p \in temp => put[p] \in Running \cup {"killed", "littered"}

\* Only whole inodes are found at a path or held open, and the size a reader
\* was told is that of the inode it holds.
ReaderInv(r) ==
  /\ file[r] = None <=> get[r] = "idle"
  /\ file[r] # None => Whole(file[r])
  /\ get[r] = "reading" => size[r] = written[file[r]]

PathInv(k) == path[k] # None => Whole(path[k])

StoreInv ==
  /\ TypeInv
  /\ \A p \in Puts : PutInv(p)
  /\ \A k \in Keys : PathInv(k)
  /\ \A r \in Readers : ReaderInv(r)

-----------------------------------------------------------------------------
LEMMA StoreInvInit == Init => StoreInv
BY LimitAssumption
DEF Init, StoreInv, TypeInv, PutInv, PathInv, ReaderInv, PutPoints

LEMMA PutKeepsInv ==
  ASSUME StoreInv, NEW p \in Puts, Put(p)
  PROVE  StoreInv'
<1> USE DEF reading
<1>t. TypeInv /\ PutInv(p) /\ written[p] \in Nat
  BY DEF StoreInv, TypeInv
<1>1. CASE PutStart(p)
  <2>1. TypeInv'
    BY <1>1, <1>t DEF PutStart, Finish, TypeInv, PutPoints
  <2>2. \A q \in Puts : PutInv(q)'
    BY <1>1, <1>t DEF PutStart, Finish, StoreInv, TypeInv, PutInv, Safe, Limit, Running
  <2>3. \A q \in Puts : Whole(q) => Whole(q)'
    BY <1>1, <1>t DEF PutStart, Finish, TypeInv, Whole
  <2>4. UNCHANGED <<path, written, get, file, size>>
    BY <1>1 DEF PutStart
  <2> QED
    BY <1>t, <2>1, <2>2, <2>3, <2>4 DEF StoreInv, PathInv, ReaderInv, TypeInv
<1>2. CASE CopyChunk(p)
  <2>1. TypeInv'
    BY <1>2, <1>t DEF CopyChunk, Finish, TypeInv, PutPoints
  <2>2. \A q \in Puts : PutInv(q)'
    BY <1>2, <1>t DEF CopyChunk, Finish, StoreInv, TypeInv, PutInv, Safe, Limit, Running
  <2>3. \A q \in Puts : Whole(q) => Whole(q)' /\ written'[q] = written[q]
    BY <1>2, <1>t DEF CopyChunk, Finish, TypeInv, Whole
  <2>4. UNCHANGED <<path, get, file, size>>
    BY <1>2 DEF CopyChunk
  <2> QED
    BY <1>t, <2>1, <2>2, <2>3, <2>4 DEF StoreInv, PathInv, ReaderInv, TypeInv
<1>3. CASE CheckAndRename(p)
  <2>1. TypeInv'
    BY <1>3, <1>t DEF CheckAndRename, Finish, TypeInv, PutPoints, PutInv, Safe
  <2>2. \A q \in Puts : PutInv(q)'
    BY <1>3, <1>t DEF CheckAndRename, Finish, StoreInv, TypeInv, PutInv, Safe, Limit, Running
  <2>3. \A q \in Puts : Whole(q) => Whole(q)'
    BY <1>3, <1>t DEF CheckAndRename, Finish, TypeInv, Whole
  <2>4. UNCHANGED <<written, get, file, size>>
    BY <1>3 DEF CheckAndRename
  <2>5. \A k \in Keys : PathInv(k)'
    <3>1. CASE UNCHANGED path
      BY <1>t, <2>3, <3>1 DEF StoreInv, PathInv, TypeInv
    <3>2. CASE /\ RightLength(p) /\ Finish(p, "cleanup", "ok")
               /\ path' = [path EXCEPT ![request[p].key] = p]
      <4>1. Whole(p)'
        BY <1>3, <1>t, <2>4, <3>2 DEF CheckAndRename, Finish, RightLength, TypeInv, Whole
      <4>2. \A k \in Keys : path'[k] = path[k] \/ path'[k] = p
        BY <1>t, <3>2 DEF TypeInv
      <4> QED
        BY <1>t, <2>3, <4>1, <4>2 DEF StoreInv, PathInv, TypeInv
    <3> QED
      BY <1>3, <3>1, <3>2 DEF CheckAndRename
  <2> QED
    BY <1>t, <2>1, <2>2, <2>3, <2>4, <2>5 DEF StoreInv, PathInv, ReaderInv, TypeInv
<1>4. CASE RemoveTemp(p)
  <2>1. TypeInv'
    BY <1>4, <1>t DEF RemoveTemp, TypeInv, PutPoints
  <2>2. \A q \in Puts : PutInv(q)'
    BY <1>4, <1>t DEF RemoveTemp, StoreInv, TypeInv, PutInv, Safe, Limit, Running
  <2>3. \A q \in Puts : Whole(q) => Whole(q)'
    BY <1>4, <1>t DEF RemoveTemp, TypeInv, Whole
  <2>4. UNCHANGED <<path, written, get, file, size>>
    BY <1>4 DEF RemoveTemp
  <2> QED
    BY <1>t, <2>1, <2>2, <2>3, <2>4 DEF StoreInv, PathInv, ReaderInv, TypeInv
<1> QED
  BY <1>1, <1>2, <1>3, <1>4 DEF Put

LEMMA GetKeepsInv ==
  ASSUME StoreInv, NEW r \in Readers, Get(r)
  PROVE  StoreInv'
<1>t. TypeInv /\ ReaderInv(r)
  BY DEF StoreInv
<1>f. UNCHANGED <<request, path, temp, written, put, outcome>>
  BY DEF Get, Open, Stat, CloseFile
<1>1. TypeInv'
  BY <1>t, <1>f DEF Get, Open, Stat, CloseFile, Closed, TypeInv, ReaderInv
<1>2. \A p \in Puts : PutInv(p)' /\ (Whole(p) <=> Whole(p)')
  BY <1>f DEF StoreInv, PutInv, Whole, Safe, Limit
<1>3. \A k \in Keys : PathInv(k)'
  BY <1>t, <1>f, <1>2 DEF StoreInv, PathInv, TypeInv
<1>4. ASSUME NEW q \in Readers PROVE ReaderInv(q)'
  <2>1. CASE q # r
    <3>1. get'[q] = get[q] /\ file'[q] = file[q] /\ size'[q] = size[q]
      BY <1>t, <2>1 DEF Get, Open, Stat, CloseFile, Closed, TypeInv
    <3> QED
      BY <1>t, <1>f, <1>2, <3>1 DEF StoreInv, TypeInv, ReaderInv
  <2>2. CASE q = r
    <3>1. ASSUME NEW k \in Keys, Open(r, k) PROVE ReaderInv(r)'
      <4>1. get'[r] = "opened" /\ file'[r] = path[k] /\ path[k] # None
        BY <1>t, <3>1 DEF Open, TypeInv
      <4>2. Whole(path[k])'
        BY <1>f, <4>1 DEF StoreInv, PathInv, Whole
      <4> QED
        BY <1>f, <4>1, <4>2 DEF ReaderInv, Whole
    <3>2. ASSUME Closed(r) PROVE ReaderInv(r)'
      <4>1. get'[r] = "idle" /\ file'[r] = None
        BY <1>t, <3>2 DEF Closed, TypeInv
      <4> QED
        BY <4>1 DEF ReaderInv
    <3>3. ASSUME Stat(r), UNCHANGED file PROVE ReaderInv(r)'
      <4>1. file[r] # None /\ Whole(file[r])
        BY <1>t, <3>3 DEF Stat, ReaderInv
      <4>2. get'[r] = "reading" /\ size'[r] = written[file[r]]
        BY <1>t, <3>3, <4>1 DEF Stat, Closed, TypeInv
      <4> QED
        BY <1>f, <3>3, <4>1, <4>2 DEF ReaderInv, Whole
    <3> QED
      BY <2>2, <3>1, <3>2, <3>3 DEF Get, Stat, CloseFile
  <2> QED
    BY <2>1, <2>2
<1> QED
  BY <1>1, <1>2, <1>3, <1>4 DEF StoreInv

LEMMA StoreInvNext == StoreInv /\ [Next]_vars => StoreInv'
<1> SUFFICES ASSUME StoreInv, [Next]_vars PROVE StoreInv'
  OBVIOUS
<1>1. ASSUME NEW p \in Puts, Put(p) PROVE StoreInv'
  BY <1>1, PutKeepsInv
<1>2. ASSUME NEW r \in Readers, Get(r) PROVE StoreInv'
  BY <1>2, GetKeepsInv
<1>3. ASSUME NEW k \in Keys, Delete(k) PROVE StoreInv'
  BY <1>3 DEF Delete, reading, StoreInv, TypeInv, PutInv, PathInv, ReaderInv, Whole, Safe, Limit
<1>4. CASE Health
  BY <1>4 DEF Health, reading, StoreInv, TypeInv, PutInv, PathInv, ReaderInv, Whole, Safe, Limit
<1>5. CASE Crash
  <2>1. TypeInv'
    BY <1>5 DEF Crash, StoreInv, TypeInv, PutPoints
  <2>2. \A p \in Puts : PutInv(p)' /\ (Whole(p) => Whole(p)')
    BY <1>5 DEF Crash, StoreInv, TypeInv, PutInv, Whole, Safe, Limit, Running
  <2>3. \A r \in Readers : ReaderInv(r)'
    BY <1>5 DEF Crash, ReaderInv
  <2>4. UNCHANGED path
    BY <1>5 DEF Crash
  <2> QED
    BY <2>1, <2>2, <2>3, <2>4 DEF StoreInv, PathInv, TypeInv
<1>6. CASE UNCHANGED vars
  BY <1>6 DEF vars, StoreInv, TypeInv, PutInv, PathInv, ReaderInv, Whole, Safe, Limit
<1> QED
  BY <1>1, <1>2, <1>3, <1>4, <1>5, <1>6 DEF Next

\* A temporary file outlives its Put only if the process died in that Put.
THEOREM PutsCleanUp == Spec => []NoTempLeft
<1>1. StoreInv => NoTempLeft
  BY DEF StoreInv, TypeInv, PutInv, NoTempLeft
<1> QED
  BY <1>1, StoreInvInit, StoreInvNext, PTL DEF Spec

-----------------------------------------------------------------------------
(***************************************************************************)
(* The refinement.  A Put takes effect at its rename, a Get at its open; a *)
(* chunk is written only to inodes that no path and no reader has.         *)
(***************************************************************************)
objects == [k \in Keys |-> ObjectAt(k)]
stored == {p \in Puts : outcome[p] = "ok"}
handles == [r \in Readers |-> HandleOf(r)]

LEMMA StoreInitMaps == Init => Store!StoreInit
BY DEF Init, Store!StoreInit, ObjectAt, HandleOf

\* What is stored and held open does not change while the whole inodes, the
\* paths and the open files stay as they are.
LEMMA SameObjects ==
  ASSUME StoreInv, UNCHANGED path,
         \A p \in Puts : Whole(p) => written'[p] = written[p]
  PROVE  UNCHANGED objects
<1>1. \A k \in Keys : ObjectAt(k)' = ObjectAt(k)
  BY DEF StoreInv, TypeInv, PathInv, ObjectAt, Contents
<1> QED
  BY <1>1 DEF objects

LEMMA SameHandles ==
  ASSUME StoreInv, UNCHANGED <<get, file, size>>,
         \A p \in Puts : Whole(p) => written'[p] = written[p]
  PROVE  UNCHANGED handles
<1>1. \A r \in Readers : HandleOf(r)' = HandleOf(r)
  BY DEF StoreInv, TypeInv, ReaderInv, HandleOf, Contents
<1> QED
  BY <1>1 DEF handles

LEMMA PutMaps ==
  ASSUME StoreInv, NEW p \in Puts, Put(p)
  PROVE  Store!StoreNext \/ UNCHANGED <<request, objects, stored, handles>>
<1> USE DEF reading
<1>t. TypeInv /\ PutInv(p) /\ request[p] \in Requests
  BY DEF StoreInv, TypeInv
<1>w. \A q \in Puts : Whole(q) => written'[q] = written[q]
  BY <1>t DEF Put, PutStart, CopyChunk, CheckAndRename, RemoveTemp, Whole, TypeInv
<1>h. UNCHANGED <<request, handles>>
  BY <1>w, SameHandles DEF Put, PutStart, CopyChunk, CheckAndRename, RemoveTemp
<1>1. CASE /\ UNCHANGED path
           /\ \/ UNCHANGED outcome
              \/ /\ put[p] \in {"new", "copy", "check"}
                 /\ outcome' = [outcome EXCEPT ![p] = "error"]
  <2>1. UNCHANGED objects
    BY <1>1, <1>w, SameObjects
  <2>2. UNCHANGED stored
    BY <1>1, <1>t DEF stored, TypeInv, PutInv
  <2> QED
    BY <1>h, <2>1, <2>2
<1>2. CASE /\ CheckAndRename(p) /\ RightLength(p)
           /\ path' = [path EXCEPT ![request[p].key] = p] /\ Finish(p, "cleanup", "ok")
  <2>1. put[p] = "check" /\ outcome[p] = "none" /\ request[p].key \in Keys
    BY <1>2, <1>t DEF CheckAndRename, PutInv, Safe
  <2>2. /\ request[p].bytes \in Nat /\ request[p].size \in Nat /\ maxBytes \in Nat
        /\ written[p] \in Nat
    BY <1>t, LimitAssumption DEF Requests, TypeInv
  <2>3. request[p].bytes = request[p].size /\ written[p] = request[p].size
    BY <1>2, <1>t, <2>1, <2>2 DEF RightLength, PutInv, Limit
  <2>4. p \notin stored /\ stored' = stored \cup {p}
    BY <1>2, <1>t, <2>1 DEF stored, Finish, TypeInv
  <2>5. objects' = [objects EXCEPT ![request[p].key] = Store!Object(p)]
    <3>1. UNCHANGED written
      BY <1>2 DEF CheckAndRename
    <3>2. Contents(p)' = Store!Object(p)
      BY <2>3, <3>1 DEF Contents, Store!Object
    <3>3. \A k \in Keys : ObjectAt(k)' = IF k = request[p].key THEN Contents(p)' ELSE ObjectAt(k)
      BY <1>2, <1>t, <2>1, <3>1, NoneAssumption DEF ObjectAt, Contents, TypeInv
    <3> QED
      BY <2>1, <3>2, <3>3 DEF objects
  <2>6. Store!StorePut(p)
    BY <1>h, <2>1, <2>3, <2>4, <2>5 DEF Store!StorePut, objects, stored, handles
  <2> QED
    BY <2>6 DEF Store!StoreNext
<1> QED
  BY <1>1, <1>2 DEF Put, PutStart, CopyChunk, CheckAndRename, RemoveTemp, Finish

LEMMA GetMaps ==
  ASSUME StoreInv, NEW r \in Readers, Get(r)
  PROVE  Store!StoreNext \/ UNCHANGED <<request, objects, stored, handles>>
<1>t. TypeInv /\ ReaderInv(r)
  BY DEF StoreInv
<1>f. UNCHANGED <<request, path, written, outcome>>
  BY DEF Get, Open, Stat, CloseFile
<1>s. UNCHANGED <<request, objects, stored>>
  BY <1>f, SameObjects DEF stored
<1>o. \A q \in Readers \ {r} : HandleOf(q)' = HandleOf(q)
  BY <1>t, <1>f DEF Get, Open, Stat, CloseFile, Closed, HandleOf, Contents, TypeInv
<1>1. ASSUME NEW k \in Keys, Open(r, k) PROVE Store!StoreGet(r, k)
  <2>1. /\ file[r] = None /\ path[k] \in Puts
        /\ file'[r] = path[k] /\ get'[r] = "opened"
    BY <1>t, <1>1 DEF Open, ReaderInv, TypeInv
  <2>2. HandleOf(r) = None /\ ObjectAt(k) = Contents(path[k])
    BY <2>1, NoneAssumption DEF HandleOf, ObjectAt
  <2>3. Contents(path[k]) # None
    BY <1>t, <2>1, NoObjectAssumption DEF Contents, TypeInv
  <2>4. HandleOf(r)' = [object |-> ObjectAt(k), size |-> ObjectAt(k).bytes]
    BY <1>f, <2>1, <2>2, NoneAssumption DEF HandleOf, Contents
  <2>5. handles' = [handles EXCEPT ![r] = [object |-> objects[k], size |-> objects[k].bytes]]
    BY <1>o, <2>4 DEF handles, objects
  <2>6. handles[r] = None /\ objects[k] # None
    BY <2>2, <2>3 DEF handles, objects
  <2> QED
    BY <1>s, <2>5, <2>6 DEF Store!StoreGet, objects, stored, handles
<1>2. ASSUME Closed(r) PROVE Store!StoreRelease
  <2>1. HandleOf(r)' = None
    BY <1>t, <1>2 DEF Closed, HandleOf, TypeInv
  <2>2. handles' = [q \in Readers |-> IF q \in {r} THEN None ELSE handles[q]]
    BY <1>o, <2>1 DEF handles
  <2> QED
    BY <1>s, <2>2 DEF Store!StoreRelease, objects, stored, handles
<1>3. ASSUME Stat(r), UNCHANGED file PROVE UNCHANGED handles
  <2>1. file[r] \in Puts /\ get[r] = "opened"
    BY <1>t, <1>3 DEF Stat, ReaderInv, TypeInv
  <2>2. get'[r] = "reading" /\ size'[r] = written[file[r]]
    BY <1>t, <1>3, <2>1, NoneAssumption DEF Stat, Closed, TypeInv
  <2>3. HandleOf(r)' = HandleOf(r)
    BY <1>f, <1>3, <2>1, <2>2 DEF HandleOf, Contents
  <2> QED
    BY <1>o, <2>3 DEF handles
<1> QED
  BY <1>s, <1>1, <1>2, <1>3 DEF Get, Stat, CloseFile, Store!StoreNext

LEMMA StoreNextMaps == StoreInv /\ [Next]_vars => [Store!StoreNext]_(Store!storeVars)
<1> SUFFICES ASSUME StoreInv, [Next]_vars
             PROVE  Store!StoreNext \/ UNCHANGED <<request, objects, stored, handles>>
  BY DEF Store!storeVars, objects, stored, handles
<1> USE DEF reading
<1>1. ASSUME NEW p \in Puts, Put(p)
      PROVE  Store!StoreNext \/ UNCHANGED <<request, objects, stored, handles>>
  BY <1>1, PutMaps
<1>2. ASSUME NEW r \in Readers, Get(r)
      PROVE  Store!StoreNext \/ UNCHANGED <<request, objects, stored, handles>>
  BY <1>2, GetMaps
<1>3. ASSUME NEW k \in Keys, Delete(k) PROVE Store!StoreDelete(k)
  <2>1. UNCHANGED <<request, stored, handles, written>>
    BY <1>3, SameHandles DEF Delete, stored
  <2>2. objects' = [objects EXCEPT ![k] = None]
    BY <1>3, <2>1 DEF Delete, StoreInv, TypeInv, objects, ObjectAt, Contents
  <2> QED
    BY <2>1, <2>2 DEF Store!StoreDelete, objects, stored, handles
<1>4. CASE Health \/ UNCHANGED vars
  <2>1. UNCHANGED <<request, stored, path, written, get, file, size>>
    BY <1>4 DEF Health, vars, stored
  <2> QED
    BY <2>1, SameObjects, SameHandles
<1>5. ASSUME Crash PROVE Store!StoreRelease
  <2>1. UNCHANGED <<request, stored, objects>>
    BY <1>5, SameObjects DEF Crash, stored
  <2>2. handles' = [r \in Readers |-> IF r \in Readers THEN None ELSE handles[r]]
    BY <1>5 DEF Crash, handles, HandleOf
  <2> QED
    BY <2>1, <2>2 DEF Store!StoreRelease, objects, stored, handles
<1> QED
  BY <1>1, <1>2, <1>3, <1>4, <1>5 DEF Next, Store!StoreNext

\* storage.Local implements ObjectStorage without a lock: objects are replaced
\* in one step by whole ones, exactly by the Puts that return nil, and what a
\* reader has opened never changes under it, for any number of concurrent Puts,
\* Gets and Deletes, readers that yield too little or too much, and crashes at
\* any point.
THEOREM LocalImplementsObjectStore == Spec => RefinesObjectStore
BY StoreInitMaps, StoreNextMaps, StoreInvInit, StoreInvNext, PTL
DEF Spec, RefinesObjectStore, Store!StoreSpec
=============================================================================
