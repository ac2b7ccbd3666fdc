------------------------------ MODULE LocalStore ------------------------------
(***************************************************************************)
(* storage.Local: objects as files under one directory.  Put copies its    *)
(* reader into a temporary file, chunk by chunk, checks the length and     *)
(* renames the file onto the object's path; a deferred call removes the    *)
(* temporary name.  Get opens the path and then asks the open file for its *)
(* size.  Any number of Puts, Gets, Deletes and Health calls run at once;  *)
(* nothing in Local locks.                                                 *)
(*                                                                         *)
(* A file is an inode, named here by the Put that made it; a path names an *)
(* inode or nothing, and an open file keeps its inode when the path is     *)
(* replaced or removed.  A byte stands for a chunk.  The random suffix of  *)
(* os.CreateTemp is taken to be unused: two files never share a name.      *)
(***************************************************************************)
EXTENDS Naturals

CONSTANTS
  Keys,        \* keys that path accepts
  UnsafeKeys,  \* keys that it refuses
  Puts, Readers,
  None,
  maxBytes     \* the configured limit of an object

ASSUME LimitAssumption == maxBytes \in Nat \ {0}
ASSUME NoneAssumption == None \notin Keys \cup Puts
ASSUME NoObjectAssumption == None \notin [put : Puts, bytes : Nat]

VARIABLES
  request,   \* Put -> its key, the declared size and the bytes its reader yields
  path,      \* key -> the inode the object's path names, or None
  temp,      \* the inodes that still have their temporary name
  written,   \* inode -> bytes in it
  put,       \* Put: new, copy, check, cleanup, done, killed,
             \* littered (over, its temporary file not removed)
  outcome,   \* what the Put returns: none, ok or error
  get,       \* reader: idle, opened, reading
  file,      \* reader -> the inode it has open, or None
  size,      \* reader -> the size Get returned
  probe      \* Health's file: none, made, left

vars == <<request, path, temp, written, put, outcome, get, file, size, probe>>

\* The reader a Put is given may yield less or more than was declared.
Requests ==
  [key : Keys \cup UnsafeKeys, size : 0 .. (maxBytes + 1), bytes : 0 .. (maxBytes + 2)]

Init ==
  /\ request \in [Puts -> Requests]
  /\ path = [k \in Keys |-> None]
  /\ temp = {}
  /\ written = [p \in Puts |-> 0]
  /\ put = [p \in Puts |-> "new"]
  /\ outcome = [p \in Puts |-> "none"]
  /\ get = [r \in Readers |-> "idle"]
  /\ file = [r \in Readers |-> None]
  /\ size = [r \in Readers |-> 0]
  /\ probe = "none"

reading == <<get, file, size>>

\* path accepts the key.
Safe(p) == request[p].key \in Keys

\* The Put is over, or goes to its deferred os.Remove, with this result.
Finish(p, pc, result) ==
  /\ put' = [put EXCEPT ![p] = pc]
  /\ outcome' = [outcome EXCEPT ![p] = result]

\* Mutant: the object's own file is created and written in place.
PutStart_InPlace(p) ==
  /\ put[p] = "new" /\ request[p].size <= maxBytes /\ Safe(p)
  /\ put' = [put EXCEPT ![p] = "copy"]
  /\ path' = [path EXCEPT ![request[p].key] = p]
  /\ UNCHANGED <<request, temp, written, outcome, reading, probe>>

\* A declared size over the limit or an unsafe key is refused before anything
\* is touched; creating the directory or the temporary file may fail.
PutStart(p) ==
  /\ put[p] = "new"
  /\ \/ /\ Finish(p, "done", "error")
        /\ UNCHANGED temp
     \/ /\ request[p].size <= maxBytes /\ Safe(p)
        /\ put' = [put EXCEPT ![p] = "copy"]
        /\ temp' = temp \cup {p}
        /\ UNCHANGED outcome
  /\ UNCHANGED <<request, path, written, reading, probe>>

\* What io.LimitReader lets through of the reader.
Limit(p) ==
  IF request[p].bytes > maxBytes + 1 THEN maxBytes + 1 ELSE request[p].bytes

\* One turn of io.Copy: a chunk, the end of the reader, or an error (the
\* context is done, the reader or the disk fails).
CopyChunk(p) ==
  /\ put[p] = "copy"
  /\ \/ /\ written[p] < Limit(p)
        /\ written' = [written EXCEPT ![p] = @ + 1]
        /\ UNCHANGED <<put, outcome>>
     \/ /\ written[p] = Limit(p)
        /\ put' = [put EXCEPT ![p] = "check"]
        /\ UNCHANGED <<written, outcome>>
     \/ /\ Finish(p, "cleanup", "error")
        /\ UNCHANGED written
  /\ UNCHANGED <<request, path, temp, reading, probe>>

RightLength(p) == written[p] <= maxBytes /\ written[p] = request[p].size

\* The length check and os.Rename, either of which may end the Put.
CheckAndRename(p) ==
  /\ put[p] = "check"
  /\ \/ /\ RightLength(p)
        /\ path' = [path EXCEPT ![request[p].key] = p]
        /\ temp' = temp \ {p}
        /\ Finish(p, "cleanup", "ok")
     \/ /\ Finish(p, "cleanup", "error")
        /\ UNCHANGED <<path, temp>>
  /\ UNCHANGED <<request, written, reading, probe>>

\* Mutant: the temporary file is removed on success only, when it is gone anyway.
RemoveTemp_OnSuccess(p) ==
  /\ put[p] = "cleanup"
  /\ put' = [put EXCEPT ![p] = "done"]
  /\ temp' = IF outcome[p] = "ok" THEN temp \ {p} ELSE temp
  /\ UNCHANGED <<request, path, written, outcome, reading, probe>>

\* The deferred os.Remove: after a rename it finds no such name; an error is
\* ignored.
RemoveTemp(p) ==
  /\ put[p] = "cleanup"
  /\ \/ put' = [put EXCEPT ![p] = "done"] /\ temp' = temp \ {p}
     \/ p \in temp /\ put' = [put EXCEPT ![p] = "littered"] /\ UNCHANGED temp
  /\ UNCHANGED <<request, path, written, outcome, reading, probe>>

Put(p) == PutStart(p) \/ CopyChunk(p) \/ CheckAndRename(p) \/ RemoveTemp(p)

-----------------------------------------------------------------------------
Open(r, k) ==
  /\ get[r] = "idle" /\ path[k] # None
  /\ get' = [get EXCEPT ![r] = "opened"]
  /\ file' = [file EXCEPT ![r] = path[k]]
  /\ UNCHANGED <<request, path, temp, written, put, outcome, size, probe>>

Closed(r) ==
  /\ get' = [get EXCEPT ![r] = "idle"]
  /\ file' = [file EXCEPT ![r] = None]
  /\ size' = [size EXCEPT ![r] = 0]

\* file.Stat on the open file; on an error Get closes it.
Stat(r) ==
  /\ get[r] = "opened"
  /\ \/ /\ size' = [size EXCEPT ![r] = written[file[r]]]
        /\ get' = [get EXCEPT ![r] = "reading"]
        /\ UNCHANGED file
     \/ Closed(r)
  /\ UNCHANGED <<request, path, temp, written, put, outcome, probe>>

\* The caller closes what Get gave it.
CloseFile(r) ==
  /\ get[r] = "reading"
  /\ Closed(r)
  /\ UNCHANGED <<request, path, temp, written, put, outcome, probe>>

Get(r) == (\E k \in Keys : Open(r, k)) \/ Stat(r) \/ CloseFile(r)

\* os.Remove of the path; an object that is not there is no error.
Delete(k) ==
  /\ path' = [path EXCEPT ![k] = None]
  /\ UNCHANGED <<request, temp, written, put, outcome, reading, probe>>

\* Health makes a file and removes it.
Health ==
  /\ probe' = CASE probe = "none" -> "made" [] probe = "made" -> "none" [] OTHER -> probe
  /\ UNCHANGED <<request, path, temp, written, put, outcome, reading>>

Running == {"copy", "check", "cleanup"}

\* The process ends in the middle of anything: no deferred call runs and every
\* file it had open is closed.  The files stay; a later process serves on.
Crash ==
  /\ put' = [p \in Puts |-> IF put[p] \in Running THEN "killed" ELSE put[p]]
  /\ probe' = IF probe = "made" THEN "left" ELSE probe
  /\ get' = [r \in Readers |-> "idle"]
  /\ file' = [r \in Readers |-> None]
  /\ size' = [r \in Readers |-> 0]
  /\ UNCHANGED <<request, path, temp, written, outcome>>

Next ==
  \/ \E p \in Puts : Put(p)
  \/ \E r \in Readers : Get(r)
  \/ \E k \in Keys : Delete(k)
  \/ Health \/ Crash

Spec == Init /\ [][Next]_vars

-----------------------------------------------------------------------------
\* The object an inode holds, with the bytes that are really in it.
Contents(p) == [put |-> p, bytes |-> written[p]]

ObjectAt(k) == IF path[k] = None THEN None ELSE Contents(path[k])

\* A reader that has not asked for the size yet is told that of its file.
HandleOf(r) ==
  IF file[r] = None THEN None
  ELSE [object |-> Contents(file[r]),
        size |-> IF get[r] = "reading" THEN size[r] ELSE written[file[r]]]

Store ==
  INSTANCE ObjectStore WITH
    objects <- [k \in Keys |-> ObjectAt(k)],
    stored  <- {p \in Puts : outcome[p] = "ok"},
    handles <- [r \in Readers |-> HandleOf(r)]

\* Local implements ObjectStorage: whatever runs at once and wherever a process
\* dies, an object is replaced in one step by a whole one, exactly by the Puts
\* that return nil, and what a reader has opened never changes under it.
RefinesObjectStore == Store!StoreSpec

\* A Put leaves its temporary file behind only when the process died in it or
\* os.Remove failed, which nobody notices: failed, refused and cancelled Puts
\* clean up.
NoTempLeft == \A p \in temp : put[p] \in Running \cup {"killed", "littered"}
=============================================================================
