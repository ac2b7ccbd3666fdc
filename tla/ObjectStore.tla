------------------------------ MODULE ObjectStore ------------------------------
(***************************************************************************)
(* What storage.ObjectStorage promises its callers, and what DrillWorker   *)
(* takes for granted of Put, Get and Delete: an object appears, changes    *)
(* and goes in one step; it is whole; a reader keeps the object it opened. *)
(*                                                                         *)
(* A Put is named by a value of Puts.  What it was asked for is fixed: the *)
(* key, the size the caller declared and the bytes its reader yields.      *)
(***************************************************************************)
EXTENDS Naturals

CONSTANTS Keys, Puts, Readers, None

VARIABLES
  request,   \* Put -> [key, size, bytes]
  objects,   \* key -> the object stored there, or None
  stored,    \* the Puts that took effect
  handles    \* reader -> the object it reads and the size it was told, or None

storeVars == <<request, objects, stored, handles>>

\* The object that a Put stores: as many bytes as the caller declared.
Object(p) == [put |-> p, bytes |-> request[p].size]

StoreInit ==
  /\ objects = [k \in Keys |-> None]
  /\ stored = {}
  /\ handles = [r \in Readers |-> None]

StorePut(p) ==
  /\ p \notin stored
  /\ request[p].key \in Keys /\ request[p].bytes = request[p].size
  /\ objects' = [objects EXCEPT ![request[p].key] = Object(p)]
  /\ stored' = stored \cup {p}
  /\ UNCHANGED <<request, handles>>

StoreDelete(k) ==
  /\ objects' = [objects EXCEPT ![k] = None]
  /\ UNCHANGED <<request, stored, handles>>

StoreGet(r, k) ==
  /\ handles[r] = None /\ objects[k] # None
  /\ handles' = [handles EXCEPT ![r] = [object |-> objects[k], size |-> objects[k].bytes]]
  /\ UNCHANGED <<request, objects, stored>>

\* Readers that close their handles, or are closed by a process that ends.
StoreRelease ==
  \E R \in SUBSET Readers :
    /\ handles' = [r \in Readers |-> IF r \in R THEN None ELSE handles[r]]
    /\ UNCHANGED <<request, objects, stored>>

StoreNext ==
  \/ \E p \in Puts : StorePut(p)
  \/ \E k \in Keys : StoreDelete(k) \/ \E r \in Readers : StoreGet(r, k)
  \/ StoreRelease

StoreSpec == StoreInit /\ [][StoreNext]_storeVars
=============================================================================
