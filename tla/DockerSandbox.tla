---------------------------- MODULE DockerSandbox ----------------------------
(***************************************************************************)
(* DockerSandboxExecutor: Create makes a network, a volume and a container *)
(* with one docker command each and waits for PostgreSQL in it; the dump   *)
(* is copied, restored and the result queried in it; Destroy removes all   *)
(* three.  The model follows one sandbox from Create to a Destroy that     *)
(* succeeds, next to the container's own progress.                         *)
(*                                                                         *)
(* Docker itself is external: a network or a volume cannot be removed      *)
(* while a container uses it, and removing what does not exist is an error *)
(* whose message Destroy recognises.                                       *)
(***************************************************************************)
EXTENDS Naturals, FiniteSets

CONSTANT FaultSets   \* what may go wrong together: sets of FaultKinds

\* command: a creating command fails.  remove: a removing command fails.
\* lost: a command that is reported as failed has taken effect all the same;
\* lostNetwork: so has "network create", the first of them.
\* boot: PostgreSQL never comes up.  cancel: the drill's context is done.
FaultKinds == {"command", "remove", "lost", "lostNetwork", "boot", "cancel"}

ASSUME SandboxFaultsAssumption == FaultSets \subseteq SUBSET FaultKinds

VARIABLES
  pc,         \* where Create or Destroy is
  resources,  \* what Docker holds of this sandbox
  server,     \* the PostgreSQL in the container: off; init: the entrypoint's
              \* temporary server, which pg_isready takes for the real one;
              \* marked: init complete is logged; up: the final server; dead
  ctxDone,    \* is the drill's context done?
  readyDone,  \* has the readiness timeout fired?
  dump,       \* the staged dump: good, or one with a statement psql rejects
  data,       \* what is in the sandbox's database
  errs,       \* has the current Destroy collected an error?
  faults      \* the faults this behaviour may suffer

restoreVars == <<dump, data, faults>>
vars == <<pc, resources, server, ctxDone, readyDone, restoreVars, errs>>

Resources == {"container", "network", "volume"}

Creating == {"spec", "network", "volume", "run", "logs", "isready", "wait"}
Cleaning == {"cleanContainer", "cleanNetwork", "cleanVolume"}
Using == {"ready", "copied", "restored", "validated", "useError"}

Init ==
  /\ pc = "spec" /\ resources = {} /\ server = "off"
  /\ ctxDone = FALSE /\ readyDone = FALSE /\ errs = FALSE
  /\ dump \in {"good", "bad"} /\ data = "empty"
  /\ faults \in FaultSets

\* May a command on r that returns an error have taken effect?
Lost(r) == (IF r = "network" THEN "lostNetwork" ELSE "lost") \in faults

\* May a creating command return an error?
CommandError == ctxDone \/ "command" \in faults

\* One docker command that makes r: done; or an error, with or without effect.
Make(r, next, onError) ==
  \/ ~ctxDone /\ resources' = resources \cup {r} /\ pc' = next
  \/ CommandError /\ UNCHANGED resources /\ pc' = onError
  \/ CommandError /\ Lost(r) /\ resources' = resources \cup {r} /\ pc' = onError

\* The checks on image, name, CPUs and memory come before any command.
CheckSpec ==
  /\ pc = "spec"
  /\ pc' \in {"network", "failed"}
  /\ UNCHANGED <<resources, server, ctxDone, readyDone, errs, restoreVars>>

\* Mutant: the volume is made without a cleanup on its error path.
CreateVolume_NoCleanup ==
  /\ pc = "volume"
  /\ Make("volume", "run", "failed")
  /\ UNCHANGED <<server, ctxDone, readyDone, errs, restoreVars>>

\* An error of the first command returns at once: there is no cleanup.
CreateNetwork ==
  /\ pc = "network"
  /\ Make("network", "volume", "failed")
  /\ UNCHANGED <<server, ctxDone, readyDone, errs, restoreVars>>

CreateVolume ==
  /\ pc = "volume"
  /\ Make("volume", "run", "cleanContainer")
  /\ UNCHANGED <<server, ctxDone, readyDone, errs, restoreVars>>

RunContainer ==
  /\ pc = "run"
  /\ Make("container", "logs", "cleanContainer")
  /\ server' = IF "container" \in resources' THEN "init" ELSE server
  /\ UNCHANGED <<ctxDone, readyDone, errs, restoreVars>>

\* readyCtx is derived from the drill's context.
ReadyCtxDone == ctxDone \/ readyDone

\* Mutant: pg_isready is asked without waiting for the marker in the logs.
ReadLogs_NoMarker ==
  /\ pc = "logs"
  /\ pc' = IF ReadyCtxDone THEN "wait" ELSE "isready"
  /\ UNCHANGED <<resources, server, ctxDone, readyDone, errs, restoreVars>>

\* The readiness loop: docker logs, and pg_isready only after the marker.
ReadLogs ==
  /\ pc = "logs"
  /\ \/ pc' = "isready" /\ ~ReadyCtxDone /\ server \in {"marked", "up"}
     \/ /\ pc' = "wait"
        /\ ReadyCtxDone \/ "command" \in faults \/ server \notin {"marked", "up"}
  /\ UNCHANGED <<resources, server, ctxDone, readyDone, errs, restoreVars>>

PgIsReady ==
  /\ pc = "isready"
  /\ \/ pc' = "ready" /\ ~ReadyCtxDone /\ server \in {"init", "up"}
     \/ /\ pc' = "wait"
        /\ ReadyCtxDone \/ "command" \in faults \/ server \notin {"init", "up"}
  /\ UNCHANGED <<resources, server, ctxDone, readyDone, errs, restoreVars>>

\* Mutant: the loop looks at the drill's context only.
Wait_NoTimeout ==
  /\ pc = "wait"
  /\ pc' = IF ctxDone THEN "cleanContainer" ELSE "logs"
  /\ UNCHANGED <<resources, server, ctxDone, readyDone, errs, restoreVars>>

\* select between the context and the one-second pause.
Wait ==
  /\ pc = "wait"
  /\ pc' = IF ReadyCtxDone THEN "cleanContainer" ELSE "logs"
  /\ UNCHANGED <<resources, server, ctxDone, readyDone, errs, restoreVars>>

\* Docker's answer to a removal.
InUse(r) == r # "container" /\ "container" \in resources

Gone(r) == /\ resources' = resources \ {r}
           /\ server' = IF r = "container" THEN "off" ELSE server

\* The cleanup closure of Create ignores every error.
CleanupStep(at, r, next) ==
  /\ pc = at
  /\ pc' = next
  /\ \/ ~InUse(r) /\ Gone(r)
     \/ InUse(r) /\ UNCHANGED <<resources, server>>
     \/ "remove" \in faults /\ UNCHANGED <<resources, server>>
  /\ UNCHANGED <<ctxDone, readyDone, errs, restoreVars>>

cleanup ==
  \/ CleanupStep("cleanContainer", "container", "cleanNetwork")
  \/ CleanupStep("cleanNetwork", "network", "cleanVolume")
  \/ CleanupStep("cleanVolume", "volume", "failed")

\* One removal of Destroy.  What is not there counts as removed; any other
\* error is collected, and the next removal is tried all the same.
RemoveStep(at, r, next) ==
  /\ pc = at
  /\ pc' = next
  /\ \/ ~InUse(r) /\ Gone(r) /\ UNCHANGED errs
     \/ InUse(r) /\ errs' = TRUE /\ UNCHANGED <<resources, server>>
     \/ /\ "remove" \in faults /\ r \in resources
        /\ errs' = TRUE
        /\ \/ UNCHANGED <<resources, server>>
           \/ Lost(r) /\ ~InUse(r) /\ Gone(r)
  /\ UNCHANGED <<ctxDone, readyDone, restoreVars>>

-----------------------------------------------------------------------------
\* May a command run in the sandbox return an error?
UseError == ctxDone \/ "command" \in faults

Use(at, next) ==
  /\ pc = at
  /\ \/ ~ctxDone /\ pc' = next
     \/ UseError /\ pc' = "useError"
  /\ UNCHANGED <<resources, server, ctxDone, readyDone, restoreVars, errs>>

\* docker cp of the staged dump.
CopyPostgresBackup == Use("ready", "copied")

\* Mutant: psql runs without ON_ERROR_STOP and exits 0 after an error.
RestorePostgresPlain_KeepsGoing ==
  /\ pc = "copied"
  /\ \/ ~ctxDone /\ pc' = "restored"
        /\ data' = IF dump = "good" THEN "whole" ELSE "partial"
     \/ UseError /\ pc' = "useError" /\ data' = "partial"
  /\ UNCHANGED <<resources, server, ctxDone, readyDone, dump, faults, errs>>

\* psql -v ON_ERROR_STOP=1: the first rejected statement ends it with an
\* error, and what came before stays.  A docker exec that is killed tells
\* nothing about how far psql got.
RestorePostgresPlain ==
  /\ pc = "copied"
  /\ \/ ~ctxDone /\ dump = "good" /\ pc' = "restored" /\ data' = "whole"
     \/ ~ctxDone /\ dump = "bad" /\ pc' = "useError" /\ data' = "partial"
     \/ UseError /\ pc' = "useError" /\ data' \in {"empty", "partial", "whole"}
  /\ UNCHANGED <<resources, server, ctxDone, readyDone, dump, faults, errs>>

\* SELECT 1: it looks at no restored data.
ValidatePostgresConnectivity == Use("restored", "validated")

-----------------------------------------------------------------------------
\* The caller asks for Destroy, and asks again after an error.
StartDestroy ==
  /\ pc \in Using \cup {"destroyError"}
  /\ pc' = "rmContainer" /\ errs' = FALSE
  /\ UNCHANGED <<resources, server, ctxDone, readyDone, restoreVars>>

\* Mutant: the network goes first.
Remove_NetworkFirst ==
  \/ RemoveStep("rmContainer", "network", "rmNetwork")
  \/ RemoveStep("rmNetwork", "container", "rmVolume")
  \/ RemoveStep("rmVolume", "volume", "rmResult")

\* Mutant: the collected errors are reset by each removal, so the last counts.
Remove_LastErrorOnly ==
  \/ RemoveStep("rmContainer", "container", "rmNetwork")
  \/ RemoveStep("rmNetwork", "network", "rmVolume")
  \/ /\ pc = "rmVolume" /\ pc' = "rmResult" /\ errs' = FALSE
     /\ IF InUse("volume") THEN UNCHANGED <<resources, server>> ELSE Gone("volume")
     /\ UNCHANGED <<ctxDone, readyDone, restoreVars>>

Remove ==
  \/ RemoveStep("rmContainer", "container", "rmNetwork")
  \/ RemoveStep("rmNetwork", "network", "rmVolume")
  \/ RemoveStep("rmVolume", "volume", "rmResult")

DestroyResult ==
  /\ pc = "rmResult"
  /\ pc' = IF errs THEN "destroyError" ELSE "destroyed"
  /\ UNCHANGED <<resources, server, ctxDone, readyDone, errs, restoreVars>>

Create ==
  \/ CheckSpec \/ CreateNetwork \/ CreateVolume \/ RunContainer
  \/ ReadLogs \/ PgIsReady \/ Wait \/ cleanup

Destroy == Remove \/ DestroyResult

\* PostgreSQL comes up by itself, or never does.
Boot ==
  /\ \/ server = "init" /\ server' = "marked"
     \/ server = "marked" /\ server' = "up"
     \/ "boot" \in faults /\ server = "init" /\ server' = "dead"
  /\ UNCHANGED <<pc, resources, ctxDone, readyDone, errs, restoreVars>>

Cancel ==
  /\ "cancel" \in faults /\ ~ctxDone
  /\ ctxDone' = TRUE
  /\ UNCHANGED <<pc, resources, server, readyDone, errs, restoreVars>>

\* The readiness timer, which exists from the end of docker run.
ReadyTimeout ==
  /\ pc \in {"logs", "isready", "wait"} /\ ~readyDone
  /\ readyDone' = TRUE
  /\ UNCHANGED <<pc, resources, server, ctxDone, errs, restoreVars>>

Finished == pc \in {"failed", "destroyed"} /\ UNCHANGED vars

Restore ==
  CopyPostgresBackup \/ RestorePostgresPlain \/ ValidatePostgresConnectivity

Next ==
  \/ Create \/ Restore \/ StartDestroy \/ Destroy
  \/ Boot \/ Cancel \/ ReadyTimeout \/ Finished

\* Create and Destroy go on when they can, and a timer that is set fires.
Spec == Init /\ [][Next]_vars /\ WF_vars(Create) /\ WF_vars(Destroy)
             /\ WF_vars(ReadyTimeout)

-----------------------------------------------------------------------------
\* A sandbox that Create returns is complete and its final PostgreSQL is
\* serving: the temporary server of the image's entrypoint, which answers
\* pg_isready too, is never taken for it.
ReadyMeansServing == pc = "ready" => resources = Resources /\ server = "up"

\* A restore that is reported as done has put the whole dump in place, and
\* so has one whose connectivity was then validated: SELECT 1 alone would
\* pass on half a database.
RestoredMeansWhole == pc \in {"restored", "validated"} => data = "whole"

\* A Create that failed has left nothing in Docker, also when the volume or
\* the container was made by a command that reported an error.  Removals have
\* to work, and network create, which has no cleanup, has to mean its error.
FailedCreateCleansUp ==
  pc = "failed" /\ faults \cap {"remove", "lostNetwork"} = {} => resources = {}

\* A Destroy that returned no error has left nothing, whatever single
\* removals did on the way; a Destroy is not reported done by its last step.
DestroyedMeansEmpty == pc = "destroyed" => resources = {}

\* When no removal fails, one Destroy is enough: the container goes before
\* what it uses.
DestroySucceeds ==
  [][pc' = "destroyError" => "remove" \in faults]_vars

\* Create returns, also when PostgreSQL never comes up.
CreateReturns == (pc \in Creating \cup Cleaning) ~> (pc \in {"ready", "failed"})
=============================================================================
