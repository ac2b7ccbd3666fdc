------------------------- MODULE DockerSandbox_proofs -------------------------
(***************************************************************************)
(* Proofs about DockerSandbox, for every choice of faults that may happen  *)
(* together.                                                               *)
(***************************************************************************)
EXTENDS DockerSandbox, TLAPS

Points ==
  Creating \cup Cleaning \cup Using
    \cup {"failed", "rmContainer", "rmNetwork", "rmVolume", "rmResult",
          "destroyError", "destroyed"}

TypeInv ==
  /\ pc \in Points
  /\ resources \subseteq Resources
  /\ server \in {"off", "init", "marked", "up", "dead"}
  /\ ctxDone \in BOOLEAN /\ readyDone \in BOOLEAN /\ errs \in BOOLEAN
  /\ dump \in {"good", "bad"}
  /\ data \in {"empty", "partial", "whole"}
  /\ faults \in FaultSets

\* What Create has made at each of its points.
MadeInv ==
  /\ pc \in {"spec", "network"} => resources = {}
  /\ pc = "volume" => resources = {"network"}
  /\ pc = "run" => resources = {"network", "volume"}
  /\ pc \in {"logs", "isready", "wait", "ready"} => resources = Resources

\* pg_isready is asked only once the temporary server is gone for good.
ServerInv ==
  /\ pc = "isready" => server \in {"marked", "up"}
  /\ pc = "ready" => server = "up"

RestoredInv == pc \in {"restored", "validated"} => data = "whole"

\* The cleanup of Create, while removals work.
CleanInv ==
  faults \cap {"remove", "lostNetwork"} = {} =>
    /\ pc = "cleanNetwork" => "container" \notin resources
    /\ pc = "cleanVolume" => resources \subseteq {"volume"}
    /\ pc = "failed" => resources = {}

\* Destroy: as long as it has collected no error, it has removed what lies
\* behind it, and it collects none unless a removal failed.
RemoveInv ==
  /\ pc = "rmNetwork" /\ ~errs => "container" \notin resources
  /\ pc = "rmVolume" /\ ~errs => resources \subseteq {"volume"}
  /\ pc = "rmResult" /\ ~errs => resources = {}
  /\ pc = "destroyed" => resources = {}
  /\ pc = "destroyError" => "remove" \in faults
  /\ pc \in {"rmContainer", "rmNetwork", "rmVolume", "rmResult"} /\ errs => "remove" \in faults

SandboxInv ==
  TypeInv /\ MadeInv /\ ServerInv /\ RestoredInv /\ CleanInv /\ RemoveInv

LEMMA SandboxInit == Init => SandboxInv
BY DEF Init, SandboxInv, TypeInv, MadeInv, ServerInv, RestoredInv, CleanInv, RemoveInv,
       Points, Creating, Cleaning, Using, Resources

LEMMA SandboxNext == SandboxInv /\ [Next]_vars => SandboxInv'
<1> SUFFICES ASSUME SandboxInv, [Next]_vars PROVE SandboxInv'
  OBVIOUS
<1> USE DEF SandboxInv, TypeInv, MadeInv, ServerInv, RestoredInv, CleanInv, RemoveInv,
            Points, Creating, Cleaning, Using, Resources, restoreVars
<1>1. CASE CheckSpec
  BY <1>1 DEF CheckSpec
<1>2. CASE CreateNetwork
  <2>0. /\ pc = "network"
        /\ UNCHANGED <<server, ctxDone, readyDone, errs, dump, data, faults>>
    BY <1>2 DEF CreateNetwork
  <2>1. CASE resources' = resources \cup {"network"} /\ pc' = "volume"
    BY <2>0, <2>1
  <2>2. CASE UNCHANGED resources /\ pc' = "failed"
    BY <2>0, <2>2
  <2>3. CASE "lostNetwork" \in faults /\ resources' = resources \cup {"network"} /\ pc' = "failed"
    BY <2>0, <2>3
  <2> QED
    BY <1>2, <2>1, <2>2, <2>3 DEF CreateNetwork, Make, Lost
<1>3. CASE CreateVolume
  BY <1>3 DEF CreateVolume, Make
<1>4. CASE RunContainer
  BY <1>4 DEF RunContainer, Make
<1>5. CASE ReadLogs
  BY <1>5 DEF ReadLogs
<1>6. CASE PgIsReady
  BY <1>6 DEF PgIsReady
<1>7. CASE Wait
  BY <1>7 DEF Wait
<1>8. CASE cleanup
  <2>1. CASE CleanupStep("cleanContainer", "container", "cleanNetwork")
    <3>1. /\ pc = "cleanContainer" /\ pc' = "cleanNetwork" /\ resources' \subseteq resources
          /\ UNCHANGED <<ctxDone, readyDone, errs, dump, data, faults>>
      BY <2>1 DEF CleanupStep, Gone
    <3>2. TypeInv'
      BY <2>1, <3>1 DEF CleanupStep, Gone
    <3>3. CleanInv'
      BY <2>1, <3>1 DEF CleanupStep, InUse, Gone
    <3> QED
      BY <3>1, <3>2, <3>3
  <2>2. CASE CleanupStep("cleanNetwork", "network", "cleanVolume")
    <3>1. /\ pc = "cleanNetwork" /\ pc' = "cleanVolume" /\ resources' \subseteq resources
          /\ UNCHANGED <<ctxDone, readyDone, errs, dump, data, faults>>
      BY <2>2 DEF CleanupStep, Gone
    <3>2. TypeInv'
      BY <2>2, <3>1 DEF CleanupStep, Gone
    <3>3. CleanInv'
      BY <2>2, <3>1 DEF CleanupStep, InUse, Gone
    <3> QED
      BY <3>1, <3>2, <3>3
  <2>3. CASE CleanupStep("cleanVolume", "volume", "failed")
    <3>1. /\ pc = "cleanVolume" /\ pc' = "failed" /\ resources' \subseteq resources
          /\ UNCHANGED <<ctxDone, readyDone, errs, dump, data, faults>>
      BY <2>3 DEF CleanupStep, Gone
    <3>2. TypeInv'
      BY <2>3, <3>1 DEF CleanupStep, Gone
    <3>3. CleanInv'
      BY <2>3, <3>1 DEF CleanupStep, InUse, Gone
    <3> QED
      BY <3>1, <3>2, <3>3
  <2> QED
    BY <1>8, <2>1, <2>2, <2>3 DEF cleanup
<1>9. CASE CopyPostgresBackup
  BY <1>9 DEF CopyPostgresBackup, Use
<1>10. CASE RestorePostgresPlain
  BY <1>10 DEF RestorePostgresPlain
<1>11. CASE ValidatePostgresConnectivity
  BY <1>11 DEF ValidatePostgresConnectivity, Use
<1>12. CASE StartDestroy
  BY <1>12 DEF StartDestroy
<1>13. CASE RemoveStep("rmContainer", "container", "rmNetwork")
  <2>1. /\ pc = "rmContainer" /\ pc' = "rmNetwork" /\ resources' \subseteq resources
        /\ UNCHANGED <<ctxDone, readyDone, dump, data, faults>>
    BY <1>13 DEF RemoveStep, Gone
  <2>2. TypeInv'
    <3>1. errs' \in BOOLEAN
      BY <1>13, Zenon DEF RemoveStep
    <3>2. server' \in {"off", "init", "marked", "up", "dead"}
      BY <1>13 DEF RemoveStep, Gone
    <3> QED
      BY <2>1, <3>1, <3>2
  <2>3. RemoveInv'
    BY <1>13, <2>1 DEF RemoveStep, InUse, Gone
  <2> QED
    BY <2>1, <2>2, <2>3
<1>14. CASE RemoveStep("rmNetwork", "network", "rmVolume")
  <2>1. /\ pc = "rmNetwork" /\ pc' = "rmVolume" /\ resources' \subseteq resources
        /\ UNCHANGED <<ctxDone, readyDone, dump, data, faults>>
    BY <1>14 DEF RemoveStep, Gone
  <2>2. TypeInv'
    <3>1. errs' \in BOOLEAN
      BY <1>14, Zenon DEF RemoveStep
    <3>2. server' \in {"off", "init", "marked", "up", "dead"}
      BY <1>14 DEF RemoveStep, Gone
    <3> QED
      BY <2>1, <3>1, <3>2
  <2>3. RemoveInv'
    BY <1>14, <2>1 DEF RemoveStep, InUse, Gone
  <2> QED
    BY <2>1, <2>2, <2>3
<1>15. CASE RemoveStep("rmVolume", "volume", "rmResult")
  <2>1. /\ pc = "rmVolume" /\ pc' = "rmResult" /\ resources' \subseteq resources
        /\ UNCHANGED <<ctxDone, readyDone, dump, data, faults>>
    BY <1>15 DEF RemoveStep, Gone
  <2>2. TypeInv'
    <3>1. errs' \in BOOLEAN
      BY <1>15, Zenon DEF RemoveStep
    <3>2. server' \in {"off", "init", "marked", "up", "dead"}
      BY <1>15 DEF RemoveStep, Gone
    <3> QED
      BY <2>1, <3>1, <3>2
  <2>3. RemoveInv'
    BY <1>15, <2>1 DEF RemoveStep, InUse, Gone
  <2> QED
    BY <2>1, <2>2, <2>3
<1>16. CASE DestroyResult
  BY <1>16 DEF DestroyResult
<1>17. CASE Boot
  BY <1>17 DEF Boot
<1>18. CASE Cancel
  BY <1>18 DEF Cancel
<1>19. CASE ReadyTimeout
  BY <1>19 DEF ReadyTimeout
<1>20. CASE UNCHANGED vars
  BY <1>20 DEF vars
<1> QED
  BY <1>1, <1>2, <1>3, <1>4, <1>5, <1>6, <1>7, <1>8, <1>9, <1>10, <1>11, <1>12,
     <1>13, <1>14, <1>15, <1>16, <1>17, <1>18, <1>19, <1>20
  DEF Next, Create, Restore, Remove, Destroy, Finished

LEMMA SandboxAlways == Spec => []SandboxInv
BY SandboxInit, SandboxNext, PTL DEF Spec

-----------------------------------------------------------------------------
\* A sandbox that Create returns is complete and serves from its final server,
\* in whichever order the container boots and the loop looks, whatever fails.
THEOREM ReadySandboxServes == Spec => []ReadyMeansServing
<1>1. SandboxInv => ReadyMeansServing
  BY DEF SandboxInv, MadeInv, ServerInv, ReadyMeansServing
<1> QED
  BY <1>1, SandboxAlways, PTL

\* A restore that is reported as done is whole.
THEOREM RestoreIsWhole == Spec => []RestoredMeansWhole
<1>1. SandboxInv => RestoredMeansWhole
  BY DEF SandboxInv, RestoredInv, RestoredMeansWhole
<1> QED
  BY <1>1, SandboxAlways, PTL

\* A failed Create leaves nothing, wherever it failed, while removals work and
\* an error of network create means that there is none.
THEOREM FailedCreateIsClean == Spec => []FailedCreateCleansUp
<1>1. SandboxInv => FailedCreateCleansUp
  BY DEF SandboxInv, CleanInv, FailedCreateCleansUp
<1> QED
  BY <1>1, SandboxAlways, PTL

\* A Destroy that returned no error has left nothing, whatever happened in its
\* single removals and in earlier Destroys of the same sandbox.
THEOREM DestroyLeavesNothing == Spec => []DestroyedMeansEmpty
<1>1. SandboxInv => DestroyedMeansEmpty
  BY DEF SandboxInv, RemoveInv, DestroyedMeansEmpty
<1> QED
  BY <1>1, SandboxAlways, PTL

\* Destroy returns an error only if a removal failed: its own order never
\* makes Docker refuse one.
THEOREM DestroyFailsForACause == Spec => DestroySucceeds
<1>1. SandboxInv' => (pc' = "destroyError" => "remove" \in faults')
  BY DEF SandboxInv, RemoveInv
<1>2. [Next]_vars => faults' = faults
  BY DEF Next, vars, restoreVars, Create, CheckSpec, CreateNetwork, CreateVolume,
         RunContainer, ReadLogs, PgIsReady, Wait, cleanup, CleanupStep, Restore,
         CopyPostgresBackup, Use, RestorePostgresPlain, ValidatePostgresConnectivity,
         StartDestroy, Destroy, Remove, RemoveStep, DestroyResult, Boot, Cancel,
         ReadyTimeout, Finished
<1>3. SandboxInv /\ [Next]_vars => [pc' = "destroyError" => "remove" \in faults]_vars
  BY <1>1, <1>2, SandboxNext
<1> QED
  BY <1>3, SandboxAlways, PTL DEF Spec, DestroySucceeds
=============================================================================
