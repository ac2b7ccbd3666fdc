------------------------------ MODULE Deployment ------------------------------
(***************************************************************************)
(* Shutdown and Startup together: one server process, Self, followed from  *)
(* its first call to its end, among other instances that start on the same *)
(* database and bucket.  While Self is in Migrate, BootstrapDemo or        *)
(* EnsureBucket its process steps are the statements of Startup.           *)
(***************************************************************************)
EXTENDS Shutdown, Startup

CONSTANT Self

ASSUME SelfAssumption == Self \in Instances

deploymentVars == <<vars, startupVars>>

DeploymentInit == Init /\ StartupInit

\* The start-up calls that other instances can get in the way of.
SharedSteps == {"migrate", "bootstrap", "storage"}

\* One statement of Self: within its call, the last of it, or one that fails.
\* A signal fails it too, even while it waits for another instance.
SelfStep ==
  /\ pc \in SharedSteps /\ pc = stage[Self]
  /\ InstanceStep(Self) \/ (MayFail /\ Fault(Self))
  /\ CASE stage'[Self] = pc        -> UNCHANGED vars
       [] stage'[Self] = "stopped" -> StartError
       [] OTHER                    -> \E i \in DOMAIN StartUpSteps : StartOK(i)

\* Any other step of the process.
OwnStep(A) ==
  /\ A
  /\ pc \in SharedSteps => pc' = pc
  /\ UNCHANGED startupVars

OtherStep(i) ==
  /\ i # Self
  /\ InstanceStep(i) \/ Fault(i) \/ Restart(i)
  /\ UNCHANGED vars

DeploymentNext ==
  \/ SelfStep
  \/ OwnStep(Next)
  \/ \E i \in Instances : OtherStep(i)

\* run of Self goes on when it can, and its timer fires; nothing is assumed of
\* the other instances.
DeploymentSpec ==
  /\ DeploymentInit /\ [][DeploymentNext]_deploymentVars
  /\ WF_deploymentVars(SelfStep \/ OwnStep(main))
  /\ WF_deploymentVars(OwnStep(Expire))
=============================================================================
