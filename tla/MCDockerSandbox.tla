--------------------------- MODULE MCDockerSandbox ---------------------------
(***************************************************************************)
(* DockerSandbox for TLC: the module needs no more than a set of faults.   *)
(***************************************************************************)
EXTENDS DockerSandbox
=============================================================================
