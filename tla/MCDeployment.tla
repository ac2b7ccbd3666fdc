----------------------------- MODULE MCDeployment -----------------------------
(***************************************************************************)
(* Deployment for TLC.                                                     *)
(***************************************************************************)
EXTENDS Deployment
=============================================================================
