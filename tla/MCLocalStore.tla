----------------------------- MODULE MCLocalStore -----------------------------
(***************************************************************************)
(* LocalStore for TLC.                                                     *)
(***************************************************************************)
EXTENDS LocalStore
=============================================================================
