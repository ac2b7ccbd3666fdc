---------------------------- MODULE MCDrillWorker ----------------------------
(***************************************************************************)
(* DrillWorker for TLC.  Drills and workers are interchangeable, which the *)
(* runs that check no liveness exploit.                                    *)
(***************************************************************************)
EXTENDS DrillWorker, TLC

Symmetry == Permutations(Drills) \cup Permutations(Workers)
=============================================================================
