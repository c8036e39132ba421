---------------------------- MODULE MCProcessRates ----------------------------
(***************************************************************************)
(* Instance of ProcessRates for TLC.                                       *)
(***************************************************************************)
EXTENDS ProcessRates, TLC

(* No pid is treated differently from another.                             *)
PidSymmetry == Permutations(Pids)
=============================================================================
