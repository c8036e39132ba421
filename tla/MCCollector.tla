----------------------------- MODULE MCCollector -----------------------------
(***************************************************************************)
(* Instance of Collector for TLC.                                          *)
(***************************************************************************)
EXTENDS Collector

(* A success with everything, a failure that has read the memory all the   *)
(* same, and a failure with nothing.                                       *)
FewReports ==
    {[ok |-> TRUE,  memory |-> TRUE,  volumes |-> TRUE],
     [ok |-> FALSE, memory |-> TRUE,  volumes |-> FALSE],
     [ok |-> FALSE, memory |-> FALSE, volumes |-> FALSE]}
=============================================================================
