---------------------------- MODULE MCHistoryStore ----------------------------
(***************************************************************************)
(* Instances of HistoryStore for TLC: the wall clocks of the runs.  One    *)
(* unit of time stands for the time in which about a third of a page of    *)
(* points is sampled.                                                      *)
(***************************************************************************)
EXTENDS HistoryStore

(* A clock that never reads less than the retention.                       *)
SetClock == 4 .. 9

(* A clock that may read less than the retention: not set yet after boot.  *)
UnsetClock == 1 .. 7
=============================================================================
