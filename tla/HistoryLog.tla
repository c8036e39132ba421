----------------------------- MODULE HistoryLog ------------------------------
(***************************************************************************)
(* What the history promises its readers: a set of points, named by their  *)
(* second, which changes only by whole additions.  An addition may discard *)
(* points, but only points older than the retention at the time it reads   *)
(* from the clock, and if the oldest point is too old it goes.  Restarts,  *)
(* failed writes and the steps of a write do not show.                     *)
(***************************************************************************)
EXTENDS Integers

CONSTANTS
    Times,              \* the seconds the clock can read
    Retention           \* how long a point is kept

VARIABLES
    points,             \* the points a reader can see
    asOf                \* the clock reading the next addition judges ages by

logVars == <<points, asOf>>

Expired(p) == p < asOf - Retention

LogInit == points = {} /\ asOf \in Times

ReadClock == asOf' \in Times /\ UNCHANGED points

Append(p) ==
    LET all  == points \cup {p}
        gone == all \ points'
    IN  /\ points' \subseteq all
        /\ \A q \in gone : Expired(q)
        /\ \A q \in all : Expired(q) /\ (\A r \in all : q <= r) => q \in gone
        /\ UNCHANGED asOf

LogNext == ReadClock \/ \E p \in Times : Append(p)

LogSpec == LogInit /\ [][LogNext]_logVars
=============================================================================
