---------------------------- MODULE SnapshotFeed ----------------------------
(***************************************************************************)
(* What the sampling loop promises to its two kinds of readers: the HTTP   *)
(* handlers, which see the latest published snapshot, and the history      *)
(* sink, which is handed every snapshot.  Nothing is said here of workers, *)
(* channels, deadlines or tickers: the module Collector implements this.   *)
(***************************************************************************)
EXTENDS Naturals

CONSTANT Workers        \* the collectors a round consists of

VARIABLES
    latest,             \* the published snapshot: its round, who is in it
    sunk,               \* the round of the last snapshot the sink was given
    running             \* FALSE once the loop has returned

feedVars == <<latest, sunk, running>>

Published == [round : Nat, covered : SUBSET Workers, scheduler : BOOLEAN]

FeedInit ==
    /\ latest = [round |-> 0, covered |-> {}, scheduler |-> FALSE]
    /\ sunk = 0
    /\ running = TRUE

(* A snapshot replaces its predecessor only after the sink has had the     *)
(* predecessor.  A collector may be absent from it only if the snapshot    *)
(* itself says that the round was cut short.                               *)
FeedPublish ==
    /\ running
    /\ sunk = latest.round
    /\ \E covered \in SUBSET Workers, scheduler \in BOOLEAN :
          /\ covered = Workers \/ scheduler
          /\ latest' = [round |-> latest.round + 1,
                        covered |-> covered, scheduler |-> scheduler]
    /\ UNCHANGED <<sunk, running>>

FeedSink ==
    /\ running
    /\ sunk < latest.round
    /\ sunk' = latest.round
    /\ UNCHANGED <<latest, running>>

(* The loop stops only between rounds, with nothing left to hand over.     *)
FeedStop ==
    /\ running
    /\ latest.round > 0
    /\ sunk = latest.round
    /\ running' = FALSE
    /\ UNCHANGED <<latest, sunk>>

FeedNext == FeedPublish \/ FeedSink \/ FeedStop

FeedSafety == FeedInit /\ [][FeedNext]_feedVars

FeedSpec == FeedSafety /\ WF_feedVars(FeedSink)
=============================================================================
