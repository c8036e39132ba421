------------------------------ MODULE Dashboard ------------------------------
(***************************************************************************)
(* The charts of the page: internal/webui/static/app.js, with what the     *)
(* history handler of server.go answers it.                                *)
(*                                                                         *)
(* A timer and the range selector start requests, each of which reads the  *)
(* selected range when it starts.  Nothing stops a request that was        *)
(* overtaken: answers arrive in any order and are shown as they come.      *)
(*                                                                         *)
(* An answer is reduced to its range and to how many points it has.  Of    *)
(* the four charts, which are drawn one after the other, the first stands  *)
(* for itself and the second for those that follow.                        *)
(***************************************************************************)
EXTENDS Integers

CONSTANTS
    Ranges,         \* the options of #historyRange
    Slots,          \* bound: history requests at a time
    MaxSnapshot     \* bound: snapshots the service publishes

ASSUME RangesAssumption == Ranges # {}
ASSUME MaxSnapshotAssumption == MaxSnapshot \in Nat

VARIABLES
    server,         \* "up", "failing" (answers 500), "down" (does not answer)
    latest,         \* number of the snapshot the service has
    range,          \* the selected range
    history,        \* per slot: a history request, its answer, or None
    points,         \* historyPoints
    charts          \* what the first and the other canvases show

serviceVars == <<server, latest>>
historyVars == <<range, history, points, charts>>
pageVars == <<serviceVars, historyVars>>

None == [state |-> "none"]

(* What a history answer decodes to: an array of no, one or more points,   *)
(* null for the nil slice of Query, or the object of an error message.     *)
Points == [kind : {"array", "null", "object"}, count : 0 .. 2, range : Ranges]

(* Two samples make a trend; the service has taken as many as snapshots.   *)
Least(a, b) == IF a < b THEN a ELSE b

(* Store.Query and historyPoints: a slice that nothing was appended to is  *)
(* nil, and the encoder writes null.                                       *)
HistoryBody(r) ==
    [kind  |-> IF server = "failing" THEN "object"
               ELSE IF latest = 0 THEN "null" ELSE "array",
     count |-> IF server = "failing" THEN 0 ELSE Least(latest, 2),
     range |-> r]

Blank == [show |-> "blank"]
Hint  == [show |-> "hint"]
Trend(r) == [show |-> "trend", range |-> r]

Chart == {Blank, Hint} \cup {Trend(r) : r \in Ranges}

(* Mutant: only the first chart is drawn anew.                             *)
DrawFirst(p) ==
    [charts EXCEPT !.first = IF p.kind # "array" THEN Blank
                             ELSE IF p.count < 2 THEN Hint ELSE Trend(p.range)]

(* drawAll: each canvas is cleared, then drawn.  null has no length and    *)
(* the object no map, which ends drawAll in the middle of the first chart. *)
DrawAll(p) ==
    IF p.kind # "array" THEN [charts EXCEPT !.first = Blank]
    ELSE IF p.count < 2 THEN [first |-> Hint, others |-> Hint]
    ELSE [first |-> Trend(p.range), others |-> Trend(p.range)]

-----------------------------------------------------------------------------
(* The page is loaded; its first loadHistory is like that of the timer.    *)
PageInit ==
    /\ server = "up"
    /\ latest = 0
    /\ range \in Ranges
    /\ history = [s \in Slots |-> None]
    /\ points = [kind |-> "array", count |-> 0, range |-> range]
    /\ charts = [first |-> Blank, others |-> Blank]

(* The service publishes a snapshot, adds its point, fails, recovers.      *)
Publish ==
    /\ latest < MaxSnapshot
    /\ latest' = latest + 1
    /\ UNCHANGED <<server, historyVars>>

ChangeServer ==
    /\ server' \in {"up", "failing", "down"} \ {server}
    /\ UNCHANGED <<latest, historyVars>>

(* Mutant: the history is loaded only until there is something to show.    *)
LoadHistoryOnce(s) ==
    /\ history[s] = None
    /\ charts.first.show # "trend"
    /\ history' = [history EXCEPT ![s] = [state |-> "sent", range |-> range]]
    /\ UNCHANGED <<serviceVars, range, points, charts>>

(* loadHistory, from the timer.                                            *)
LoadHistory(s) ==
    /\ history[s] = None
    /\ history' = [history EXCEPT ![s] = [state |-> "sent", range |-> range]]
    /\ UNCHANGED <<serviceVars, range, points, charts>>

(* The user picks a range, and the change event loads it.                  *)
SelectRange(s, r) ==
    /\ history[s] = None
    /\ r # range
    /\ range' = r
    /\ history' = [history EXCEPT ![s] = [state |-> "sent", range |-> r]]
    /\ UNCHANGED <<serviceVars, points, charts>>

(* The handler queries the store and answers.                              *)
AnswerHistory(s) ==
    /\ history[s].state = "sent"
    /\ server # "down"
    /\ history' = [history EXCEPT
                      ![s] = [state |-> "answered",
                              body  |-> HistoryBody(history[s].range)]]
    /\ UNCHANGED <<serviceVars, range, points, charts>>

(* The answer arrives, whatever its status code says, and is drawn.        *)
ShowHistory(s) ==
    /\ history[s].state = "answered"
    /\ points' = history[s].body
    /\ charts' = DrawAll(points')
    /\ history' = [history EXCEPT ![s] = None]
    /\ UNCHANGED <<serviceVars, range>>

(* The request fails, and the empty catch ignores it.                      *)
LoseHistory(s) ==
    /\ history[s].state = "sent"
    /\ server = "down"
    /\ history' = [history EXCEPT ![s] = None]
    /\ UNCHANGED <<serviceVars, range, points, charts>>

Resize ==
    /\ charts' = DrawAll(points)
    /\ UNCHANGED <<serviceVars, range, history, points>>

-----------------------------------------------------------------------------
HistoryStep(s) == AnswerHistory(s) \/ ShowHistory(s) \/ LoseHistory(s)

PageNext ==
    \/ Publish \/ ChangeServer \/ Resize
    \/ \E s \in Slots : LoadHistory(s) \/ HistoryStep(s)
    \/ \E s \in Slots, r \in Ranges : SelectRange(s, r)

(* The timer goes on, and every request ends in an answer or in an error.   *)
PageFairness == \A s \in Slots : WF_pageVars(LoadHistory(s)) /\ WF_pageVars(HistoryStep(s))

PageSpec == PageInit /\ [][PageNext]_pageVars /\ PageFairness

-----------------------------------------------------------------------------
(* Correctness                                                             *)

PageTypeOK ==
    /\ server \in {"up", "failing", "down"}
    /\ latest \in 0 .. MaxSnapshot
    /\ range \in Ranges
    /\ history \in [Slots -> {None} \cup [state : {"sent"}, range : Ranges]
                                   \cup [state : {"answered"}, body : Points]]
    /\ points \in Points
    /\ charts \in [first : Chart, others : Chart]

(* The charts never show two different ranges side by side: an answer that *)
(* cannot be drawn takes the first chart away and leaves the others as     *)
(* they were, and the next good one brings all of them up to date          *)
(* (app.js:58-66, drawn one after the other).                              *)
ChartsAgree == charts.first # Blank => charts.first = charts.others

(* Late and failed answers heal: when the user has settled on a range and  *)
(* the service on working, the charts end up with that range for good,     *)
(* whatever answers for other ranges were still to come (app.js:43).       *)
ChartsSettle ==
    \A r \in Ranges :
        (<>[](server = "up" /\ latest >= 2 /\ range = r))
            => <>[](charts.first = Trend(r) /\ charts.others = Trend(r))
=============================================================================
