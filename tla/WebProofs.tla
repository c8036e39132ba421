------------------------------ MODULE WebProofs -------------------------------
(***************************************************************************)
(* Proofs about what HTTP shows of the sampling: about Health, for every   *)
(* interval and every length of a round, and about the charts of           *)
(* Dashboard, for any ranges, any number of requests under way at a time   *)
(* and any number of snapshots.                                            *)
(***************************************************************************)
EXTENDS Health, Dashboard, TLAPS

(* Two rounds and the pause between them fit into the limit.               *)
CycleFits == Interval + 2 * MaxRun < Limit

(* How much of a cycle has gone by, and how much of it is left.  The age   *)
(* of the snapshot of a round that hung is not bounded, but the next round *)
(* begins as any other.                                                    *)
SamplingOK ==
    pc = "sampling" =>
        /\ elapsed <= MaxRun
        /\ stalled \/ age <= elapsed + Interval + MaxRun
        /\ beat = Off => age = elapsed
        /\ beat # Off /\ ~pending => beat + elapsed <= Interval

WaitingOK ==
    pc = "waiting" =>
        /\ age = elapsed
        /\ beat # Off
        /\ stalled \/ elapsed <= Interval + MaxRun
        /\ stalled \/ pending \/ elapsed + beat <= Interval + MaxRun

HungOK == pc = "hung" => stalled

IndInv == TypeOK /\ SamplingOK /\ WaitingOK /\ HungOK

-----------------------------------------------------------------------------
LEMMA HorizonNat == Horizon \in Nat /\ Horizon >= MaxRun /\ Horizon > 0
BY TimesAssumption DEF Horizon

LEMMA OlderType ==
    ASSUME NEW t \in 0 .. Horizon
    PROVE  /\ Older(t) \in 0 .. Horizon
           /\ Older(t) <= t + 1
           /\ t < Horizon => Older(t) = t + 1
BY HorizonNat DEF Older

LEMMA InitInductive == CycleFits /\ Init => IndInv
<1> SUFFICES ASSUME CycleFits, Init PROVE IndInv
  OBVIOUS
<1>1. TypeOK
  <2>1. /\ pc \in {"sampling", "waiting", "hung"}
        /\ elapsed \in 0 .. Horizon /\ age \in 0 .. Horizon
        /\ beat \in {Off} \cup 0 .. Interval
    BY HorizonNat DEF Init
  <2>2. pending \in BOOLEAN /\ stalled \in BOOLEAN
    BY Zenon DEF Init
  <2> QED BY <2>1, <2>2 DEF TypeOK
<1>2. SamplingOK /\ WaitingOK /\ HungOK
  BY TimesAssumption DEF Init, SamplingOK, WaitingOK, HungOK, Off
<1> QED BY <1>1, <1>2 DEF IndInv

LEMMA StepInductive == CycleFits /\ IndInv /\ [Next]_vars => IndInv'
<1> SUFFICES ASSUME CycleFits, IndInv, [Next]_vars
             PROVE  IndInv'
  OBVIOUS
<1> USE TimesAssumption, HorizonNat DEF IndInv
<1>1. CASE Pass
  <2>1. TypeOK'
    BY <1>1, OlderType DEF Pass, TypeOK, Off
  <2>2. SamplingOK'
    BY <1>1, OlderType DEF Pass, TypeOK, SamplingOK, Off, CycleFits, Horizon
  <2>3. WaitingOK'
    BY <1>1, OlderType DEF Pass, TypeOK, WaitingOK, Off, CycleFits, Horizon
  <2>4. HungOK'
    BY <1>1 DEF Pass, HungOK
  <2> QED BY <2>1, <2>2, <2>3, <2>4
<1>2. CASE Fire
  <2>1. TypeOK'
    BY <1>2 DEF Fire, TypeOK, Off
  <2>2. SamplingOK' /\ WaitingOK' /\ HungOK'
    BY <1>2 DEF Fire, TypeOK, SamplingOK, WaitingOK, HungOK, Off
  <2> QED BY <2>1, <2>2
<1>3. CASE Finish
  <2>1. TypeOK'
    <3>1. /\ pc' \in {"sampling", "waiting", "hung"}
          /\ elapsed' \in 0 .. Horizon /\ age' \in 0 .. Horizon
          /\ beat' \in {Off} \cup 0 .. Interval
      BY <1>3 DEF Finish, TypeOK, Off
    <3>2. pending' \in BOOLEAN /\ stalled' \in BOOLEAN
      BY <1>3, Zenon DEF Finish, TypeOK
    <3> QED BY <3>1, <3>2 DEF TypeOK
  <2>2. stalled' = (pc = "hung") /\ pc' = "waiting"
    BY <1>3 DEF Finish
  <2>3. CASE pc = "hung"
    <3>1. stalled'
      BY <2>2, <2>3, Zenon
    <3>2. age' = elapsed' /\ beat' # Off
      BY <1>3 DEF Finish, TypeOK, Off
    <3> QED BY <2>1, <2>2, <3>1, <3>2 DEF SamplingOK, WaitingOK, HungOK
  <2>4. CASE pc = "sampling"
    <3>1. WaitingOK'
      BY <1>3, <2>4 DEF Finish, TypeOK, SamplingOK, WaitingOK, Off
    <3> QED BY <2>1, <2>2, <3>1 DEF SamplingOK, HungOK
  <2> QED BY <1>3, <2>1, <2>3, <2>4 DEF Finish
<1>4. CASE Begin
  <2>1. TypeOK'
    <3>1. /\ pc' \in {"sampling", "waiting", "hung"}
          /\ elapsed' \in 0 .. Horizon /\ age' \in 0 .. Horizon
          /\ beat' \in {Off} \cup 0 .. Interval
      BY <1>4 DEF Begin, TypeOK, Off
    <3>2. pending' \in BOOLEAN /\ stalled' \in BOOLEAN
      BY <1>4, Zenon DEF Begin, TypeOK
    <3> QED BY <3>1, <3>2 DEF TypeOK
  <2>2. SamplingOK' /\ WaitingOK' /\ HungOK'
    BY <1>4 DEF Begin, TypeOK, SamplingOK, WaitingOK, HungOK, Off
  <2> QED BY <2>1, <2>2
<1>5. CASE Hang
  <2>1. pc' = "hung" /\ stalled' = TRUE /\ UNCHANGED <<elapsed, age, beat, pending>>
    BY <1>5 DEF Hang
  <2>2. TypeOK'
    BY <2>1, Zenon DEF TypeOK
  <2> QED BY <2>1, <2>2 DEF SamplingOK, WaitingOK, HungOK
<1>6. CASE UNCHANGED vars
  BY <1>6 DEF vars, TypeOK, SamplingOK, WaitingOK, HungOK
<1> QED BY <1>1, <1>2, <1>3, <1>4, <1>5, <1>6 DEF Next

LEMMA Inductive == ASSUME CycleFits PROVE Spec => []IndInv
<1>1. Init => IndInv
  BY InitInductive
<1>2. IndInv /\ [Next]_vars => IndInv'
  BY StepInductive
<1> QED BY <1>1, <1>2, PTL DEF Spec

-----------------------------------------------------------------------------
(* When a cycle fits into the limit of the health check, every state of    *)
(* the clock and of the loop is well typed.                                *)
THEOREM TypeCorrect == ASSUME CycleFits PROVE Spec => []TypeOK
<1>1. IndInv => TypeOK
  BY DEF IndInv
<1> QED BY <1>1, Inductive, PTL

(* When a cycle fits into the limit, the container is healthy at every     *)
(* moment at which the loop has not stalled, nor shows a round that did,   *)
(* whatever the interval, the ticker, the length of each round and the     *)
(* hangs before (server.go:60, README.md:135).                             *)
THEOREM HealthyWhenCycleFits ==
    ASSUME CycleFits PROVE Spec => []HealthyWhileSampling
<1>1. IndInv => HealthyWhileSampling
  BY TimesAssumption
     DEF IndInv, TypeOK, SamplingOK, WaitingOK, HungOK, HealthyWhileSampling,
         Healthy, CycleFits
<1> QED BY <1>1, Inductive, PTL

-----------------------------------------------------------------------------
(* The charts.                                                             *)

LEMMA BodyType ==
    ASSUME PageTypeOK, NEW r \in Ranges
    PROVE  HistoryBody(r) \in Points
<1>1. latest \in Nat /\ Least(latest, 2) \in 0 .. 2
  BY MaxSnapshotAssumption DEF PageTypeOK, Least
<1> QED BY <1>1 DEF HistoryBody, Points

LEMMA DrawingType ==
    ASSUME PageTypeOK, NEW p \in Points
    PROVE  /\ DrawAll(p) \in [first : Chart, others : Chart]
           /\ DrawAll(p).first # Blank
                 => DrawAll(p).first = DrawAll(p).others
<1>1. charts \in [first : Chart, others : Chart] /\ p.range \in Ranges
  BY DEF PageTypeOK, Points
<1>2. /\ Blank \in Chart /\ Hint \in Chart
      /\ Trend(p.range) \in Chart
  BY <1>1 DEF Chart
<1> HIDE DEF Chart, Trend
<1> QED BY <1>1, <1>2 DEF DrawAll

(* Every request, answer and chart is of its kind.                         *)
THEOREM ChartsTypeCorrect == PageSpec => []PageTypeOK
<1>1. PageInit => PageTypeOK
  BY MaxSnapshotAssumption DEF PageInit, PageTypeOK, Points, Chart, None
<1>2. PageTypeOK /\ [PageNext]_pageVars => PageTypeOK'
  <2> SUFFICES ASSUME PageTypeOK, [PageNext]_pageVars PROVE PageTypeOK'
    OBVIOUS
  <2> DEFINE Request == {None} \cup [state : {"sent"}, range : Ranges]
                           \cup [state : {"answered"}, body : Points]
  <2>1. CASE Publish \/ ChangeServer
    BY <2>1, MaxSnapshotAssumption DEF PageTypeOK, Publish, ChangeServer, historyVars
  <2>2. CASE Resize
    BY <2>2, DrawingType DEF PageTypeOK, Resize, serviceVars
  <2>3. ASSUME NEW s \in Slots, LoadHistory(s) PROVE PageTypeOK'
    BY <2>3 DEF PageTypeOK, LoadHistory, serviceVars
  <2>4. ASSUME NEW s \in Slots, NEW r \in Ranges, SelectRange(s, r)
        PROVE  PageTypeOK'
    BY <2>4 DEF PageTypeOK, SelectRange, serviceVars
  <2>5. ASSUME NEW s \in Slots, AnswerHistory(s) PROVE PageTypeOK'
    <3>1. history[s] \in Request
      BY DEF PageTypeOK
    <3>2. history[s].range \in Ranges
      BY <2>5, <3>1 DEF AnswerHistory, None
    <3>3. HistoryBody(history[s].range) \in Points
      BY <3>2, BodyType
    <3> QED BY <2>5, <3>3 DEF PageTypeOK, AnswerHistory, serviceVars
  <2>6. ASSUME NEW s \in Slots, ShowHistory(s) PROVE PageTypeOK'
    <3>1. history[s] \in Request
      BY DEF PageTypeOK
    <3>2. points' \in Points
      BY <2>6, <3>1 DEF ShowHistory, None
    <3>3. charts' \in [first : Chart, others : Chart]
      BY <2>6, <3>2, DrawingType DEF ShowHistory
    <3> QED BY <2>6, <3>2, <3>3 DEF PageTypeOK, ShowHistory, serviceVars
  <2>7. ASSUME NEW s \in Slots, LoseHistory(s) PROVE PageTypeOK'
    BY <2>7 DEF PageTypeOK, LoseHistory, serviceVars
  <2>8. CASE UNCHANGED pageVars
    BY <2>8 DEF PageTypeOK, pageVars, serviceVars, historyVars
  <2> QED
    BY <2>1, <2>2, <2>3, <2>4, <2>5, <2>6, <2>7, <2>8
       DEF PageNext, HistoryStep
<1> QED BY <1>1, <1>2, PTL DEF PageSpec

(* The charts are of one and the same range, or the first is blank: an     *)
(* answer that cannot be drawn, however late, never leaves the first chart *)
(* beside others of a different range (app.js:58-66).                      *)
THEOREM ChartsNeverDisagree == PageSpec => []ChartsAgree
<1>1. PageInit => ChartsAgree
  BY DEF PageInit, ChartsAgree
<1>2. /\ PageTypeOK /\ PageTypeOK' /\ ChartsAgree
      /\ [PageNext]_pageVars
      => ChartsAgree'
  <2> SUFFICES ASSUME PageTypeOK, PageTypeOK', ChartsAgree,
                      [PageNext]_pageVars
               PROVE  ChartsAgree'
    OBVIOUS
  <2>1. CASE charts' = charts
    BY <2>1 DEF ChartsAgree
  <2>2. CASE charts' = DrawAll(points')
    <3>1. points' \in Points
      BY DEF PageTypeOK
    <3> QED BY <2>2, <3>1, DrawingType DEF ChartsAgree
  <2>3. charts' = charts \/ charts' = DrawAll(points')
    BY DEF PageNext, HistoryStep, Publish, ChangeServer, Resize,
           LoadHistory, SelectRange, AnswerHistory, ShowHistory,
           LoseHistory, pageVars, serviceVars, historyVars
  <2> QED BY <2>1, <2>2, <2>3
<1> QED BY <1>1, <1>2, ChartsTypeCorrect, PTL DEF PageSpec
=============================================================================
