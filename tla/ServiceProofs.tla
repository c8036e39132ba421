---------------------------- MODULE ServiceProofs -----------------------------
(***************************************************************************)
(* Proofs about Service, for any number of connections, starts of the      *)
(* process and rounds in a life.                                           *)
(***************************************************************************)
EXTENDS Service, TLAPS

Lost == published \ (logged \cup reported)

(* Rounds are numbered upwards within a life, and lives upwards.           *)
CountersOK ==
    /\ Alive => life > 0
    /\ loop # "off" => Alive
    /\ loop = "sampling" => latest < MaxRound
    /\ loop \in {"published", "writing"} => latest > 0
    /\ \A t \in published :
          /\ t[1] <= life
          /\ t[1] = life /\ Alive => t[2] <= latest

(* While the process lives, the only point of this life that is on its way *)
(* is that of the last round.                                              *)
OnItsWay ==
    \A s \in Lost :
        s[1] = life /\ Alive => s = Snap /\ loop \in {"published", "writing"}

(* The store is open until the drain is over, and the drain ends with      *)
(* every connection idle or with its time limit.                           *)
DrainOK ==
    /\ main \in {"running", "draining"} => store = "open"
    /\ main = "down" => \A c \in Clients : client[c] = "idle"
    /\ main \in {"closing", "closed"} /\ ~overtime =>
          \A c \in Clients : client[c] = "idle"

IndInv ==
    TypeOK /\ CountersOK /\ OnItsWay /\ AtMostLastLost /\ DrainOK /\ RefusedOnlyOvertime

-----------------------------------------------------------------------------
LEMMA AllIdle ==
    ASSUME NEW f, f = [c \in Clients |-> "idle"]
    PROVE  f \in [Clients -> {"idle", "asking", "reading", "answered", "refused"}]
OBVIOUS

LEMMA InitIndInv == Init => IndInv
<1> SUFFICES ASSUME Init PROVE IndInv
  OBVIOUS
<1> USE BoundsAssumption DEF Init
<1>1. TypeOK
  <2>1. client \in [Clients -> {"idle", "asking", "reading", "answered", "refused"}]
    BY AllIdle
  <2>2. life \in 0 .. MaxLife /\ latest \in 0 .. MaxRound
    OBVIOUS
  <2> QED BY <2>1, <2>2 DEF TypeOK
<1>2. CountersOK /\ OnItsWay /\ AtMostLastLost
  BY DEF CountersOK, OnItsWay, AtMostLastLost, Lost, Alive
<1>3. DrainOK /\ RefusedOnlyOvertime
  BY DEF DrainOK, RefusedOnlyOvertime
<1> QED BY <1>1, <1>2, <1>3 DEF IndInv

(* The point of the present round is one that the bounds admit.            *)
LEMMA SnapType ==
    ASSUME TypeOK, CountersOK, loop \in {"published", "writing"}
    PROVE  Snap \in Snaps
<1>1. life \in 1 .. MaxLife
  BY BoundsAssumption DEF TypeOK, CountersOK
<1>2. latest \in 1 .. MaxRound
  BY BoundsAssumption DEF TypeOK, CountersOK
<1> QED BY <1>1, <1>2 DEF Snap, Snaps

LEMMA NextTypeOK ==
    ASSUME TypeOK, CountersOK, [Next]_vars
    PROVE  TypeOK'
<1> USE BoundsAssumption DEF TypeOK, httpVars
<1>1. CASE Launch
  <2>1. client' \in [Clients -> {"idle", "asking", "reading", "answered", "refused"}]
    BY <1>1, AllIdle DEF Launch
  <2>2. life' \in 0 .. MaxLife /\ latest' \in 0 .. MaxRound
    BY <1>1 DEF Launch
  <2> QED BY <1>1, <2>1, <2>2 DEF Launch
<1>2. CASE Publish
  <2>1. life \in 1 .. MaxLife /\ latest + 1 \in 1 .. MaxRound
    BY <1>2 DEF Publish, CountersOK
  <2>2. <<life, latest + 1>> \in Snaps
    BY <2>1 DEF Snaps
  <2> QED BY <1>2, <2>1, <2>2 DEF Publish
<1>3. CASE Commit \/ AddFails
  <2>1. CASE loop \in {"published", "writing"}
    BY <1>3, <2>1, SnapType DEF Commit, AddFails
  <2> QED BY <1>3, <2>1 DEF Commit, AddFails
<1>4. CASE BeginAdd \/ NextRound \/ LoopReturns
  BY <1>4 DEF BeginAdd, NextRound, LoopReturns
<1>5. CASE \E c \in Clients : Ask(c) \/ Read(c) \/ Take(c)
  BY <1>5 DEF Ask, Read, BeginRead, EndRead, Take
<1>6. CASE Signal \/ Overtime \/ Drained \/ Close
  BY <1>6 DEF Signal, Overtime, Drained, Close
<1>7. CASE Exit \/ Crash
  <2>1. client' \in [Clients -> {"idle", "asking", "reading", "answered", "refused"}]
    BY <1>7, AllIdle DEF Exit, Crash, Gone
  <2>2. life' \in 0 .. MaxLife /\ latest' \in 0 .. MaxRound
    BY <1>7 DEF Exit, Crash, Gone
  <2> QED BY <1>7, <2>1, <2>2 DEF Exit, Crash, Gone
<1>8. CASE UNCHANGED vars
  BY <1>8 DEF vars
<1> QED BY <1>1, <1>2, <1>3, <1>4, <1>5, <1>6, <1>7, <1>8 DEF Next, Loop, Stop, Over

-----------------------------------------------------------------------------
(* What the steps do to the points.                                        *)
PointsOK == CountersOK /\ OnItsWay /\ AtMostLastLost

LEMMA PairOfSnap ==
    ASSUME TypeOK, NEW t \in published
    PROVE  t = <<t[1], t[2]>> /\ t[1] \in Nat /\ t[2] \in Nat
BY BoundsAssumption DEF TypeOK, Snaps

(* A round is published only after the Add of the one before has ended, so *)
(* that no lost point of this life is left beside it.                      *)
LEMMA PublishStep ==
    ASSUME TypeOK, PointsOK, Publish
    PROVE  PointsOK'
<1> USE DEF PointsOK
<1> DEFINE new == <<life, latest + 1>>
<1>1. /\ loop = "sampling" /\ loop' = "published" /\ Alive
      /\ latest' = latest + 1 /\ published' = published \cup {new}
      /\ UNCHANGED <<main, life, logged, reported>>
      /\ life \in Nat /\ latest \in Nat /\ life > 0
  BY BoundsAssumption DEF Publish, TypeOK, CountersOK
<1>2. CountersOK'
  BY <1>1, PairOfSnap DEF CountersOK, Alive
<1>3. \A s \in Lost : s[1] # life
  BY <1>1 DEF OnItsWay
<1>4. Lost' \subseteq Lost \cup {new}
  BY <1>1 DEF Lost
<1>5. OnItsWay'
  BY <1>1, <1>3, <1>4 DEF OnItsWay, Snap, Alive
<1>6. AtMostLastLost'
  <2> SUFFICES ASSUME NEW s \in Lost', NEW t \in published', t[1] = s[1]
               PROVE  t[2] <= s[2]
    BY DEF AtMostLastLost, Lost
  <2>1. CASE s \in Lost
    <3>1. t \in published
      BY <1>1, <1>3, <2>1
    <3> QED BY <2>1, <3>1 DEF AtMostLastLost, Lost
  <2>2. CASE s = new
    BY <1>1, <2>2, PairOfSnap DEF CountersOK
  <2> QED BY <1>4, <2>1, <2>2
<1> QED BY <1>2, <1>5, <1>6

(* The end of an Add takes its point off the way.                          *)
LEMMA AddEndsStep ==
    ASSUME TypeOK, PointsOK, Commit \/ AddFails
    PROVE  PointsOK'
<1> USE DEF PointsOK
<1>1. /\ loop' = "waiting" /\ Alive
      /\ logged' \cup reported' = logged \cup reported \cup {Snap}
      /\ UNCHANGED <<main, life, latest, published>>
  BY DEF Commit, AddFails
<1>2. CountersOK'
  BY <1>1 DEF CountersOK, Alive
<1>3. Lost' = Lost \ {Snap}
  BY <1>1 DEF Lost
<1>4. OnItsWay'
  BY <1>1, <1>3 DEF OnItsWay, Snap, Alive
<1>5. AtMostLastLost'
  BY <1>1, <1>3 DEF AtMostLastLost, Lost
<1> QED BY <1>2, <1>4, <1>5

LEMMA NextPointsOK ==
    ASSUME TypeOK, PointsOK, [Next]_vars
    PROVE  PointsOK'
<1> USE DEF PointsOK
<1>1. CASE Launch
  <2>1. /\ main = "down" /\ main' = "running" /\ loop' = "sampling" /\ latest' = 0
        /\ life' = life + 1 /\ UNCHANGED <<logged, reported, published>>
        /\ life \in Nat /\ MaxRound > 0
    BY <1>1, BoundsAssumption DEF Launch, TypeOK
  <2>2. \A t \in published : t[1] < life'
    BY <2>1, PairOfSnap DEF CountersOK
  <2>3. CountersOK'
    BY <2>1, <2>2, PairOfSnap DEF CountersOK, Alive
  <2>4. OnItsWay'
    BY <2>1, <2>2 DEF OnItsWay, Lost
  <2> QED BY <2>1, <2>3, <2>4 DEF AtMostLastLost, Lost
<1>2. CASE Publish
  BY <1>2, PublishStep
<1>3. CASE Commit \/ AddFails
  BY <1>3, AddEndsStep
<1>4. CASE BeginAdd \/ NextRound \/ LoopReturns
  <2>1. /\ UNCHANGED <<main, life, latest, logged, reported, published>>
        /\ Alive
        /\ \/ loop = "published" /\ loop' = "writing"
           \/ loop = "waiting" /\ loop' = "sampling" /\ latest < MaxRound
           \/ loop = "waiting" /\ loop' = "returned"
    BY <1>4 DEF BeginAdd, NextRound, LoopReturns, Alive
  <2> QED BY <2>1 DEF CountersOK, OnItsWay, AtMostLastLost, Lost, Snap, Alive
<1>5. CASE \/ \E c \in Clients : Ask(c) \/ Read(c) \/ Take(c)
           \/ Signal \/ Overtime \/ Drained \/ Close
           \/ UNCHANGED vars
  <2>1. /\ UNCHANGED <<loop, life, latest, logged, reported, published>>
        /\ Alive' <=> Alive
    BY <1>5 DEF Ask, Read, BeginRead, EndRead, Take, Signal, Overtime, Drained,
                Close, vars, Alive
  <2> QED BY <2>1 DEF CountersOK, OnItsWay, AtMostLastLost, Lost, Snap
<1>6. CASE Exit \/ Crash
  <2>1. /\ main' = "down" /\ loop' = "off"
        /\ UNCHANGED <<life, logged, reported, published>>
    BY <1>6 DEF Exit, Crash, Gone
  <2> QED BY <2>1 DEF CountersOK, OnItsWay, AtMostLastLost, Lost, Alive
<1> QED BY <1>1, <1>2, <1>3, <1>4, <1>5, <1>6 DEF Next, Loop, Stop, Over

-----------------------------------------------------------------------------
(* What the steps do to the connections.                                   *)
LEMMA NextDrainOK ==
    ASSUME TypeOK, CountersOK, DrainOK, RefusedOnlyOvertime, [Next]_vars
    PROVE  DrainOK' /\ RefusedOnlyOvertime'
<1> USE DEF DrainOK, RefusedOnlyOvertime
<1>1. CASE Launch \/ Exit \/ Crash
  BY <1>1 DEF Launch, Exit, Crash, Gone
<1>2. CASE Loop
  BY <1>2 DEF Loop, Publish, BeginAdd, Commit, AddFails, NextRound, LoopReturns, httpVars
<1>3. ASSUME NEW c \in Clients, Ask(c) \/ EndRead(c) \/ Take(c)
      PROVE  DrainOK' /\ RefusedOnlyOvertime'
  BY <1>3 DEF Ask, EndRead, Take, Alive, TypeOK
<1>4. ASSUME NEW c \in Clients, BeginRead(c)
      PROVE  DrainOK' /\ RefusedOnlyOvertime'
  <2>1. main # "down" /\ client[c] = "asking" /\ UNCHANGED <<main, store, overtime>>
    BY <1>4 DEF BeginRead, Alive
  <2>2. store # "open" => overtime
    BY <2>1 DEF TypeOK
  <2> QED BY <1>4, <2>1, <2>2 DEF BeginRead, TypeOK
<1>5. CASE Signal \/ Overtime \/ Drained \/ Close
  BY <1>5 DEF Signal, Overtime, Drained, Close, httpVars
<1>6. CASE UNCHANGED vars
  BY <1>6 DEF vars
<1> QED BY <1>1, <1>2, <1>3, <1>4, <1>5, <1>6 DEF Next, Read, Stop, Over

LEMMA Inductive == Spec => []IndInv
<1>1. IndInv /\ [Next]_vars => IndInv'
  BY NextTypeOK, NextPointsOK, NextDrainOK DEF IndInv, PointsOK
<1> QED BY InitIndInv, <1>1, PTL DEF Spec

-----------------------------------------------------------------------------
(* Every reachable state is well typed.                                    *)
THEOREM TypeCorrect == Spec => []TypeOK
<1>1. IndInv => TypeOK
  BY DEF IndInv
<1> QED BY <1>1, Inductive, PTL

(* However often the process is stopped or dies, and wherever: of each of  *)
(* its lives at most the last snapshot is missing from the history without *)
(* a line in the log (main.go:38-42, store.go Add).                        *)
THEOREM OnePointPerLife == Spec => []AtMostLastLost
<1>1. IndInv => AtMostLastLost
  BY DEF IndInv
<1> QED BY <1>1, Inductive, PTL

(* A request is refused the store only if the drain ran into its limit     *)
(* (main.go:27, 50-52: the deferred Close comes after Shutdown).           *)
THEOREM NoEarlyRefusal == Spec => []RefusedOnlyOvertime
<1>1. IndInv => RefusedOnlyOvertime
  BY DEF IndInv
<1> QED BY <1>1, Inductive, PTL
=============================================================================
