---------------------------- MODULE HistoryProofs ----------------------------
(***************************************************************************)
(* Proofs about HistoryStore: for every retention, clock and number of     *)
(* faults, provided that the clock never reads less than the retention     *)
(* (the run on MCHistoryUnsetClock.cfg shows what happens otherwise).      *)
(***************************************************************************)
EXTENDS HistoryStore, FiniteSetTheorems, TLAPS

ClockIsSet == \A t \in Times : t >= Retention

(* What the running write transaction has done so far.                     *)
TxOK ==
    LET all == db \cup {stamp}
    IN  /\ phase = "written" => work = all
        /\ phase = "pruning" =>
              /\ work \subseteq all
              /\ \A k \in all \ work : k < asOf - Retention
              /\ \/ work = all /\ cursor \in FirstKeys(all)
                 \/ \A q \in all : (\A r \in all : q <= r) => q \notin work

IndInv == TypeOK /\ TxOK

-----------------------------------------------------------------------------
LEMMA UIntIdentity ==
    ASSUME NEW n \in 0 .. Word - 1
    PROVE  UInt(n) = n
<1>1. Word \in Nat \ {0}
  BY WordAssumption
<1> QED BY <1>1 DEF UInt

LEMMA FirstKeysType ==
    ASSUME NEW S
    PROVE  FirstKeys(S) \subseteq S \cup {None}
BY DEF FirstKeys

LEMMA NextKeysType ==
    ASSUME NEW S, NEW k
    PROVE  NextKeys(S, k) \subseteq S \cup {None}
<1> DEFINE next == FirstKeys(After(S, k))
<1>1. After(S, k) \subseteq S
  BY DEF After
<1>2. next \subseteq S \cup {None}
  BY <1>1, FirstKeysType
<1>3. \A j : FirstKeys(After(S, j)) \subseteq S \cup {None}
  <2>1. \A j : After(S, j) \subseteq S
    BY DEF After
  <2> QED BY <2>1, FirstKeysType
<1>4. UNION {FirstKeys(After(S, j)) : j \in next \ {None}} \subseteq S \cup {None}
  BY <1>3
<1> QED BY <1>2, <1>4 DEF NextKeys

LEMMA TimesAreKeys ==
    /\ Times \subseteq Int
    /\ \A t \in Times : t >= 0 /\ t # None /\ UInt(t) = t
BY WordAssumption, UIntIdentity DEF None

LEMMA CutoffValue ==
    ASSUME ClockIsSet, TypeOK
    PROVE  Cutoff = asOf - Retention
<1>1. asOf \in 0 .. Word - 1 /\ asOf >= Retention /\ Retention \in Nat /\ Word \in Nat
  BY WordAssumption, RetentionAssumption DEF ClockIsSet, TypeOK
<1>2. asOf - Retention \in 0 .. Word - 1
  BY <1>1
<1> QED BY <1>2, UIntIdentity DEF Cutoff

-----------------------------------------------------------------------------
LEMMA InitIndInv == Init => IndInv
BY TimesAssumption DEF Init, IndInv, TypeOK, TxOK

LEMMA NextIndInv ==
    ASSUME ClockIsSet, IndInv, [Next]_vars
    PROVE  IndInv'
<1> USE DEF IndInv
<1>1. CASE Put
  <2>1. UInt(stamp) = stamp /\ stamp \in Times
    BY <1>1, TimesAreKeys DEF Put, TypeOK
  <2> QED BY <1>1, <2>1 DEF Put, TypeOK, TxOK
<1>2. CASE ReadCutoff
  <2>1. TypeOK'
    BY <1>2, FirstKeysType DEF ReadCutoff, TypeOK
  <2>2. TxOK'
    BY <1>2 DEF ReadCutoff, TypeOK, TxOK
  <2> QED BY <2>1, <2>2
<1>3. CASE Prune
  <2> USE DEF Prune
  <2>1. TypeOK'
    BY <1>3, NextKeysType DEF TypeOK
  <2>2. cursor < asOf - Retention
    BY <1>3, CutoffValue
  <2> DEFINE all == db \cup {stamp}
  <2>3. /\ work' \subseteq all
        /\ \A k \in all \ work' : k < asOf - Retention
    BY <1>3, <2>2 DEF TxOK
  <2>4. \A q \in all : (\A r \in all : q <= r) => q \notin work'
    <3> SUFFICES ASSUME NEW q \in all, \A r \in all : q <= r, q \in work'
                 PROVE  FALSE
      OBVIOUS
    <3>1. work = all /\ cursor \in FirstKeys(all)
      BY <1>3 DEF TxOK
    <3>2. cursor \in all /\ cursor <= q /\ q <= cursor
      BY <1>3, <3>1 DEF FirstKeys
    <3>3. all \subseteq Int
      BY <1>3, TimesAreKeys DEF TypeOK
    <3>4. q = cursor
      BY <3>2, <3>3
    <3> QED BY <1>3, <3>4
  <2>5. TxOK'
    BY <1>3, <2>3, <2>4 DEF TxOK
  <2> QED BY <2>1, <2>5
<1>4. CASE Commit
  <2>1. work \subseteq Times
    BY DEF TypeOK
  <2> QED BY <1>4, <2>1 DEF Commit, EndTransaction, TypeOK, TxOK
<1>5. CASE Open \/ Sample \/ AddRefused \/ Exit
  BY <1>5 DEF Open, Sample, AddRefused, Exit, txVars, TypeOK, TxOK
<1>6. CASE Tick \/ StepClock \/ Close
  <2> USE DEF Tick, StepClock, Close, Fault, txVars
  <2>1. TypeOK'
    BY <1>6 DEF TypeOK
  <2>2. TxOK'
    BY <1>6 DEF TxOK, FirstKeys
  <2> QED BY <2>1, <2>2
<1>7. CASE AddFails \/ Crash
  BY <1>7 DEF AddFails, Crash, Fault, EndTransaction, TypeOK, TxOK
<1>8. CASE UNCHANGED vars
  BY <1>8 DEF vars, txVars, TypeOK, TxOK, FirstKeys
<1> QED BY <1>1, <1>2, <1>3, <1>4, <1>5, <1>6, <1>7, <1>8 DEF Next, AddStep

THEOREM Invariance ==
    ASSUME ClockIsSet
    PROVE  Spec => []IndInv
<1>1. IndInv /\ [Next]_vars => IndInv'
  BY NextIndInv
<1> QED BY InitIndInv, <1>1, PTL DEF Spec

THEOREM TypeCorrect ==
    ASSUME ClockIsSet
    PROVE  Spec => []TypeOK
<1>1. IndInv => TypeOK
  BY DEF IndInv
<1> QED BY <1>1, Invariance, PTL

-----------------------------------------------------------------------------
(* What a commit makes visible: the new point, and nothing lost but points *)
(* older than the retention.                                               *)
LEMMA CommitLoss ==
    ASSUME ClockIsSet, IndInv, Commit
    PROVE  /\ db' \subseteq db \cup {stamp}
           /\ \A k \in (db \cup {stamp}) \ db' : k < asOf - Retention
BY DEF IndInv, TxOK, Commit

LEMMA OnlyCommitChangesDb ==
    ASSUME [Next]_vars, ~Commit
    PROVE  UNCHANGED db
BY DEF Next, AddStep, Put, ReadCutoff, Prune, AddRefused, Open, Sample, Exit, Tick,
       StepClock, AddFails, Close, Crash, vars

(* No crash, failed write, restart or clock step takes a point which is    *)
(* younger than the retention.                                             *)
THEOREM RetentionIsKept ==
    ASSUME ClockIsSet
    PROVE  Spec => KeepsRetained
<1>1. IndInv /\ [Next]_vars =>
        [LET had == IF Commit THEN db \cup {stamp} ELSE db
         IN  \A k \in had \ db' : k < asOf - Retention]_vars
  BY CommitLoss, OnlyCommitChangesDb
<1> QED BY <1>1, Invariance, PTL DEF Spec, KeepsRetained

(* The oldest point is gone after a commit if it was expired: the walk     *)
(* starts there, and what Next does after Delete does not matter to it.    *)
LEMMA OldestExpiredGoes ==
    ASSUME ClockIsSet, IndInv, Commit,
           NEW q \in db \cup {stamp}, \A r \in db \cup {stamp} : q <= r,
           q < asOf - Retention
    PROVE  q \notin db'
<1> DEFINE all == db \cup {stamp}
<1>1. SUFFICES ASSUME work = all, cursor \in FirstKeys(all) PROVE FALSE
  BY DEF IndInv, TxOK, Commit
<1>2. cursor \in all /\ cursor <= q
  BY <1>1 DEF FirstKeys
<1>3. all \subseteq Times
  BY DEF IndInv, TypeOK, Commit
<1>4. cursor # None /\ cursor \in Int /\ q \in Int
  BY <1>2, <1>3, TimesAreKeys
<1>5. Cutoff = asOf - Retention /\ asOf - Retention \in Int
  BY CutoffValue, TimesAreKeys, RetentionAssumption DEF IndInv, TypeOK
<1>6. cursor >= Cutoff
  BY <1>4 DEF Commit
<1> QED BY <1>2, <1>4, <1>5, <1>6

LEMMA LogInitial == Init => Log!LogInit
BY TimesAssumption DEF Init, Log!LogInit

LEMMA LogStep ==
    ASSUME ClockIsSet, IndInv, [Next]_vars
    PROVE  [Log!LogNext]_(Log!logVars)
<1>1. CASE Commit
  <2>1. stamp \in Times
    BY <1>1 DEF Commit, IndInv, TypeOK
  <2>2. Log!Append(stamp)
    BY <1>1, CommitLoss, OldestExpiredGoes
       DEF Log!Append, Log!Expired, Commit
  <2> QED BY <2>1, <2>2 DEF Log!LogNext
<1>2. CASE ReadCutoff
  <2>1. Log!ReadClock
    BY <1>2 DEF ReadCutoff, IndInv, TypeOK, Log!ReadClock
  <2> QED BY <2>1 DEF Log!LogNext
<1>3. CASE ~Commit /\ ~ReadCutoff
  <2>1. UNCHANGED <<db, asOf>>
    BY <1>3, OnlyCommitChangesDb
       DEF Next, AddStep, Put, Prune, AddRefused, Open, Sample, Exit, Tick,
           StepClock, AddFails, Close, Crash, vars
  <2> QED BY <2>1 DEF Log!logVars
<1> QED BY <1>1, <1>2, <1>3

(* Readers see whole additions only, whatever fails in between.            *)
THEOREM StoreImplementsLog ==
    ASSUME ClockIsSet
    PROVE  Spec => ImplementsLog
<1>1. IndInv /\ [Next]_vars => [Log!LogNext]_(Log!logVars)
  BY LogStep
<1> QED BY LogInitial, <1>1, Invariance, PTL DEF Spec, ImplementsLog, Log!LogSpec

-----------------------------------------------------------------------------
(* The walk of the cursor.  What it has deleted, and what it has left      *)
(* behind it: a key is left behind only when a deletion made the cursor    *)
(* step over it.                                                           *)
Gone == (db \cup {stamp}) \ work

Behind == {k \in work : cursor = None \/ k < cursor}

HalvesOK ==
    phase = "pruning" =>
        /\ cursor \in work \cup {None}
        /\ Cardinality(Behind) <= Cardinality(Gone)

LEMMA FiniteKeys ==
    ASSUME NEW S \in SUBSET Times
    PROVE  IsFiniteSet(S) /\ Cardinality(S) \in Nat
<1>1. S \subseteq 0 .. Word - 1 /\ Word - 1 \in Int
  BY WordAssumption
<1>2. IsFiniteSet(0 .. Word - 1)
  BY <1>1, FS_Interval
<1>3. IsFiniteSet(S)
  BY <1>1, <1>2, FS_Subset
<1> QED BY <1>3, FS_CardinalityType

(* After a deletion the cursor steps over one key at most.                 *)
LEMMA OneKeySkipped ==
    ASSUME NEW S \in SUBSET Times, NEW k \in S, NEW n \in NextKeys(S, k)
    PROVE  /\ n = None \/ (n \in S /\ n > k)
           /\ \E s : \A j \in S : j > k /\ (n = None \/ j < n) => j = s
<1> DEFINE next == FirstKeys(After(S, k))
<1> HIDE DEF next
<1>0. \A j \in S : j \in Int /\ j # None
  BY TimesAreKeys
<1>1. CASE n \in next
  <2>1. n = None \/ (n \in S /\ n > k)
    BY <1>1 DEF next, FirstKeys, After
  <2>2. \A j \in S : j > k => n # None /\ ~(j < n)
    BY <1>0, <1>1 DEF next, FirstKeys, After
  <2> QED BY <2>1, <2>2
<1>2. CASE n \notin next
  <2>1. PICK f \in next \ {None} : n \in FirstKeys(After(S, f))
    BY <1>2 DEF next, NextKeys
  <2>2. f \in S /\ f > k /\ \A j \in S : j > k => f <= j
    BY <2>1 DEF next, FirstKeys, After
  <2>3. n = None \/ (n \in S /\ n > f)
    BY <2>1 DEF FirstKeys, After
  <2>4. \A j \in S : j > f => n # None /\ ~(j < n)
    BY <1>0, <2>1, <2>2 DEF FirstKeys, After
  <2>5. \A j \in S : j > k /\ (n = None \/ j < n) => j = f
    <3> SUFFICES ASSUME NEW j \in S, j > k, n = None \/ j < n PROVE j = f
      OBVIOUS
    <3>1. f <= j
      BY <2>2
    <3>2. ~(j > f)
      BY <2>4
    <3> QED BY <1>0, <2>2, <3>1, <3>2
  <2>6. n = None \/ (n \in S /\ n > k)
    BY <1>0, <2>2, <2>3
  <2> QED BY <2>5, <2>6
<1> QED BY <1>1, <1>2

LEMMA PruneHalvesStep ==
    ASSUME IndInv, HalvesOK, Prune
    PROVE  HalvesOK'
<1>1. /\ cursor \in work /\ work' = work \ {cursor} /\ UNCHANGED <<db, stamp>>
      /\ cursor' \in NextKeys(work, cursor)
      /\ work \subseteq Times /\ db \cup {stamp} \subseteq Times /\ work \subseteq Int
      /\ work \subseteq db \cup {stamp}
  BY TimesAreKeys DEF Prune, HalvesOK, IndInv, TypeOK, TxOK
<1>2. cursor' = None \/ (cursor' \in work /\ cursor' > cursor)
  BY <1>1, OneKeySkipped
<1>3. PICK s : \A j \in work : j > cursor /\ (cursor' = None \/ j < cursor') => j = s
  BY <1>1, OneKeySkipped
<1>4. Behind' \subseteq Behind \cup {s}
  <2> SUFFICES ASSUME NEW j \in Behind' PROVE j \in Behind \cup {s}
    OBVIOUS
  <2>1. j \in work /\ j # cursor /\ (cursor' = None \/ j < cursor')
    BY <1>1 DEF Behind
  <2>2. CASE j < cursor
    BY <2>1, <2>2 DEF Behind
  <2>3. CASE j > cursor
    BY <1>3, <2>1, <2>3
  <2> QED BY <1>1, <2>1, <2>2, <2>3
<1>5. Gone' = Gone \cup {cursor} /\ cursor \notin Gone
  BY <1>1 DEF Gone
<1>6. IsFiniteSet(Behind) /\ IsFiniteSet(Gone)
      /\ Cardinality(Behind) \in Nat /\ Cardinality(Gone) \in Nat
  <2>1. Behind \subseteq Times /\ Gone \subseteq Times
    BY <1>1 DEF Behind, Gone
  <2> QED BY <2>1, FiniteKeys
<1>7. Cardinality(Gone') = Cardinality(Gone) + 1
  BY <1>5, <1>6, FS_AddElement
<1>8. Cardinality(Behind') <= Cardinality(Behind) + 1
  <2>1. IsFiniteSet(Behind \cup {s})
        /\ Cardinality(Behind \cup {s}) \in {Cardinality(Behind), Cardinality(Behind) + 1}
    BY <1>6, FS_AddElement
  <2>2. Cardinality(Behind') \in Nat /\ Cardinality(Behind') <= Cardinality(Behind \cup {s})
    BY <1>4, <2>1, FS_Subset, FS_CardinalityType
  <2> QED BY <1>6, <2>1, <2>2
<1>9. Cardinality(Behind') \in Nat
  BY <1>4, <1>6, FS_AddElement, FS_Subset, FS_CardinalityType
<1>10. Cardinality(Behind') <= Cardinality(Gone')
  BY <1>6, <1>7, <1>8, <1>9 DEF HalvesOK, Prune
<1>11. cursor' \in work' \cup {None}
  BY <1>1, <1>2
<1> QED BY <1>10, <1>11 DEF HalvesOK

LEMMA NextHalvesOK ==
    ASSUME IndInv, HalvesOK, [Next]_vars
    PROVE  HalvesOK'
<1>1. CASE Prune
  BY <1>1, PruneHalvesStep
<1>2. CASE ReadCutoff
  <2>1. work = db \cup {stamp} /\ UNCHANGED <<work, db, stamp>> /\ cursor' \in FirstKeys(work)
    BY <1>2 DEF ReadCutoff, IndInv, TxOK
  <2>2. \A k \in work : k \in Int /\ k # None
    BY TimesAreKeys DEF IndInv, TypeOK
  <2>3. cursor' \in work' \cup {None}
    BY <2>1, FirstKeysType
  <2>4. Behind' = {}
    BY <2>1, <2>2 DEF Behind, FirstKeys
  <2>5. Gone' = {}
    BY <2>1 DEF Gone
  <2> QED BY <2>3, <2>4, <2>5, FS_EmptySet DEF HalvesOK
<1>3. CASE Put \/ Commit \/ AddFails \/ Crash
  <2>1. phase' # "pruning"
    BY <1>3 DEF Put, Commit, AddFails, Crash, EndTransaction
  <2> QED BY <2>1 DEF HalvesOK
<1>4. CASE Open \/ Sample \/ AddRefused \/ Exit \/ Tick \/ StepClock \/ Close \/ UNCHANGED vars
  <2>1. UNCHANGED <<phase, work, cursor, db>>
        /\ (phase = "pruning" => UNCHANGED stamp)
    BY <1>4 DEF Open, Sample, AddRefused, Exit, Tick, StepClock, Close, Fault, vars,
                txVars, IndInv, TypeOK
  <2> QED BY <2>1 DEF HalvesOK, Behind, Gone
<1> QED BY <1>1, <1>2, <1>3, <1>4 DEF Next, AddStep

(* Of the expired points, a commit leaves at most half behind: those the   *)
(* cursor stepped over, one for each that it deleted.                      *)
THEOREM HalfTheExpiredGo ==
    ASSUME ClockIsSet
    PROVE  Spec => PruneHalves
<1>1. IndInv /\ HalvesOK /\ Commit =>
         2 * Cardinality({k \in db' : Log!Expired(k)})
            <= Cardinality({k \in db \cup {stamp} : Log!Expired(k)})
  <2> SUFFICES ASSUME IndInv, HalvesOK, Commit
               PROVE  2 * Cardinality({k \in db' : Log!Expired(k)})
                         <= Cardinality({k \in db \cup {stamp} : Log!Expired(k)})
    OBVIOUS
  <2> DEFINE kept == {k \in work : Log!Expired(k)}
             had  == {k \in db \cup {stamp} : Log!Expired(k)}
  <2>1. /\ db' = work /\ work \subseteq db \cup {stamp} /\ db \cup {stamp} \subseteq Times
        /\ \A k \in (db \cup {stamp}) \ work : Log!Expired(k)
        /\ cursor = None \/ cursor >= asOf - Retention
        /\ cursor \in work \cup {None}
    BY CutoffValue DEF Commit, IndInv, TypeOK, TxOK, HalvesOK, Log!Expired
  <2>2. kept \subseteq Behind
    <3> SUFFICES ASSUME NEW k \in kept, cursor # None PROVE k < cursor
      BY DEF Behind
    <3>1. k \in Int /\ cursor \in Int /\ asOf \in Int /\ Retention \in Int
      BY <2>1, TimesAreKeys, RetentionAssumption DEF IndInv, TypeOK
    <3> QED BY <2>1, <3>1 DEF Log!Expired
  <2>3. had = kept \cup Gone /\ kept \cap Gone = {}
    BY <2>1 DEF Gone
  <2>4. /\ kept \subseteq Times /\ Gone \subseteq Times /\ Behind \subseteq Times
    BY <2>1 DEF Gone, Behind
  <2>5. /\ IsFiniteSet(kept) /\ IsFiniteSet(Gone) /\ IsFiniteSet(Behind)
        /\ Cardinality(kept) \in Nat /\ Cardinality(Gone) \in Nat
        /\ Cardinality(Behind) \in Nat
    BY <2>4, FiniteKeys
  <2>6. Cardinality(had) = Cardinality(kept) + Cardinality(Gone)
    <3>1. Cardinality(kept \cap Gone) = 0
      BY <2>3, FS_EmptySet
    <3>2. Cardinality(kept \cup Gone) =
             Cardinality(kept) + Cardinality(Gone) - Cardinality(kept \cap Gone)
      BY <2>5, FS_Union
    <3> QED BY <2>3, <2>5, <3>1, <3>2
  <2>7. Cardinality(kept) <= Cardinality(Gone)
    <3>1. Cardinality(kept) <= Cardinality(Behind)
      BY <2>2, <2>5, FS_Subset
    <3>2. Cardinality(Behind) <= Cardinality(Gone)
      BY DEF HalvesOK, Commit
    <3> QED BY <2>5, <3>1, <3>2
  <2> QED BY <2>1, <2>5, <2>6, <2>7
<1>2. IndInv /\ HalvesOK /\ [Next]_vars =>
         [db' # db =>
             2 * Cardinality({k \in db' : Log!Expired(k)})
                <= Cardinality({k \in db \cup {stamp} : Log!Expired(k)})]_vars
  BY <1>1, OnlyCommitChangesDb
<1>3. Init => HalvesOK
  BY DEF Init, HalvesOK
<1>4. IndInv /\ HalvesOK /\ [Next]_vars => HalvesOK'
  BY NextHalvesOK
<1> QED BY Invariance, <1>2, <1>3, <1>4, PTL DEF Spec, PruneHalves

-----------------------------------------------------------------------------
(* The clock never reads less than a window of the dashboard.              *)
ClockPassesWindows == \A t \in Times : \A h \in Windows : t >= h

Window(h) == {k \in db : k \in now - h .. now}

(* A window that holds no more points than a page.                         *)
Fits(h) == Cardinality(Window(h)) <= MaxLimit

(* A query returns every point up to now of a window that fits a page:     *)
(* points of the future, after the clock was set back, come after them.    *)
LEMMA FittingWindowIsReturned ==
    ASSUME ClockPassesWindows, TypeOK, NEW h \in Windows, Fits(h), NEW k \in Window(h)
    PROVE  k \in HistoryPoints(h)
<1>1. /\ h \in 1 .. MaxHours /\ MaxLimit \in Nat \ {0} /\ MaxHours \in Nat
      /\ now \in 0 .. Word - 1 /\ now >= h /\ Word \in Nat
      /\ db \subseteq Times /\ db \subseteq Int
  BY QueryAssumption, WordAssumption, TimesAreKeys DEF TypeOK, ClockPassesWindows
<1>2. UInt(now - h) = now - h
  <2>1. now - h \in 0 .. Word - 1
    BY <1>1
  <2> QED BY <2>1, UIntIdentity
<1> DEFINE found  == {j \in db : j >= UInt(now - h)}
           before == {j \in found : j < k}
<1>3. HistoryPoints(h) = {i \in found : Cardinality({j \in found : j < i}) < MaxLimit}
  <2>1. HistoryPoints(h) = Query(now - h, MaxLimit)
    BY <1>1 DEF HistoryPoints
  <2>2. ~(MaxLimit < 1 \/ MaxLimit > MaxLimit)
    BY <1>1
  <2>3. (IF MaxLimit < 1 \/ MaxLimit > MaxLimit THEN DefaultLimit ELSE MaxLimit) = MaxLimit
    BY <2>2
  <2>4. Query(now - h, MaxLimit) =
           {i \in found : Cardinality({j \in found : j < i}) < MaxLimit}
    BY <2>3, Zenon DEF Query
  <2> QED BY <2>1, <2>4
<1>4. k \in found /\ before \subseteq Window(h) \ {k}
  <2>1. k \in db /\ now - h <= k /\ k <= now /\ k \in Int
    BY <1>1 DEF Window
  <2>2. k \in found
    BY <1>2, <2>1
  <2>3. ASSUME NEW j \in before PROVE j \in Window(h) \ {k}
    <3>1. j \in db /\ j \in Int /\ now - h <= j /\ j < k
      BY <1>1, <1>2
    <3> QED BY <1>1, <2>1, <3>1 DEF Window
  <2> QED BY <2>2, <2>3
<1>5. Cardinality(before) < MaxLimit
  <2>1. /\ IsFiniteSet(Window(h)) /\ Cardinality(Window(h)) \in Nat
    BY <1>1, FiniteKeys DEF Window
  <2>2. /\ IsFiniteSet(Window(h) \ {k})
        /\ Cardinality(Window(h) \ {k}) = Cardinality(Window(h)) - 1
    BY <2>1, FS_RemoveElement
  <2>3. Cardinality(before) <= Cardinality(Window(h) \ {k})
    BY <1>4, <2>2, FS_Subset
  <2>4. Cardinality(before) \in Nat
    <3>1. before \in SUBSET Times
      BY <1>1
    <3> HIDE DEF before
    <3> QED BY <3>1, FiniteKeys
  <2> QED BY <1>1, <2>1, <2>2, <2>3, <2>4 DEF Fits
<1> HIDE DEF found, before
<1>6. before = {j \in found : j < k}
  BY DEF before
<1> QED BY <1>3, <1>4, <1>5, <1>6

LEMMA FittingReachesPresent ==
    ASSUME ClockPassesWindows, TypeOK, NEW h \in Windows, Fits(h)
    PROVE  ReachesPresent(h)
<1> SUFFICES ASSUME NEW k \in db, k \in now - h .. now
             PROVE  \E j \in HistoryPoints(h) : j >= k
  BY DEF ReachesPresent
<1>1. k \in HistoryPoints(h)
  BY FittingWindowIsReturned DEF Window
<1>2. k \in Int
  BY TimesAreKeys DEF TypeOK
<1> QED BY <1>1, <1>2

(* Whatever is in the history, charts reach the present as long as their   *)
(* windows hold no more points than a page; MCHistoryWeek.cfg has a window *)
(* that holds more (store.go:96-125).                                      *)
THEOREM FittingChartsReachPresent ==
    ASSUME ClockIsSet, ClockPassesWindows
    PROVE  Spec => []((\A h \in Windows : Fits(h)) => QueryReachesPresent)
<1>1. TypeOK /\ (\A h \in Windows : Fits(h)) => QueryReachesPresent
  BY FittingReachesPresent DEF QueryReachesPresent
<1> QED BY <1>1, TypeCorrect, PTL

(* The points of the history are so many seconds apart, or more.           *)
PointsApart(step) == \A j, k \in db : j < k => k - j >= step

(* Then a window holds no more of them than it has such steps, and one.    *)
LEMMA PointsOfWindow ==
    ASSUME TypeOK, NEW h \in Windows, NEW step \in Nat \ {0}, PointsApart(step)
    PROVE  Cardinality(Window(h)) \in Nat /\ Cardinality(Window(h)) <= h \div step + 1
<1>1. now \in Int /\ h \in Nat /\ db \subseteq Int
  BY QueryAssumption, TimesAreKeys DEF TypeOK
<1>2. h \div step \in Nat
  BY <1>1
<1> DEFINE Slots == 0 .. h \div step
           slot == [k \in Window(h) |-> (k - (now - h)) \div step]
<1>3. IsFiniteSet(Slots) /\ Cardinality(Slots) = h \div step + 1
  BY <1>2, FS_Interval
<1>4. ASSUME NEW k \in Window(h)
      PROVE  k \in db /\ k \in Int /\ k - (now - h) \in Nat /\ slot[k] \in Slots
  <2>1. k \in db /\ k \in Int /\ k - (now - h) \in 0 .. h
    BY <1>1 DEF Window
  <2> DEFINE a == k - (now - h)
  <2>2. a \in Nat /\ a <= h
    BY <1>1, <2>1
  <2> HIDE DEF a
  <2>3. a \div step \in 0 .. h \div step
    BY <1>1, <2>2
  <2> QED BY <2>1, <2>2, <2>3 DEF a
<1>5. ASSUME NEW j \in Window(h), NEW k \in Window(h), slot[j] = slot[k], j < k
      PROVE  FALSE
  <2> DEFINE a == j - (now - h)
             b == k - (now - h)
  <2>1. /\ a \in Nat /\ b \in Nat /\ a < b /\ b - a >= step
        /\ a \div step = b \div step
    BY <1>1, <1>4, <1>5 DEF PointsApart
  <2> HIDE DEF a, b
  <2> QED BY <2>1
<1>6. slot \in Injection(Window(h), Slots)
  <2>1. slot \in [Window(h) -> Slots]
    BY <1>4
  <2>2. \A j, k \in Window(h) : slot[j] = slot[k] => j = k
    <3> SUFFICES ASSUME NEW j \in Window(h), NEW k \in Window(h), slot[j] = slot[k]
                 PROVE  j = k
      OBVIOUS
    <3>1. j \in Int /\ k \in Int
      BY <1>4
    <3> HIDE DEF slot
    <3> QED BY <1>5, <3>1
  <2> QED BY <2>1, <2>2 DEF Injection, IsInjective
<1> HIDE DEF slot, Slots
<1>7. IsFiniteSet(Window(h)) /\ Cardinality(Window(h)) <= Cardinality(Slots)
  BY <1>3, <1>6, FS_Injection
<1> QED BY <1>3, <1>7, FS_CardinalityType

(* A window of h seconds reaches the present while the points are so far   *)
(* apart that a page is longer than the window: one of an hour always,     *)
(* those of 6 and 24 hours when 3 and 9 seconds lie between any two points,*)
(* and the seven days, 604800 seconds, only from 61 seconds on, which the  *)
(* default interval of 10 seconds does not give (store.go:103,             *)
(* server.go:50).                                                          *)
THEOREM SpacedChartsReachPresent ==
    ASSUME ClockIsSet, ClockPassesWindows, NEW h \in Windows,
           NEW step \in Nat \ {0}, h \div step < MaxLimit
    PROVE  Spec => [](PointsApart(step) => ReachesPresent(h))
<1>1. TypeOK /\ PointsApart(step) => ReachesPresent(h)
  <2> SUFFICES ASSUME TypeOK, PointsApart(step) PROVE ReachesPresent(h)
    OBVIOUS
  <2>1. h \in Nat /\ MaxLimit \in Nat /\ h \div step \in Nat
    BY QueryAssumption
  <2>2. Fits(h)
    BY <2>1, PointsOfWindow DEF Fits
  <2> QED BY <2>2, FittingReachesPresent
<1> QED BY <1>1, TypeCorrect, PTL

(* Keys are whole seconds, so a window of fewer seconds than a page has    *)
(* points reaches the present in every reachable state: that of one hour,  *)
(* with its 3600 seconds, at every interval.                               *)
THEOREM HourChartReachesPresent ==
    ASSUME ClockIsSet, ClockPassesWindows, NEW h \in Windows, h < MaxLimit
    PROVE  Spec => []ReachesPresent(h)
<1>1. TypeOK => ReachesPresent(h)
  <2> SUFFICES ASSUME TypeOK PROVE ReachesPresent(h)
    OBVIOUS
  <2>1. h \in Nat /\ MaxLimit \in Nat /\ h \div 1 = h
    BY QueryAssumption
  <2> DEFINE step == 1
  <2>2. step \in Nat \ {0} /\ h \div step = h
    BY <2>1
  <2>3. PointsApart(step)
    BY TimesAreKeys DEF TypeOK, PointsApart
  <2> HIDE DEF step
  <2>4. Fits(h)
    BY <2>1, <2>2, <2>3, PointsOfWindow DEF Fits
  <2> QED BY <2>4, FittingReachesPresent
<1> QED BY <1>1, TypeCorrect, PTL
=============================================================================
