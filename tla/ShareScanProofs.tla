--------------------------- MODULE ShareScanProofs ---------------------------
(***************************************************************************)
(* Proofs about ShareScan: for every set of shares, every interval, any    *)
(* number of places for scanner goroutines.                                *)
(***************************************************************************)
EXTENDS ShareScan, TLAPS

(* A round that saw no scanner running can rely on it, and on the age it   *)
(* copied, until it has launched one: only rounds launch.                  *)
CopiesOK ==
    round = "launch" \/ (round = "decide" /\ ~seenScanning) =>
        /\ \A i \in Slots : ~scanner[i].active
        /\ seenAge = age

LaunchIsDue == round = "launch" => Due(seenAge)

IndInv == TypeOK /\ OneScanner /\ CopiesOK /\ LaunchIsDue

(* Each map holds the sizes of one scan.                                   *)
FromOneScan(m) == \A s, t \in DOMAIN m : m[s] = m[t]

SizesOK ==
    /\ FromOneScan(shareSizes)
    /\ FromOneScan(cached)
    /\ OneScanShown
    /\ \A i \in Slots : \A s \in DOMAIN scanner[i].next :
          scanner[i].next[s] = scanner[i].scan

-----------------------------------------------------------------------------
LEMMA SizeMapType ==
    ASSUME NEW m
    PROVE  m \in SizeMap <=>
              DOMAIN m \subseteq Shares /\ m = [s \in DOMAIN m |-> m[s]]
                 /\ \A s \in DOMAIN m : m[s] \in Scans
BY DEF SizeMap

LEMMA EmptyMaps == NoSizes \in SizeMap /\ DOMAIN NoSizes = {} /\ NoScan \in ScannerType
<1>1. DOMAIN NoSizes = {} /\ NoSizes \in [{} -> Scans]
  BY DEF NoSizes
<1>2. NoSizes \in SizeMap
  BY <1>1 DEF SizeMap
<1> QED BY <1>1, <1>2 DEF NoScan, ScannerType, Scans

LEMMA OlderType ==
    ASSUME NEW a \in Ages
    PROVE  Older(a) \in Ages /\ (Due(a) => Due(Older(a)))
BY IntervalAssumption DEF Older, Ages, Never, Due

LEMMA InitIndInv == Init => IndInv /\ SizesOK
<1> SUFFICES ASSUME Init PROVE IndInv /\ SizesOK
  OBVIOUS
<1> USE DEF Init
<1>1. TypeOK
  BY EmptyMaps DEF TypeOK, Ages, Scans
<1>2. OneScanner /\ CopiesOK /\ LaunchIsDue
  BY DEF OneScanner, CopiesOK, LaunchIsDue, NoScan
<1>3. SizesOK
  BY EmptyMaps DEF SizesOK, FromOneScan, OneScanShown, NoScan
<1> QED BY <1>1, <1>2, <1>3 DEF IndInv

-----------------------------------------------------------------------------
LEMMA NextTypeOK ==
    ASSUME TypeOK, [Next]_vars
    PROVE  TypeOK'
<1> USE DEF TypeOK, cacheVars, copyVars
<1>1. CASE ReadConf \/ NoConf \/ CopyCache
  BY <1>1, EmptyMaps DEF ReadConf, NoConf, CopyCache
<1>2. CASE Decide
  <2> DEFINE D == shares \cap DOMAIN cached
  <2>1. /\ DOMAIN cached \subseteq Shares
        /\ \A s \in DOMAIN cached : cached[s] \in Scans
    BY SizeMapType
  <2>2. sizes' = [s \in D |-> cached[s]]
    BY <1>2 DEF Decide, Restrict
  <2>3. sizes' \in SizeMap /\ DOMAIN sizes' \subseteq shares
    <3>1. sizes' \in [D -> Scans]
      BY <2>1, <2>2
    <3> QED BY <2>1, <2>2, <3>1 DEF SizeMap
  <2> QED BY <1>2, <2>3 DEF Decide
<1>3. CASE Launch
  <2>1. CASE shareScanning
    BY <1>3, <2>1 DEF Launch
  <2>2. CASE ~shareScanning
    <3>1. PICK i \in Slots :
            scanner' = [scanner EXCEPT ![i] =
                          [active |-> TRUE, scan |-> 1 - lastScan,
                           left |-> shares, next |-> NoSizes]]
      BY <1>3, <2>2 DEF Launch
    <3>2. 1 - lastScan \in Scans
      BY DEF Scans
    <3>3. [active |-> TRUE, scan |-> 1 - lastScan,
           left |-> shares, next |-> NoSizes] \in ScannerType
      BY <3>2, EmptyMaps DEF ScannerType
    <3>4. scanner' \in [Slots -> ScannerType]
      BY <3>1, <3>3
    <3> QED BY <1>3, <2>2, <3>2, <3>4 DEF Launch
  <2> QED BY <2>1, <2>2
<1>4. ASSUME NEW i \in Slots, Walk(i) PROVE TypeOK'
  <2>1. PICK s \in scanner[i].left :
          scanner' = [scanner EXCEPT
              ![i].left = @ \ {s},
              ![i].next = [t \in DOMAIN @ \cup {s} |-> scanner[i].scan]]
    BY <1>4 DEF Walk
  <2>2. scanner[i] \in ScannerType
    OBVIOUS
  <2> DEFINE n == [t \in DOMAIN scanner[i].next \cup {s} |-> scanner[i].scan]
  <2>3. n \in SizeMap
    <3>1. DOMAIN scanner[i].next \subseteq Shares /\ s \in Shares /\ scanner[i].scan \in Scans
      <4>1. scanner[i].next \in SizeMap /\ scanner[i].left \subseteq Shares
            /\ scanner[i].scan \in Scans
        BY <2>2 DEF ScannerType
      <4>2. DOMAIN scanner[i].next \subseteq Shares
        BY <4>1, SizeMapType
      <4> QED BY <2>1, <4>1, <4>2
    <3> DEFINE D == DOMAIN scanner[i].next \cup {s}
    <3>2. D \in SUBSET Shares /\ n \in [D -> Scans]
      BY <3>1
    <3> HIDE DEF n, D
    <3> QED BY <3>2 DEF SizeMap
  <2>4. scanner' \in [Slots -> ScannerType]
    BY <2>1, <2>2, <2>3 DEF ScannerType
  <2> QED BY <1>4, <2>4 DEF Walk
<1>5. ASSUME NEW i \in Slots, Store(i) PROVE TypeOK'
  <2>1. scanner[i].next \in SizeMap
    BY DEF ScannerType
  <2>2. 0 \in Ages
    BY IntervalAssumption DEF Ages
  <2> QED BY <1>5, <2>1, <2>2, EmptyMaps DEF Store
<1>6. CASE Tick
  BY <1>6, OlderType DEF Tick
<1>7. CASE ChangeConf \/ UNCHANGED vars
  BY <1>7 DEF ChangeConf, vars
<1> QED BY <1>1, <1>2, <1>3, <1>4, <1>5, <1>6, <1>7 DEF Next, RoundStep, ScanStep

LEMMA NextIndInv ==
    ASSUME IndInv, [Next]_vars
    PROVE  IndInv'
<1> USE DEF IndInv, cacheVars, copyVars
<1>1. TypeOK'
  BY NextTypeOK
<1>2. CASE ReadConf \/ NoConf \/ CopyCache
  BY <1>1, <1>2 DEF ReadConf, NoConf, CopyCache, OneScanner, CopiesOK, LaunchIsDue
<1>3. CASE Decide
  BY <1>1, <1>3 DEF Decide, OneScanner, CopiesOK, LaunchIsDue
<1>4. CASE Launch
  <2>1. ~shareScanning
    BY <1>4 DEF Launch, CopiesOK, OneScanner
  <2>2. PICK i \in Slots :
          scanner' = [scanner EXCEPT ![i] =
                        [active |-> TRUE, scan |-> 1 - lastScan,
                         left |-> shares, next |-> NoSizes]]
    BY <1>4, <2>1 DEF Launch
  <2>3. \A j \in Slots : scanner'[j].active <=> j = i
    BY <1>4, <2>2 DEF Launch, TypeOK, CopiesOK
  <2>4. OneScanner'
    BY <1>4, <2>1, <2>3 DEF Launch, OneScanner
  <2> QED BY <1>1, <1>4, <2>4 DEF Launch, CopiesOK, LaunchIsDue
<1>5. ASSUME NEW i \in Slots, Walk(i) PROVE IndInv'
  <2>1. \A j \in Slots : scanner'[j].active = scanner[j].active
    BY <1>5 DEF Walk, TypeOK, ScannerType
  <2> QED BY <1>1, <1>5, <2>1 DEF Walk, OneScanner, CopiesOK, LaunchIsDue
<1>6. ASSUME NEW i \in Slots, Store(i) PROVE IndInv'
  <2>1. \A j \in Slots : ~scanner'[j].active
    BY <1>6 DEF Store, TypeOK, OneScanner, NoScan
  <2>2. ~(round = "launch" \/ (round = "decide" /\ ~seenScanning))
    BY <1>6 DEF Store, CopiesOK
  <2> QED BY <1>1, <1>6, <2>1, <2>2 DEF Store, OneScanner, CopiesOK, LaunchIsDue
<1>7. CASE Tick
  BY <1>1, <1>7, OlderType DEF Tick, TypeOK, OneScanner, CopiesOK, LaunchIsDue
<1>8. CASE ChangeConf \/ UNCHANGED vars
  BY <1>1, <1>8 DEF ChangeConf, vars, OneScanner, CopiesOK, LaunchIsDue
<1> QED BY <1>2, <1>3, <1>4, <1>5, <1>6, <1>7, <1>8 DEF Next, RoundStep, ScanStep

THEOREM Invariance == Spec => []IndInv
<1>1. Init => IndInv
  BY InitIndInv
<1>2. IndInv /\ [Next]_vars => IndInv'
  BY NextIndInv
<1> QED BY <1>1, <1>2, PTL DEF Spec

THEOREM TypeCorrect == Spec => []TypeOK
<1>1. IndInv => TypeOK
  BY DEF IndInv
<1> QED BY <1>1, Invariance, PTL

(* The disks are never walked by two scanners at once.                     *)
THEOREM ScannerIsAlone == Spec => []OneScanner
<1>1. IndInv => OneScanner
  BY DEF IndInv
<1> QED BY <1>1, Invariance, PTL

(* Scans keep their distance, although the decision is made on copies.     *)
THEOREM ScansKeepInterval == Spec => ScansAreSpaced
<1>1. ASSUME IndInv, Next, NEW i \in Slots, ~scanner[i].active, scanner'[i].active
      PROVE  Due(age)
  <2>1. CASE Launch
    BY <1>1, <2>1 DEF IndInv, Launch, CopiesOK, LaunchIsDue
  <2>2. ASSUME NEW j \in Slots, Walk(j) PROVE FALSE
    BY <1>1, <2>2 DEF Walk, IndInv, TypeOK, ScannerType
  <2>3. ASSUME NEW j \in Slots, Store(j) PROVE FALSE
    BY <1>1, <2>3 DEF Store, IndInv, TypeOK, ScannerType, NoScan
  <2>4. CASE ReadConf \/ NoConf \/ CopyCache \/ Decide \/ Tick \/ ChangeConf
    BY <1>1, <2>4 DEF ReadConf, NoConf, CopyCache, Decide, Tick, ChangeConf
  <2> QED BY <1>1, <2>1, <2>2, <2>3, <2>4 DEF Next, RoundStep, ScanStep
<1>2. IndInv /\ [Next]_vars =>
        [\A i \in Slots : ~scanner[i].active /\ scanner'[i].active => Due(age)]_vars
  BY <1>1
<1> QED BY <1>2, Invariance, PTL DEF Spec, ScansAreSpaced

-----------------------------------------------------------------------------
LEMMA NextSizesOK ==
    ASSUME TypeOK, SizesOK, [Next]_vars
    PROVE  SizesOK'
<1> USE DEF SizesOK, FromOneScan, OneScanShown, cacheVars, copyVars
<1>1. CASE ReadConf \/ NoConf \/ CopyCache
  BY <1>1, EmptyMaps DEF ReadConf, NoConf, CopyCache
<1>2. CASE Decide
  BY <1>2 DEF Decide, Restrict
<1>3. CASE Launch
  BY <1>3, EmptyMaps DEF Launch, TypeOK, ScannerType
<1>4. ASSUME NEW i \in Slots, Walk(i) PROVE SizesOK'
  <2>1. \A j \in Slots : \A s \in DOMAIN scanner'[j].next :
            scanner'[j].next[s] = scanner'[j].scan
    BY <1>4 DEF Walk, TypeOK, ScannerType
  <2> QED BY <1>4, <2>1 DEF Walk
<1>5. ASSUME NEW i \in Slots, Store(i) PROVE SizesOK'
  BY <1>5, EmptyMaps DEF Store, TypeOK, NoScan
<1>6. CASE Tick \/ ChangeConf \/ UNCHANGED vars
  BY <1>6 DEF Tick, ChangeConf, vars
<1> QED BY <1>1, <1>2, <1>3, <1>4, <1>5, <1>6 DEF Next, RoundStep, ScanStep

(* A snapshot never mixes the sizes of two scans.                          *)
THEOREM SizesAreOfOneScan == Spec => []OneScanShown
<1>1. Init => SizesOK
  BY InitIndInv
<1>2. TypeOK /\ SizesOK /\ [Next]_vars => SizesOK'
  BY NextSizesOK
<1>3. SizesOK => OneScanShown
  BY DEF SizesOK
<1> QED BY <1>1, <1>2, <1>3, TypeCorrect, PTL DEF Spec
=============================================================================
