----------------------------- MODULE RoundProofs ------------------------------
(***************************************************************************)
(* Proofs about what one round shows: the System that two workers fill in, *)
(* for all readings of both (SystemMerge); the disks and volumes of the    *)
(* SNMP tables, for every table and every walk that breaks off (SNMPRows); *)
(* the PCIe devices, for any number of devices and domains (PCIe).         *)
(***************************************************************************)
EXTENDS SystemMerge, SNMPRows, PCIe, TLAPS

(* What is known of the results themselves.                                *)
ReturnsOK ==
    /\ host \in [Field -> Int]
    /\ host["cpu"] >= -1
    /\ \A f \in Field \ {"cpu"} : host[f] >= 0
    /\ \A f \in SNMPOwn : host[f] = 0
    /\ snmp \in [Field -> Int]
    /\ snmp["cpu"] >= -1
    /\ \A f \in Field \ {"cpu"} : snmp[f] >= 0
    /\ \A f \in ARC \cup HostOwn : snmp[f] = 0

(* A result that is due was not applied, and none is applied twice.        *)
ArrivalsOK ==
    /\ due \subseteq {"host", "snmp"}
    /\ applied \in Seq({"host", "snmp"})
    /\ Len(applied) <= 2
    /\ due # {} => Len(applied) <= 1
    /\ {"host", "snmp"} \subseteq due => Len(applied) = 0
    /\ \A w \in due : ~Was(w)

IndInv ==
    /\ ReturnsOK
    /\ ArrivalsOK
    /\ system \in [Field -> Nat]
    /\ OrderFree

-----------------------------------------------------------------------------
LEMMA PercentNat ==
    ASSUME NEW part \in Nat, NEW whole \in Nat
    PROVE  Percent(part, whole) \in Nat
BY DEF Percent

LEMMA AvailableBound ==
    ASSUME NEW total \in Nat, NEW reclaimable \in Nat, NEW evictable \in Nat
    PROVE  /\ Available(total, reclaimable, evictable) \in Nat
           /\ total - Available(total, reclaimable, evictable) \in Nat
BY DEF Available

LEMMA HostShape ==
    ASSUME NEW h \in HostReturns
    PROVE  /\ h \in [Field -> Int]
           /\ h["cpu"] >= -1
           /\ \A f \in Field \ {"cpu"} : h[f] >= 0
           /\ \A f \in SNMPOwn : h[f] = 0
<1> PICK cpu \in Files \cup {-1}, total \in Files, reclaimable \in Files,
         arc \in Files, evictable \in Files, uptime \in Files, volume \in 0 .. 2 :
         h = CollectHost(cpu, total, reclaimable, arc, evictable, uptime, volume)
  BY DEF HostReturns
<1> DEFINE available == Available(total, reclaimable, evictable)
<1>1. /\ available \in Nat /\ total - available \in Nat
      /\ Percent(total - available, total) \in Nat
  BY AvailableBound, PercentNat, ReadingsAssumption
<1> HIDE DEF available
<1>2. h = [f \in Field |->
            CASE f = "hostname"  -> Name
              [] f = "cpu"       -> cpu
              [] f = "total"     -> total
              [] f = "available" -> available
              [] f = "used"      -> total - available
              [] f = "percent"   -> Percent(total - available, total)
              [] f = "uptime"    -> uptime
              [] f = "arc"       -> arc
              [] f = "evictable" -> evictable
              [] f \in {"volumeName", "filesystem"} -> volume
              [] f = "platform"  -> volume + 1
              [] f \in SNMPOwn   -> 0]
  BY Zenon DEF CollectHost, available
<1>3. ASSUME NEW f \in Field
      PROVE  /\ h[f] \in Int
             /\ f # "cpu" => h[f] >= 0
             /\ f = "cpu" => h[f] >= -1
             /\ f \in SNMPOwn => h[f] = 0
  BY <1>1, <1>2, ReadingsAssumption, NameAssumption
     DEF Field, Memory, ARC, Contested, HostOwn, SNMPOwn
<1>4. h \in [Field -> Int]
  BY <1>2, <1>3
<1> QED
  BY <1>3, <1>4 DEF Field, Memory, ARC, Contested, HostOwn, SNMPOwn

LEMMA SNMPShape ==
    ASSUME NEW s \in SNMPReturns
    PROVE  /\ s \in [Field -> Int]
           /\ s["cpu"] >= -1
           /\ \A f \in Field \ {"cpu"} : s[f] >= 0
           /\ \A f \in ARC \cup HostOwn : s[f] = 0
<1>1. CASE s = Unknown
  BY <1>1
     DEF Unknown, Zero, Field, Memory, ARC, Contested, HostOwn, SNMPOwn
<1>2. CASE s # Unknown
  <2> PICK cpu \in Variables, total \in Variables, free \in Variables,
           uptime \in Variables, cpuTemp \in Variables, temp \in Variables,
           model \in Variables, name \in Variables :
           s = CollectSNMP(cpu, total, free, uptime, cpuTemp, temp, model, name)
    BY <1>2 DEF SNMPReturns
  <2> DEFINE used == IF total >= free THEN total - free ELSE 0
  <2>0. total \in Nat /\ used \in Nat
    BY ReadingsAssumption
  <2> HIDE DEF used
  <2>1. used \in Nat /\ Percent(used, total) \in Nat
    BY <2>0, PercentNat
  <2>2. s = [f \in Field |->
              CASE f = "cpu"      -> cpu
                [] f = "total"    -> total
                [] f = "used"     -> used
                [] f = "percent"  -> Percent(used, total)
                [] f = "uptime"   -> uptime
                [] f = "cpuTemp"  -> cpuTemp
                [] f = "temp"     -> temp
                [] f = "model"    -> model
                [] f = "hostname" -> name
                [] f \in {"available"} \cup ARC \cup HostOwn -> 0]
    BY Zenon DEF CollectSNMP, used
  <2>3. ASSUME NEW f \in Field
        PROVE  /\ s[f] \in Int
               /\ f # "cpu" => s[f] >= 0
               /\ f = "cpu" => s[f] >= -1
               /\ f \in ARC \cup HostOwn => s[f] = 0
    BY <2>1, <2>2, ReadingsAssumption
       DEF Field, Memory, ARC, Contested, HostOwn, SNMPOwn
  <2>4. s \in [Field -> Int]
    BY <2>2, <2>3
  <2> QED
    BY <2>3, <2>4 DEF Field, Memory, ARC, Contested, HostOwn, SNMPOwn
<1> QED BY <1>1, <1>2

-----------------------------------------------------------------------------
(* The rounds                                                              *)

LEMMA WasAppended ==
    ASSUME ArrivalsOK, NEW w \in {"host", "snmp"}, w \in due,
           applied' = Append(applied, w), due' = due \ {w}
    PROVE  /\ ArrivalsOK'
           /\ \A v \in {"host", "snmp"} : Was(v)' <=> (v = w \/ Was(v))
<1>1. /\ applied \in Seq({"host", "snmp"}) /\ ~Was(w)
      /\ Len(applied) <= 1
  BY DEF ArrivalsOK
<1>2. /\ applied' \in Seq({"host", "snmp"})
      /\ Len(applied') = Len(applied) + 1
      /\ \A i \in 1 .. Len(applied) : applied'[i] = applied[i]
      /\ applied'[Len(applied) + 1] = w
  BY <1>1
<1>3. \A v \in {"host", "snmp"} : Was(v)' <=> (v = w \/ Was(v))
  BY <1>1, <1>2 DEF Was
<1>4. due' # {} => {"host", "snmp"} \subseteq due
  BY DEF ArrivalsOK
<1> QED BY <1>1, <1>2, <1>3, <1>4 DEF ArrivalsOK

LEMMA MergeType ==
    ASSUME NEW base \in [Field -> Nat], NEW value \in [Field -> Int],
           \A f \in Field \ {"cpu"} : value[f] >= 0
    PROVE  MergeSystem(base, value) \in [Field -> Nat]
<1> SUFFICES ASSUME NEW f \in Field
             PROVE  (IF Carries(value, f) THEN value[f] ELSE base[f]) \in Nat
  BY DEF MergeSystem
<1>1. CASE f = "cpu"
  BY <1>1 DEF Carries
<1>2. CASE f # "cpu"
  BY <1>2
<1> QED BY <1>1, <1>2

LEMMA InitInductive == Init => IndInv
<1> SUFFICES ASSUME Init PROVE IndInv
  OBVIOUS
<1>1. ReturnsOK
  BY HostShape, SNMPShape DEF Init, ReturnsOK
<1>2. applied = <<>> /\ \A w \in {"host", "snmp"} : ~Was(w)
  BY DEF Init, Was
<1>3. ArrivalsOK
  BY <1>2 DEF Init, ArrivalsOK
<1>4. system \in [Field -> Nat]
  BY NameAssumption DEF Init, Fresh, Zero
<1>5. OrderFree
  BY <1>2
     DEF Init, Fresh, Zero, OrderFree, Supplier, Carries,
         Field, Memory, ARC, Contested, HostOwn, SNMPOwn
<1> QED BY <1>1, <1>3, <1>4, <1>5 DEF IndInv

(* Results carry nothing of the fields that are not theirs.                *)
LEMMA HostMerged ==
    ASSUME IndInv, HostArrives
    PROVE  system' \in [Field -> Nat] /\ OrderFree'
<1> USE DEF IndInv
<1>1. system' = MergeSystem(system, host) /\ UNCHANGED <<host, snmp>>
  BY DEF HostArrives, ApplyHost
<1>2. system' \in [Field -> Nat]
  BY <1>1, MergeType DEF ReturnsOK
<1>3. /\ ~Was("host") /\ Was("host")'
      /\ Was("snmp")' <=> Was("snmp")
  BY WasAppended DEF HostArrives, ArrivalsOK
<1>4. ASSUME NEW f \in Field \ Contested
      PROVE  system'[f] = IF Carries(Supplier(f)', f) THEN Supplier(f)'[f] ELSE 0
  <2>1. /\ f # "cpu"
        /\ system'[f] = IF Carries(host, f) THEN host[f] ELSE system[f]
    BY <1>1 DEF MergeSystem, Contested
  <2>2. system[f] = IF Carries(Supplier(f), f) THEN Supplier(f)[f] ELSE 0
    BY DEF OrderFree
  <2>3. CASE f \in Memory
    <3>1. CASE host["total"] > 0
      BY <1>1, <1>3, <2>1, <2>3, <3>1 DEF Supplier, Carries
    <3>2. CASE ~(host["total"] > 0)
      BY <1>1, <1>3, <2>1, <2>2, <2>3, <3>2
         DEF Supplier, Carries, Zero, Memory, ARC, HostOwn, SNMPOwn, Field
    <3> QED BY <3>1, <3>2
  <2>4. CASE f \in ARC \cup HostOwn
    BY <1>1, <1>3, <2>1, <2>2, <2>4
       DEF Supplier, Carries, Zero, Memory, ARC, HostOwn, SNMPOwn, Field
  <2>5. CASE f \in SNMPOwn
    BY <1>1, <1>3, <2>1, <2>2, <2>5
       DEF Supplier, Carries, ReturnsOK, Memory, ARC, HostOwn, SNMPOwn, Field
  <2> QED BY <2>3, <2>4, <2>5 DEF Field
<1> QED BY <1>2, <1>4 DEF OrderFree

LEMMA SNMPMerged ==
    ASSUME IndInv, SNMPArrives
    PROVE  system' \in [Field -> Nat] /\ OrderFree'
<1> USE DEF IndInv
<1> DEFINE merged == MergeSystem(system, snmp)
<1>1. /\ system' = [f \in Field |-> IF system["total"] > 0 /\ f \in Memory \cup ARC
                                   THEN system[f] ELSE merged[f]]
      /\ UNCHANGED <<host, snmp>>
  BY DEF SNMPArrives, ApplySNMP
<1>2. merged \in [Field -> Nat]
  BY MergeType DEF ReturnsOK
<1>3. system' \in [Field -> Nat]
  <2> HIDE DEF merged
  <2> QED BY <1>1, <1>2
<1>4. /\ ~Was("snmp") /\ Was("snmp")'
      /\ Was("host")' <=> Was("host")
  BY WasAppended DEF SNMPArrives, ArrivalsOK
<1>5. system["total"] > 0 <=> Was("host") /\ host["total"] > 0
  BY <1>4
     DEF OrderFree, Supplier, Carries, Zero, ReturnsOK,
         Field, Memory, ARC, Contested, HostOwn, SNMPOwn
<1>6. ASSUME NEW f \in Field \ Contested
      PROVE  system'[f] = IF Carries(Supplier(f)', f) THEN Supplier(f)'[f] ELSE 0
  <2>1. /\ f # "cpu"
        /\ merged[f] = IF Carries(snmp, f) THEN snmp[f] ELSE system[f]
    BY DEF MergeSystem, Contested
  <2>2. system[f] = IF Carries(Supplier(f), f) THEN Supplier(f)[f] ELSE 0
    BY DEF OrderFree
  <2> HIDE DEF merged
  <2>3. CASE f \in Memory
    <3>1. CASE system["total"] > 0
      BY <1>1, <1>4, <1>5, <2>1, <2>2, <2>3, <3>1 DEF Supplier
    <3>2. CASE ~(system["total"] > 0)
      BY <1>1, <1>4, <1>5, <2>1, <2>2, <2>3, <3>2
         DEF Supplier, Carries, Zero, Memory, ARC, HostOwn, SNMPOwn, Field
    <3> QED BY <3>1, <3>2
  <2>4. CASE f \in ARC \cup HostOwn
    BY <1>1, <1>4, <2>1, <2>2, <2>4
       DEF Supplier, Carries, ReturnsOK, Memory, ARC, HostOwn, SNMPOwn, Field
  <2>5. CASE f \in SNMPOwn
    BY <1>1, <1>4, <2>1, <2>2, <2>5
       DEF Supplier, Carries, Zero, Memory, ARC, HostOwn, SNMPOwn, Field
  <2> QED BY <2>3, <2>4, <2>5 DEF Field
<1> QED BY <1>3, <1>6 DEF OrderFree

LEMMA StepInductive == IndInv /\ [Next]_vars => IndInv'
<1> SUFFICES ASSUME IndInv, [Next]_vars PROVE IndInv'
  OBVIOUS
<1> USE DEF IndInv
<1>1. CASE HostArrives
  <2>1. ArrivalsOK'
    BY <1>1, WasAppended DEF HostArrives
  <2>2. ReturnsOK'
    BY <1>1 DEF HostArrives, ReturnsOK
  <2> QED BY <1>1, <2>1, <2>2, HostMerged
<1>2. CASE SNMPArrives
  <2>1. ArrivalsOK'
    BY <1>2, WasAppended DEF SNMPArrives
  <2>2. ReturnsOK'
    BY <1>2 DEF SNMPArrives, ReturnsOK
  <2> QED BY <1>2, <2>1, <2>2, SNMPMerged
<1>3. CASE (\E w \in due : Drop(w)) \/ UNCHANGED vars
  <2>1. due' \subseteq due /\ UNCHANGED <<host, snmp, applied, system>>
    BY <1>3 DEF Drop, vars
  <2>2. OrderFree'
    BY <2>1 DEF OrderFree, Supplier, Was
  <2> QED BY <2>1, <2>2 DEF ReturnsOK, ArrivalsOK, Was
<1> QED BY <1>1, <1>2, <1>3 DEF Next, Done

LEMMA Inductive == Spec => []IndInv
BY InitInductive, StepInductive, PTL DEF Spec

-----------------------------------------------------------------------------
(* Every reachable state is well typed; a snapshot shows no negative CPU   *)
(* percentage (collector.go:184).                                          *)
THEOREM TypeCorrect == Spec => []TypeOK
<1>1. IndInv => TypeOK
  BY DEF IndInv, ReturnsOK, ArrivalsOK, TypeOK
<1> QED BY <1>1, Inductive, PTL

(* Whichever worker is faster, and whichever result is lost, a snapshot    *)
(* shows the same value in every field but the three contested ones, for   *)
(* all readings (the two apply closures and mergeSystem of collector.go).  *)
THEOREM ArrivalOrderIsFree == Spec => []OrderFree
<1>1. IndInv => OrderFree
  BY DEF IndInv
<1> QED BY <1>1, Inductive, PTL

(* The four memory values of a snapshot are always those of one reading,   *)
(* for all readings (collector.go:85-98).                                  *)
THEOREM MemoryIsOfOneReading == Spec => []MemoryOfOneReading
<1>1. IndInv => MemoryOfOneReading
  <2> SUFFICES ASSUME IndInv PROVE MemoryOfOneReading
    OBVIOUS
  <2>1. \A f \in Memory :
           system[f] = IF Carries(Supplier(f), f) THEN Supplier(f)[f] ELSE 0
    BY DEF IndInv, OrderFree, Field, Memory, Contested
  <2>2. CASE Was("host") /\ host["total"] > 0
    BY <2>1, <2>2 DEF Supplier, Carries, Memory, MemoryOfOneReading
  <2>3. CASE ~(Was("host") /\ host["total"] > 0) /\ Was("snmp") /\ snmp["total"] > 0
    BY <2>1, <2>3 DEF Supplier, Carries, Memory, MemoryOfOneReading
  <2>4. CASE ~(Was("host") /\ host["total"] > 0) /\ ~(Was("snmp") /\ snmp["total"] > 0)
    <3>1. \A f \in Memory : system[f] = Zero[f]
      BY <2>1, <2>4
         DEF Supplier, Carries, Zero, Field, Memory, ARC, HostOwn, SNMPOwn
    <3> QED BY <3>1 DEF MemoryOfOneReading
  <2> QED BY <2>2, <2>3, <2>4
<1> QED BY <1>1, Inductive, PTL

(* The contested fields: who carries f, and that the last one has it.      *)
Carriers(f) == {i \in DOMAIN applied : Carries(Result(applied[i]), f)}

LastHas(f) ==
    /\ Carriers(f) = {} => system[f] = Fresh[f]
    /\ \A i \in Carriers(f) :
          (\A j \in Carriers(f) : j <= i) => system[f] = Result(applied[i])[f]

LastHasAll == \A f \in Contested : LastHas(f)

LEMMA ContestedApart ==
    ASSUME NEW f \in Contested
    PROVE  f \in Field /\ f \notin Memory \cup ARC
BY DEF Field, Contested, Memory, ARC

(* A result that is applied has the contested fields it carries, and       *)
(* leaves the others.                                                      *)
LEMMA AppliedHas ==
    ASSUME ArrivalsOK, LastHasAll, NEW w \in {"host", "snmp"},
           applied' = Append(applied, w), UNCHANGED <<host, snmp>>,
           \A f \in Contested :
               system'[f] = IF Carries(Result(w), f) THEN Result(w)[f] ELSE system[f]
    PROVE  LastHasAll'
<1> SUFFICES ASSUME NEW f \in Contested PROVE LastHas(f)'
  BY DEF LastHasAll
<1> DEFINE n == Len(applied)
<1>1. /\ n \in Nat /\ DOMAIN applied = 1 .. n /\ DOMAIN applied' = 1 .. n + 1
      /\ applied'[n + 1] = w /\ \A i \in 1 .. n : applied'[i] = applied[i]
  BY DEF ArrivalsOK
<1>2. \A v : Result(v)' = Result(v)
  BY DEF Result
<1>3. \A v : Carries(Result(v), f)' <=> Carries(Result(v), f)
  BY <1>2 DEF Carries
<1> HIDE DEF n
<1>4. Carriers(f)' = {i \in 1 .. n + 1 : Carries(Result(applied'[i]), f)}
  BY <1>1, <1>2 DEF Carriers, Carries
<1>5. Carriers(f) = {i \in 1 .. n : Carries(Result(applied[i]), f)}
  BY <1>1 DEF Carriers
<1>6. CASE Carries(Result(w), f)
  <2>1. n + 1 \in Carriers(f)' /\ \A i \in Carriers(f)' : i <= n + 1
    BY <1>1, <1>4, <1>6
  <2>2. system'[f] = Result(w)[f]
    BY <1>6
  <2>3. ASSUME NEW i \in Carriers(f)', \A j \in Carriers(f)' : j <= i PROVE i = n + 1
    BY <1>1, <1>4, <2>1, <2>3
  <2> QED BY <1>1, <1>2, <2>1, <2>2, <2>3 DEF LastHas
<1>7. CASE ~Carries(Result(w), f)
  <2>1. Carriers(f)' = Carriers(f)
    BY <1>1, <1>4, <1>5, <1>7
  <2>2. system'[f] = system[f]
    BY <1>7
  <2>3. \A i \in Carriers(f) : Result(applied[i])' = Result(applied[i])
    BY <1>1, <1>2, <1>5
  <2>4. LastHas(f)
    BY DEF LastHasAll
  <2> QED BY <2>1, <2>2, <2>3, <2>4 DEF LastHas, Fresh, Zero
<1> QED BY <1>6, <1>7

LEMMA NextLastHas ==
    ASSUME IndInv, LastHasAll, [Next]_vars
    PROVE  LastHasAll'
<1> USE DEF IndInv
<1>1. CASE HostArrives
  <2>1. \A f \in Contested :
           system'[f] = IF Carries(Result("host"), f) THEN Result("host")[f] ELSE system[f]
    BY <1>1, ContestedApart DEF HostArrives, ApplyHost, MergeSystem, Result
  <2> QED BY <1>1, <2>1, AppliedHas DEF HostArrives
<1>2. CASE SNMPArrives
  <2>1. \A f \in Contested :
           system'[f] = IF Carries(Result("snmp"), f) THEN Result("snmp")[f] ELSE system[f]
    BY <1>2, ContestedApart DEF SNMPArrives, ApplySNMP, MergeSystem, Result
  <2> QED BY <1>2, <2>1, AppliedHas DEF SNMPArrives
<1>3. CASE (\E w \in due : Drop(w)) \/ UNCHANGED vars
  <2>1. UNCHANGED <<host, snmp, applied, system>>
    BY <1>3 DEF Drop, vars
  <2> QED BY <2>1 DEF LastHasAll, LastHas, Carriers, Carries, Result, Fresh, Zero
<1> QED BY <1>1, <1>2, <1>3 DEF Next, Done

(* Host name, uptime and CPU percentage are those of the last result that  *)
(* carries them, for all readings and orders (collector.go:165-191).       *)
THEOREM LatestArrivalHas == Spec => []LatestReading
<1>1. Init => LastHasAll
  BY DEF Init, LastHasAll, LastHas, Carriers
<1>2. IndInv /\ LastHasAll /\ [Next]_vars => LastHasAll'
  BY NextLastHas
<1>3. IndInv /\ LastHasAll => LatestReading
  <2> SUFFICES ASSUME IndInv, LastHasAll, NEW f \in Contested
               PROVE  system[f] = IF Carriers(f) = {} THEN Fresh[f]
                                  ELSE Result(applied[CHOOSE i \in Carriers(f) :
                                                \A j \in Carriers(f) : j <= i])[f]
    BY DEF LatestReading, Carriers
  <2>1. LastHas(f)
    BY DEF LastHasAll
  <2>2. Carriers(f) \subseteq 1 .. 2
    BY DEF IndInv, ArrivalsOK, Carriers
  <2>3. Carriers(f) # {} => \E i \in Carriers(f) : \A j \in Carriers(f) : j <= i
    <3>1. CASE 2 \in Carriers(f)
      BY <2>2, <3>1
    <3>2. CASE 2 \notin Carriers(f)
      BY <2>2, <3>2
    <3> QED BY <3>1, <3>2
  <2> QED BY <2>1, <2>3 DEF LastHas
<1> QED BY <1>1, <1>2, <1>3, Inductive, PTL DEF Spec

-----------------------------------------------------------------------------
(* The SNMP tables                                                         *)

LEMMA NumberIsInt ==
    ASSUME NEW table \in Table, NEW c, NEW i
    PROVE  Number(table, c, i) \in Int
BY DEF Number, Table

LEMMA UnsignedIsNat ==
    ASSUME NEW n \in Int
    PROVE  Unsigned(n) \in Nat
BY DEF Unsigned

(* What a walk has read is what the agent gave.                            *)
LEMMA WalkIsPart ==
    ASSUME NEW table \in Table, NEW last \in Cell
    PROVE  /\ WalkRows(table, last) \in Table
           /\ \A c, i : <<c, i>> \in DOMAIN WalkRows(table, last) =>
                 Number(WalkRows(table, last), c, i) = Number(table, c, i)
<1> DEFINE R == {y \in DOMAIN table : ~Before(last, y)}
<1>1. PICK S \in SUBSET Cell : table \in [S -> Int]
  BY DEF Table
<1>2. R \in SUBSET Cell /\ R \subseteq DOMAIN table
  BY <1>1
<1>3. WalkRows(table, last) \in [R -> Int]
  BY <1>1, <1>2 DEF WalkRows
<1>4. WalkRows(table, last) \in Table
  BY <1>2, <1>3 DEF Table
<1>5. ASSUME NEW c, NEW i, <<c, i>> \in DOMAIN WalkRows(table, last)
      PROVE  Number(WalkRows(table, last), c, i) = Number(table, c, i)
  BY <1>2, <1>3, <1>5 DEF Number, WalkRows
<1> QED BY <1>4, <1>5

(* A walk goes forward: a cell that was read has everything of the same    *)
(* row in an earlier column read before it.                                *)
LEMMA EarlierColumnsRead ==
    ASSUME NEW table \in Table, NEW last \in Cell,
           NEW c \in Nat, NEW d \in Nat, NEW i, c < d,
           <<d, i>> \in DOMAIN WalkRows(table, last),
           <<c, i>> \in DOMAIN table
    PROVE  <<c, i>> \in DOMAIN WalkRows(table, last)
<1>1. <<d, i>> \in DOMAIN table /\ ~Before(last, <<d, i>>)
  BY DEF WalkRows
<1>2. i \in Nat /\ last[1] \in Nat /\ last[2] \in Nat
  <2>1. PICK S \in SUBSET Cell : table \in [S -> Int]
    BY DEF Table
  <2>2. <<d, i>> \in Cell
    BY <2>1, <1>1
  <2> QED BY <2>2, IndexesAssumption DEF Cell
<1>3. ~(last[1] < d \/ (last[1] = d /\ last[2] < i))
  BY <1>1 DEF Before
<1>4. ~(last[1] < c \/ (last[1] = c /\ last[2] < i))
  BY <1>2, <1>3
<1>5. ~Before(last, <<c, i>>)
  BY <1>4 DEF Before
<1> QED BY <1>5 DEF WalkRows

-----------------------------------------------------------------------------
(* A disk shown with its capacity has the SMART state that the agent gave, *)
(* for every table and wherever its walk broke off (snmp.go:124-140).      *)
THEOREM SmartIsVouched ==
    ASSUME NEW table \in Table, NEW last \in Cell
    PROVE  SmartVouched(table, last)
<1> DEFINE rows == WalkRows(table, last)
<1> SUFFICES ASSUME NEW i \in RowIndexes(rows), Unsigned(Number(rows, 9, i)) > 0
             PROVE  SmartLabel(Number(rows, 5, i)) = SmartLabel(Number(table, 5, i))
  BY DEF SmartVouched, Disks
<1>1. <<9, i>> \in DOMAIN rows
  BY DEF Unsigned, Number
<1>2. CASE <<5, i>> \in DOMAIN table
  <2>1. <<5, i>> \in DOMAIN rows
    BY <1>1, <1>2, EarlierColumnsRead
  <2> QED BY <2>1, WalkIsPart
<1>3. CASE <<5, i>> \notin DOMAIN table
  <2>1. <<5, i>> \notin DOMAIN rows
    BY <1>3 DEF WalkRows
  <2> QED BY <1>3, <2>1 DEF Number
<1> QED BY <1>2, <1>3

(* A volume never looks to have more room than the agent gave it, and its  *)
(* used space is no wrapped difference (snmp.go:148-153).                  *)
THEOREM SpaceIsVouched ==
    ASSUME NEW table \in Table, NEW last \in Cell
    PROVE  SpaceVouched(table, last)
<1> DEFINE rows == WalkRows(table, last)
<1> SUFFICES ASSUME NEW i \in RowIndexes(rows)
             PROVE  LET total == Unsigned(Number(rows, 4, i))
                        used  == UsedSpace(total, Unsigned(Number(rows, 5, i)))
                    IN  /\ used \in 0 .. total
                        /\ total - used <= Unsigned(Number(table, 5, i))
  BY DEF SpaceVouched, Volumes
<1> DEFINE total == Unsigned(Number(rows, 4, i))
           free  == Unsigned(Number(rows, 5, i))
           given == Unsigned(Number(table, 5, i))
<1>1. rows \in Table
  BY WalkIsPart
<1>2. total \in Nat /\ free \in Nat /\ given \in Nat
  BY <1>1, NumberIsInt, UnsignedIsNat
<1>3. free = given \/ free = 0
  <2>1. CASE <<5, i>> \in DOMAIN rows
    BY <2>1, WalkIsPart
  <2>2. CASE <<5, i>> \notin DOMAIN rows
    BY <2>2 DEF Number, Unsigned
  <2> QED BY <2>1, <2>2
<1> HIDE DEF total, free, given
<1>4. /\ UsedSpace(total, free) \in 0 .. total
      /\ total - UsedSpace(total, free) <= given
  BY <1>2, <1>3 DEF UsedSpace
<1> QED BY <1>4 DEF total, free, given

-----------------------------------------------------------------------------
(* The PCIe devices                                                        *)

LEMMA NoneIsNoDisplay == Absent.class # "display" /\ Absent \notin DeviceFiles
BY DEF Absent, DeviceFiles

(* Names with eight digits of domain never equal those with four, so a     *)
(* line is matched only by the device that it is about.                    *)
LEMMA NamesTellApart ==
    ASSUME NEW d \in Devices, NEW e \in Devices,
           NormalizeNVIDIABDF(SMIName(e)) = SysName(d)
    PROVE  e = d
<1>1. d = <<d[1], d[2]>> /\ e = <<e[1], e[2]>>
  BY DevicesAssumption
<1>2. SMIName(e)[2] = e[1] /\ SMIName(e)[3] = e[2] /\ SMIName(e)[1] = 8
  BY DEF SMIName
<1>3. CASE e[1] = 0
  <2>1. <<4, 0, e[2]>> = <<4, d[1], d[2]>>
    BY <1>2, <1>3 DEF NormalizeNVIDIABDF, SysName
  <2>2. d[1] = e[1] /\ d[2] = e[2]
    BY <2>1, <1>3
  <2> QED BY <2>2, <1>1
<1>4. CASE e[1] # 0
  <2>1. <<8, e[1], e[2]>> = <<4, d[1], d[2]>>
    BY <1>2, <1>4 DEF NormalizeNVIDIABDF, SysName, SMIName
  <2> QED BY <2>1
<1> QED BY <1>3, <1>4

LEMMA OwnLinesAreOwn ==
    ASSUME NEW m, NEW d \in Devices, NEW n \in OwnLines(m, d)
    PROVE  n.from = d /\ m.tool = "runs"
<1>1. n \in NVIDIAMetrics(m) /\ n.bdf = SysName(d)
  BY DEF OwnLines
<1>2. m.tool = "runs"
  BY <1>1 DEF NVIDIAMetrics
<1>3. PICK e \in Devices :
        n = [bdf |-> NormalizeNVIDIABDF(SMIName(e)), line |-> m.lines[e], from |-> e]
  BY <1>1, <1>2 DEF NVIDIAMetrics
<1>4. n.from = e /\ n.bdf = NormalizeNVIDIABDF(SMIName(e))
  BY <1>3
<1>5. e = d
  BY <1>4, <1>1, NamesTellApart
<1> QED BY <1>2, <1>4, <1>5

LEMMA MemoryOfOwn ==
    ASSUME NEW m, NEW d \in Devices
    PROVE  DeviceMemory(m, d) \subseteq {d}
BY OwnLinesAreOwn DEF DeviceMemory

-----------------------------------------------------------------------------
(* Every value that a round shows is one of its kind, and of a device that *)
(* is there (pcie.go:16-73).                                               *)
THEOREM WellTyped ==
    ASSUME NEW m \in Machine
    PROVE  ShownTyped(m)
<1> SUFFICES ASSUME NEW d \in Devices, m.device[d] # Absent
             PROVE  /\ DeviceMemory(m, d) \in SUBSET Devices
                    /\ Temperature(m, d) \in {"none", "hwmon", "smi"}
                    /\ Capability(m, d) \in {"identified", "basic", "nvidia", "full"}
  BY DEF ShownTyped, Shown, Listed
<1>1. DeviceMemory(m, d) \in SUBSET Devices
  BY MemoryOfOwn
<1>2. Temperature(m, d) \in {"none", "hwmon", "smi"}
  BY DEF Temperature
<1>3. Capability(m, d) \in {"identified", "basic", "nvidia", "full"}
  BY DEF Capability
<1> QED BY <1>1, <1>2, <1>3

(* The memory shown for a device is its own, however many GPUs there are   *)
(* and in whichever domains (pcie.go:63, 163-170).                         *)
THEOREM MetricsAreOwn ==
    ASSUME NEW m \in Machine
    PROVE  MetricsOfOwnDevice(m)
BY MemoryOfOwn DEF MetricsOfOwnDevice, Shown

(* A GPU that sysfs or the driver knows is listed with what sysfs says of  *)
(* it whenever nvidia-smi is missing or fails (README.md:103).             *)
THEOREM FailureIsHarmless ==
    ASSUME NEW m \in Machine
    PROVE  FailureHidesNothing(m)
<1> SUFFICES ASSUME m.tool # "runs", NEW d \in Devices, d \notin m.exclude,
                    m.device[d].class = "display",
                    m.device[d].info \/ m.device[d].vram
             PROVE  \E e \in Shown(m) :
                       /\ e.bdf = d
                       /\ m.device[d].temp => e.temperature = "hwmon"
                       /\ m.device[d].vram => e.memory = {d}
  BY DEF FailureHidesNothing
<1>1. OwnLines(m, d) = {}
  BY OwnLinesAreOwn
<1>2. Listed(m, d)
  BY NoneIsNoDisplay DEF Listed, EligiblePCIClass, IsExpansion
<1>3. m.device[d].temp => Temperature(m, d) = "hwmon"
  BY <1>1 DEF Temperature
<1>4. m.device[d].vram => DeviceMemory(m, d) = {d}
  BY <1>1 DEF DeviceMemory
<1> DEFINE e == [bdf |-> d, memory |-> DeviceMemory(m, d),
                 temperature |-> Temperature(m, d), capability |-> Capability(m, d)]
<1>5. e \in Shown(m)
  BY <1>2 DEF Shown
<1> HIDE DEF e
<1>6. e.bdf = d /\ e.memory = DeviceMemory(m, d) /\ e.temperature = Temperature(m, d)
  BY DEF e
<1> QED BY <1>3, <1>4, <1>5, <1>6
=============================================================================
