--------------------------- MODULE HostRatesProofs ---------------------------
(***************************************************************************)
(* Proofs about HostRates, for any interfaces, any width of the counters   *)
(* that holds them, and any number of ticks, bytes and rounds.             *)
(***************************************************************************)
EXTENDS HostRates, TLAPS

(* What the kernel and the auxiliary variables hold.                       *)
KernelType ==
    /\ cpu \in [total : 1 .. MaxTicks, idle : 0 .. MaxTicks]
    /\ nic \in [Names -> [up : BOOLEAN, bytes : Nat]]
    /\ busy \in Nat
    /\ fell \in 0 .. MaxFall
    /\ received \in [Names -> 0 .. MaxBytes]
    /\ counted \in [Names -> Nat]
    /\ since \in [Names -> [read : BOOLEAN, bytes : Nat,
                            at : 0 .. MaxRound, replaced : BOOLEAN]]

(* Functions from some of the names.                                       *)
Table(T) == UNION {[S -> T] : S \in SUBSET Names}

(* What the worker keeps and returns.                                      *)
WorkerType ==
    /\ now \in 0 .. MaxRound
    /\ phase # "idle" => now > 0
    /\ phase \in {"idle", "cpu", "network", "returned"}
    /\ prevCPU \in [total : 0 .. MaxTicks, idle : 0 .. MaxTicks]
    /\ cpuPercent \in [amount : Nat, of : Nat]
    /\ prevNet \in Table([bytes : Nat, time : Nat])
    /\ networks \in Table([amount : 0 .. MaxBytes, of : 0 .. MaxRound])

(* The CPU: the ticks that are not idle are those of the sample and the    *)
(* busy ones since, and idle has fallen by no more than it was seen to.    *)
BusyOK ==
    /\ cpu.idle <= cpu.total
    /\ prevCPU.idle <= prevCPU.total
    /\ cpu.total - cpu.idle = prevCPU.total - prevCPU.idle + busy
    /\ prevCPU.idle - cpu.idle <= fell

(* A sample is kept of exactly the interfaces that the last complete       *)
(* reading saw, it is of an earlier round until the present one is read,   *)
(* and what an interface received since is the difference to its counter,  *)
(* unless another one has its name now, which has counted no more.         *)
SampleOf(n) ==
    /\ n \in DOMAIN prevNet <=> since[n].read
    /\ since[n].read =>
          /\ prevNet[n].time = since[n].at
          /\ prevNet[n].bytes \in 0 .. received[n]
          /\ since[n].at \in 1 .. now
          /\ phase \in {"cpu", "network"} => since[n].at < now
          /\ since[n].replaced => nic[n].bytes <= since[n].bytes
          /\ ~since[n].replaced =>
                nic[n].bytes = prevNet[n].bytes + since[n].bytes
    /\ ~since[n].read => since[n].bytes = 0 /\ ~since[n].replaced

SampleOK == \A n \in Names : SampleOf(n)

(* What the snapshots have shown, what the result on its way shows, and    *)
(* what came since the last reading are parts of what was received, and no *)
(* two of them have a byte in common.                                      *)
Pending(n) ==
    IF phase = "returned" /\ n \in DOMAIN networks THEN networks[n].amount ELSE 0

Ledger ==
    \A n \in Names :
        /\ nic[n].bytes <= received[n]
        /\ Pending(n) \in Nat
        /\ counted[n] + Pending(n) + since[n].bytes <= received[n]

IndInv == KernelType /\ WorkerType /\ BusyOK /\ SampleOK /\ Ledger

-----------------------------------------------------------------------------
(* The arithmetic of uint64 numbers: a difference that is no wrapped one,  *)
(* and one that is.                                                        *)
LEMMA MinusExact ==
    ASSUME NEW a \in Int, NEW b \in Int, b <= a, a - b < Word
    PROVE  Minus(a, b) = a - b
<1>1. Word \in Nat
  BY BoundsAssumption
<1>2. a - b \in 0 .. Word - 1
  BY <1>1
<1> QED BY <1>1, <1>2 DEF Minus

LEMMA MinusWrapped ==
    ASSUME NEW a \in Int, NEW b \in Int, a < b, b - a < Word
    PROVE  Minus(a, b) = a - b + Word
<1>1. Word \in Nat
  BY BoundsAssumption
<1>2. a - b \in -Word .. -1
  BY <1>1
<1> QED BY <1>1, <1>2 DEF Minus

(* A difference of differences is right even if the second one wrapped.    *)
LEMMA MinusTwice ==
    ASSUME NEW a \in Int, NEW b \in Int, NEW c \in Int,
           0 <= a - (b - c), a - (b - c) < Word, b - c < Word, c - b < Word
    PROVE  Minus(a, Minus(b, c)) = a - (b - c)
<1>1. Word \in Nat
  BY BoundsAssumption
<1>2. CASE c <= b
  <2>1. Minus(b, c) = b - c
    BY <1>2, MinusExact
  <2> QED BY <2>1, MinusExact
<1>3. CASE b < c
  <2>1. Minus(b, c) = b - c + Word
    BY <1>3, MinusWrapped
  <2>2. a < b - c + Word
    BY <1>1
  <2>3. CASE b - c + Word - a < Word
    BY <1>1, <2>1, <2>2, <2>3, MinusWrapped
  <2>4. CASE b - c + Word - a = Word
    BY <1>1, <2>1, <2>4 DEF Minus
  <2> QED BY <1>1, <2>3, <2>4
<1> QED BY <1>2, <1>3

LEMMA TableType ==
    ASSUME NEW T, NEW m
    PROVE  m \in Table(T) <=>
              /\ DOMAIN m \subseteq Names
              /\ m = [n \in DOMAIN m |-> m[n]]
              /\ \A n \in DOMAIN m : m[n] \in T
BY DEF Table

LEMMA EmptyTable ==
    ASSUME NEW T
    PROVE  Empty \in Table(T) /\ DOMAIN Empty = {}
BY TableType DEF Empty

-----------------------------------------------------------------------------
LEMMA InitIndInv == Init => IndInv
<1> SUFFICES ASSUME Init PROVE IndInv
  OBVIOUS
<1> USE BoundsAssumption DEF Init
<1>1. KernelType
  BY DEF KernelType, Unread
<1>2. WorkerType
  BY EmptyTable DEF WorkerType, NoRate
<1>3. BusyOK
  BY DEF BusyOK
<1>4. SampleOK /\ Ledger
  <2>1. DOMAIN prevNet = {}
    BY DEF Empty
  <2> QED BY <2>1 DEF SampleOK, SampleOf, Ledger, Pending, Unread
<1> QED BY <1>1, <1>2, <1>3, <1>4 DEF IndInv

(* What the kernel and the worker do to the CPU.                           *)
LEMMA CPUPercentValue ==
    ASSUME KernelType, WorkerType, BusyOK, CPUPercent(prevCPU, cpu) # NoRate
    PROVE  /\ CPUPercent(prevCPU, cpu).amount = busy
           /\ CPUPercent(prevCPU, cpu).of = cpu.total - prevCPU.total
           /\ busy <= cpu.total - prevCPU.total + fell
<1> DEFINE totalDelta == cpu.total - prevCPU.total
           idleDelta  == cpu.idle - prevCPU.idle
<1>1. /\ cpu.total \in 1 .. MaxTicks /\ cpu.idle \in 0 .. MaxTicks
      /\ prevCPU.total \in 0 .. MaxTicks /\ prevCPU.idle \in 0 .. MaxTicks
      /\ MaxTicks \in Nat /\ Word \in Nat /\ MaxTicks < Word /\ busy \in Nat
      /\ fell \in Nat
  BY BoundsAssumption DEF KernelType, WorkerType
<1>2. cpu.total > prevCPU.total
  BY DEF CPUPercent
<1>3. Minus(cpu.total, prevCPU.total) = totalDelta
  BY <1>1, <1>2, MinusExact
<1>4. totalDelta - idleDelta = busy
  BY <1>1 DEF BusyOK
<1>5. busy < Word
  BY <1>1 DEF BusyOK
<1>6. Minus(totalDelta, Minus(cpu.idle, prevCPU.idle)) = busy
  <2>1. /\ totalDelta \in Int /\ cpu.idle \in Int /\ prevCPU.idle \in Int
        /\ cpu.idle - prevCPU.idle < Word /\ prevCPU.idle - cpu.idle < Word
        /\ totalDelta - (cpu.idle - prevCPU.idle) = busy
    BY <1>1, <1>4
  <2>2. 0 <= busy /\ busy < Word
    BY <1>1, <1>5
  <2> HIDE DEF totalDelta, idleDelta
  <2>3. Minus(totalDelta, Minus(cpu.idle, prevCPU.idle))
          = totalDelta - (cpu.idle - prevCPU.idle)
    BY ONLY <2>1, <2>2, MinusTwice
  <2> QED BY <2>1, <2>3
<1>7. busy <= totalDelta + fell
  BY <1>1 DEF BusyOK
<1>8. CPUPercent(prevCPU, cpu) = [amount |-> busy, of |-> totalDelta]
  BY <1>3, <1>6 DEF CPUPercent
<1> HIDE DEF totalDelta, idleDelta
<1> QED BY <1>7, <1>8 DEF totalDelta

LEMMA CPUPercentType ==
    ASSUME KernelType, WorkerType, BusyOK
    PROVE  CPUPercent(prevCPU, cpu) \in [amount : Nat, of : Nat]
<1>1. CASE CPUPercent(prevCPU, cpu) = NoRate
  BY <1>1 DEF NoRate
<1>2. CASE CPUPercent(prevCPU, cpu) # NoRate
  <2>1. CPUPercent(prevCPU, cpu) =
          [amount |-> CPUPercent(prevCPU, cpu).amount,
           of     |-> CPUPercent(prevCPU, cpu).of]
    BY <1>2 DEF CPUPercent
  <2>2. cpu.total > prevCPU.total
    BY <1>2 DEF CPUPercent
  <2>3. cpu.total - prevCPU.total \in Nat /\ busy \in Nat
    BY <2>2 DEF KernelType, WorkerType
  <2> QED BY <1>2, <2>1, <2>3, CPUPercentValue
<1> QED BY <1>1, <1>2

LEMMA CPUStep ==
    ASSUME IndInv, IdleTick \/ BusyTick \/ Dip \/ SampleCPU \/ CPUUnreadable
    PROVE  IndInv'
<1> USE BoundsAssumption DEF IndInv
<1>1. /\ UNCHANGED <<netVars, now>>
      /\ phase' = phase \/ (phase' = "network" /\ phase = "cpu")
  BY DEF IdleTick, BusyTick, Dip, SampleCPU, CPUUnreadable, netVars
<1>2. SampleOK' /\ Ledger'
  BY <1>1 DEF netVars, SampleOK, SampleOf, Ledger, Pending
<1>3. CASE IdleTick \/ BusyTick \/ Dip
  <2>1. CASE IdleTick
    BY <1>1, <1>2, <2>1 DEF IdleTick, netVars, KernelType, WorkerType, BusyOK
  <2>2. CASE BusyTick
    <3>1. /\ cpu'.total = cpu.total + 1 /\ cpu'.idle = cpu.idle
          /\ cpu' \in [total : 1 .. MaxTicks, idle : 0 .. MaxTicks]
      BY <2>2 DEF BusyTick, KernelType
    <3>2. busy' = busy + 1 /\ UNCHANGED <<fell, prevCPU, cpuPercent, phase>>
      BY <2>2 DEF BusyTick
    <3>3. KernelType' /\ WorkerType'
      BY <1>1, <3>1, <3>2 DEF netVars, KernelType, WorkerType
    <3>4. BusyOK'
      <4>1. /\ cpu.total \in Int /\ cpu.idle \in Int /\ busy \in Int
            /\ prevCPU.total \in Int /\ prevCPU.idle \in Int /\ fell \in Int
        BY DEF KernelType, WorkerType
      <4> QED BY ONLY BusyOK, <3>1, <3>2, <4>1 DEF BusyOK
    <3> QED BY <1>2, <3>3, <3>4
  <2>3. CASE Dip
    BY <1>1, <1>2, <2>3 DEF Dip, netVars, KernelType, WorkerType, BusyOK
  <2> QED BY <1>3, <2>1, <2>2, <2>3
<1>4. CASE SampleCPU \/ CPUUnreadable
  <2>1. cpuPercent' \in [amount : Nat, of : Nat]
    BY <1>4, CPUPercentType DEF SampleCPU, CPUUnreadable, NoRate
  <2>2. KernelType' /\ WorkerType' /\ BusyOK'
    BY <1>1, <1>4, <2>1
       DEF SampleCPU, CPUUnreadable, netVars, KernelType, WorkerType, BusyOK
  <2> QED BY <1>2, <2>2
<1> QED BY <1>3, <1>4

(* What happens to the interfaces.                                         *)
LEMMA InterfaceStep ==
    ASSUME IndInv, NEW n \in Names, Traffic(n) \/ Remove(n) \/ Add(n)
    PROVE  IndInv'
<1> USE BoundsAssumption DEF IndInv
<1>1. UNCHANGED <<cpuVars, counted, prevNet, networks, now, phase>>
  BY DEF Traffic, Remove, Add
<1>2. BusyOK' /\ WorkerType'
  BY <1>1 DEF cpuVars, BusyOK, WorkerType
<1>3. CASE Traffic(n)
  <2>1. /\ nic' = [nic EXCEPT ![n].bytes = @ + 1]
        /\ received' = [received EXCEPT ![n] = @ + 1]
        /\ since' = [since EXCEPT ![n].bytes = IF since[n].read THEN @ + 1 ELSE @]
        /\ received[n] < MaxBytes
    BY <1>3 DEF Traffic
  <2>2. KernelType'
    BY <1>1, <2>1 DEF cpuVars, KernelType
  <2>3. ASSUME NEW m \in Names
        PROVE  /\ m # n => /\ nic'[m] = nic[m] /\ since'[m] = since[m]
                          /\ received'[m] = received[m]
               /\ nic'[n].bytes = nic[n].bytes + 1
               /\ received'[n] = received[n] + 1
               /\ since'[n] = [since[n] EXCEPT
                                 !.bytes = IF since[n].read THEN @ + 1 ELSE @]
    BY <2>1 DEF KernelType
  <2>4. SampleOK'
    <3> SUFFICES ASSUME NEW m \in Names
                 PROVE  SampleOf(m)'
      BY DEF SampleOK
    <3>1. CASE m # n
      BY <1>1, <2>3, <3>1 DEF SampleOK, SampleOf
    <3>2. CASE m = n
      BY <1>1, <2>3, <3>2 DEF KernelType, SampleOK, SampleOf
    <3> QED BY <3>1, <3>2
  <2>5. Ledger'
    BY <1>1, <2>3 DEF KernelType, SampleOK, SampleOf, Ledger, Pending
  <2> QED BY <1>2, <2>2, <2>4, <2>5
<1>4. CASE Remove(n)
  <2>1. /\ nic' = [nic EXCEPT ![n].up = FALSE]
        /\ UNCHANGED <<received, since>>
    BY <1>4 DEF Remove
  <2>2. KernelType'
    BY <1>1, <2>1 DEF cpuVars, KernelType
  <2>3. \A m \in Names : nic'[m].bytes = nic[m].bytes
    BY <2>1 DEF KernelType
  <2>4. SampleOK' /\ Ledger'
    BY <1>1, <2>1, <2>3 DEF SampleOK, SampleOf, Ledger, Pending
  <2> QED BY <1>2, <2>2, <2>4
<1>5. CASE Add(n)
  <2>1. /\ nic' = [nic EXCEPT ![n] = [up |-> TRUE, bytes |-> 0]]
        /\ since' = [since EXCEPT ![n].replaced = since[n].read]
        /\ UNCHANGED received
    BY <1>5 DEF Add
  <2>2. KernelType'
    BY <1>1, <2>1 DEF cpuVars, KernelType
  <2>3. SampleOK'
    BY <1>1, <2>1 DEF KernelType, WorkerType, SampleOK, SampleOf
  <2>4. Ledger'
    BY <1>1, <2>1 DEF KernelType, Ledger, Pending
  <2> QED BY <1>2, <2>2, <2>3, <2>4
<1> QED BY <1>3, <1>4, <1>5

-----------------------------------------------------------------------------
(* The rate that a reading shows of an interface it sees.                  *)
LEMMA RateValue ==
    ASSUME IndInv, phase = "network", NEW n \in Names, since[n].read
    PROVE  LET rate == Rate(prevNet[n], nic[n].bytes)
           IN  /\ rate \in [amount : 0 .. MaxBytes, of : 0 .. MaxRound]
               /\ rate.amount <= since[n].bytes
               /\ ~since[n].replaced =>
                     rate = [amount |-> since[n].bytes, of |-> now - since[n].at]
<1> DEFINE old  == prevNet[n]
           rate == Rate(old, nic[n].bytes)
<1>1. /\ old.time = since[n].at /\ old.time \in 1 .. now /\ now > old.time
      /\ old.bytes \in Nat /\ nic[n].bytes \in 0 .. MaxBytes
      /\ since[n].bytes \in Nat /\ now \in 0 .. MaxRound
      /\ MaxBytes \in Nat /\ MaxRound \in Nat /\ Word \in Nat /\ MaxBytes < Word
  BY BoundsAssumption DEF IndInv, KernelType, WorkerType, SampleOK, SampleOf, Ledger
<1>2. CASE nic[n].bytes >= old.bytes
  <2>1. Minus(nic[n].bytes, old.bytes) = nic[n].bytes - old.bytes
    BY <1>1, <1>2, MinusExact
  <2>2. rate = [amount |-> nic[n].bytes - old.bytes, of |-> now - old.time]
    BY <1>1, <1>2, <2>1 DEF Rate
  <2>3. nic[n].bytes - old.bytes <= since[n].bytes
    BY <1>1, <1>2 DEF IndInv, SampleOK, SampleOf
  <2>4. ~since[n].replaced => nic[n].bytes - old.bytes = since[n].bytes
    BY <1>1 DEF IndInv, SampleOK, SampleOf
  <2>5. nic[n].bytes - old.bytes \in 0 .. MaxBytes /\ now - old.time \in 0 .. MaxRound
    BY <1>1, <1>2
  <2> QED BY <1>1, <2>2, <2>3, <2>4, <2>5
<1>3. CASE ~(nic[n].bytes >= old.bytes)
  <2>1. rate = NoRate
    BY <1>3 DEF Rate
  <2>2. since[n].replaced
    BY <1>1, <1>3 DEF IndInv, SampleOK, SampleOf
  <2> QED BY <1>1, <2>1, <2>2 DEF NoRate
<1> QED BY <1>2, <1>3

(* One reading: what becomes of each name.                                 *)
LEMMA ReadingValue ==
    ASSUME IndInv, phase = "network", NEW seen \in SUBSET Names
    PROVE  /\ DOMAIN Rates(seen) = seen
           /\ Rates(seen) \in Table([amount : 0 .. MaxBytes, of : 0 .. MaxRound])
           /\ \A n \in seen : /\ Rates(seen)[n].amount \in 0 .. MaxBytes
                             /\ Rates(seen)[n].amount <= since[n].bytes
           /\ Samples(seen) \in Table([bytes : Nat, time : Nat])
           /\ SinceReading(seen) \in
                 [Names -> [read : BOOLEAN, bytes : Nat,
                            at : 0 .. MaxRound, replaced : BOOLEAN]]
<1>1. /\ MaxBytes \in Nat /\ MaxRound \in Nat /\ now \in 0 .. MaxRound
      /\ \A n \in Names : nic[n].bytes \in Nat /\ since[n].bytes \in Nat
  BY BoundsAssumption DEF IndInv, KernelType, WorkerType
<1>2. ASSUME NEW n \in seen
      PROVE  /\ Rates(seen)[n] \in [amount : 0 .. MaxBytes, of : 0 .. MaxRound]
             /\ Rates(seen)[n].amount <= since[n].bytes
  <2>1. CASE since[n].read
    <3>1. n \in DOMAIN prevNet
      BY <2>1 DEF IndInv, SampleOK, SampleOf
    <3>2. Rates(seen)[n] = Rate(prevNet[n], nic[n].bytes)
      BY <3>1 DEF Rates
    <3> QED BY <2>1, <3>2, RateValue
  <2>2. CASE ~since[n].read
    <3>1. n \notin DOMAIN prevNet
      BY <2>2 DEF IndInv, SampleOK, SampleOf
    <3> QED BY <1>1, <3>1 DEF Rates, NoRate
  <2> QED BY <2>1, <2>2
<1>3. Rates(seen) \in Table([amount : 0 .. MaxBytes, of : 0 .. MaxRound])
  <2>1. DOMAIN Rates(seen) = seen /\ Rates(seen) = [n \in seen |-> Rates(seen)[n]]
    BY DEF Rates
  <2> QED BY <1>2, <2>1, TableType
<1>4. Samples(seen) \in Table([bytes : Nat, time : Nat])
  <2>1. Samples(seen) \in [seen -> [bytes : Nat, time : Nat]]
    BY <1>1 DEF Samples
  <2> QED BY <2>1 DEF Table
<1>5. SinceReading(seen) \in
         [Names -> [read : BOOLEAN, bytes : Nat,
                    at : 0 .. MaxRound, replaced : BOOLEAN]]
  BY <1>1 DEF SinceReading, Unread
<1> QED BY <1>2, <1>3, <1>4, <1>5 DEF Rates

LEMMA ReadNetworksStep ==
    ASSUME IndInv, ReadNetworks
    PROVE  IndInv'
<1> USE BoundsAssumption DEF IndInv
<1>1. PICK seen \in SUBSET Names :
        /\ networks' = Rates(seen)
        /\ prevNet' = Samples(seen)
        /\ since' = SinceReading(seen)
  BY DEF ReadNetworks
<1>2. /\ phase = "network" /\ phase' = "returned"
      /\ UNCHANGED <<cpuVars, nic, received, counted, now>>
  BY DEF ReadNetworks
<1>3. KernelType' /\ WorkerType' /\ BusyOK'
  BY <1>1, <1>2, ReadingValue DEF cpuVars, KernelType, WorkerType, BusyOK
<1>4. now \in Nat /\ now # 0
  BY <1>2 DEF WorkerType
<1>5. SampleOK'
  <2> SUFFICES ASSUME NEW n \in Names PROVE SampleOf(n)'
    BY DEF SampleOK
  <2>1. nic[n].bytes \in 0 .. received[n]
    BY DEF KernelType, Ledger
  <2>2. CASE n \in seen
    BY <1>1, <1>2, <1>4, <2>1, <2>2 DEF SampleOf, Samples, SinceReading
  <2>3. CASE n \notin seen
    BY <1>1, <1>2, <2>3 DEF SampleOf, Samples, SinceReading, Unread
  <2> QED BY <2>2, <2>3
<1>6. Ledger'
  <2> SUFFICES ASSUME NEW n \in Names
               PROVE  /\ Pending(n)' \in Nat
                      /\ counted[n] + Pending(n)' + since'[n].bytes <= received[n]
    BY <1>2 DEF Ledger
  <2>1. /\ counted[n] \in Nat /\ since[n].bytes \in Nat /\ received[n] \in Nat
        /\ counted[n] + since[n].bytes <= received[n]
    BY <1>2 DEF KernelType, Ledger, Pending
  <2>2. since'[n].bytes = 0
    BY <1>1 DEF SinceReading, Unread
  <2>3. CASE n \in seen
    <3>1. /\ Pending(n)' = Rates(seen)[n].amount
          /\ Rates(seen)[n].amount \in Nat
          /\ Rates(seen)[n].amount <= since[n].bytes
      BY <1>1, <1>2, <2>3, ReadingValue DEF Pending
    <3> QED BY <2>1, <2>2, <3>1
  <2>4. CASE n \notin seen
    BY <1>1, <1>2, <2>1, <2>2, <2>4, ReadingValue DEF Pending
  <2> QED BY <2>3, <2>4
<1> QED BY <1>3, <1>5, <1>6

LEMMA WorkerStep ==
    ASSUME IndInv, StartRound \/ NetworksUnreadable \/ Deliver \/ Drop
    PROVE  IndInv'
<1> USE BoundsAssumption DEF IndInv
<1>1. UNCHANGED <<cpuVars, nic, received, since, prevNet>>
  BY DEF StartRound, NetworksUnreadable, Deliver, Drop, netVars
<1>2. BusyOK'
  BY <1>1 DEF cpuVars, BusyOK
<1>3. CASE StartRound
  BY <1>1, <1>2, <1>3
     DEF StartRound, netVars, cpuVars, KernelType, WorkerType, SampleOK, SampleOf,
         Ledger, Pending
<1>4. CASE NetworksUnreadable
  <2>1. WorkerType'
    BY <1>1, <1>4, EmptyTable DEF NetworksUnreadable, cpuVars, WorkerType
  <2>2. \A n \in Names : Pending(n)' = 0 /\ Pending(n) = 0
    BY <1>4, EmptyTable DEF NetworksUnreadable, Pending
  <2>3. KernelType' /\ SampleOK' /\ Ledger'
    BY <1>1, <1>4, <2>2
       DEF NetworksUnreadable, cpuVars, KernelType, SampleOK, SampleOf, Ledger
  <2> QED BY <1>2, <2>1, <2>3
<1>5. CASE Deliver
  <2>1. \A n \in Names : /\ counted'[n] = counted[n] + Pending(n)
                         /\ Pending(n)' = 0
                         /\ counted[n] \in Nat /\ Pending(n) \in Nat
    BY <1>5 DEF Deliver, KernelType, Ledger, Pending
  <2>2. KernelType'
    <3>1. counted' \in [Names -> Nat]
      <4>1. counted' = [n \in Names |-> counted'[n]]
        BY <1>5 DEF Deliver
      <4>2. \A n \in Names : counted'[n] \in Nat
        BY <2>1
      <4> QED BY <4>1, <4>2
    <3> QED BY <1>1, <3>1 DEF cpuVars, KernelType
  <2>3. WorkerType' /\ SampleOK'
    BY <1>1, <1>5 DEF Deliver, cpuVars, WorkerType, SampleOK, SampleOf
  <2>4. Ledger'
    BY <1>1, <2>1 DEF KernelType, Ledger
  <2> QED BY <1>2, <2>2, <2>3, <2>4
<1>6. CASE Drop
  BY <1>1, <1>2, <1>6
     DEF Drop, netVars, cpuVars, KernelType, WorkerType, SampleOK, SampleOf,
         Ledger, Pending
<1> QED BY <1>3, <1>4, <1>5, <1>6

LEMMA NextIndInv == IndInv /\ [Next]_vars => IndInv'
<1> SUFFICES ASSUME IndInv, [Next]_vars PROVE IndInv'
  OBVIOUS
<1>1. CASE UNCHANGED vars
  BY <1>1
     DEF vars, cpuVars, netVars, IndInv, KernelType, WorkerType, BusyOK, SampleOK,
         SampleOf, Ledger, Pending
<1>2. CASE Next
  BY <1>2, CPUStep, InterfaceStep, ReadNetworksStep, WorkerStep DEF Next
<1> QED BY <1>1, <1>2

LEMMA Inductive == Spec => []IndInv
BY InitIndInv, NextIndInv, PTL DEF Spec

-----------------------------------------------------------------------------
(* Every reachable state is well typed: neither the deltas of the CPU nor  *)
(* those of an interface leave the range of the counters.                  *)
THEOREM TypeCorrect == Spec => []TypeOK
<1>1. IndInv => TypeOK
  <2> SUFFICES ASSUME IndInv PROVE TypeOK
    OBVIOUS
  <2> USE BoundsAssumption DEF IndInv
  <2>1. ASSUME NEW n \in Names
        PROVE  /\ nic[n] \in [up : BOOLEAN, bytes : 0 .. MaxBytes]
               /\ since[n] \in [read : BOOLEAN, bytes : 0 .. MaxBytes,
                                at : 0 .. MaxRound, replaced : BOOLEAN]
    BY DEF KernelType, Ledger
  <2>2. nic \in [Names -> [up : BOOLEAN, bytes : 0 .. MaxBytes]]
    BY <2>1 DEF KernelType
  <2>3. since \in [Names -> [read : BOOLEAN, bytes : 0 .. MaxBytes,
                             at : 0 .. MaxRound, replaced : BOOLEAN]]
    BY <2>1 DEF KernelType
  <2>4. \E S \in SUBSET Names :
           prevNet \in [S -> [bytes : 0 .. MaxBytes, time : 1 .. MaxRound]]
    <3>1. ASSUME NEW n \in DOMAIN prevNet
          PROVE  prevNet[n] \in [bytes : 0 .. MaxBytes, time : 1 .. MaxRound]
      <4>1. prevNet \in Table([bytes : Nat, time : Nat])
        BY DEF WorkerType
      <4>2. n \in Names /\ prevNet[n] \in [bytes : Nat, time : Nat]
        BY ONLY <4>1, <3>1, TableType
      <4>3. prevNet[n].bytes \in 0 .. MaxBytes /\ prevNet[n].time \in 1 .. MaxRound
        <5>1. /\ prevNet[n].bytes \in 0 .. received[n]
              /\ prevNet[n].time \in 1 .. now
          BY <4>2 DEF SampleOK, SampleOf
        <5>2. received[n] \in 0 .. MaxBytes /\ now \in 0 .. MaxRound
          BY <4>2 DEF KernelType, WorkerType
        <5> QED BY <5>1, <5>2
      <4> QED BY <4>2, <4>3
    <3>2. DOMAIN prevNet \subseteq Names /\ prevNet = [n \in DOMAIN prevNet |-> prevNet[n]]
      BY TableType DEF WorkerType
    <3> QED BY <3>1, <3>2
  <2>5. \E S \in SUBSET Names :
           networks \in [S -> [amount : 0 .. MaxBytes, of : 0 .. MaxRound]]
    BY DEF WorkerType, Table
  <2> QED BY <2>2, <2>3, <2>4, <2>5 DEF KernelType, WorkerType, BusyOK, TypeOK
<1> QED BY <1>1, Inductive, PTL

(* No byte is shown in two rounds, whichever results are dropped, files    *)
(* unreadable and interfaces replaced (host.go:498-534, collector.go:118). *)
THEOREM BytesAreShownOnce == Spec => []NoByteTwice
<1>1. IndInv => NoByteTwice
  <2> SUFFICES ASSUME IndInv, NEW n \in Names PROVE counted[n] <= received[n]
    BY DEF NoByteTwice
  <2>1. /\ counted[n] \in Nat /\ Pending(n) \in Nat /\ since[n].bytes \in Nat
        /\ received[n] \in Nat
        /\ counted[n] + Pending(n) + since[n].bytes <= received[n]
    BY DEF IndInv, KernelType, Ledger
  <2> QED BY <2>1
<1> QED BY <1>1, Inductive, PTL

(* The CPU percentage is that of the ticks since the last sample, and      *)
(* never that of a wrapped number (host.go:32-43).                         *)
THEOREM CPUPercentIsExact == Spec => CPUPercentExact
<1>1. ASSUME IndInv, SampleCPU, cpuPercent' # NoRate
      PROVE  /\ cpuPercent'.amount = busy
             /\ cpuPercent'.amount <= cpuPercent'.of + fell
  <2>1. cpuPercent' = CPUPercent(prevCPU, cpu)
    BY <1>1 DEF SampleCPU
  <2> QED BY <1>1, <2>1, CPUPercentValue DEF IndInv
<1>2. IndInv /\ [Next]_vars =>
        [SampleCPU /\ cpuPercent' # NoRate =>
            /\ cpuPercent'.amount = busy
            /\ cpuPercent'.amount <= cpuPercent'.of + fell]_vars
  BY <1>1
<1> QED BY <1>2, Inductive, PTL DEF Spec, CPUPercentExact

(* The throughput shown is the traffic since the interface was last read   *)
(* over the time since then, also across rounds that were dropped or could *)
(* not read, and it is too low, never too high, behind a name that was     *)
(* given to another interface (host.go:498-534).                           *)
THEOREM ThroughputIsExact == Spec => ThroughputExact
<1> DEFINE RateOK(n) ==
              LET rate == networks'[n]
              IN  IF ~since[n].read THEN rate = NoRate
                  ELSE IF since[n].replaced THEN rate.amount <= since[n].bytes
                  ELSE rate = [amount |-> since[n].bytes, of |-> now - since[n].at]
<1>1. ASSUME IndInv, ReadNetworks, NEW n \in DOMAIN networks' PROVE RateOK(n)
  <2>1. PICK seen \in SUBSET Names : networks' = Rates(seen)
    BY <1>1 DEF ReadNetworks
  <2>2. phase = "network" /\ n \in seen /\ n \in Names
    BY <1>1, <2>1 DEF ReadNetworks, Rates
  <2>3. networks'[n] = IF n \in DOMAIN prevNet THEN Rate(prevNet[n], nic[n].bytes)
                                               ELSE NoRate
    BY <2>1, <2>2 DEF Rates
  <2>4. n \in DOMAIN prevNet <=> since[n].read
    BY <1>1, <2>2 DEF IndInv, SampleOK, SampleOf
  <2>5. CASE since[n].read
    BY <1>1, <2>2, <2>3, <2>4, <2>5, RateValue
  <2>6. CASE ~since[n].read
    BY <2>3, <2>4, <2>6
  <2> QED BY <2>5, <2>6
<1>2. IndInv /\ [Next]_vars => [ReadNetworks => \A n \in DOMAIN networks' : RateOK(n)]_vars
  BY <1>1
<1> QED BY <1>2, Inductive, PTL DEF Spec, ThroughputExact
=============================================================================
