------------------------------- MODULE HostRates -------------------------------
(***************************************************************************)
(* The rates of the host: the CPU percentage (readCPU and the head of      *)
(* collectHost in host.go) and the throughput of the network interfaces    *)
(* (collectNetworks), and what becomes of the result in Collect.           *)
(*                                                                         *)
(* Each round compares the counters of /proc/stat and /proc/net/dev with   *)
(* those that an earlier round kept.  They are replaced while the worker   *)
(* runs, whether or not its result still gets into the snapshot: one that  *)
(* comes at the deadline may be dropped.  Either file may be unreadable,   *)
(* the second may break off; interfaces come and go, and begin to count at *)
(* zero.  Rounds do not overlap (Collector!RoundJoined).                   *)
(*                                                                         *)
(* A rate is kept as the two numbers the code divides.  One counter stands *)
(* for the received and for the sent bytes, and the time of a round (the   *)
(* now of Collect) is its number.                                          *)
(***************************************************************************)
EXTENDS Integers

CONSTANTS
    Names,          \* the physical interfaces there may be
    Word,           \* the number of values of a counter (2^64 in the code)
    MaxTicks,       \* bound: the sum of the counters of the CPU
    MaxFall,        \* bound: how far idle falls between two samples
    MaxBytes,       \* bound: the traffic of a name
    MaxRound        \* bound: the rounds

ASSUME BoundsAssumption ==
    /\ MaxTicks \in Nat \ {0} /\ MaxFall \in Nat
    /\ MaxBytes \in Nat /\ MaxRound \in Nat
    /\ Word \in Nat /\ Word > MaxBytes /\ Word > MaxTicks

VARIABLES
    cpu,            \* the cpu line of /proc/stat: its sum, idle with iowait
    nic,            \* /proc/net/dev: who is up, and the counters
    busy,           \* auxiliary: the busy ticks since prevCPU was taken ...
    fell,           \* ... and how far idle fell
    received,       \* auxiliary: all the traffic of a name so far ...
    counted,        \* ... and how much of it snapshots have shown
    since,          \* auxiliary: per name, what happened since it was read
    now,            \* the round
    phase,          \* the worker: "idle", at the "cpu" or the "network", or
                    \* it has "returned"
    prevCPU,        \* c.prevCPU
    prevNet,        \* c.prevNet
    cpuPercent,     \* the CPU percentage in the worker's result
    networks        \* the interfaces in it

cpuVars == <<cpu, busy, fell, prevCPU, cpuPercent>>
netVars == <<nic, received, counted, since, prevNet, networks>>
vars == <<cpuVars, netVars, now, phase>>

Minus(a, b) == (a - b) % Word       \* a subtraction of uint64 numbers

Empty  == [n \in {} |-> 0]
NoRate == [amount |-> 0, of |-> 0]  \* for the CPU -1: not known
Unread == [read |-> FALSE, bytes |-> 0, at |-> 0, replaced |-> FALSE]

-----------------------------------------------------------------------------
Init ==
    /\ cpu = [total |-> 1, idle |-> 1]
    /\ nic = [n \in Names |-> [up |-> FALSE, bytes |-> 0]]
    /\ busy = 0
    /\ fell = 0
    /\ received = [n \in Names |-> 0]
    /\ counted = [n \in Names |-> 0]
    /\ since = [n \in Names |-> Unread]
    /\ now = 0
    /\ phase = "idle"
    /\ prevCPU = [total |-> 0, idle |-> 0]
    /\ prevNet = Empty
    /\ cpuPercent = NoRate
    /\ networks = Empty

(* The kernel.                                                             *)

IdleTick ==
    /\ cpu.total < MaxTicks
    /\ cpu' = [total |-> cpu.total + 1, idle |-> cpu.idle + 1]
    /\ UNCHANGED <<busy, fell, prevCPU, cpuPercent, netVars, now, phase>>

BusyTick ==
    /\ cpu.total < MaxTicks
    /\ cpu' = [cpu EXCEPT !.total = @ + 1]
    /\ busy' = busy + 1
    /\ UNCHANGED <<fell, prevCPU, cpuPercent, netVars, now, phase>>

(* The iowait counter may decrease, and the sum with it.                   *)
Dip ==
    /\ fell < MaxFall
    /\ cpu.total > 1 /\ cpu.idle > 0
    /\ cpu' = [total |-> cpu.total - 1, idle |-> cpu.idle - 1]
    /\ fell' = fell + 1
    /\ UNCHANGED <<busy, prevCPU, cpuPercent, netVars, now, phase>>

Traffic(n) ==
    /\ nic[n].up
    /\ received[n] < MaxBytes
    /\ nic' = [nic EXCEPT ![n].bytes = @ + 1]
    /\ received' = [received EXCEPT ![n] = @ + 1]
    /\ since' = [since EXCEPT ![n].bytes = IF since[n].read THEN @ + 1 ELSE @]
    /\ UNCHANGED <<cpuVars, counted, prevNet, networks, now, phase>>

Remove(n) ==
    /\ nic[n].up
    /\ nic' = [nic EXCEPT ![n].up = FALSE]
    /\ UNCHANGED <<cpuVars, received, counted, since, prevNet, networks, now, phase>>

(* An interface is registered, perhaps under a name that was used before.  *)
Add(n) ==
    /\ ~nic[n].up
    /\ nic' = [nic EXCEPT ![n] = [up |-> TRUE, bytes |-> 0]]
    /\ since' = [since EXCEPT ![n].replaced = since[n].read]
    /\ UNCHANGED <<cpuVars, received, counted, prevNet, networks, now, phase>>

-----------------------------------------------------------------------------
(* The host worker.                                                        *)

StartRound ==
    /\ phase = "idle"
    /\ now < MaxRound
    /\ now' = now + 1
    /\ phase' = "cpu"
    /\ UNCHANGED <<cpuVars, netVars>>

CPUPercent(prev, current) ==
    IF prev.total > 0 /\ current.total > prev.total
    THEN LET totalDelta == Minus(current.total, prev.total)
             idleDelta  == Minus(current.idle, prev.idle)
         IN  [amount |-> Minus(totalDelta, idleDelta), of |-> totalDelta]
    ELSE NoRate

(* Mutant: the sample is kept only when it gave a percentage.              *)
SampleCPUIfHigher ==
    /\ phase = "cpu"
    /\ phase' = "network"
    /\ cpuPercent' = CPUPercent(prevCPU, cpu)
    /\ prevCPU' = IF cpu.total > prevCPU.total THEN cpu ELSE prevCPU
    /\ busy' = 0
    /\ fell' = 0
    /\ UNCHANGED <<cpu, netVars, now>>

(* Compare, then replace the sample in any case.                           *)
SampleCPU ==
    /\ phase = "cpu"
    /\ phase' = "network"
    /\ cpuPercent' = CPUPercent(prevCPU, cpu)
    /\ prevCPU' = cpu
    /\ busy' = 0
    /\ fell' = 0
    /\ UNCHANGED <<cpu, netVars, now>>

(* /proc/stat is unreadable: no percentage, and the sample stays.          *)
CPUUnreadable ==
    /\ phase = "cpu"
    /\ phase' = "network"
    /\ cpuPercent' = NoRate
    /\ UNCHANGED <<cpu, busy, fell, prevCPU, netVars, now>>

Rate(old, bytes) ==
    IF now > old.time /\ bytes >= old.bytes
    THEN [amount |-> Minus(bytes, old.bytes), of |-> now - old.time]
    ELSE NoRate

Rates(seen) ==
    [n \in seen |->
        IF n \in DOMAIN prevNet THEN Rate(prevNet[n], nic[n].bytes) ELSE NoRate]

Samples(seen) == [n \in seen |-> [bytes |-> nic[n].bytes, time |-> now]]

SinceReading(seen) ==
    [n \in Names |->
        IF n \in seen
        THEN [read |-> TRUE, bytes |-> 0, at |-> now, replaced |-> FALSE]
        ELSE Unread]

(* Mutant: the samples of interfaces that are gone are kept.               *)
ReadNetworksMerged ==
    /\ phase = "network"
    /\ phase' = "returned"
    /\ \E seen \in SUBSET {n \in Names : nic[n].up} :
          /\ networks' = Rates(seen)
          /\ prevNet' = [n \in seen \cup DOMAIN prevNet |->
                            IF n \in seen THEN Samples(seen)[n] ELSE prevNet[n]]
          /\ since' = SinceReading(seen)
    /\ UNCHANGED <<cpuVars, nic, received, counted, now>>

(* The lines are read up to the end, or up to an error of the scanner; the *)
(* samples are replaced by those of the interfaces seen.                   *)
ReadNetworks ==
    /\ phase = "network"
    /\ phase' = "returned"
    /\ \E seen \in SUBSET {n \in Names : nic[n].up} :
          /\ networks' = Rates(seen)
          /\ prevNet' = Samples(seen)
          /\ since' = SinceReading(seen)
    /\ UNCHANGED <<cpuVars, nic, received, counted, now>>

(* Mutant: without the file the last rates are returned again.             *)
NetworksUnreadableStale ==
    /\ phase = "network"
    /\ phase' = "returned"
    /\ UNCHANGED <<cpuVars, netVars, now>>

(* /proc/net/dev cannot be opened: no interfaces, and the samples stay.    *)
NetworksUnreadable ==
    /\ phase = "network"
    /\ phase' = "returned"
    /\ networks' = Empty
    /\ UNCHANGED <<cpuVars, nic, received, counted, since, prevNet, now>>

-----------------------------------------------------------------------------
(* The result is sent to the gathering loop, and applied.                  *)
Deliver ==
    /\ phase = "returned"
    /\ phase' = "idle"
    /\ counted' = [n \in Names |->
          IF n \in DOMAIN networks THEN counted[n] + networks[n].amount
                                   ELSE counted[n]]
    /\ UNCHANGED <<cpuVars, nic, received, since, prevNet, networks, now>>

(* The deadline has passed, and the result is dropped.                     *)
Drop ==
    /\ phase = "returned"
    /\ phase' = "idle"
    /\ UNCHANGED <<cpuVars, netVars, now>>

Next ==
    \/ IdleTick \/ BusyTick \/ Dip
    \/ \E n \in Names : Traffic(n) \/ Remove(n) \/ Add(n)
    \/ StartRound
    \/ SampleCPU
    \/ CPUUnreadable
    \/ ReadNetworks
    \/ NetworksUnreadable
    \/ Deliver
    \/ Drop

Spec == Init /\ [][Next]_vars

-----------------------------------------------------------------------------
(* Correctness                                                             *)

TypeOK ==
    /\ cpu \in [total : 1 .. MaxTicks, idle : 0 .. MaxTicks]
    /\ nic \in [Names -> [up : BOOLEAN, bytes : 0 .. MaxBytes]]
    /\ busy \in Nat
    /\ fell \in 0 .. MaxFall
    /\ received \in [Names -> 0 .. MaxBytes]
    /\ counted \in [Names -> Nat]
    /\ since \in [Names -> [read : BOOLEAN, bytes : 0 .. MaxBytes,
                             at : 0 .. MaxRound, replaced : BOOLEAN]]
    /\ now \in 0 .. MaxRound
    /\ phase \in {"idle", "cpu", "network", "returned"}
    /\ prevCPU \in [total : 0 .. MaxTicks, idle : 0 .. MaxTicks]
    /\ prevCPU.idle <= prevCPU.total
    /\ \E S \in SUBSET Names :
          prevNet \in [S -> [bytes : 0 .. MaxBytes, time : 1 .. MaxRound]]
    /\ cpuPercent \in [amount : Nat, of : Nat]
    /\ \E S \in SUBSET Names :
          networks \in [S -> [amount : 0 .. MaxBytes, of : 0 .. MaxRound]]

(* The CPU percentage is that of the ticks since the last sample, however  *)
(* many rounds could not take one.  What idleDelta loses by wrapping when  *)
(* idle went back is gained again in totalDelta - idleDelta, so that the   *)
(* percentage is never that of a wrapped number: it exceeds 100 by no more *)
(* than idle fell since the last sample, and the percentage after is right *)
(* again (host.go:35-40).                                                  *)
CPUPercentExact ==
    [][SampleCPU /\ cpuPercent' # NoRate =>
          /\ cpuPercent'.amount = busy
          /\ cpuPercent'.amount <= cpuPercent'.of + fell]_vars

(* Whatever results are dropped, files unreadable and interfaces replaced: *)
(* the traffic that the snapshots show, all rounds together, is never more *)
(* than there was, so no byte is shown in two rounds (host.go:498).        *)
NoByteTwice == \A n \in Names : counted[n] <= received[n]

(* The rate shown for an interface is the bytes it received since it was   *)
(* last read over the time since that round, even if the result of that    *)
(* round was dropped or rounds in between could not read; none is shown    *)
(* across an absence that a round saw.  Behind a name that was given to a  *)
(* new interface between two rounds the rate is too low, if anything.      *)
ThroughputExact ==
    [][ReadNetworks =>
          \A n \in DOMAIN networks' :
             LET rate == networks'[n]
             IN  IF ~since[n].read THEN rate = NoRate
                 ELSE IF since[n].replaced THEN rate.amount <= since[n].bytes
                 ELSE rate = [amount |-> since[n].bytes, of |-> now - since[n].at]]_vars
=============================================================================
