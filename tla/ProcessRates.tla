----------------------------- MODULE ProcessRates -----------------------------
(***************************************************************************)
(* The CPU shares of the processes: collectProcesses of process.go.        *)
(*                                                                         *)
(* The worker reads the total of /proc/stat, then lists /proc, then reads  *)
(* the processes one by one, while the kernel goes on counting, processes  *)
(* end and their pids are used again.  Under the lock it exchanges both    *)
(* samples for the new ones, and it compares the new with the old.  Rounds *)
(* do not overlap (Collector!RoundJoined), so there is one such worker.    *)
(*                                                                         *)
(* A percentage is kept as the two numbers that the code divides, without  *)
(* the factors 100 and the number of CPUs.                                 *)
(***************************************************************************)
EXTENDS Integers, FiniteSets, Functions

CONSTANTS
    Pids,           \* the process ids in use
    Word,           \* the number of values of a counter (2^64 in the code)
    MaxTicks,       \* bound: the total of the CPU counters
    MaxStarts,      \* bound: the processes that may use a pid one after the other
    MaxDips         \* bound: how often the total goes back

ASSUME PidsAssumption == IsFiniteSet(Pids)
ASSUME BoundsAssumption ==
    MaxTicks \in Nat \ {0} /\ MaxStarts \in Nat /\ MaxDips \in Nat
ASSUME WordAssumption == Word \in Nat /\ Word > MaxTicks + MaxDips

VARIABLES
    total,          \* the sum of the cpu line of /proc/stat
    process,        \* /proc/<pid>/stat: alive, start time, ticks
    dips,           \* how often the total went back
    since,          \* auxiliary: the ticks a process got since it was last
                    \* read, or Unread if the last finished round and the
                    \* present one have not read it
    phase,          \* where collectProcesses is: "idle", "listing", "reading"
    totalCPU,       \* its reading of the total
    left,           \* the pids it has still to read
    raw,            \* the processes it has read
    prevProcCPU,    \* c.prevProcCPU
    prevProcs,      \* c.prevProcs
    processes       \* its result: per pid the ticks used, out of how many

kernelVars == <<total, process, dips>>
localVars  == <<phase, totalCPU, left, raw>>
storedVars == <<prevProcCPU, prevProcs, processes>>
vars == <<kernelVars, since, localVars, storedVars>>

Minus(a, b) == (a - b) % Word       \* a subtraction of uint64 numbers

Unread == -1

Nobody == [p \in {} |-> 0]

NoResult == [used |-> Nobody, of |-> 0]

-----------------------------------------------------------------------------
(* The kernel.                                                             *)

Init ==
    /\ total = 1
    /\ process = [p \in Pids |-> [alive |-> FALSE, start |-> 0, ticks |-> 0]]
    /\ dips = 0
    /\ since = [p \in Pids |-> Unread]
    /\ phase = "idle"
    /\ totalCPU = 0
    /\ left = {}
    /\ raw = Nobody
    /\ prevProcCPU = 0
    /\ prevProcs = Nobody
    /\ processes = NoResult

(* A tick is idle, or goes to a process that is not looked at, ...         *)
OtherTick ==
    /\ total < MaxTicks
    /\ total' = total + 1
    /\ UNCHANGED <<process, dips, since, localVars, storedVars>>

(* ... or it goes to one of the processes.                                 *)
BusyTick(p) ==
    /\ total < MaxTicks
    /\ process[p].alive
    /\ total' = total + 1
    /\ process' = [process EXCEPT ![p].ticks = @ + 1]
    /\ since' = [since EXCEPT ![p] = IF @ = Unread THEN @ ELSE @ + 1]
    /\ UNCHANGED <<dips, localVars, storedVars>>

(* The iowait counter may decrease, and the sum with it.                   *)
Dip ==
    /\ dips < MaxDips
    /\ total > 1
    /\ total' = total - 1
    /\ dips' = dips + 1
    /\ UNCHANGED <<process, since, localVars, storedVars>>

(* A process starts, later than the last one that had its pid.             *)
Fork(p) ==
    /\ ~process[p].alive
    /\ process[p].start < MaxStarts
    /\ process' = [process EXCEPT
           ![p] = [alive |-> TRUE, start |-> @.start + 1, ticks |-> 0]]
    /\ since' = [since EXCEPT ![p] = Unread]
    /\ UNCHANGED <<total, dips, localVars, storedVars>>

Exit(p) ==
    /\ process[p].alive
    /\ process' = [process EXCEPT ![p].alive = FALSE]
    /\ UNCHANGED <<total, dips, since, localVars, storedVars>>

-----------------------------------------------------------------------------
(* The process worker.                                                     *)

ReadTotal ==
    /\ phase = "idle"
    /\ phase' = "listing"
    /\ totalCPU' = total
    /\ UNCHANGED <<kernelVars, since, left, raw, storedVars>>

ReadDir ==
    /\ phase = "listing"
    /\ phase' = "reading"
    /\ left' = {p \in Pids : process[p].alive}
    /\ raw' = Nobody
    /\ UNCHANGED <<kernelVars, since, totalCPU, storedVars>>

(* Mutant: the total is exchanged before the directory is listed.          *)
UnreadableStored ==
    /\ phase \in {"idle", "listing"}
    /\ phase' = "idle"
    /\ totalCPU' = 0
    /\ prevProcCPU' = IF phase = "listing" THEN totalCPU ELSE prevProcCPU
    /\ processes' = NoResult
    /\ UNCHANGED <<kernelVars, since, left, raw, prevProcs>>

(* /proc/stat or the directory is unreadable: the round has no processes,  *)
(* and neither stored sample is touched.                                   *)
Unreadable ==
    /\ phase \in {"idle", "listing"}
    /\ phase' = "idle"
    /\ totalCPU' = 0
    /\ processes' = NoResult
    /\ UNCHANGED <<kernelVars, since, left, raw, prevProcCPU, prevProcs>>

(* readProcess: a process is left out if its stat cannot be read or        *)
(* parsed, as that of a process that has ended meanwhile.                  *)
ReadProcess(p) ==
    /\ phase = "reading"
    /\ p \in left
    /\ left' = left \ {p}
    /\ \/ /\ process[p].alive
          /\ raw' = [q \in DOMAIN raw \cup {p} |->
                        IF q # p THEN raw[q]
                        ELSE [ticks |-> process[p].ticks,
                              start |-> process[p].start,
                              since |-> since[p]]]
          /\ since' = [since EXCEPT ![p] = 0]
       \/ UNCHANGED <<raw, since>>
    /\ UNCHANGED <<kernelVars, phase, totalCPU, storedVars>>

(* Mutant: a pid is taken for the process that had it before.              *)
UsedByPid(p, totalDelta) ==
    IF /\ p \in DOMAIN prevProcs
       /\ raw[p].ticks >= prevProcs[p].ticks
       /\ totalDelta > 0
    THEN Minus(raw[p].ticks, prevProcs[p].ticks)
    ELSE 0

Used(p, totalDelta) ==
    IF /\ p \in DOMAIN prevProcs
       /\ prevProcs[p].start = raw[p].start
       /\ raw[p].ticks >= prevProcs[p].ticks
       /\ totalDelta > 0
    THEN Minus(raw[p].ticks, prevProcs[p].ticks)
    ELSE 0

TotalDelta(current, old) == IF current >= old THEN Minus(current, old) ELSE 0

(* The section under the lock, and the percentages from its copies.        *)
Swap ==
    /\ phase = "reading"
    /\ left = {}
    /\ phase' = "idle"
    /\ prevProcCPU' = totalCPU
    /\ prevProcs' = raw
    /\ totalCPU' = 0
    /\ raw' = Nobody
    /\ since' = [p \in Pids |-> IF p \in DOMAIN raw THEN since[p] ELSE Unread]
    /\ LET totalDelta == TotalDelta(totalCPU, prevProcCPU)
       IN  processes' = [used |-> [p \in DOMAIN raw |-> Used(p, totalDelta)],
                         of   |-> totalDelta]
    /\ UNCHANGED <<kernelVars, left>>

-----------------------------------------------------------------------------
Next ==
    \/ OtherTick
    \/ Dip
    \/ \E p \in Pids : BusyTick(p) \/ Fork(p) \/ Exit(p)
    \/ ReadTotal
    \/ ReadDir
    \/ Unreadable
    \/ \E p \in Pids : ReadProcess(p)
    \/ Swap

Spec == Init /\ [][Next]_vars

-----------------------------------------------------------------------------
(* Correctness                                                             *)

Counter == 0 .. MaxTicks

(* A process may have got ticks that the total has taken back.             *)
Ticks == 0 .. MaxTicks + MaxDips

TypeOK ==
    /\ total \in Counter
    /\ process \in [Pids -> [alive : BOOLEAN, start : 0 .. MaxStarts, ticks : Ticks]]
    /\ dips \in 0 .. MaxDips
    /\ since \in [Pids -> Ticks \cup {Unread}]
    /\ phase \in {"idle", "listing", "reading"}
    /\ totalCPU \in Counter
    /\ left \subseteq Pids
    /\ DOMAIN raw \subseteq Pids /\ DOMAIN raw \cap left = {}
    /\ prevProcCPU \in Counter
    /\ DOMAIN prevProcs \subseteq Pids
    /\ DOMAIN processes.used \subseteq Pids
    /\ processes.of \in Counter

(* A process is shown with exactly the ticks it got itself since the last  *)
(* round that was not given up read it, however many rounds were given up  *)
(* since then; with none if that round did not read it, because it is new, *)
(* though its pid may have been another process's, or because its stat was *)
(* unreadable then; and with none when the total stood still or went back  *)
(* (process.go:75).                                                        *)
OwnTicks ==
    [][Swap => \A p \in DOMAIN raw :
                  processes'.used[p] =
                     IF raw[p].since = Unread \/ totalCPU <= prevProcCPU
                     THEN 0 ELSE raw[p].since]_vars

(* The percentages add up to no more than all of the CPU, but for what     *)
(* passed while the processes were read: the ticks of the processes and    *)
(* the total they are compared with are of the same period, also after     *)
(* rounds that failed half way.                                            *)
SharesAddUp ==
    [][Swap => SumFunction(processes'.used)
                  <= processes'.of + (total - totalCPU) + dips]_vars
=============================================================================
