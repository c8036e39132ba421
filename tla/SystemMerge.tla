----------------------------- MODULE SystemMerge -----------------------------
(***************************************************************************)
(* The System of a snapshot, which the host worker and the SNMP worker     *)
(* both fill in: collectHost of host.go, the scalars of collectSNMP        *)
(* (snmp.go) and mergeSystem (collector.go).                               *)
(*                                                                         *)
(* A System is a function from its fields to numbers.  A text is a number  *)
(* as well, and zero is the empty one, so that zero means "not there" for  *)
(* every field but the CPU percentage, which is -1 where it is not known.  *)
(***************************************************************************)
EXTENDS Integers, Sequences

CONSTANTS
    Files,          \* the numbers that the files under /proc may hold
    Variables,      \* the numbers that the SNMP variables may hold
    Name            \* QNAP_HOSTNAME

ASSUME ReadingsAssumption == Files \subseteq Nat /\ Variables \subseteq Nat
ASSUME NameAssumption == Name \in Nat \ {0}

VARIABLES
    host,           \* what collectHost returned in this round
    snmp,           \* what collectSNMP returned
    due,            \* the workers whose results are still to come
    applied,        \* the workers whose results were applied, in order
    system          \* snapshot.System

vars == <<host, snmp, due, applied, system>>

Memory    == {"total", "used", "available", "percent"}
ARC       == {"arc", "evictable"}
Contested == {"hostname", "uptime", "cpu"}
HostOwn   == {"platform", "filesystem", "volumeName"}
SNMPOwn   == {"model", "cpuTemp", "temp"}
Field     == Memory \cup ARC \cup Contested \cup HostOwn \cup SNMPOwn

Percent(part, whole) == IF whole > 0 THEN (part * 100) \div whole ELSE 0

(* System{} and System{CPUPercent: -1}                                     *)
Zero    == [f \in Field |-> 0]
Unknown == [Zero EXCEPT !["cpu"] = -1]

(* readHostMemory: what counts as available is clamped to the total.       *)
Available(total, reclaimable, evictable) ==
    IF reclaimable + evictable < total THEN reclaimable + evictable ELSE total

(* collectHost, from the CPU percentage (-1 if there is none), meminfo (a  *)
(* total of zero if it is unreadable), arcstats, the uptime and the kind   *)
(* of the first volume (zero if there is none).  ARC values are there even *)
(* when meminfo is not.                                                    *)
CollectHost(cpu, total, reclaimable, arc, evictable, uptime, volume) ==
    LET available == Available(total, reclaimable, evictable)
    IN  [f \in Field |->
            CASE f = "hostname"  -> Name
              [] f = "cpu"       -> cpu
              [] f = "total"     -> total
              [] f = "available" -> available
              [] f = "used"      -> total - available
              [] f = "percent"   -> Percent(total - available, total)
              [] f = "uptime"    -> uptime
              [] f = "arc"       -> arc
              [] f = "evictable" -> evictable
              [] f \in {"volumeName", "filesystem"} -> volume
              [] f = "platform"  -> volume + 1
              [] f \in SNMPOwn   -> 0]

(* The scalars of collectSNMP.  A variable that the agent does not have    *)
(* comes as nil, which number() turns into zero, the CPU percentage too.   *)
CollectSNMP(cpu, total, free, uptime, cpuTemp, temp, model, name) ==
    LET used == IF total >= free THEN total - free ELSE 0
    IN  [f \in Field |->
            CASE f = "cpu"      -> cpu
              [] f = "total"    -> total
              [] f = "used"     -> used
              [] f = "percent"  -> Percent(used, total)
              [] f = "uptime"   -> uptime
              [] f = "cpuTemp"  -> cpuTemp
              [] f = "temp"     -> temp
              [] f = "model"    -> model
              [] f = "hostname" -> name
              [] f \in {"available"} \cup ARC \cup HostOwn -> 0]

HostReturns ==
    {CollectHost(cpu, total, reclaimable, arc, evictable, uptime, volume) :
        cpu \in Files \cup {-1}, total \in Files, reclaimable \in Files,
        arc \in Files, evictable \in Files, uptime \in Files,
        volume \in 0 .. 2}

(* Nothing but Unknown without a connection or an answer.                  *)
SNMPReturns ==
    {Unknown} \cup
    {CollectSNMP(cpu, total, free, uptime, cpuTemp, temp, model, name) :
        cpu \in Variables, total \in Variables, free \in Variables,
        uptime \in Variables, cpuTemp \in Variables, temp \in Variables,
        model \in Variables, name \in Variables}

(* Mutant: every memory value replaces its own, if it is not zero.         *)
CarriesFieldwise(value, f) ==
    IF f = "cpu" THEN value[f] >= 0 ELSE value[f] > 0

(* Whether the value of f is one that mergeSystem takes over.              *)
Carries(value, f) ==
    IF f = "cpu" THEN value[f] >= 0
    ELSE IF f \in Memory THEN value["total"] > 0 ELSE value[f] > 0

(* Mutant: what is there already stays.                                    *)
MergeFirst(base, value) ==
    [f \in Field |-> IF base[f] > 0 THEN base[f]
                     ELSE IF Carries(value, f) THEN value[f] ELSE base[f]]

MergeSystem(base, value) ==
    [f \in Field |-> IF Carries(value, f) THEN value[f] ELSE base[f]]

ApplyHost(base) == MergeSystem(base, host)

(* Mutant: the memory of the host is not preserved.                        *)
ApplySNMPOver(base) == MergeSystem(base, snmp)

(* Memory and ARC that are there already are saved and restored.           *)
ApplySNMP(base) ==
    [f \in Field |-> IF base["total"] > 0 /\ f \in Memory \cup ARC
                     THEN base[f] ELSE MergeSystem(base, snmp)[f]]

-----------------------------------------------------------------------------
(* The snapshot starts with the configured name; its CPU percentage is the *)
(* zero of the type, not -1.                                               *)
Fresh == [Zero EXCEPT !["hostname"] = Name]

Init ==
    /\ host \in HostReturns
    /\ snmp \in SNMPReturns
    /\ due = {"host", "snmp"}
    /\ applied = <<>>
    /\ system = Fresh

(* The result of a worker comes out of the channel.                        *)
HostArrives ==
    /\ "host" \in due
    /\ due' = due \ {"host"}
    /\ applied' = Append(applied, "host")
    /\ system' = ApplyHost(system)
    /\ UNCHANGED <<host, snmp>>

SNMPArrives ==
    /\ "snmp" \in due
    /\ due' = due \ {"snmp"}
    /\ applied' = Append(applied, "snmp")
    /\ system' = ApplySNMP(system)
    /\ UNCHANGED <<host, snmp>>

(* The result is given up at the deadline.                                 *)
Drop(w) ==
    /\ due' = due \ {w}
    /\ UNCHANGED <<host, snmp, applied, system>>

(* The round is over; every other one is like it.                          *)
Done == due = {} /\ UNCHANGED vars

Next == HostArrives \/ SNMPArrives \/ (\E w \in due : Drop(w)) \/ Done

Spec == Init /\ [][Next]_vars

-----------------------------------------------------------------------------
(* Correctness                                                             *)

Was(w) == \E i \in DOMAIN applied : applied[i] = w

(* A snapshot never shows a negative percentage.                           *)
TypeOK ==
    /\ host \in [Field -> Int]
    /\ snmp \in [Field -> Int]
    /\ due \subseteq {"host", "snmp"}
    /\ applied \in Seq({"host", "snmp"}) /\ Len(applied) <= 2
    /\ system \in [Field -> Nat]

(* The four memory values of a snapshot are those of one reading: never    *)
(* the total of one worker beside the available memory of the other        *)
(* (collector.go:86, "Preserve it when SNMP finishes after the host").     *)
MemoryOfOneReading ==
    \E reading \in {host, snmp, Zero} :
        \A f \in Memory : system[f] = reading[f]

(* Who supplies a field is a matter of what the two workers have read, not *)
(* of which was faster: the host's memory comes first, and any other field *)
(* but the three contested ones has one supplier.                          *)
Supplier(f) ==
    IF f \in Memory /\ Was("host") /\ host["total"] > 0 THEN host
    ELSE IF f \in Memory \cup SNMPOwn /\ Was("snmp") THEN snmp
    ELSE IF f \in ARC \cup HostOwn /\ Was("host") THEN host
    ELSE Zero

OrderFree ==
    \A f \in Field \ Contested :
        system[f] = IF Carries(Supplier(f), f) THEN Supplier(f)[f] ELSE 0

(* Host name, uptime and CPU percentage are contested: the later arrival   *)
(* has them, unless it does not carry them (collector.go:165).             *)
Result(w) == IF w = "host" THEN host ELSE snmp

LatestReading ==
    \A f \in Contested :
        LET with == {i \in DOMAIN applied : Carries(Result(applied[i]), f)}
        IN  system[f] = IF with = {} THEN Fresh[f]
                        ELSE Result(applied[CHOOSE i \in with :
                                             \A j \in with : j <= i])[f]
=============================================================================
