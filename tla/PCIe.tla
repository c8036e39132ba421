-------------------------------- MODULE PCIe --------------------------------
(***************************************************************************)
(* collectPCIe of pcie.go: which devices are listed, and where the values  *)
(* of a GPU come from.  A round reads the PCI devices in sysfs, the DRM    *)
(* and hwmon files of each, the information of the NVIDIA driver under     *)
(* /proc and, if QNAP's driver package is installed, a table printed by    *)
(* its nvidia-smi.  It keeps nothing, so what it lists is a function of    *)
(* the machine m it finds, the two lists of the configuration included.    *)
(*                                                                         *)
(* A device is a pair of its PCI domain and its place in it.  A metric is  *)
(* represented by its source, since zero and "not available" are the same  *)
(* number to the code.                                                     *)
(***************************************************************************)
EXTENDS Integers

CONSTANT Devices        \* the possible devices, <<domain, place>>

ASSUME DevicesAssumption == Devices \subseteq Nat \X Nat

Absent == [class |-> "none"]

(* What sysfs and /proc may say of a device; only a GPU has the last three.*)
DeviceFiles ==
    {f \in [class : {"display", "usb", "audio"},
            slot  : BOOLEAN,    \* physical_slot is there
            info  : BOOLEAN,    \* registered under /proc/driver/nvidia
            vram  : BOOLEAN,    \* a DRM interface with memory of its own
            temp  : BOOLEAN] :  \* a hwmon sensor that reads a temperature
        f.class # "display" => ~f.info /\ ~f.vram /\ ~f.temp}

(* A line of nvidia-smi, in which any value may be "N/A".                  *)
Line == [temp : BOOLEAN, memory : BOOLEAN]
NoLine == [temp |-> FALSE]

Machine ==
    [include : SUBSET Devices,                      \* PCIE_INCLUDE_BDFS
     exclude : SUBSET Devices,                      \* PCIE_EXCLUDE_BDFS
     device  : [Devices -> DeviceFiles \cup {Absent}],
     tool    : {"missing", "fails", "runs"},        \* nvidia-smi ...
     lines   : [Devices -> Line \cup {NoLine}]]     \* ... and what it prints

(* The name of a device in sysfs has four digits of domain, that of        *)
(* nvidia-smi eight.                                                       *)
SysName(d) == <<4, d[1], d[2]>>
SMIName(d) == <<8, d[1], d[2]>>

(* normalizeNVIDIABDF: eight zeros are replaced by four.                   *)
NormalizeNVIDIABDF(name) ==
    IF name[2] = 0 THEN <<4, 0, name[3]>> ELSE name

(* collectQNAPNVIDIA: nothing without the package or when its tool fails,  *)
(* else what it prints of the displays that are there.                     *)
NVIDIAMetrics(m) ==
    IF m.tool # "runs" THEN {}
    ELSE {[bdf |-> NormalizeNVIDIABDF(SMIName(d)), line |-> m.lines[d], from |-> d] :
             d \in {e \in Devices : m.lines[e] # NoLine /\ m.device[e].class = "display"}}

(* eligiblePCIClass, by base class: audio is a multimedia device.          *)
EligiblePCIClass(class) == class \in {"display", "audio"}

(* Slot information, the driver's information or memory of its own tell an *)
(* expansion card from what is on the board.                               *)
IsExpansion(m, d) ==
    d \in m.include \/ m.device[d].slot \/ m.device[d].info \/ m.device[d].vram

(* The conditions of the loop over the entries, in their order.            *)
Listed(m, d) ==
    /\ m.device[d] # Absent
    /\ EligiblePCIClass(m.device[d].class) /\ m.device[d].class # "audio"
    /\ d \notin m.exclude
    /\ IsExpansion(m, d)

(* The lines of nvidia-smi that are about a device.                        *)
OwnLines(m, d) == {n \in NVIDIAMetrics(m) : n.bdf = SysName(d)}

(* readHwmon, then applyNVIDIAMetrics, which assigns every value it has    *)
(* parsed, "N/A" as zero.                                                  *)
Temperature(m, d) ==
    IF OwnLines(m, d) # {}
    THEN IF \E n \in OwnLines(m, d) : n.line.temp THEN "smi" ELSE "none"
    ELSE IF m.device[d].temp THEN "hwmon" ELSE "none"

(* readDRMMetrics, then applyNVIDIAMetrics: whose memory is shown.         *)
DeviceMemory(m, d) ==
    IF OwnLines(m, d) # {} THEN {n.from : n \in {l \in OwnLines(m, d) : l.line.memory}}
    ELSE IF m.device[d].vram THEN {d} ELSE {}

HasMetrics(m, d) == Temperature(m, d) # "none" \/ DeviceMemory(m, d) # {}

(* The label: the one of nvidia-smi stays only while every value is zero.  *)
Capability(m, d) ==
    IF HasMetrics(m, d) THEN "full"
    ELSE IF OwnLines(m, d) # {} THEN "nvidia"
    ELSE IF m.device[d].info THEN "basic" ELSE "identified"

(* collectPCIe                                                             *)
Shown(m) ==
    {[bdf |-> d, memory |-> DeviceMemory(m, d), temperature |-> Temperature(m, d),
      capability |-> Capability(m, d)] : d \in {e \in Devices : Listed(m, e)}}

-----------------------------------------------------------------------------
(* Correctness of what a round shows                                       *)

(* Every value shown is one of its kind, and of a device that there is.    *)
ShownTyped(m) ==
    Shown(m) \subseteq
        [bdf         : {d \in Devices : m.device[d] # Absent},
         memory      : SUBSET Devices,
         temperature : {"none", "hwmon", "smi"},
         capability  : {"identified", "basic", "nvidia", "full"}]

(* The metrics of a device are its own, also with several GPUs, and with   *)
(* GPUs at the same place of different domains (pcie.go:63, 163-170).      *)
MetricsOfOwnDevice(m) == \A e \in Shown(m) : e.memory \subseteq {e.bdf}

(* Without the driver package, and when its tool fails or is cut short, a  *)
(* GPU is listed all the same, with what sysfs knows of it (README.md:103).*)
FailureHidesNothing(m) ==
    m.tool # "runs" =>
        \A d \in Devices \ m.exclude :
            m.device[d].class = "display" /\ (m.device[d].info \/ m.device[d].vram) =>
                \E e \in Shown(m) :
                    /\ e.bdf = d
                    /\ m.device[d].temp => e.temperature = "hwmon"
                    /\ m.device[d].vram => e.memory = {d}
=============================================================================
