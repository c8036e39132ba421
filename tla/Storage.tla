------------------------------- MODULE Storage --------------------------------
(***************************************************************************)
(* The storage summary: which shares count, how much they use, and how     *)
(* large the pools below them are (collectVolumes, uniqueShares,           *)
(* markIncludedShares, summarizeStorage, storagePoolKey, directorySize of  *)
(* host.go).                                                               *)
(*                                                                         *)
(* A path is the sequence of its names, the first of which is the name of  *)
(* the volume; every directory of Tree holds one unit of data itself.      *)
(* Volumes become unreadable and readable again, smb.conf is edited,       *)
(* /proc/mounts is opened again for each share and may be unreadable or    *)
(* not name the volume, and a scan replaces the known sizes (module        *)
(* ShareScan).                                                             *)
(***************************************************************************)
EXTENDS Integers, FiniteSets, Functions, SequencesExt

CONSTANTS
    Tree,           \* the directories, as paths
    Real,           \* the path below the volumes of each path of smb.conf
    VolumeList,     \* the volumes, in the order of the two glob patterns:
                    \* name, zfs, total, used, and the pool they are part of
    MaxShares       \* bound: the shares in smb.conf

Volume == [name : STRING, zfs : BOOLEAN, total : Nat, used : Nat, pool : STRING]

ASSUME TreeAssumption ==
    /\ Tree \subseteq Seq(STRING) \ {<<>>} /\ IsFiniteSet(Tree)
    /\ Real \in [DOMAIN Real -> Tree]
ASSUME VolumesAssumption ==
    /\ VolumeList \in Seq(Volume)
    /\ \A i, j \in DOMAIN VolumeList : VolumeList[i].name = VolumeList[j].name => i = j
ASSUME MaxSharesAssumption == MaxShares \in Nat

(* Every volume has a size: statfs counts the blocks of a file system.     *)
VolumesHaveSize == \A i \in DOMAIN VolumeList : VolumeList[i].total > 0

(* What the fallback rests on (host.go:431-434): volumes of one pool are   *)
(* datasets of the same apparent capacity.                                 *)
DatasetsShareCapacity ==
    \A i, j \in DOMAIN VolumeList :
       VolumeList[i].pool = VolumeList[j].pool =>
          \/ i = j
          \/ /\ VolumeList[i].zfs /\ VolumeList[j].zfs
             /\ VolumeList[i].total = VolumeList[j].total

VARIABLES
    conf,           \* the paths of the shares, in the order of smb.conf
    mounted,        \* the volumes that statfs can read
    listed,         \* the shares for which /proc/mounts can be opened and
                    \* has a line of their volume
    shareSizes      \* c.shareSizes

storageVars == <<conf, mounted, listed, shareSizes>>

Below(root) == {d \in Tree : IsPrefix(root, d)}

DirectorySize(root) == Cardinality(Below(root))

-----------------------------------------------------------------------------
(* collectVolumes, by the positions in VolumeList, and collectShares, by   *)
(* the paths in smb.conf                                                   *)

Volumes == {i \in DOMAIN VolumeList : VolumeList[i].name \in mounted}

(* Mutant: aliases are told apart by their path in smb.conf.               *)
UniqueByPath ==
    {conf[i] : i \in {j \in DOMAIN conf : \A k \in 1 .. j - 1 : conf[k] # conf[j]}}

(* The first of the shares that lead to the same directory stays.          *)
UniqueShares ==
    {conf[i] : i \in {j \in DOMAIN conf :
                         \A k \in 1 .. j - 1 : Real[conf[k]] # Real[conf[j]]}}

(* A share inside of another one is not added to the sum.                  *)
Included(p) == ~\E q \in UniqueShares : IsStrictPrefix(Real[q], Real[p])

Scanned == DOMAIN shareSizes

-----------------------------------------------------------------------------
(* summarizeStorage                                                        *)

(* The shares that are on a volume, and the volume of each.                *)
Known ==
    {p \in UniqueShares : \E i \in Volumes : Head(Real[p]) = VolumeList[i].name}

VolumeOf(p) ==
    VolumeList[CHOOSE i \in Volumes : Head(Real[p]) = VolumeList[i].name]

(* Mutant: without a line of /proc/mounts every volume is a pool of its    *)
(* own.                                                                    *)
PoolKeyByName(p) ==
    IF p \in listed THEN <<"mount", VolumeOf(p).pool>> ELSE <<"volume", VolumeOf(p).name>>

(* The device of the mount; without a line that tells it, the capacity of  *)
(* a ZFS dataset, because those of one pool have the same; else the volume.*)
PoolKey(p) ==
    LET v == VolumeOf(p)
    IN  IF p \in listed THEN <<"mount", v.pool>>
        ELSE IF v.zfs THEN <<"capacity", v.total>>
        ELSE <<"volume", v.name>>

Largest(S) == CHOOSE n \in S : \A m \in S : m <= n

Pools == {PoolKey(p) : p \in {q \in Known : VolumeOf(q).total > 0}}

PoolTotals ==
    [key \in Pools |->
        Largest({VolumeOf(p).total : p \in {q \in Known : PoolKey(q) = key}})]

Capacity == SumFunctionOnSet(PoolTotals, Pools)

Complete == UniqueShares # {} /\ Known \subseteq Scanned

Measured == SumFunctionOnSet(shareSizes, {p \in Known \cap Scanned : Included(p)})

FirstOf(positions) ==
    VolumeList[CHOOSE i \in positions : \A j \in positions : i <= j]

(* Until the scan is complete, the first value of statfs is shown in place *)
(* of zero.                                                                *)
Apparent(used) ==
    LET inUse == {i \in Volumes : VolumeList[i].used > 0}
    IN  IF used > 0 \/ inUse = {} THEN used ELSE FirstOf(inUse).used

(* Mutant: the sum may exceed the capacity.                                *)
Unclamped(used, limit) == used

Clamp(used, limit) == IF used > limit THEN limit ELSE used

(* What a round shows in the present state: the first volume stands in for *)
(* a capacity that is not known.                                           *)
Summary ==
    LET first == Capacity = 0 /\ Volumes # {}
        size  == IF first THEN FirstOf(Volumes).total ELSE Capacity
        used  == Clamp(IF Complete THEN Measured ELSE Apparent(Measured), size)
    IN  [shareCount   |-> Cardinality(UniqueShares),
         scanComplete |-> Complete,
         poolCount    |-> IF first THEN 1 ELSE Cardinality(Pools),
         total        |-> size,
         used         |-> used,
         free         |-> size - used]

-----------------------------------------------------------------------------
StorageInit ==
    /\ conf = <<>>
    /\ mounted = {VolumeList[i].name : i \in DOMAIN VolumeList}
    /\ listed = {}
    /\ shareSizes = [p \in {} |-> 0]

(* Mutant: the scan measures only the shares that count.                   *)
ScanIncluded ==
    /\ UNCHANGED <<conf, mounted, listed>>
    /\ shareSizes' = [p \in {q \in UniqueShares : Included(q)} |-> DirectorySize(Real[p])]

(* scanShareSizes has measured the shares of the present smb.conf.         *)
Scan ==
    /\ UNCHANGED <<conf, mounted, listed>>
    /\ shareSizes' = [p \in UniqueShares |-> DirectorySize(Real[p])]

AddShare ==
    /\ Len(conf) < MaxShares
    /\ \E p \in DOMAIN Real \ ToSet(conf) :
          /\ conf' = Append(conf, p)
          /\ listed' \in {listed, listed \cup {p}}
    /\ UNCHANGED <<mounted, shareSizes>>

RemoveShare ==
    /\ \E i \in DOMAIN conf :
          /\ conf' = RemoveAt(conf, i)
          /\ listed' = listed \ {conf[i]}
    /\ UNCHANGED <<mounted, shareSizes>>

ChangeVolumes ==
    /\ \E i \in DOMAIN VolumeList :
          LET name == VolumeList[i].name
          IN  mounted' = IF name \in mounted THEN mounted \ {name} ELSE mounted \cup {name}
    /\ UNCHANGED <<conf, listed, shareSizes>>

(* What /proc/mounts says of the volume changes for the calls of one share.*)
ChangeMounts ==
    /\ \E p \in ToSet(conf) :
          listed' = IF p \in listed THEN listed \ {p} ELSE listed \cup {p}
    /\ UNCHANGED <<conf, mounted, shareSizes>>

StorageNext == Scan \/ AddShare \/ RemoveShare \/ ChangeVolumes \/ ChangeMounts

StorageSpec == StorageInit /\ [][StorageNext]_storageVars

-----------------------------------------------------------------------------
(* Correctness                                                             *)

StorageTypeOK ==
    /\ conf \in Seq(DOMAIN Real) /\ Len(conf) <= MaxShares
    /\ mounted \subseteq {VolumeList[i].name : i \in DOMAIN VolumeList}
    /\ listed \subseteq DOMAIN Real
    /\ Scanned \subseteq DOMAIN Real
    /\ Summary \in [shareCount : 0 .. MaxShares, scanComplete : BOOLEAN,
                    poolCount : Nat, total : Nat, used : Nat, free : Nat]

(* The directories the shares on readable volumes reach, each once.        *)
Reached == UNION {Below(Real[p]) : p \in {q \in ToSet(conf) : Head(Real[q]) \in mounted}}

(* Data in a share that has an alias, or that lies in another share, is    *)
(* counted once: a complete summary shows all of it, and an incomplete one *)
(* no more, unless it shows what statfs says of a volume.                  *)
DataCountedOnce ==
    LET shown == Summary
    IN  IF shown.scanComplete
        THEN shown.used = Clamp(Cardinality(Reached), shown.total)
        ELSE \/ shown.used <= Cardinality(Reached)
             \/ \E i \in Volumes : shown.used = Clamp(VolumeList[i].used, shown.total)

(* The volumes that hold a share of smb.conf, the pools they are part of,  *)
(* and how large each of these is.                                         *)
SharedVolumes ==
    {VolumeList[i] : i \in {j \in Volumes :
                               \E p \in ToSet(conf) : Head(Real[p]) = VolumeList[j].name}}

TruePools == {v.pool : v \in SharedVolumes}

TrueTotals ==
    [pool \in TruePools |-> Largest({v.total : v \in {w \in SharedVolumes : w.pool = pool}})]

(* The pools with two names: /proc/mounts had a line for one share on the  *)
(* pool and none for another.                                              *)
Mixed ==
    {VolumeOf(p).pool : p \in
        {q \in Known \ listed : \E r \in Known \cap listed : VolumeOf(q).pool = VolumeOf(r).pool}}

(* The capacity is that of the pools below the shares, each once, however  *)
(* many datasets of a pool hold shares (README.md:23), as long as          *)
(* /proc/mounts has a line for each.  It is no more when it has a line for *)
(* none, though pools may then be taken for one another.  Only a pool that *)
(* goes by its device for one share and by its capacity for another is     *)
(* counted twice, and never more than that.                                *)
PoolsCountedOnce ==
    LET shown == Summary
        truth == SumFunctionOnSet(TrueTotals, TruePools)
    IN  TruePools # {} =>
            /\ shown.total <= truth + SumFunctionOnSet(TrueTotals, Mixed)
            /\ shown.poolCount <= Cardinality(TruePools) + Cardinality(Mixed)
            /\ Known \subseteq listed =>
                  /\ shown.total = truth
                  /\ shown.poolCount = Cardinality(TruePools)

(* When a scan ends, the summary of the shares it measured is complete,    *)
(* unless smb.conf lists none.                                             *)
ScanCompletes == [][Scan => (conf # <<>> => Complete')]_storageVars
=============================================================================
