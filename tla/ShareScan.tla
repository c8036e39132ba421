------------------------------ MODULE ShareScan ------------------------------
(***************************************************************************)
(* The background measurement of the shared folders: collectShares and     *)
(* scanShareSizes of internal/monitor/host.go.                             *)
(*                                                                         *)
(* In each round the host worker reads the shares from smb.conf, copies    *)
(* the cache of sizes under the read lock, fills in the sizes it knows,    *)
(* and starts a scanner goroutine when none was running and the last scan  *)
(* ended long enough ago.  The scanner walks its shares one by one and     *)
(* then replaces the cache.  Rounds do not overlap (Collector!RoundJoined).*)
(*                                                                         *)
(* time.Since uses the monotonic clock, so time is the age of the last     *)
(* scan, counted up to ShareScanInterval.  A size is represented by the    *)
(* scan that measured it; consecutive scans are told apart by a bit.       *)
(***************************************************************************)
EXTENDS Integers, Functions

CONSTANTS
    Shares,             \* the shares smb.conf may list, by path
    ShareScanEnabled,   \* SHARE_SIZE_SCAN
    ShareScanInterval,  \* SHARE_SCAN_INTERVAL
    Slots               \* bound: the scanner goroutines there can be at once

ASSUME IntervalAssumption == ShareScanInterval \in Nat \ {0}
ASSUME EnabledAssumption == ShareScanEnabled \in BOOLEAN

VARIABLES
    conf,           \* the shares smb.conf lists and that are mounted
    shareSizes,     \* c.shareSizes: share -> the scan that measured it
    age,            \* time since c.lastShareScan, or Never
    shareScanning,  \* c.shareScanning
    lastScan,       \* the bit of the scan started last
    scanner,        \* the scanner goroutines
    round,          \* where collectShares is
    shares,         \* its result: the shares it found ...
    sizes,          \* ... and the sizes of those that were measured
    cached,         \* its copies of the fields of c
    seenAge,
    seenScanning

cacheVars == <<shareSizes, age, shareScanning>>
copyVars  == <<cached, seenAge, seenScanning>>
vars == <<conf, cacheVars, lastScan, scanner, round, shares, sizes, copyVars>>

Never == -1

Ages == {Never} \cup 0 .. ShareScanInterval

Scans == {0, 1}

(* Maps from some of the shares to scans.                                  *)
SizeMap == UNION {[S -> Scans] : S \in SUBSET Shares}

NoSizes == [s \in {} |-> 0]

NoScan == [active |-> FALSE, scan |-> 0, left |-> {}, next |-> NoSizes]

(* Mutant: a scan is only made while there never was one.                  *)
DueOnce(a) == a = Never

(* lastScan.IsZero() || time.Since(lastScan) >= c.cfg.ShareScanInterval    *)
Due(a) == a = Never \/ a >= ShareScanInterval

-----------------------------------------------------------------------------
Init ==
    /\ conf \in SUBSET Shares
    /\ shareSizes = NoSizes
    /\ age = Never
    /\ shareScanning = FALSE
    /\ lastScan = 0
    /\ scanner = [i \in Slots |-> NoScan]
    /\ round = "idle"
    /\ shares = {}
    /\ sizes = NoSizes
    /\ cached = NoSizes
    /\ seenAge = Never
    /\ seenScanning = FALSE

(* collectShares reads smb.conf; without one it returns at once.           *)
ReadConf ==
    /\ round = "idle"
    /\ shares' = conf
    /\ sizes' = NoSizes
    /\ round' = "copy"
    /\ UNCHANGED <<conf, cacheVars, lastScan, scanner, copyVars>>

NoConf ==
    /\ round = "idle"
    /\ shares' = {}
    /\ sizes' = NoSizes
    /\ UNCHANGED <<conf, cacheVars, lastScan, scanner, round, copyVars>>

(* Mutant: the scanner holds the lock while it walks.                      *)
CopyCacheAfterScan ==
    /\ round = "copy"
    /\ \A i \in Slots : ~scanner[i].active
    /\ cached' = shareSizes
    /\ seenAge' = age
    /\ seenScanning' = shareScanning
    /\ round' = "decide"
    /\ UNCHANGED <<conf, cacheVars, lastScan, scanner, shares, sizes>>

(* The section under the read lock.                                        *)
CopyCache ==
    /\ round = "copy"
    /\ cached' = shareSizes
    /\ seenAge' = age
    /\ seenScanning' = shareScanning
    /\ round' = "decide"
    /\ UNCHANGED <<conf, cacheVars, lastScan, scanner, shares, sizes>>

(* Mutant: the copied flag is not looked at, since Launch checks the flag. *)
DecideByAge ==
    /\ round = "decide"
    /\ sizes' = Restrict(cached, shares \cap DOMAIN cached)
    /\ round' = IF ShareScanEnabled /\ Due(seenAge) THEN "launch" ELSE "idle"
    /\ UNCHANGED <<conf, cacheVars, lastScan, scanner, shares, copyVars>>

(* Mutant: sizes of shares that are gone are shown too.                    *)
DecideAllCached ==
    /\ round = "decide"
    /\ sizes' = cached
    /\ round' = IF ShareScanEnabled /\ ~seenScanning /\ Due(seenAge)
                THEN "launch" ELSE "idle"
    /\ UNCHANGED <<conf, cacheVars, lastScan, scanner, shares, copyVars>>

(* Sizes are filled in from the copy; the copies say whether to scan.      *)
Decide ==
    /\ round = "decide"
    /\ sizes' = Restrict(cached, shares \cap DOMAIN cached)
    /\ round' = IF ShareScanEnabled /\ ~seenScanning /\ Due(seenAge)
                THEN "launch" ELSE "idle"
    /\ UNCHANGED <<conf, cacheVars, lastScan, scanner, shares, copyVars>>

(* Mutant: the flag is left for the scanner to raise.                      *)
LaunchUnflagged ==
    /\ round = "launch"
    /\ round' = "idle"
    /\ IF shareScanning
       THEN UNCHANGED <<lastScan, scanner>>
       ELSE /\ lastScan' = 1 - lastScan
            /\ \E i \in Slots :
                  /\ ~scanner[i].active
                  /\ scanner' = [scanner EXCEPT ![i] =
                        [active |-> TRUE, scan |-> 1 - lastScan,
                         left |-> shares, next |-> NoSizes]]
    /\ UNCHANGED <<conf, cacheVars, shares, sizes, copyVars>>

(* The section under the lock: the flag is checked again, and set.         *)
Launch ==
    /\ round = "launch"
    /\ round' = "idle"
    /\ IF shareScanning
       THEN UNCHANGED <<shareScanning, lastScan, scanner>>
       ELSE /\ shareScanning' = TRUE
            /\ lastScan' = 1 - lastScan
            /\ \E i \in Slots :
                  /\ ~scanner[i].active
                  /\ scanner' = [scanner EXCEPT ![i] =
                        [active |-> TRUE, scan |-> 1 - lastScan,
                         left |-> shares, next |-> NoSizes]]
    /\ UNCHANGED <<conf, shareSizes, age, shares, sizes, copyVars>>

(* Mutant: each size is put into the cache when it is known.               *)
WalkIntoCache(i) ==
    /\ scanner[i].active
    /\ \E s \in scanner[i].left :
          /\ shareSizes' = [t \in DOMAIN shareSizes \cup {s} |->
                               IF t = s THEN scanner[i].scan ELSE shareSizes[t]]
          /\ scanner' = [scanner EXCEPT
                 ![i].left = @ \ {s},
                 ![i].next = [t \in DOMAIN @ \cup {s} |-> scanner[i].scan]]
    /\ UNCHANGED <<conf, age, shareScanning, lastScan, round, shares, sizes, copyVars>>

(* scanShareSizes walks one share.                                         *)
Walk(i) ==
    /\ scanner[i].active
    /\ \E s \in scanner[i].left :
          scanner' = [scanner EXCEPT
              ![i].left = @ \ {s},
              ![i].next = [t \in DOMAIN @ \cup {s} |-> scanner[i].scan]]
    /\ UNCHANGED <<conf, cacheVars, lastScan, round, shares, sizes, copyVars>>

(* Mutant: the flag is not lowered.                                        *)
StoreFlagged(i) ==
    /\ scanner[i].active
    /\ scanner[i].left = {}
    /\ shareSizes' = scanner[i].next
    /\ age' = 0
    /\ scanner' = [scanner EXCEPT ![i] = NoScan]
    /\ UNCHANGED <<conf, shareScanning, lastScan, round, shares, sizes, copyVars>>

(* Its end, under the lock: the cache is replaced as a whole.              *)
Store(i) ==
    /\ scanner[i].active
    /\ scanner[i].left = {}
    /\ shareSizes' = scanner[i].next
    /\ age' = 0
    /\ shareScanning' = FALSE
    /\ scanner' = [scanner EXCEPT ![i] = NoScan]
    /\ UNCHANGED <<conf, lastScan, round, shares, sizes, copyVars>>

-----------------------------------------------------------------------------
(* The environment: time, and what is configured and mounted.              *)

Older(a) == IF a = Never \/ a = ShareScanInterval THEN a ELSE a + 1

Tick ==
    /\ age' = Older(age)
    /\ seenAge' = Older(seenAge)
    /\ UNCHANGED <<conf, shareSizes, shareScanning, lastScan, scanner, round,
                   shares, sizes, cached, seenScanning>>

ChangeConf ==
    /\ conf' \in SUBSET Shares \ {conf}
    /\ UNCHANGED <<cacheVars, lastScan, scanner, round, shares, sizes, copyVars>>

RoundStep == ReadConf \/ CopyCache \/ Decide \/ Launch

ScanStep(i) == Walk(i) \/ Store(i)

Next ==
    \/ RoundStep
    \/ NoConf
    \/ \E i \in Slots : ScanStep(i)
    \/ Tick
    \/ ChangeConf

(* Rounds follow each other and read smb.conf, every walk ends, time goes. *)
Fairness ==
    /\ WF_vars(RoundStep)
    /\ \A i \in Slots : WF_vars(ScanStep(i))
    /\ WF_vars(Tick)

Spec == Init /\ [][Next]_vars /\ Fairness

-----------------------------------------------------------------------------
(* Correctness                                                             *)

ScannerType ==
    [active : BOOLEAN, scan : Scans, left : SUBSET Shares, next : SizeMap]

TypeOK ==
    /\ conf \subseteq Shares
    /\ shareSizes \in SizeMap
    /\ age \in Ages
    /\ shareScanning \in BOOLEAN
    /\ lastScan \in Scans
    /\ scanner \in [Slots -> ScannerType]
    /\ round \in {"idle", "copy", "decide", "launch"}
    /\ shares \subseteq Shares
    /\ sizes \in SizeMap /\ DOMAIN sizes \subseteq shares
    /\ cached \in SizeMap
    /\ seenAge \in Ages
    /\ seenScanning \in BOOLEAN

(* The flag is raised exactly while one scanner goroutine lives, and there *)
(* are never two: the disks are not walked twice at the same time.         *)
OneScanner ==
    /\ shareScanning <=> \E i \in Slots : scanner[i].active
    /\ \A i, j \in Slots : scanner[i].active /\ scanner[j].active => i = j

(* A scan starts only when the last one ended a full interval ago, or      *)
(* never ran (README.md:123), although the decision is made on copies that *)
(* a scanner may have outdated.                                            *)
ScansAreSpaced ==
    [][\A i \in Slots : ~scanner[i].active /\ scanner'[i].active => Due(age)]_vars

(* The sizes a snapshot shows were measured by one and the same scan.      *)
OneScanShown == \A s, t \in DOMAIN sizes : sizes[s] = sizes[t]

(* A round never waits for a scan (README.md:127).                         *)
RoundNeverWaits == ENABLED RoundStep

(* A share that stays configured is measured in the end, whatever was      *)
(* mounted when a scan began (README.md:127).                              *)
ShareMeasured ==
    \A s \in Shares :
        ShareScanEnabled /\ s \in conf ~> s \in DOMAIN shareSizes \/ s \notin conf

(* An outdated cache is replaced in the end.                               *)
CacheRenewed == ShareScanEnabled /\ Due(age) ~> ~Due(age)
=============================================================================
