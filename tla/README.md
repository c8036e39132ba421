# TLA+ specifications of QNAP Status Lite

These modules model the Go program under `internal/` and `cmd/`: a single process
that samples a NAS every few seconds, keeps the latest snapshot in memory, appends one
point per sample to a bbolt file, and serves both over HTTP. TLC checks them on small
instances, and TLAPS proves the central results for every value of the constants.

## 1. The system

| Component | Source | State | Operations | Interacts with |
|---|---|---|---|---|
| Sampling loop | `internal/monitor/collector.go` | `latest`, the ticker, per round: context, results channel, WaitGroup | `Run`, `Collect`, `Latest` | starts the four workers; hands snapshots to the history; read by HTTP |
| Host worker: rates | `host.go` 26-106, 453-501 | `prevCPU`, `prevNet` | `collectHost`, `collectNetworks` | kernel counters; called by the loop |
| Host worker: share scan | `host.go` 239-325 | `shareSizes`, `lastShareScan`, `shareScanning` | `collectShares`, `scanShareSizes` (a goroutine that outlives rounds) | smb.conf, file system |
| Host worker: storage summary | `host.go` 186-237, 332-451 | none | `collectVolumes`, `uniqueShares`, `markIncludedShares`, `summarizeStorage`, `storagePoolKey`, `directorySize` | uses the sizes of the share scan |
| Process worker | `process.go` | `prevProcCPU`, `prevProcs` | `collectProcesses`, `readProcess` | kernel counters |
| SNMP worker | `snmp.go` | none | `collectSNMP` | the NAS's SNMP agent |
| PCIe worker | `pcie.go` | none | `collectPCIe` | sysfs, `nvidia-smi` |
| History store | `internal/history/store.go` | the bbolt file | `Open`, `Add`, `Query`, `Close` | fed by the loop, read by HTTP, closed by `main` |
| HTTP server | `internal/webui/server.go` | none | `/api/status`, `/api/history`, `/api/health`, `/metrics` | reads `latest` and the history |
| Dashboard | `internal/webui/static/app.js` | `historyPoints` | two polling timers, range selection | HTTP |
| Life cycle | `cmd/qnap-status-lite/main.go` | the signal context | start, signal, shutdown, `log.Fatalf` | all of the above |
| Merging | `collector.go` 74-102, 165-206 | the `System` of a snapshot | `mergeSystem`, the two `apply` closures | between the workers and the loop |
| Configuration, types, packaging | `config.go`, `types.go`, `Dockerfile`, ... | none | | |

What is hard here:

* **Concurrency.** Per round four goroutines and a closer race with a deadline and with
  the shutdown; a share scan runs beside any number of rounds; HTTP readers run beside
  everything; `main` closes the store without waiting for the loop.
* **Order.** Results are merged in the order of arrival, and two workers supply the same
  fields. Kernel counters go on while they are read one by one.
* **Failure.** A file may be unreadable in one round and readable in the next. A write
  may fail, the process may be killed, the clock may be set.
* **Time.** A round may outlast its deadline, a tick may be lost, a snapshot is old when
  it appears, and the health check has a limit of its own; `nvidia-smi`, SNMP requests
  and the shutdown have time limits that interact with it.
* **Absence.** A value that could not be read is often the number zero, which a later
  value, a label or a chart may take for a reading.
* **Boundaries.** Unsigned differences of counters that may go back, a cutoff before
  1970, a page limit, a cursor that deletes while it walks.

What makes each part correct: a snapshot accounts for every worker, and each is handed over
once (loop); a rate compares samples of one and the same process or interface over the right
period (rates); one scan at a time, spaced, whole, and never in the way of a round (scan);
every file counted once, and every pool that goes by one name (summary); nothing retained is lost, an addition is
all or nothing, old points go, and a query shows its window (history); memory values are of
one reading and do not depend on who was faster (merge); the health check passes while
sampling goes on, fails when it hangs, and recovers with it (health); what a walk that broke off shows of a
disk or a volume is no better than what the agent gave (SNMP); each device has its own
metrics and failures hide nothing (PCIe); a stop loses at most a point and always ends (life
cycle); late and failed answers heal (dashboard). `PROJECT.json` lists the hazards with
their lines and the properties that cover them.

## 2. Modules

| Module | Models | Kind |
|---|---|---|
| `Collector` | `Run` and `Collect` | detailed state machine |
| `SnapshotFeed` | what the loop promises to HTTP and to the history | abstract specification, implemented by `Collector` |
| `HistoryStore` | `Open`, `Add`, `Query`, `Close`, the handler of `/api/history`, and the part of bbolt they use | detailed state machine |
| `HistoryLog` | what the history promises | abstract specification, implemented by `HistoryStore` |
| `ShareScan` | `collectShares`, `scanShareSizes` | state machine |
| `HostRates` | the samples of `collectHost` and `collectNetworks`, and the fate of the result | state machine |
| `ProcessRates` | the samples of `collectProcesses` | state machine |
| `Storage` | the storage summary of each round, while its inputs change | state machine |
| `SystemMerge` | `System` as both workers return it, and `mergeSystem` | operators over all small readings, in both orders of arrival |
| `SNMPRows` | `walkRows` where it breaks off, `parseDisks`, `parseVolumes` | operators; nothing is kept |
| `PCIe` | `collectPCIe`, `collectQNAPNVIDIA` and what they read | operators; nothing is kept |
| `Health` | `Run` and `Collect` with a clock, `/api/health` | timed state machine |
| `Service` | `main.go` with the loop, the store, the readers and restarts | composition, each part seen from outside |
| `Dashboard` | the charts of `app.js` and the handler of `/api/history` | state machine |
| `CollectorProofs`, `HistoryProofs`, `ShareScanProofs`, `HostRatesProofs`, `ServiceProofs` | theorems about the module each is named after, and their proofs | |
| `SumProofs` | lemmas about sums, and theorems about `ProcessRates` and `Storage`, whose properties are about totals, and their proofs | |
| `WebProofs` | theorems about `Health` and `Dashboard`, and their proofs | |
| `RoundProofs` | theorems about `SystemMerge`, `SNMPRows` and `PCIe`, and their proofs | |
| `MC*` and `*.cfg` | instances for TLC | |

How they fit together: `Collector` has the inside of the loop and assumes of the workers
only what they may return; `HostRates`, `ProcessRates`, `ShareScan`, `Storage`,
`SNMPRows` and `PCIe` have the insides of the workers, and those of them that keep
something from round to round rely on `Collector!RoundJoined` (one worker of a kind at a
time); `SystemMerge` has the values of
the results whose presence `Collector` tracks; `HistoryStore` has the inside of the
transactions that `Service` sees as one step; `Health` adds time to the loop; `Dashboard`
is the other end of HTTP.

Operators named in a comment as a *mutant* are variants of the definition that follows
them, with a plausible mistake. They are used by no specification; they exist to show
that each property would notice.

### Collector

`pc` is the place of the `Run` goroutine: `boot`, `gather` (the loop over the results),
`publish`, `sink`, `wait` (the select), `returned`. `worker[w]` is the life of one
goroutine and then of its result: `running`, `sending` (in its select), `sent` or
`dropped`, and `applied`. `results` is the buffered channel, `closed` whether the closer
has closed it. `deadline` stands for the timeout of the round's context and `stopping`
for the cancelled process context; the round's context is done when either holds.
Timeouts and signals may come at any moment. `ticker` is the one-element channel of the
`time.Ticker`, in which a tick is lost if the last one is still there.

| Action | Code (`collector.go`) |
|---|---|
| `FirstRound`, `TickRound` | 152, 159-160, with the head of `Collect`, 45-70 |
| `Finish` | 64, a worker's function returns one of `Returns(w)` |
| `Send`, `Drop` | 65-68, the two branches of the select |
| `Close` | 113-116 |
| `Apply` | 117-126, one turn of the loop, with the `apply` closures 74-102 |
| `Seal`, `Publish`, `Sink` | 127-129, 131-134, 142-145 (and the ticker, 153) |
| `Return` | 157-158 |
| `Tick`, `Expire`, `Shutdown` | the environment |

A result is reduced to what the merge looks at: is it an error, does it carry memory,
does it carry volumes. `HostReturns` and `SNMPReturns` say which of these the two
functions can return, with and without an error: `collectHost` cannot succeed without
memory, `collectSNMP` can deliver any combination. The run
uses a success with everything, a failure that has read memory all the same, and a failure
with nothing, which between them take every branch of the two closures.

### HistoryStore

`db` is the committed set of keys, `work` the set the write transaction sees, `phase` how
far `Add` is, `stamp` the time of the snapshot on its way, `cursor` the key the walk is
on, `asOf` the clock reading the cutoff is computed from. The steps of an `Add` are `Put`
(45-81), `ReadCutoff` (82-84), `Prune` (one turn of the loop, 84-88) and `Commit` (89-91).
The clock ticks, and may be set, between any two steps. bbolt is modelled from its use: a
write transaction becomes visible as a whole, a failed one not at all, `Close` waits for
the running one, and a cursor's `Next` after `Delete` may step over one key. Queries are
operators on `db`, since a read transaction sees one committed state. `Crash` stands for a
kill and for `log.Fatalf` (`main.go:46`), which skips the deferred `Close`.

### ShareScan

The host worker's part is `ReadConf` / `NoConf` (239-287), `CopyCache` (under the read
lock, 288-295), `Decide` (296-303, on the copies) and `Launch` (under the lock, 304-311);
the scanner's is `Walk` per share (315-319) and `Store` (320-325). Time is the age of the
last scan, counted up to the interval, as `time.Since` is monotonic. A size is represented
by the scan that measured it, which is what `OneScanShown` needs to tell apart. `Slots`
only bounds how many scanners could exist if the code allowed it.

### HostRates and ProcessRates

The kernel's counters move between any two steps of the samplers. A rate is the pair of
numbers that the code divides, with 64-bit wrap-around in the differences. The auxiliary
variables `busy`, `fell` and `since` record, independently of the stored samples, what
happened since the last successful sample; the properties compare the rates with them.
`ReadProcess` may leave out any process, one that has ended or one whose stat cannot be read
or parsed (`process.go:102-124`): `prevProcs` then lacks it, and the next round that reads it
shows 0. `since` is therefore the ticks since the last finished round if that round read the
process, and `Unread` otherwise.
`HostRates` follows the host worker through a round: `SampleCPU` or `CPUUnreadable`, then
`ReadNetworks` or `NetworksUnreadable`, then `Deliver` or `Drop`, when the samples have
been replaced already (`host.go:498`). `counted` adds up what snapshots have shown.

### Storage

A path is a sequence of names, and each directory holds one unit of data, so that
`directorySize` is the number of directories below. A share is represented by its path in
smb.conf, by which the code keys the sizes (`host.go:298`, `318`), and `Real` is where the
links lead; a volume is represented by its position in the order of the two glob patterns,
because the code takes the first one where it needs a stand-in. The actions change one input
each: smb.conf, the readable volumes, what `/proc/mounts` says, and the cached sizes (`Scan`).
`storagePoolKey` opens `/proc/mounts` for each share anew and falls back when no line fits
(`host.go:410-437`), so that `listed` is a set of shares: those for whose volume the call
finds a line. The invariants are about `Summary`, what a round would show in the present
state; `Known`, `VolumeOf`, `PoolKey`, `Pools`, `PoolTotals`, `Complete` and `Measured` are
what the loop of `summarizeStorage` has gathered at its end. The directories themselves do not change; how
old a size may be is the subject of `ShareScan`.

### SystemMerge

A `System` is a function from its fields to numbers. `CollectHost` and `CollectSNMP` build
it from the numbers that files and SNMP variables hold (a file that cannot be read is a
zero, except for the CPU, -1), `MergeSystem`, `ApplyHost` and `ApplySNMP` are
`mergeSystem` and the two closures. `Init` chooses both readings, then the results arrive
or are dropped in any order. The fields fall into classes: memory and ARC, which the host
has precedence for or only the host supplies; fields of one worker; and the three contested
ones (host name, uptime, CPU percentage).

### SNMPRows

A table of the agent is a function from its cells to numbers, in the order of the walk:
column by column. `WalkRows` keeps the cells up to the one after which the walk broke off
(or all of them), as `walkRows` does with what gosnmp has handed it before the error, and
the parsers turn what is missing into zero. The properties relate the rows shown to the
table of the agent.

### PCIe

A device is a pair of its PCI domain and its place. A machine is the two lists of the
configuration, what sysfs and the NVIDIA driver say of each device, and what `nvidia-smi`
prints; `Listed`, `Temperature`, `DeviceMemory`, `Capability` and `Shown` follow
`collectPCIe` in the order in which it overwrites values. A metric is represented by where
it comes from, memory by whose it is.

Both modules are functions of what a worker finds in one round and keep nothing, so that
they have no behaviours of their own: their properties are operators, proved for every
table and every machine, and evaluated by TLC for all small ones in the assumptions of
`MCRound`, beside the merge of the two systems in the same round.

### Health

Time passes in seconds, but not beyond a moment at which something is due. `Finish` is the
end of a round, after any length up to `MaxRun`, or after a hang of any length; `age` then is
the length of the round, since the timestamp is that of its start. `Fire` loses a tick when
one is pending, `Begin` takes one, and `Hang` is a worker that blocks, for a while or for
ever. The auxiliary `stalled` says that the round under way hangs, or that the snapshot
shown is of one that did. What a round lacks when its deadline or a shutdown overtakes its
workers is the subject of `Collector` (`Drop`, `NoSilentLoss`).

### Service

`main` goes through `running`, `draining` (in `Shutdown`), `closing` (the deferred
`Close`), `closed` and `down`; the loop is seen as sampling, published, writing, waiting or
returned, and is gone in whatever state it is when `main` is. `Close` waits for the write
and for the read transactions. A client may take its answer late or never, which keeps its
connection from being idle until the eight seconds are over. `Launch` starts the next life
with an empty `latest` and the same file.

### Dashboard

Each slot holds a history request on its way. Requests read the range when they start, and
answers are drawn as they come. `DrawAll` draws the charts one after the other and breaks
off in the first one when the answer is not an array. The service fails, stops answering
and recovers at any moment.

## 3. What TLC checks

| Run | Instance | Shows |
|---|---|---|
| `collector` | 3 workers, 3 kinds of result, 2 rounds (209,562 states) | `NoSilentLoss` and `HostWins` in every order of arrival with the deadline or the shutdown anywhere; `RoundJoined`, `ImplementsFeed`, `ShutdownReturns`, `SamplingGoesOn` |
| `history_store` | clock 4..9, retention 2, page of 3, 2 faults | `KeepsRetained`, `ImplementsLog`, `PruneHalves`, `ExpiredPruned`, `QueryReachesPresent` |
| `history_week` | window larger than a page | **violates** `QueryReachesPresent` |
| `history_unset_clock` | clock below the retention | **violates** `KeepsRetained` |
| `share_scan` | 2 shares, interval 2, room for 2 scanners | `OneScanner`, `ScansAreSpaced`, `OneScanShown`, `RoundNeverWaits`, `ShareMeasured`, `CacheRenewed` |
| `process_rates` | 2 pids, 2 processes each, total up to 3, 1 step back (2.6 million states) | `OwnTicks`, `SharesAddUp` |
| `host_rates` | a total of 4 ticks, 2 steps back, 1 interface with 2 bytes, 4 rounds (3.4 million states) | `CPUPercentExact`, `NoByteTwice`, `ThroughputExact` |
| `storage` | up to 3 shares of 5, 3 volumes, 2 pools, a line of `/proc/mounts` for each share or none (100,496 states) | `DataCountedOnce`, `PoolsCountedOnce`, `ScanCompletes` |
| `round` | two values per file and per variable (347,400 states); 12,000 machines of 2 devices at one place of 2 domains, 900 tables with 6 breaks each | `MemoryOfOneReading`, `OrderFree`, `LatestReading`; the properties of `PCIe` and `SNMPRows` |
| `health` | interval 47 s, rounds of up to 36 s, limit 120 s (1,147,245 states) | `HealthyWhileSampling`, `StallDetected`, `RecoversAfterStall` |
| `service` | 2 lives of 2 rounds, 2 clients (17,436 states) | `AtMostLastLost`, `RefusedOnlyOvertime`, `SignalEnds` |
| `dashboard` | 2 ranges, 3 requests at a time (232,764 states) | `ChartsAgree`, `ChartsSettle` |

Deadlock is checked in every run; the only state in which the program may stop, after
`Run` has returned, is the stuttering action `Finished`.

**Why these bounds are enough.** *Collector:* the interesting cases of a round are the
orders of the results and one deadline; the two workers whose results are merged and one
more stand for all (the safety properties are proved for every set of workers and any number
of rounds). What passes from one round to the next is `latest`, the ticker and the contexts,
for which a first round and one that a tick has started suffice. *History:* six clock
readings with a retention of two make points expire several at a time, so that the walk
deletes, steps over a key and stops; a page of three is exactly the number of points in the
longest window, the boundary of the limit. One unit of time stands for what fills about a
third of a page. Two faults allow a crash after a clock step and a failed write after a
restart. *Share scan:* two shares are the least for a torn cache, two slots the least for a
second scanner. *Rates:* four rounds allow a sample, a failure, an absence or a dropped
result, and a comparison across it; interfaces do not influence each other, so that one
stands for all. *Storage:* three shares are the least for a share with an alias and a share
inside of it at the same time, and for a pool with and without a line. *Merge:* a field is compared with zero and otherwise copied,
so that zero, one value of each worker and the configured name tell all sources apart.
*SNMP:* a row is judged alone, by whether the walk passed the two columns that its values
come from. *PCIe:* devices only interact through the names in `nvidia-smi`'s table, for
which two at the same place of different domains are the critical pair. *Health:* the
interval and round satisfy `Interval + 2 * MaxRun < Limit` exactly (47 + 72 = 119), so that
one second more would fail; a hang may last beyond all counted times. *Service:* two
lives have a predecessor's points, two rounds a point that is not the last. *Dashboard:* two
requests overtake each other, and a third may start while they are late.

**Fairness.** *Collector:* every goroutine that can run eventually does (the Go scheduler),
the function of a worker returns, the ticker fires; strong fairness of `Return` says that a
select that is ready for `ctx.Done()` again and again does choose it, as Go's select picks
at random. That workers return is an assumption about their environment: nothing in the code
interrupts a `statfs` on a dead mount or a hung `nvidia-smi`, and then `Collect` waits for
ever. No fairness is assumed of deadlines, shutdowns or the order of the workers.
*HistoryStore:* the container is restarted, rounds follow each other, and a started `Add`
runs to its end; nothing is assumed of the clock, of failures or of crashes. *ShareScan:*
rounds follow each other and read smb.conf, walks end, and time passes. *Health:* time
passes, the ticker fires, the loop takes a tick that waits, and a round in which no worker
hangs ends; of one that hangs nothing is assumed. *Service:* a transaction
that has begun ends, the eight seconds pass, and `main` goes on; strong fairness of `Close`
stands for bbolt's, which takes the locks of the transactions in turn. Nothing is assumed of
clients, signals, crashes, or of the loop outside of `Add`. *Dashboard:* the timer goes on
and every request ends in an answer or an error; the service need not recover, and what
should happen when it does is the hypothesis of the property.

**Findings.**

1. `history_week`: `Query` returns the *oldest* points of the window, at most 10,000
   (`store.go:103`, `server.go:50`). The 7 days that `README.md:31` offers are 60,480
   points at the default interval, so that chart ends after 27.8 hours, more than five
   days before the present. (The 24 hours, 8,640 points, fit.)
2. `history_unset_clock`: the cutoff is `uint64` of a Unix time (`store.go:82`). It is
   negative when the clock reads less than the retention (not set after a boot) or the
   retention is longer than the time since 1970 (`HISTORY_RETENTION=999999h`), wraps to
   a huge number, and the next `Add` deletes the whole history, its own point included.

**Departures from the documentation** that no run of its own shows; each was found with the
modules named, whose properties are stated so that they hold, and say where the limits are:

* The health check's limit is a constant two minutes (`server.go:60`), `COLLECT_INTERVAL`
  (`README.md:119`) has no upper bound: with five minutes the container is unhealthy for
  three of them (`Health`; `HealthyWhenCycleFits` says which settings are safe).
* `nvidia-smi` has eight seconds (`pcie.go:101`), and so has the round at the default
  interval. A tool that hangs makes the device list ready only when the round's context is
  over, and the list may be dropped, although `README.md:103` says that devices are shown
  without the vendor's metrics (`Collector`; `NoSilentLoss` says that the snapshot then
  tells that it was cut short).
* A pool goes by its device for a share with a line in `/proc/mounts` and by its capacity for
  one without (`host.go:410-437`), so that it is counted twice when both occur, although
  `README.md:23` says that the datasets of a pool are counted once (`Storage`;
  `PoolsCountedOnce` bounds what is added by the capacity of those pools, `Mixed`).
* When the walk of the disk table breaks off before the SMART column, its disks are labelled
  as good (`snmp.go:124`) and the collector reports no error (`snmp.go:80`); a walk that
  breaks off between total and free space shows a full volume (`SNMPRows`; `SmartVouched`
  says that a disk with a capacity can be trusted).
* An empty history is encoded as `null` (`store.go:97`), on which `drawChart` throws before
  it can explain that there are too few points (`app.js:49`; `Dashboard`, `DrawAll`).
* The class filter (`pcie.go:32`) precedes `PCIE_INCLUDE_BDFS`, which `README.md:124` says
  forces a device to be shown (`PCIe`, `Listed`).
* `N/A` of `nvidia-smi` replaces a temperature that hwmon supplied (`pcie.go:180`), against
  `README.md:103` (`PCIe`, `Temperature`).

**Observations** that no document of the repository contradicts, recorded as hazards: CPU
percentage, host name and uptime are those of whichever of the host and the SNMP worker
arrives last; SNMP volumes are lost if an empty host list arrives after them; the traffic
of a round whose host result is dropped appears in no rate, because `prevNet` has moved
on; a process that could not be read in one round shows 0 % in the next; the CPU percentage
exceeds 100 by as much as iowait fell; an agent without a CPU object
supplies 0 %, not unknown, and a round without a percentage is recorded as 0 %; memory that
comes from SNMP has no available part; `QNAP_HOSTNAME` and the SNMP host name alternate; the
label "QNAP NVIDIA 完整监控" is replaced by "完整监控" as soon as any metric is positive;
a GPU in a PCI domain other than zero gets no metrics of `nvidia-smi`; a SNMP collection whose
requests all time out takes up to 24 seconds, three times the default deadline; labels on the
metrics page are escaped twice.

## 4. What is proved

The proofs hold for all values of the constants, also those that TLC bounds: the bounds
(`MaxRound`, `MaxFaults`, `Slots`, `Reports`) may be any.

*Collector* (`CollectorProofs`, from `WorkersAssumption`, `CapacityAssumption`,
`MaxRoundAssumption`): `TypeCorrect`, `RoundsAreJoined`, `LossIsReported`,
`HostHasPrecedence`, `LoopImplementsFeed`. None of the properties is inductive alone.
`RoundJoined` needs to know why the loop ends with all workers back: `ClosedOK` (the
channel is closed only after every worker has left its select) together with `ChannelOK`
(the channel holds exactly the results that were sent and not applied, each once, so that
empty means that none is under way). `NoSilentLoss` needs `StatusOK`: a worker without a
status at the end of the loop was dropped, a drop happens only when the context is done,
and once done it stays done until `Seal` asks. `LoopOK` relates `snapshot`, `latest` and
`sunk` at each place of the loop, which the refinement uses. `IndInv` is their
conjunction; each action has its lemma. The refinement maps `Publish` to `FeedPublish`,
`Sink` to `FeedSink`, `Return` to `FeedStop`, and every other step to a stutter.

*HistoryStore* (`HistoryProofs`, from `WordAssumption`, `TimesAssumption`,
`RetentionAssumption`, and `ClockIsSet`, which is a hypothesis of each theorem: the clock
never reads less than the retention): `TypeCorrect`, `RetentionIsKept`,
`StoreImplementsLog`, `HalfTheExpiredGo`. `TxOK` says what a running transaction has done:
it has added its point, taken away only points older than the cutoff, and, unless it has
not begun to walk, removed the oldest. Without `ClockIsSet` the first two are false, as
finding 2 shows. `HalfTheExpiredGo` needs `HalvesOK`: at each turn of the walk the points
left behind the cursor are no more than those it has deleted, since only a deletion makes
it step over one. The charts need `QueryAssumption`, and `ClockPassesWindows` (the clock
reads at least as much as the longest window, so that the lower end of a query is not
before 1970): `FittingChartsReachPresent` says that a chart ends with the newest point of
its window whenever the points of the windows fit into a page, whatever points of the
future a clock that was set back has left behind them; `SpacedChartsReachPresent` that
they do in every state whose points lie a number of seconds apart of which a page holds more
than the window has, as a window of `h` seconds has room for `h \div step + 1` such points
(`PointsOfWindow`); and `HourChartReachesPresent` that a window of fewer seconds than a page
has points needs no such condition, as keys are whole seconds. Of the windows of the
dashboard that is the one of an hour; 6 and 24 hours need 3 and 9 seconds between points,
which the default interval gives as long as no round outlasts it by so much that the next,
started by the pending tick, follows too soon; the seven days need 61, and do not fit
(finding 1).

*ShareScan* (`ShareScanProofs`): `TypeCorrect`, `ScannerIsAlone`, `ScansKeepInterval`,
`SizesAreOfOneScan`. The check under the lock alone gives `OneScanner`; `ScansAreSpaced`
needs `CopiesOK`: a round that has copied "no scanner" can rely on it, and on the age it
copied, until it launches one, because only the host worker launches scanners and rounds
do not overlap. The second copy, of the flag, is therefore not redundant: without it a
scan that ends between the copy and the lock is followed by another at once (the mutant
`DecideByAge`).

*HostRates* (`HostRatesProofs`, from `BoundsAssumption`): `TypeCorrect`,
`CPUPercentIsExact`, `ThroughputIsExact`, `BytesAreShownOnce`. `BusyOK` relates the stored
sample of the CPU to the counters: the ticks that are not idle grow by the busy ones, which
is why a wrapped `idleDelta` cancels out. `SampleOK` says that a sample is kept of exactly
the interfaces the last complete reading saw, and that what arrived since is the difference
to the counter unless the name has passed to another interface. For `NoByteTwice` the
`Ledger` adds the result that is on its way: what was shown, what is about to be, and what
came since the last sample are disjoint parts of what was received. That the counter is
smaller than the width of a word is the one thing assumed of it; a reset of the counter is
not a wrap-around and is treated as the code does.

*ProcessRates* (`SumProofs`, from `PidsAssumption`: the pids are finitely many,
`BoundsAssumption` and `WordAssumption`): `TypeCorrect`, `SharesAreTheirOwn`,
`SharesAreOfOnePeriod`. `ReadingOf` says in which of the two tables the last reading of a
process is, and that one that neither the last finished round nor the present one has read
is in neither table, though a process that had its pid before may be; `PairOf` that a reading continues the sample of the same process or none. `SumsOK` is
what `SharesAddUp` needs: the ticks owed to the stored total, and those owed to the total
of the present round, are sums over all pids, neither of which exceeds what the total
counted in its period. It rests on lemmas about `SumFunctionOnSet` of the community
modules (`SumUnfold`, `SumRemove`, `SumGrows`, `SumOneMore`, `SumOfNone`): that the sum of
a finite set exists is shown by well-founded induction over the set of its subsets, which
needs no operator parameter.

*Storage* (`SumProofs`, from `TreeAssumption`: finitely many directories, and links that
lead to them, `VolumesAssumption`: volumes have different names, and `MaxSharesAssumption`):
`StorageTypeCorrect`, `DataIsCountedOnce`, `PoolsAreCountedOnce`,
`ListedPoolsAreCountedOnce`, `ScansComplete`. The invariant, `StorageInv`, is small: what
was measured of a share is still the size of the directory it leads to. The work is in what
the summary makes of it. *Data:* `CountedApart` says that no directory lies below two
shares that are counted (two of its prefixes are prefixes of one another, and then one of
the shares is inside of the other), `Topmost` that each share lies in one that is counted
(the one with the shortest path), so that the sizes added up are those of disjoint sets
whose union is everything the shares reach (`SumOfSizes`). *Pools:* a pool has at most two names,
and two only if it is one of `Mixed` (`KeysOfPools`, `MixedAre`); with a copy of each of
those (`Again`), each pool the code keys is paid for by a different true one
(`PoolsNotTwice`, with `SumMapped`: a sum is no larger than one over other elements, if each
of its terms is covered by one of its own, and `SumSplit`), and while `/proc/mounts` has a
line for every share the converse holds as well (`PoolsNotMissed`).
Both theorems on pools have `VolumesHaveSize` as a hypothesis: a volume that statfs calls
empty is no pool to the code. Without a line the code takes datasets of one
capacity for one pool (`host.go:431-434`); `PoolsAreCountedOnce` therefore assumes
`DatasetsShareCapacity`, what the comment there says of QNAP, and without it a pool whose
datasets differ (quotas) is counted once for each capacity.
`ListedPoolsAreCountedOnce`, for states in which every share has a line, needs no such
assumption. `MCStorage` evaluates both hypotheses
for its instance.

*Health* (`WebProofs`, from `TimesAssumption`): `HealthyWhenCycleFits` under `CycleFits`
(`Interval + 2 * MaxRun < Limit`), and `TypeCorrect`. The age alone is not inductive:
`SamplingOK` and `WaitingOK` say how much of a cycle has gone by when a tick is pending and
how much can still come when none is, lost ticks included, and `HungOK` that a round that
hangs is `stalled`, so that the snapshot it publishes in the end may be of any age.

*Service* (`ServiceProofs`, from `BoundsAssumption`): `TypeCorrect`, `OnePointPerLife`,
`NoEarlyRefusal`. `OnItsWay` says that the only point of the present life that is neither
in the file nor in the log is that of the last round, and that it is between its
publication and the end of its `Add`; so whatever ends the life leaves at most that one,
and a later life, which counts its rounds afresh, touches none of an earlier one. `DrainOK`
says that the store is open until the drain is over, and that the drain ends with every
connection idle or with its time limit.

*Dashboard* (`WebProofs`, from `MaxSnapshotAssumption`): `ChartsTypeCorrect`,
`ChartsNeverDisagree`. Whatever decodes from an answer, drawing it either brings all charts
to its range or blanks the first (`DrawingType`), so that neither the order of the answers
nor their number matters.

*SystemMerge* (`RoundProofs`, from `ReadingsAssumption`, `NameAssumption`): `TypeCorrect`,
`MemoryIsOfOneReading`, `ArrivalOrderIsFree`, `LatestArrivalHas`, for all natural numbers as
readings. The invariant follows the four sets of results that can have been applied, and
`LastHas` the latest of those that carry a contested field.

*PCIe* (`RoundProofs`, from `DevicesAssumption`): `WellTyped`, `MetricsAreOwn`,
`FailureIsHarmless`. `NamesTellApart` is the core: after normalisation only a name of
domain zero has four digits, so that a line of `nvidia-smi` meets no device but its own.

*SNMPRows* (`RoundProofs`, from `IndexesAssumption`): `SmartIsVouched`, `SpaceIsVouched`,
for every table and every break. `EarlierColumnsRead` is the core: the walk goes forward, so
that a row that has its capacity (column 9) has its SMART state (column 5).

**Only model-checked.** All liveness properties, the fairness in `ImplementsFeed` (the proof
is of its safety part, `Feed!FeedSafety`), and `RoundNeverWaits`: fairness and `ENABLED` are
beyond the prover. The type invariants of `Health`, `SystemMerge`, `HostRates`,
`ProcessRates`, `Service` and `Dashboard` are proved, and are no run's question.

## 5. What is not modelled

Parsing and formatting of the files of `/proc`, of SNMP values and of sysfs; the masking of
arguments; percentages that are one division; the order and the length of the process list;
the text of `/metrics`, static files and headers; what the page renders from a snapshot;
utilisation, power and fans of a GPU, which take the paths of temperature and memory; link
state and speed of interfaces; the fan table and the single requests of an SNMP walk; the
status requests of the page; the configuration, whose values are the constants of the
modules; build and deployment. The reasons stand with the components in `PROJECT.json`.

## 6. Plan

Done: `SnapshotFeed`, `Collector`, `HistoryLog`, `HistoryStore`, `ShareScan`, `HostRates`,
`ProcessRates`, `Storage`, `SystemMerge`, `SNMPRows`, `PCIe`, `Health`, `Service`,
`Dashboard`, and the eight modules of proofs. Every safety property that a run checks is
proved, except for `RoundNeverWaits`. What is left is what the prover cannot do: the
liveness properties, and `RoundNeverWaits`, which is about `ENABLED`.
