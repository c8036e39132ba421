------------------------------ MODULE Collector ------------------------------
(***************************************************************************)
(* The sampling loop of internal/monitor/collector.go.                     *)
(*                                                                         *)
(* Run calls Collect once at start-up and then once per ticker tick.       *)
(* Collect starts one goroutine per worker ("host", "snmp", "pcie",        *)
(* "processes"), each of which sends its result on a buffered channel or   *)
(* gives up if the sampling context is done; a closer goroutine closes the *)
(* channel when all of them have returned; the loop applies the results in *)
(* the order of the channel, records a failed "scheduler" if the context   *)
(* is done, publishes the snapshot and hands it to the sink.               *)
(*                                                                         *)
(* A worker's result is reduced to what the merge looks at: whether it is  *)
(* an error, whether it carries memory values, whether it carries volumes. *)
(* The fields only one worker writes are represented by status[w].         *)
(***************************************************************************)
EXTENDS Integers, Sequences

CONSTANTS
    Workers,        \* the names passed to run()
    Capacity,       \* the buffer of the results channel (4 in the code)
    Reports,        \* bound: the results the workers' functions may return
    MaxRound        \* bound: no tick once this many rounds have started

ASSUME WorkersAssumption == {"host", "snmp"} \subseteq Workers
ASSUME CapacityAssumption == Capacity \in Nat \ {0}
ASSUME MaxRoundAssumption == MaxRound \in Nat

VARIABLES
    pc,             \* where the Run goroutine is
    stopping,       \* the process context is cancelled
    deadline,       \* the timeout of the current round's context has passed
    ticker,         \* "off", or its one-element channel "empty" or "full"
    worker,         \* per worker: its goroutine, then the fate of its result
    result,         \* per worker: what its function returned in this round
    results,        \* the channel of results: the workers that sent, in order
    closed,         \* the channel is closed
    snapshot,       \* the snapshot Collect is building
    latest,         \* c.latest
    sunk            \* the round of the last snapshot given to the sink

runVars     == <<pc, ticker, sunk>>
workerVars  == <<worker, result>>
channelVars == <<results, closed>>
vars == <<pc, stopping, deadline, ticker, worker, result, results, closed,
          snapshot, latest, sunk>>

-----------------------------------------------------------------------------
(* Data                                                                    *)

Result == [ok : BOOLEAN, memory : BOOLEAN, volumes : BOOLEAN]

(* collectHost errs when the CPU, the memory or the network counters are    *)
(* unreadable, so a success carries memory.                                *)
HostReturns == {r \in Result : r.ok => r.memory}

(* collectSNMP delivers whatever it got, also with an error: it errs when  *)
(* the scalars fail, and when all three tables do, with the rows they gave.*)
SNMPReturns == Result

(* collectPCIe and collectProcesses fill in fields of their own.           *)
OtherReturns == {r \in Result : ~r.memory /\ ~r.volumes}

(* What each worker's function can return.                                 *)
Returns(w) ==
    Reports \cap CASE w = "host" -> HostReturns
                   [] w = "snmp" -> SNMPReturns
                   [] OTHER      -> OtherReturns

ASSUME ReportsAssumption == \A w \in Workers : Returns(w) # {}

NoResult == [ok |-> FALSE, memory |-> FALSE, volumes |-> FALSE]

Source == {"none", "host", "snmp"}

Snapshot == [round     : Nat,
             status    : [Workers -> {"missing", "ok", "failed"}],
             scheduler : BOOLEAN,       \* a failed "scheduler" status
             memory    : Source,        \* whose memory and ARC values it holds
             volumes   : Source]        \* whose volumes it holds

NewSnapshot(n) == [round     |-> n,
                   status    |-> [w \in Workers |-> "missing"],
                   scheduler |-> FALSE,
                   memory    |-> "none",
                   volumes   |-> "none"]

(* mergeSystem, for the group of memory fields: present values replace.    *)
MergeMemory(base, source, r) == IF r.memory THEN source ELSE base

(* The host result overwrites the volumes, even with an empty list.        *)
ApplyHost(s, r) ==
    [s EXCEPT !.memory  = MergeMemory(@, "host", r),
              !.volumes = IF r.volumes THEN "host" ELSE "none"]

(* Mutant: the memory found in the snapshot is not saved and restored.     *)
ApplySNMPOverMemory(s, r) ==
    [s EXCEPT !.memory  = MergeMemory(@, "snmp", r),
              !.volumes = IF @ = "none" /\ r.volumes THEN "snmp" ELSE @]

(* The SNMP result restores memory that was already there after the merge  *)
(* and fills the volumes only when there are none.                         *)
ApplySNMP(s, r) ==
    [s EXCEPT !.memory  = IF @ # "none" THEN @ ELSE MergeMemory(@, "snmp", r),
              !.volumes = IF @ = "none" /\ r.volumes THEN "snmp" ELSE @]

ApplyResult(s, w, r) ==
    CASE w = "host" -> ApplyHost(s, r)
      [] w = "snmp" -> ApplySNMP(s, r)
      [] OTHER      -> s

(* Mutant: a failed worker's status is left blank.                         *)
RecordBlank(s, w, r) ==
    [ApplyResult(s, w, r) EXCEPT !.status[w] = IF r.ok THEN "ok" ELSE ""]

(* One turn of the loop over results: apply, also on error, then status.   *)
Record(s, w, r) ==
    [ApplyResult(s, w, r) EXCEPT !.status[w] = IF r.ok THEN "ok" ELSE "failed"]

(* ctx.Done() of the sampling context: its own timeout, or the parent's.   *)
ContextDone == deadline \/ stopping

(* Mutant: the closer counts delivered results instead of goroutines.      *)
AllDelivered == \A w \in Workers : worker[w] \in {"sent", "applied"}

(* wg.Wait() returns: every worker goroutine has left its select.          *)
AllReturned == \A w \in Workers : worker[w] \in {"sent", "applied", "dropped"}

-----------------------------------------------------------------------------
Init ==
    /\ pc = "boot"
    /\ stopping = FALSE
    /\ deadline = FALSE
    /\ ticker = "off"
    /\ worker = [w \in Workers |-> "idle"]
    /\ result = [w \in Workers |-> NoResult]
    /\ results = <<>>
    /\ closed = FALSE
    /\ snapshot = NewSnapshot(0)
    /\ latest = NewSnapshot(0)
    /\ sunk = 0

(* The head of Collect: a fresh context, snapshot and channel, and one     *)
(* goroutine per worker.                                                   *)
StartRound ==
    /\ pc' = "gather"
    /\ deadline' = FALSE
    /\ worker' = [w \in Workers |-> "running"]
    /\ result' = [w \in Workers |-> NoResult]
    /\ results' = <<>>
    /\ closed' = FALSE
    /\ snapshot' = NewSnapshot(snapshot.round + 1)
    /\ UNCHANGED <<stopping, latest, sunk>>

(* Run collects once before it creates the ticker.                         *)
FirstRound == pc = "boot" /\ StartRound /\ UNCHANGED ticker

(* The select of Run receives a tick; when ctx is done too, either branch  *)
(* may be chosen.                                                          *)
TickRound == pc = "wait" /\ ticker = "full" /\ ticker' = "empty" /\ StartRound

(* A worker's function returns.                                            *)
Finish(w) ==
    /\ worker[w] = "running"
    /\ \E r \in Returns(w) : result' = [result EXCEPT ![w] = r]
    /\ worker' = [worker EXCEPT ![w] = "sending"]
    /\ UNCHANGED <<runVars, stopping, deadline, channelVars, snapshot, latest>>

(* The two branches of the worker's select.                                *)
Send(w) ==
    /\ worker[w] = "sending"
    /\ Len(results) < Capacity
    /\ results' = Append(results, w)
    /\ worker' = [worker EXCEPT ![w] = "sent"]
    /\ UNCHANGED <<runVars, stopping, deadline, result, closed, snapshot, latest>>

Drop(w) ==
    /\ worker[w] = "sending"
    /\ ContextDone
    /\ worker' = [worker EXCEPT ![w] = "dropped"]
    /\ UNCHANGED <<runVars, stopping, deadline, result, channelVars, snapshot, latest>>

(* The closer goroutine.                                                   *)
Close ==
    /\ pc = "gather"
    /\ ~closed
    /\ AllReturned
    /\ closed' = TRUE
    /\ UNCHANGED <<runVars, stopping, deadline, workerVars, results, snapshot, latest>>

(* The loop over results takes the next one.                               *)
Apply ==
    /\ pc = "gather"
    /\ results # <<>>
    /\ LET w == Head(results) IN
          /\ snapshot' = Record(snapshot, w, result[w])
          /\ worker' = [worker EXCEPT ![w] = "applied"]
    /\ results' = Tail(results)
    /\ UNCHANGED <<runVars, stopping, deadline, result, closed, latest>>

(* Mutant: the loop selects on ctx.Done() too and leaves at the deadline.  *)
GatherOverAtDeadline == (closed \/ ContextDone) /\ results = <<>>

(* The loop ends when the channel is closed and drained.                   *)
GatherOver == closed /\ results = <<>>

(* Mutant: Err() is asked of the process context, not of the round's.      *)
SealOnShutdown ==
    /\ pc = "gather"
    /\ GatherOver
    /\ snapshot' = [snapshot EXCEPT !.scheduler = stopping]
    /\ pc' = "publish"
    /\ UNCHANGED <<stopping, deadline, ticker, workerVars, channelVars, latest, sunk>>

(* After the loop: ctx.Err() is recorded.                                  *)
Seal ==
    /\ pc = "gather"
    /\ GatherOver
    /\ snapshot' = [snapshot EXCEPT !.scheduler = ContextDone]
    /\ pc' = "publish"
    /\ UNCHANGED <<stopping, deadline, ticker, workerVars, channelVars, latest, sunk>>

(* c.latest is replaced under the write lock.                              *)
Publish ==
    /\ pc = "publish"
    /\ latest' = snapshot
    /\ pc' = "sink"
    /\ UNCHANGED <<stopping, deadline, ticker, workerVars, channelVars, snapshot, sunk>>

(* Mutant: a snapshot cut short is not handed to the sink.                 *)
SinkComplete ==
    /\ pc = "sink"
    /\ sunk' = IF snapshot.scheduler THEN sunk ELSE snapshot.round
    /\ pc' = "wait"
    /\ ticker' = IF ticker = "off" THEN "empty" ELSE ticker
    /\ UNCHANGED <<stopping, deadline, workerVars, channelVars, snapshot, latest>>

(* sink(snapshot); after the first round the ticker is created.            *)
Sink ==
    /\ pc = "sink"
    /\ sunk' = snapshot.round
    /\ pc' = "wait"
    /\ ticker' = IF ticker = "off" THEN "empty" ELSE ticker
    /\ UNCHANGED <<stopping, deadline, workerVars, channelVars, snapshot, latest>>

(* Mutant: the loop waits on the context of the round.                     *)
ReturnAtDeadline ==
    /\ pc = "wait"
    /\ ContextDone
    /\ pc' = "returned"
    /\ ticker' = "off"
    /\ UNCHANGED <<stopping, deadline, workerVars, channelVars, snapshot, latest, sunk>>

(* The select of Run sees ctx.Done(); the deferred Stop ends the ticker.   *)
Return ==
    /\ pc = "wait"
    /\ stopping
    /\ pc' = "returned"
    /\ ticker' = "off"
    /\ UNCHANGED <<stopping, deadline, workerVars, channelVars, snapshot, latest, sunk>>

-----------------------------------------------------------------------------
(* The environment: the interval, the timeout of a round, the signal.      *)

(* A tick is kept if the channel is empty, and lost if it is not.          *)
Tick ==
    /\ ticker = "empty"
    /\ snapshot.round < MaxRound
    /\ ticker' = "full"
    /\ UNCHANGED <<pc, stopping, deadline, workerVars, channelVars, snapshot, latest, sunk>>

Expire ==
    /\ pc = "gather"
    /\ ~deadline
    /\ deadline' = TRUE
    /\ UNCHANGED <<runVars, stopping, workerVars, channelVars, snapshot, latest>>

Shutdown ==
    /\ ~stopping
    /\ stopping' = TRUE
    /\ UNCHANGED <<runVars, deadline, workerVars, channelVars, snapshot, latest>>

(* Nothing is left to do once Run has returned.                            *)
Finished == pc = "returned" /\ stopping /\ UNCHANGED vars

WorkerStep(w) == Finish(w) \/ Send(w) \/ Drop(w)

LoopStep == FirstRound \/ TickRound \/ Apply \/ Seal \/ Publish \/ Sink \/ Return

Next ==
    \/ \E w \in Workers : WorkerStep(w)
    \/ Close
    \/ LoopStep
    \/ Tick
    \/ Expire
    \/ Shutdown
    \/ Finished

(* Every goroutine that can run eventually does; workers' functions return *)
(* and timers fire.  Go's select picks a ready branch at random, so Return *)
(* cannot lose against ticks for ever.                                     *)
Fairness ==
    /\ \A w \in Workers : WF_vars(WorkerStep(w))
    /\ WF_vars(Close)
    /\ WF_vars(LoopStep)
    /\ SF_vars(Return)
    /\ WF_vars(Tick)

Spec == Init /\ [][Next]_vars /\ Fairness

-----------------------------------------------------------------------------
(* Correctness                                                             *)

TypeOK ==
    /\ pc \in {"boot", "gather", "publish", "sink", "wait", "returned"}
    /\ stopping \in BOOLEAN
    /\ deadline \in BOOLEAN
    /\ ticker \in {"off", "empty", "full"}
    /\ worker \in [Workers -> {"idle", "running", "sending", "sent", "applied", "dropped"}]
    /\ result \in [Workers -> Result]
    /\ results \in Seq(Workers)
    /\ closed \in BOOLEAN
    /\ snapshot \in Snapshot
    /\ latest \in Snapshot
    /\ sunk \in Nat

(* No goroutine of a round outlives the round: outside the gathering phase *)
(* no worker runs and the channel is drained.  collectNetworks reads       *)
(* c.prevNet without the lock (host.go:479): this is what makes it safe.   *)
RoundJoined ==
    pc # "gather" =>
        /\ results = <<>>
        /\ \A w \in Workers : worker[w] \in {"idle", "applied", "dropped"}

(* A published snapshot accounts for every worker: it has the worker's     *)
(* status, or it carries the failed "scheduler" status.  A result dropped  *)
(* at the deadline never disappears silently.                              *)
NoSilentLoss ==
    latest.round > 0 =>
        \/ latest.scheduler
        \/ \A w \in Workers : latest.status[w] # "missing"

Delivered(w) == worker[w] = "applied"

(* Whatever the order in which the two arrive, memory is the host's when   *)
(* the host delivered it, else SNMP's when SNMP did (collector.go:85-86),  *)
(* and volumes the host found are never replaced.                          *)
HostWins ==
    /\ snapshot.memory =
          IF Delivered("host") /\ result["host"].memory THEN "host"
          ELSE IF Delivered("snmp") /\ result["snmp"].memory THEN "snmp"
          ELSE "none"
    /\ (snapshot.volumes = "host") <=> (Delivered("host") /\ result["host"].volumes)

(* What the readers are promised.                                          *)
Feed == INSTANCE SnapshotFeed WITH
    latest  <- [round     |-> latest.round,
                covered   |-> {w \in Workers : latest.status[w] # "missing"},
                scheduler |-> latest.scheduler],
    running <- pc # "returned"

(* The loop implements the feed: snapshots are published one after the     *)
(* other, none is published before its predecessor was handed to the sink, *)
(* each is handed over exactly once, and the loop returns between rounds.  *)
ImplementsFeed == Feed!FeedSpec

(* Cancelling the process context makes Run return, whatever the workers,  *)
(* the deadline and pending ticks do.                                      *)
ShutdownReturns == stopping ~> (pc = "returned")

(* Sampling does not stall: while the process is not stopped, a further    *)
(* snapshot follows, although results may be dropped and ticks lost.       *)
SamplingGoesOn ==
    \A n \in 0 .. MaxRound - 1 :
        (latest.round = n) ~> (latest.round > n \/ stopping)
=============================================================================
